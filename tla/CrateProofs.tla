---------------------------- MODULE CrateProofs ----------------------------
(***************************************************************************)
(* Proofs about the host crates: the message format and the decoder of     *)
(* phi-rpc, for every size of byte, every largest frame and every stream   *)
(* of frames, and the kernels knc-mvex generates, for every number of      *)
(* lanes, every iteration limit, every count of blocks, and every column   *)
(* and alignment of the FastLanes layout.                                  *)
(***************************************************************************)
EXTENDS FrameDecoder, FastLanes, VpuBlocks, Mandel, ModArith

(* Numbers and streams of frames.                                          *)

\* The recursion of Number has a solution.
LEMMA NumberDefined ==
  ASSUME NEW b, Len(b) \in Nat
  PROVE  \E f : /\ f = [i \in 0 .. Len(b) |-> IF i = 0 THEN 0 ELSE f[i - 1] * Base + b[1 + (Len(b) - i)]]
               /\ Number(b) = f[Len(b)]
<1> DEFINE n == Len(b)
           Solves(m, g) == g = [i \in 0 .. m |-> IF i = 0 THEN 0 ELSE g[i - 1] * Base + b[1 + (Len(b) - i)]]
           S == {m \in 0 .. n : \E g : Solves(m, g)}
<1>1. n \in Nat
  OBVIOUS
<1>2. Number(b) = (CHOOSE g : Solves(n, g))[n]
  BY DEF Number
<1> HIDE DEF n
<1>3. 0 \in S
  <2> DEFINE g == [i \in 0 .. 0 |-> 0]
  <2>1. Solves(0, g)
    OBVIOUS
  <2>2. 0 \in 0 .. n
    BY <1>1
  <2> HIDE DEF g, Solves
  <2> QED BY <2>1, <2>2
<1>4. ASSUME NEW m \in 0 .. n - 1, m \in S PROVE m + 1 \in S
  <2>1. PICK g : Solves(m, g)
    BY <1>4
  <2> DEFINE h == [i \in 0 .. m + 1 |-> IF i = m + 1 THEN g[m] * Base + b[1 + (Len(b) - (m + 1))] ELSE g[i]]
  <2>2. m \in Nat /\ m + 1 \in 0 .. n
    BY <1>1
  <2>3. \A i \in 0 .. m + 1 : h[i] = IF i = 0 THEN 0 ELSE h[i - 1] * Base + b[1 + (Len(b) - i)]
    <3>1. TAKE i \in 0 .. m + 1
    <3>2. CASE i = m + 1
      <4>1. i # 0 /\ i - 1 = m /\ m \in 0 .. m + 1 /\ m # m + 1
        BY <2>2, <3>2
      <4> QED BY <3>2, <4>1
    <3>3. CASE i # m + 1
      <4>1. i \in 0 .. m /\ (i # 0 => i - 1 \in 0 .. m + 1 /\ i - 1 # m + 1)
        BY <2>2, <3>3
      <4>2. g[i] = IF i = 0 THEN 0 ELSE g[i - 1] * Base + b[1 + (Len(b) - i)]
        BY <2>1, <4>1
      <4> QED BY <3>3, <4>1, <4>2
    <3> QED BY <3>2, <3>3
  <2>4. Solves(m + 1, h)
    <3>1. h = [i \in 0 .. m + 1 |-> h[i]]
      OBVIOUS
    <3> HIDE DEF h
    <3> QED BY <2>3, <3>1
  <2> QED BY <2>2, <2>4
<1> HIDE DEF S
<1>5. \A i \in 0 .. n : i \in S
  BY <1>1, <1>3, <1>4, CountUp
<1>6. n \in S
  BY <1>1, <1>5
<1>7. \E g : Solves(n, g)
  BY <1>6 DEF S
<1> HIDE DEF Solves
<1>8. Solves(n, CHOOSE g : Solves(n, g))
  BY <1>7
<1> QED BY <1>2, <1>8 DEF Solves, n

\* What a number of one, two and four bytes says.
LEMMA NumberSays ==
  ASSUME NEW b \in Seq(Nat)
  PROVE  /\ Len(b) = 1 => Number(b) = b[1]
         /\ Len(b) = 2 => Number(b) = b[2] * Base + b[1]
         /\ Len(b) = 4 => Number(b) = ((b[4] * Base + b[3]) * Base + b[2]) * Base + b[1]
<1> DEFINE n == Len(b)
<1>1. n \in Nat
  BY LenProperties
<1>2. PICK f : /\ f = [i \in 0 .. n |-> IF i = 0 THEN 0 ELSE f[i - 1] * Base + b[1 + (n - i)]]
               /\ Number(b) = f[n]
  BY <1>1, NumberDefined
<1> HIDE DEF n
<1>3. f[0] = 0 /\ \A i \in 1 .. n : f[i] = f[i - 1] * Base + b[1 + (n - i)]
  <2>1. 0 \in 0 .. n /\ \A i \in 1 .. n : i \in 0 .. n /\ i # 0
    BY <1>1
  <2> QED BY <1>2, <2>1
<1>4. Base \in Nat /\ \A i \in 1 .. n : b[i] \in Nat
  BY WireBounds, ElementOfSeq DEF n
<1>5. ASSUME 1 =< n PROVE f[1] = b[n] /\ b[n] \in Nat
  <2>1. 1 \in 1 .. n /\ n \in 1 .. n /\ 1 - 1 = 0 /\ 1 + (n - 1) = n
    BY <1>1, <1>5
  <2>2. f[1] = f[0] * Base + b[n] /\ b[n] \in Nat
    BY <1>3, <1>4, <2>1
  <2> QED BY <1>3, <1>4, <2>2
<1>6. ASSUME 2 =< n PROVE f[2] = b[n] * Base + b[n - 1]
  <2>1. 1 =< n /\ 2 \in 1 .. n /\ 2 - 1 = 1 /\ 1 + (n - 2) = n - 1
    BY <1>1, <1>6
  <2> QED BY <1>3, <1>5, <2>1
<1>7. ASSUME n = 4 PROVE f[4] = ((b[4] * Base + b[3]) * Base + b[2]) * Base + b[1]
  <2>1. /\ 2 =< n /\ 3 \in 1 .. n /\ 3 - 1 = 2 /\ 1 + (n - 3) = 2 /\ n - 1 = 3
        /\ 4 \in 1 .. n /\ 4 - 1 = 3 /\ 1 + (n - 4) = 1
    BY <1>7
  <2>2. f[3] = f[2] * Base + b[2] /\ f[4] = f[3] * Base + b[1] /\ f[2] = b[4] * Base + b[3]
    BY <1>3, <1>6, <1>7, <2>1
  <2> QED BY <2>2, Zenon
<1>8. CASE n = 1
  BY <1>1, <1>2, <1>5, <1>8 DEF n
<1>9. CASE n = 2
  BY <1>1, <1>2, <1>6, <1>9 DEF n
<1>10. CASE n = 4
  BY <1>1, <1>2, <1>7, <1>10 DEF n
<1> QED BY <1>8, <1>9, <1>10 DEF n

\* The length field of a buffer or a frame is a number.
LEMMA LengthFieldIsNat ==
  ASSUME NEW b \in Seq(Nat), Len(b) >= 4
  PROVE  LengthField(b) \in Nat /\ SubSeq(b, 1, 4) \in Seq(Nat) /\ Len(SubSeq(b, 1, 4)) = 4
<1> DEFINE w == SubSeq(b, 1, 4)
<1>1. Len(b) \in Nat /\ \A i \in 1 .. Len(b) : b[i] \in Nat
  BY LenProperties, ElementOfSeq
<1>2. w = [i \in 1 .. 4 |-> b[i]] /\ \A i \in 1 .. 4 : i \in 1 .. Len(b)
  BY <1>1
<1> HIDE DEF w
<1>3. w \in Seq(Nat) /\ Len(w) = 4
  <2>1. \A i \in 1 .. 4 : b[i] \in Nat
    BY <1>1, <1>2
  <2> QED BY <1>2, <2>1, IsASeq
<1>4. Number(w) = ((w[4] * Base + w[3]) * Base + w[2]) * Base + w[1]
  BY <1>3, NumberSays
<1>5. w[1] \in Nat /\ w[2] \in Nat /\ w[3] \in Nat /\ w[4] \in Nat /\ Base \in Nat
  <2>1. \A i \in 1 .. 4 : w[i] \in Nat
    BY <1>1, <1>2
  <2> QED BY <2>1, WireBounds
<1>6. \A x, y, z \in Nat : x * y + z \in Nat
  OBVIOUS
<1>7. Number(w) \in Nat
  <2>1. w[4] * Base + w[3] \in Nat
    BY <1>5, <1>6
  <2>2. (w[4] * Base + w[3]) * Base + w[2] \in Nat
    BY <1>5, <1>6, <2>1
  <2>3. ((w[4] * Base + w[3]) * Base + w[2]) * Base + w[1] \in Nat
    BY <1>5, <1>6, <2>2
  <2> QED BY <1>4, <2>3
<1> QED BY <1>3, <1>7 DEF LengthField, w

\* Equal first bytes, equal length fields.
LEMMA SameLengthField ==
  ASSUME NEW b \in Seq(Nat), NEW c \in Seq(Nat), Len(b) >= 4, Len(c) >= 4,
         \A i \in 1 .. 4 : b[i] = c[i]
  PROVE  LengthField(b) = LengthField(c)
<1>1. Len(b) \in Nat /\ Len(c) \in Nat
  BY LenProperties
<1>2. SubSeq(b, 1, 4) = [i \in 1 .. 4 |-> b[i]] /\ SubSeq(c, 1, 4) = [i \in 1 .. 4 |-> c[i]]
  BY <1>1
<1>3. SubSeq(b, 1, 4) = SubSeq(c, 1, 4)
  BY <1>2
<1> QED BY <1>3 DEF LengthField

----------------------------------------------------------------------------
(* The decoder.                                                            *)

\* The frames of a stream and where they lie in it.
LEMMA StreamFacts ==
  ASSUME stream \in Streams
  PROVE  /\ Len(stream) \in Nat /\ DOMAIN stream = 1 .. Len(stream)
         /\ \A k \in 1 .. Len(stream) :
              /\ Framed(stream[k]) /\ stream[k].bytes \in Seq(Nat) /\ Len(stream[k].bytes) \in Nat
              /\ Len(stream[k].bytes) >= 4
         /\ Bytes(stream) \in Seq(Seq(Nat)) /\ Len(Bytes(stream)) = Len(stream)
         /\ \A k \in 1 .. Len(stream) : Bytes(stream)[k] = stream[k].bytes
         /\ BytesOf(stream) \in Seq(Nat) /\ Len(BytesOf(stream)) \in Nat
         /\ EndOf(Len(stream)) = Len(BytesOf(stream))
<1> DEFINE n == Len(stream)
           S == {stream[k] : k \in DOMAIN stream}
<1>1. stream \in Seq(S) /\ \A k \in DOMAIN stream : Framed(stream[k])
  BY StreamsFramed
<1> HIDE DEF S
<1>2. n \in Nat /\ DOMAIN stream = 1 .. n
  BY <1>1, LenProperties
<1>3. \A k \in 1 .. n : /\ Framed(stream[k]) /\ stream[k].bytes \in Seq(Nat)
                        /\ Len(stream[k].bytes) >= 4
  BY <1>1, <1>2 DEF Framed
<1>4. \A k \in 1 .. n : Len(stream[k].bytes) \in Nat
  BY <1>3, LenProperties
<1>5. Bytes(stream) = [k \in 1 .. n |-> stream[k].bytes]
  BY <1>2 DEF Bytes
<1> HIDE DEF n
<1>6. Bytes(stream) \in Seq(Seq(Nat)) /\ Len(Bytes(stream)) = n
  BY <1>2, <1>3, <1>5, IsASeq
<1>7. \A k \in 1 .. n : Bytes(stream)[k] = stream[k].bytes
  BY <1>5
<1>8. Joined(Bytes(stream))[n] \in Seq(Nat) /\ Len(Joined(Bytes(stream))[n]) \in Nat
  <2>1. n \in 0 .. n
    BY <1>2
  <2> QED BY <1>6, <2>1, JoinedFacts
<1>9. BytesOf(stream) = Joined(Bytes(stream))[n]
  BY <1>6 DEF BytesOf, Concat
<1>10. EndOf(n) = Len(BytesOf(stream))
  BY <1>9 DEF EndOf
<1>11. BytesOf(stream) \in Seq(Nat) /\ Len(BytesOf(stream)) \in Nat
  BY <1>8, <1>9
<1> QED BY <1>2, <1>3, <1>4, <1>6, <1>7, <1>10, <1>11 DEF n

\* Where frames end: at four bytes or more from each other, in their order.
LEMMA Ends ==
  ASSUME stream \in Streams
  PROVE  /\ EndOf(0) = 0
         /\ \A k \in 0 .. Len(stream) : EndOf(k) \in Nat /\ EndOf(k) =< Len(BytesOf(stream))
         /\ \A k \in 1 .. Len(stream) :
              /\ EndOf(k) = EndOf(k - 1) + Len(stream[k].bytes)
              /\ \A i \in 1 .. Len(stream[k].bytes) :
                    BytesOf(stream)[EndOf(k - 1) + i] = stream[k].bytes[i]
         /\ \A j, k \in 0 .. Len(stream) : j < k => EndOf(j) + 4 =< EndOf(k)
         /\ \A k \in 0 .. Len(stream) : Before(EndOf(k)) = k
<1> DEFINE n == Len(stream)
           l == Bytes(stream)
<1>1. /\ n \in Nat /\ l \in Seq(Seq(Nat)) /\ Len(l) = n
      /\ \A k \in 1 .. n : l[k] = stream[k].bytes /\ Len(l[k]) \in Nat /\ Len(l[k]) >= 4
  BY StreamFacts
<1>2. BytesOf(stream) = Concat(l) /\ \A k : EndOf(k) = Len(Joined(l)[k])
  BY DEF BytesOf, EndOf
<1>3. EndOf(n) = Len(BytesOf(stream))
  BY StreamFacts
<1> HIDE DEF n, l
<1>4. EndOf(0) = 0 /\ \A k \in 0 .. n : EndOf(k) \in Nat
  BY <1>1, <1>2, JoinedFacts
<1>5. \A k \in 1 .. n : EndOf(k) = EndOf(k - 1) + Len(l[k])
  BY <1>1, <1>2, JoinedFacts
<1>6. \A k \in 0 .. n : \A j \in k .. n : EndOf(k) =< EndOf(j)
  BY <1>1, <1>2, JoinedPrefix
<1>7. \A k \in 0 .. n : EndOf(k) =< Len(BytesOf(stream))
  <2>1. \A k \in 0 .. n : n \in k .. n
    BY <1>1
  <2> QED BY <1>3, <1>6, <2>1
<1>8. \A k \in 1 .. n : \A i \in 1 .. Len(l[k]) : BytesOf(stream)[EndOf(k - 1) + i] = l[k][i]
  <2>1. TAKE k \in 1 .. n
  <2>2. k \in 1 .. Len(l)
    BY <1>1
  <2>3. \A i \in 1 .. Len(l[k]) : Concat(l)[Len(Joined(l)[k - 1]) + i] = l[k][i]
    BY <1>1, <2>2, JoinedPiece
  <2> QED BY <1>2, <2>3, Zenon
<1>9. ASSUME NEW j \in 0 .. n, NEW k \in 0 .. n, j < k PROVE EndOf(j) + 4 =< EndOf(k)
  <2>1. k - 1 \in j .. n /\ k \in 1 .. n /\ k - 1 \in 0 .. n
    BY <1>1, <1>9
  <2>2. EndOf(j) =< EndOf(k - 1) /\ EndOf(k) = EndOf(k - 1) + Len(l[k]) /\ Len(l[k]) >= 4
    BY <1>1, <1>5, <1>6, <2>1
  <2>3. EndOf(j) \in Nat /\ EndOf(k - 1) \in Nat /\ Len(l[k]) \in Nat
    BY <1>1, <1>4, <2>1
  <2>4. \A x, y, z \in Nat : x =< y /\ z >= 4 => x + 4 =< y + z
    OBVIOUS
  <2> QED BY <2>2, <2>3, <2>4, Zenon
<1>10. ASSUME NEW k \in 0 .. n PROVE Before(EndOf(k)) = k
  <2>1. Before(EndOf(k)) \in 0 .. n /\ EndOf(k) = EndOf(Before(EndOf(k)))
    <3>1. Before(EndOf(k)) = CHOOSE j \in 0 .. n : EndOf(k) = EndOf(j)
      BY DEF Before, n
    <3> QED BY <3>1, Zenon
  <2>2. PICK j : j = Before(EndOf(k))
    OBVIOUS
  <2>3. j \in 0 .. n /\ EndOf(k) = EndOf(j)
    BY <2>1, <2>2
  <2>4. ~(j < k) /\ ~(k < j)
    <3>1. \A x \in Nat : ~(x + 4 =< x)
      OBVIOUS
    <3> QED BY <1>4, <1>9, <2>3, <3>1
  <2> QED BY <1>1, <2>2, <2>3, <2>4
<1> QED BY <1>1, <1>4, <1>5, <1>7, <1>8, <1>9, <1>10, ZenonT(60) DEF n, l

\* What next_frame can return, and how far the decoder is with the stream.
Answers == UNION {{decode_body(t, b) : b \in Seq(Nat)} : t \in Nat}
At == Arrived - Len(buf)

Shape ==
  /\ stream \in Streams /\ line \in Seq(Nat) /\ buf \in Seq(Nat) /\ since \in Seq(Answers)
  /\ from \in Nat /\ idle \in BOOLEAN

\* The buffer and the line are the next two pieces of the stream.
Window ==
  /\ At \in Nat /\ from =< At
  /\ \A i \in 1 .. Len(buf) : buf[i] = BytesOf(stream)[At + i]
  /\ \A i \in 1 .. Len(line) : line[i] = BytesOf(stream)[Arrived + i]

\* Started on a frame boundary, the decoder stays on them.
Synced ==
  Begins(from) => /\ Before(from) + Len(since) \in 0 .. Len(stream)
                  /\ EndOf(Before(from) + Len(since)) = At

\* What it has said of each frame.
Told == Begins(from) => \A i \in 1 .. Len(since) : since[i] = stream[Before(from) + i].expect

\* The buffer goes only after a length field out of range.
LostAfterBad ==
  from > 0 => \E k \in 1 .. Len(stream) : stream[k].expect = Err("Length") /\ EndOf(k - 1) + 4 =< from

Quiet == idle => (HasLength => ~OutOfRange /\ ~Whole)

DecoderInv == Shape /\ Window /\ Synced /\ LostAfterBad /\ Quiet

\* Streams whose frames say what decode_body makes of their bodies.
Answered(f) ==
  LengthField(f.bytes) \in 1 .. MAX_FRAME =>
      f.expect = decode_body(f.bytes[5], SubSeq(f.bytes, 6, Len(f.bytes)))

\* The numbers of a state.
LEMMA Sizes ==
  ASSUME Shape, Window
  PROVE  /\ Len(buf) \in Nat /\ Len(line) \in Nat /\ Len(since) \in Nat
         /\ Arrived \in Nat /\ Arrived = At + Len(buf) /\ Arrived + Len(line) = Len(BytesOf(stream))
         /\ Len(BytesOf(stream)) \in Nat /\ At \in Nat
<1>1. Len(buf) \in Nat /\ Len(line) \in Nat /\ Len(since) \in Nat
  BY LenProperties DEF Shape
<1>2. Len(BytesOf(stream)) \in Nat
  BY StreamFacts DEF Shape
<1>3. At \in Nat /\ At = Arrived - Len(buf) /\ Arrived = Len(BytesOf(stream)) - Len(line)
  BY DEF Window, At, Arrived
<1>4. \A a, b, l, w, t \in Int : t = a - b /\ a = w - l => a = t + b /\ a + l = w
  OBVIOUS
<1>5. Arrived \in Int
  BY <1>1, <1>2, <1>3
<1>6. Arrived = At + Len(buf) /\ Arrived + Len(line) = Len(BytesOf(stream))
  BY <1>1, <1>2, <1>3, <1>4, <1>5
<1>7. Arrived \in Nat
  BY <1>1, <1>3, <1>6
<1> QED BY <1>1, <1>2, <1>3, <1>6, <1>7

\* What is at the head of the buffer of a decoder in step with the frames.
LEMMA HeadOfBuffer ==
  ASSUME Shape, Window, Synced, Begins(from), Len(buf) >= 4
  PROVE  LET k == (Before(from) + Len(since)) + 1 IN
         /\ Before(from) \in 0 .. Len(stream) /\ EndOf(Before(from)) = from
         /\ k \in 1 .. Len(stream) /\ EndOf(k - 1) = At /\ k - 1 = Before(from) + Len(since)
         /\ LengthField(buf) = LengthField(stream[k].bytes)
         /\ \A i \in 1 .. Len(buf) : i =< Len(stream[k].bytes) => buf[i] = stream[k].bytes[i]
<1> DEFINE b == Before(from)
           m == b + Len(since)
           k == m + 1
           n == Len(stream)
<1>1. b \in 0 .. n /\ EndOf(b) = from
  <2>1. b = CHOOSE j \in 0 .. n : from = EndOf(j)
    BY DEF Before
  <2>2. \E j \in 0 .. n : from = EndOf(j)
    BY DEF Begins
  <2> QED BY <2>1, <2>2, Zenon
<1>2. m \in 0 .. n /\ EndOf(m) = At
  BY DEF Synced
<1>3. n \in Nat /\ EndOf(n) = Len(BytesOf(stream)) /\ stream \in Streams
  BY StreamFacts DEF Shape
<1> HIDE DEF m, n
<1>4. m # n
  <2> SUFFICES ASSUME m = n PROVE FALSE
    OBVIOUS
  <2>1. At = Len(BytesOf(stream))
    BY <1>2, <1>3
  <2>2. \A a, l, u, w \in Nat : ~(w = (w + u) + l /\ u >= 4 /\ a = w + u)
    OBVIOUS
  <2> QED BY <2>1, <2>2, Sizes
<1>5. k \in 1 .. n /\ k - 1 = m
  BY <1>2, <1>3, <1>4
<1>6. /\ stream[k].bytes \in Seq(Nat) /\ Len(stream[k].bytes) \in Nat /\ Len(stream[k].bytes) >= 4
  BY <1>3, <1>5, StreamFacts DEF n
<1>7. \A i \in 1 .. Len(stream[k].bytes) : BytesOf(stream)[At + i] = stream[k].bytes[i]
  BY <1>2, <1>3, <1>5, Ends DEF n
<1> HIDE DEF k
<1>8. \A i \in 1 .. Len(buf) : i =< Len(stream[k].bytes) => buf[i] = stream[k].bytes[i]
  <2>1. TAKE i \in 1 .. Len(buf)
  <2>2. HAVE i =< Len(stream[k].bytes)
  <2>3. i \in 1 .. Len(stream[k].bytes)
    BY <1>6, <2>2, Sizes
  <2> QED BY <1>7, <2>3 DEF Window
<1>9. \A i \in 1 .. 4 : buf[i] = stream[k].bytes[i]
  <2>1. TAKE i \in 1 .. 4
  <2>2. i \in 1 .. Len(buf) /\ i =< Len(stream[k].bytes)
    BY <1>6, Sizes, SMTT(30)
  <2> QED BY <1>8, <2>2
<1>10. LengthField(buf) = LengthField(stream[k].bytes)
  BY <1>6, <1>9, SameLengthField DEF Shape
<1> QED BY <1>1, <1>2, <1>5, <1>8, <1>10 DEF k, m, n

\* The decoder before the first byte.
LEMMA DecoderStarts == FrameInit => DecoderInv /\ Told
<1> SUFFICES ASSUME FrameInit PROVE DecoderInv /\ Told
  OBVIOUS
<1>1. /\ stream \in Streams /\ line = BytesOf(stream) /\ buf = << >> /\ since = << >>
      /\ from = 0 /\ idle = TRUE
  BY DEF FrameInit
<1>2. Len(buf) = 0 /\ Len(since) = 0
  BY <1>1
<1>3. Shape
  BY <1>1, StreamFacts, EmptySeq DEF Shape
<1>4. Len(BytesOf(stream)) \in Nat /\ Len(stream) \in Nat
  BY <1>1, StreamFacts
<1>5. Arrived = 0 /\ At = 0
  <2>1. Len(line) = Len(BytesOf(stream))
    BY <1>1
  <2>2. \A x \in Nat : x - x = 0 /\ 0 - 0 = 0
    OBVIOUS
  <2> QED BY <1>2, <1>4, <2>1, <2>2 DEF Arrived, At
<1>6. Window
  <2>1. \A i \in 1 .. Len(line) : i \in Int /\ Arrived + i = i
    BY <1>1, <1>4, <1>5
  <2>2. \A i \in 1 .. Len(line) : line[i] = BytesOf(stream)[Arrived + i]
    BY <1>1, <2>1
  <2>3. At \in Nat /\ from =< At /\ 1 .. Len(buf) = {}
    BY <1>1, <1>2, <1>5
  <2> QED BY <2>2, <2>3 DEF Window
<1>7. Before(from) = 0 /\ EndOf(0) = 0 /\ 0 \in 0 .. Len(stream)
  BY <1>1, <1>4, Ends
<1>8. Synced /\ Told
  BY <1>2, <1>5, <1>7 DEF Synced, Told
<1>9. LostAfterBad /\ Quiet
  BY <1>1, <1>2 DEF LostAfterBad, Quiet, HasLength
<1> QED BY <1>3, <1>6, <1>8, <1>9 DEF DecoderInv

\* The stream does not change, nor does where its frames lie.
LEMMA SameStream ==
  ASSUME stream' = stream
  PROVE  /\ BytesOf(stream)' = BytesOf(stream)
         /\ \A k : EndOf(k)' = EndOf(k)
         /\ \A p : Begins(p)' = Begins(p) /\ Before(p)' = Before(p)
<1>1. BytesOf(stream)' = BytesOf(stream) /\ \A k : EndOf(k)' = EndOf(k)
  BY DEF BytesOf, Bytes, EndOf
<1>2. ASSUME NEW p PROVE Begins(p)' = Begins(p) /\ Before(p)' = Before(p)
  BY <1>1 DEF Begins, Before
<1> QED BY <1>1, <1>2

\* Any part of a sequence.
LEMMA PartFacts ==
  ASSUME NEW S, NEW s \in Seq(S), NEW a \in Nat, NEW b \in Nat, a =< b, b =< Len(s)
  PROVE  /\ SubSeq(s, a + 1, b) \in Seq(S) /\ Len(SubSeq(s, a + 1, b)) = b - a
         /\ \A i \in 1 .. b - a : SubSeq(s, a + 1, b)[i] = s[a + i]
<1> DEFINE y == SubSeq(s, a + 1, b)
<1>1. Len(s) \in Nat /\ b - a \in Nat /\ \A i \in 1 .. b - a : a + i \in 1 .. Len(s)
  BY LenProperties
<1>2. y = [i \in 1 .. b - a |-> s[a + i]]
  <2>1. y = [i \in 1 .. (b - (a + 1)) + 1 |-> s[(i + (a + 1)) - 1]]
    OBVIOUS
  <2>2. (b - (a + 1)) + 1 = b - a /\ \A i \in 1 .. b - a : (i + (a + 1)) - 1 = a + i
    BY <1>1
  <2> QED BY <2>1, <2>2
<1>3. Len(y) = b - a /\ \A i \in 1 .. b - a : y[i] = s[a + i]
  BY <1>1, <1>2
<1>4. \A i \in 1 .. b - a : s[a + i] \in S
  BY <1>1, ElementOfSeq
<1> QED BY <1>1, <1>2, <1>3, <1>4, IsASeq

\* Bytes arrive.
LEMMA PushKeeps ==
  ASSUME DecoderInv, NEW n \in Pieces, push(n)
  PROVE  DecoderInv' /\ (Told => Told')
<1>1. /\ idle /\ n =< Len(line)
      /\ buf' = buf \o SubSeq(line, 1, n)
      /\ line' = SubSeq(line, n + 1, Len(line))
      /\ idle' = FALSE /\ stream' = stream /\ since' = since /\ from' = from
  BY DEF push
<1>2. n \in Nat /\ 0 =< n /\ Len(line) \in Nat /\ Len(line) =< Len(line)
  BY PieceSizes, Sizes DEF DecoderInv
<1>3. line \in Seq(Nat) /\ buf \in Seq(Nat) /\ Len(buf) \in Nat
  BY Sizes DEF DecoderInv, Shape
<1>4. /\ SubSeq(line, 1, n) \in Seq(Nat) /\ Len(SubSeq(line, 1, n)) = n
      /\ \A i \in 1 .. n : SubSeq(line, 1, n)[i] = line[i]
  <2>1. 0 + 1 = 1 /\ n - 0 = n /\ \A i \in 1 .. n : 0 + i = i
    BY <1>2
  <2>2. /\ SubSeq(line, 0 + 1, n) \in Seq(Nat) /\ Len(SubSeq(line, 0 + 1, n)) = n - 0
        /\ \A i \in 1 .. n - 0 : SubSeq(line, 0 + 1, n)[i] = line[0 + i]
    BY <1>1, <1>2, <1>3, PartFacts
  <2> QED BY <2>1, <2>2
<1>5. /\ line' \in Seq(Nat) /\ Len(line') = Len(line) - n
      /\ \A i \in 1 .. Len(line) - n : line'[i] = line[n + i]
  BY <1>1, <1>2, <1>3, PartFacts
<1>6. /\ buf' \in Seq(Nat) /\ Len(buf') = Len(buf) + n
      /\ \A i \in 1 .. Len(buf) + n : buf'[i] = IF i =< Len(buf) THEN buf[i] ELSE line[i - Len(buf)]
  <2>1. /\ buf' \in Seq(Nat) /\ Len(buf') = Len(buf) + Len(SubSeq(line, 1, n))
        /\ \A i \in 1 .. Len(buf) + Len(SubSeq(line, 1, n)) :
              buf'[i] = IF i =< Len(buf) THEN buf[i] ELSE SubSeq(line, 1, n)[i - Len(buf)]
    BY <1>1, <1>3, <1>4, ConcatProperties, Zenon
  <2>2. \A i \in 1 .. Len(buf) + n : ~(i =< Len(buf)) => i - Len(buf) \in 1 .. n
    BY <1>2, <1>3
  <2> QED BY <1>4, <2>1, <2>2
<1>7. Arrived' = Arrived + n /\ At' = At /\ Arrived = At + Len(buf) /\ Arrived \in Nat /\ At \in Nat
  <2>1. /\ Arrived \in Nat /\ At \in Nat /\ Arrived = At + Len(buf) /\ Len(BytesOf(stream)) \in Nat
        /\ Arrived = Len(BytesOf(stream)) - Len(line)
    BY Sizes DEF DecoderInv, Arrived
  <2>2. Arrived' = Len(BytesOf(stream)) - (Len(line) - n)
    BY <1>1, <1>5, SameStream DEF Arrived
  <2>3. At' = Arrived' - (Len(buf) + n)
    BY <1>6 DEF At
  <2>4. \A w, l, a, t, b \in Nat : a = w - l /\ a = t + b
            => w - (l - n) = a + n /\ (a + n) - (b + n) = t
    BY <1>2
  <2>5. Arrived' = Arrived + n
    BY <1>2, <1>3, <2>1, <2>2, <2>4
  <2>6. \A a, t, b \in Nat : a = t + b => (a + n) - (b + n) = t
    BY <1>2
  <2>7. (Arrived + n) - (Len(buf) + n) = At
    BY <1>3, <2>1, <2>6
  <2>8. At' = At
    BY <2>3, <2>5, <2>7
  <2> QED BY <2>1, <2>5, <2>8
<1>8. Shape'
  BY <1>1, <1>5, <1>6 DEF DecoderInv, Shape
<1>9. Window'
  <2>1. /\ At \in Nat /\ from =< At
        /\ \A i \in 1 .. Len(buf) : buf[i] = BytesOf(stream)[At + i]
        /\ \A i \in 1 .. Len(line) : line[i] = BytesOf(stream)[Arrived + i]
    BY DEF DecoderInv, Window
  <2>2. ASSUME NEW i \in 1 .. Len(buf) + n PROVE buf'[i] = BytesOf(stream)[At + i]
    <3>1. CASE i =< Len(buf)
      <4>1. i \in 1 .. Len(buf)
        BY <1>3, <3>1
      <4> QED BY <1>6, <2>1, <3>1, <4>1
    <3>2. CASE ~(i =< Len(buf))
      <4>1. i - Len(buf) \in 1 .. Len(line) /\ Arrived + (i - Len(buf)) = At + i
        BY <1>1, <1>2, <1>3, <1>7, <3>2
      <4> QED BY <1>6, <2>1, <3>2, <4>1
    <3> QED BY <3>1, <3>2
  <2>3. ASSUME NEW i \in 1 .. Len(line) - n PROVE line'[i] = BytesOf(stream)[(Arrived + n) + i]
    <3>1. n + i \in 1 .. Len(line) /\ Arrived + (n + i) = (Arrived + n) + i
      BY <1>2, <1>7
    <3> QED BY <1>5, <2>1, <3>1
  <2>4. BytesOf(stream)' = BytesOf(stream)
    BY <1>1, SameStream
  <2> QED BY <1>1, <1>5, <1>6, <1>7, <2>1, <2>2, <2>3, <2>4 DEF Window
<1>10. Synced' /\ LostAfterBad' /\ (Told => Told')
  <2>1. /\ \A k : EndOf(k)' = EndOf(k)
        /\ Begins(from)' = Begins(from) /\ Before(from)' = Before(from)
    BY <1>1, SameStream DEF Begins, Before
  <2> QED BY <1>1, <1>7, <2>1 DEF DecoderInv, Synced, LostAfterBad, Told
<1>11. Quiet'
  BY <1>1 DEF Quiet
<1> QED BY <1>8, <1>9, <1>10, <1>11 DEF DecoderInv

\* Nothing moves.
LEMMA NothingMoves ==
  ASSUME DecoderInv, UNCHANGED <<stream, line, buf, since, from>>, idle' \in BOOLEAN, Quiet'
  PROVE  DecoderInv' /\ (Told => Told')
<1>1. stream' = stream /\ line' = line /\ buf' = buf /\ since' = since /\ from' = from
  OBVIOUS
<1>2. /\ \A k : EndOf(k)' = EndOf(k)
      /\ BytesOf(stream)' = BytesOf(stream)
      /\ Begins(from)' = Begins(from) /\ Before(from)' = Before(from)
  BY <1>1, SameStream DEF Begins, Before
<1>3. Arrived' = Arrived /\ At' = At
  BY <1>1, <1>2 DEF Arrived, At
<1>4. Shape' /\ Window'
  BY <1>1, <1>2, <1>3 DEF DecoderInv, Shape, Window
<1>5. Synced' /\ LostAfterBad' /\ (Told => Told')
  BY <1>1, <1>2, <1>3 DEF DecoderInv, Synced, LostAfterBad, Told
<1> QED BY <1>4, <1>5 DEF DecoderInv

\* There is no whole frame.
LEMMA NoFrameKeeps ==
  ASSUME DecoderInv, NoFrame
  PROVE  DecoderInv' /\ (Told => Told')
<1>1. /\ HasLength => ~OutOfRange /\ ~Whole
      /\ idle' = TRUE /\ UNCHANGED <<stream, line, buf, since, from>>
  BY DEF NoFrame
<1>2. Quiet'
  BY <1>1 DEF Quiet, HasLength, OutOfRange, Whole, length
<1> QED BY <1>1, <1>2, NothingMoves

\* A length field out of range: the buffer goes.
LEMMA BadLengthKeeps ==
  ASSUME DecoderInv, BadLength
  PROVE  DecoderInv' /\ Told'
<1>1. /\ ~idle /\ Len(buf) >= 4 /\ (length = 0 \/ length > MAX_FRAME)
      /\ buf' = << >> /\ since' = << >> /\ from' = Arrived
      /\ stream' = stream /\ line' = line /\ idle' = idle
  BY DEF BadLength, HasLength, OutOfRange, Arrived
<1>2. /\ \A k : EndOf(k)' = EndOf(k)
      /\ BytesOf(stream)' = BytesOf(stream)
      /\ \A p : Begins(p)' = Begins(p) /\ Before(p)' = Before(p)
  BY <1>1, SameStream
<1>3. Len(buf') = 0 /\ Len(since') = 0 /\ buf' \in Seq(Nat) /\ since' \in Seq(Answers)
  BY <1>1, EmptySeq
<1>4. /\ Arrived \in Nat /\ At \in Nat /\ Len(buf) \in Nat /\ Arrived = At + Len(buf) /\ from \in Nat
      /\ from =< At
  BY Sizes DEF DecoderInv, Shape, Window
<1>5. Arrived' = Arrived /\ At' = Arrived
  <2>1. Arrived' = Arrived
    BY <1>1, <1>2 DEF Arrived
  <2> QED BY <1>3, <1>4, <2>1 DEF At
<1>6. Shape'
  BY <1>1, <1>3, <1>4 DEF DecoderInv, Shape
<1>7. Window'
  <2>1. \A i \in 1 .. Len(line) : line[i] = BytesOf(stream)[Arrived + i]
    BY DEF DecoderInv, Window
  <2>2. 1 .. Len(buf') = {}
    BY <1>3
  <2> QED BY <1>1, <1>2, <1>4, <1>5, <2>1, <2>2 DEF Window
<1>8. Synced' /\ Told'
  <2> SUFFICES ASSUME Begins(from)' PROVE Synced' /\ Told'
    BY DEF Synced, Told
  <2>1. \E j \in 0 .. Len(stream) : Arrived = EndOf(j)
    BY <1>1, <1>2 DEF Begins
  <2>2. PICK b : b = Before(from)'
    OBVIOUS
  <2>3. b \in 0 .. Len(stream) /\ EndOf(b) = Arrived
    <3>1. b = CHOOSE j \in 0 .. Len(stream) : Arrived = EndOf(j)
      BY <1>1, <1>2, <2>2 DEF Before
    <3> QED BY <2>1, <3>1, Zenon
  <2>4. b + Len(since') = b /\ 1 .. Len(since') = {}
    <3>1. Len(stream) \in Nat
      BY StreamFacts DEF DecoderInv, Shape
    <3> QED BY <1>3, <2>3, <3>1
  <2>5. Synced'
    <3>1. EndOf(Before(from) + Len(since))' = EndOf(b)
      BY <1>1, <2>2, <2>4 DEF EndOf
    <3> QED BY <1>1, <1>5, <2>2, <2>3, <2>4, <3>1 DEF Synced
  <2>6. Told'
    BY <2>4 DEF Told
  <2> QED BY <2>5, <2>6
<1>9. LostAfterBad'
  <2> SUFFICES \E k \in 1 .. Len(stream) : stream[k].expect = Err("Length") /\ EndOf(k - 1) + 4 =< Arrived
    BY <1>1, <1>2 DEF LostAfterBad
  <2>1. CASE from > 0
    <3>1. PICK k \in 1 .. Len(stream) : stream[k].expect = Err("Length") /\ EndOf(k - 1) + 4 =< from
      BY <2>1 DEF DecoderInv, LostAfterBad
    <3>2. EndOf(k - 1) \in Nat
      <4>1. k - 1 \in 0 .. Len(stream)
        BY StreamFacts DEF DecoderInv, Shape
      <4> QED BY <4>1, Ends DEF DecoderInv, Shape
    <3>3. \A e, f, a, b \in Nat : e + 4 =< f /\ f =< a => e + 4 =< a + b
      OBVIOUS
    <3> QED BY <1>4, <3>1, <3>2, <3>3
  <2>2. CASE from = 0
    <3> DEFINE k == (Before(from) + Len(since)) + 1
    <3>1. Begins(from)
      <4>1. EndOf(0) = 0 /\ 0 \in 0 .. Len(stream)
        BY Ends, StreamFacts DEF DecoderInv, Shape
      <4> QED BY <2>2, <4>1 DEF Begins
    <3>2. k \in 1 .. Len(stream) /\ EndOf(k - 1) = At /\ LengthField(buf) = LengthField(stream[k].bytes)
      BY <1>1, <3>1, HeadOfBuffer DEF DecoderInv
    <3> HIDE DEF k
    <3>3. LengthField(buf) = length
      BY DEF LengthField, length
    <3>4. length \notin 1 .. MAX_FRAME
      BY <1>1, WireBounds
    <3>5. Framed(stream[k])
      BY <3>2, StreamFacts DEF DecoderInv, Shape
    <3>6. stream[k].expect = Err("Length")
      BY <3>2, <3>3, <3>4, <3>5 DEF Framed
    <3>7. EndOf(k - 1) + 4 =< Arrived
      BY <1>1, <1>4, <3>2
    <3> QED BY <3>2, <3>6, <3>7
  <2> QED BY <1>4, <2>1, <2>2
<1>10. Quiet'
  BY <1>1 DEF Quiet
<1> QED BY <1>6, <1>7, <1>8, <1>9, <1>10 DEF DecoderInv

\* A frame leaves the buffer.
LEMMA TakeFrameKeeps ==
  ASSUME DecoderInv, TakeFrame
  PROVE  /\ DecoderInv'
         /\ (\A k \in 1 .. Len(stream) : Answered(stream[k])) => (Told => Told')
<1> DEFINE L == 4 + length
           x == decode_body(buf[5], SubSeq(buf, 6, L))
<1>1. /\ ~idle /\ Len(buf) >= 4 /\ ~(length = 0 \/ length > MAX_FRAME) /\ Len(buf) >= L
      /\ since' = Append(since, x) /\ buf' = SubSeq(buf, 5 + length, Len(buf))
      /\ stream' = stream /\ line' = line /\ from' = from /\ idle' = idle
  BY DEF TakeFrame, HasLength, OutOfRange, Whole
<1>2. /\ buf \in Seq(Nat) /\ Len(buf) \in Nat /\ since \in Seq(Answers) /\ Len(since) \in Nat
      /\ Arrived \in Nat /\ At \in Nat /\ Arrived = At + Len(buf) /\ from =< At /\ from \in Nat
      /\ stream \in Streams /\ Len(stream) \in Nat
  BY Sizes, StreamFacts DEF DecoderInv, Shape, Window
<1>3. length = LengthField(buf) /\ length \in Nat
  BY <1>1, <1>2, LengthFieldIsNat DEF length, LengthField
<1>4. /\ length \in 1 .. MAX_FRAME /\ L \in Nat /\ 5 \in 1 .. Len(buf) /\ 5 =< L /\ 5 + length = L + 1
      /\ 5 \in Nat /\ 5 + 1 = 6
  <2>1. \A l, b, m \in Nat : ~(l = 0 \/ l > m) /\ b >= 4 + l =>
           /\ l \in 1 .. m /\ 4 + l \in Nat /\ 5 \in 1 .. b /\ 5 =< 4 + l /\ 5 + l = (4 + l) + 1
    OBVIOUS
  <2>2. MAX_FRAME \in Nat
    BY WireBounds
  <2>3. /\ length \in 1 .. MAX_FRAME /\ 4 + length \in Nat /\ 5 \in 1 .. Len(buf)
        /\ 5 =< 4 + length /\ 5 + length = (4 + length) + 1
    BY <1>1, <1>2, <1>3, <2>1, <2>2
  <2>4. 5 \in Nat /\ 5 + 1 = 6
    OBVIOUS
  <2> QED BY <2>3, <2>4
<1> HIDE DEF L
<1>5. /\ SubSeq(buf, 6, L) \in Seq(Nat) /\ Len(SubSeq(buf, 6, L)) = L - 5
      /\ \A i \in 1 .. L - 5 : SubSeq(buf, 6, L)[i] = buf[5 + i]
  <2>1. PICK a \in Nat : a = 5
    OBVIOUS
  <2>2. L =< Len(buf) /\ L \in Nat /\ a =< L /\ a + 1 = 6
    BY <1>1, <1>2, <1>4, <2>1
  <2>3. /\ SubSeq(buf, a + 1, L) \in Seq(Nat) /\ Len(SubSeq(buf, a + 1, L)) = L - a
        /\ \A i \in 1 .. L - a : SubSeq(buf, a + 1, L)[i] = buf[a + i]
    BY <1>2, <2>2, PartFacts
  <2> QED BY <2>1, <2>2, <2>3
<1>6. /\ buf' \in Seq(Nat) /\ Len(buf') = Len(buf) - L
      /\ \A i \in 1 .. Len(buf) - L : buf'[i] = buf[L + i]
  <2>1. /\ SubSeq(buf, L + 1, Len(buf)) \in Seq(Nat) /\ Len(SubSeq(buf, L + 1, Len(buf))) = Len(buf) - L
        /\ \A i \in 1 .. Len(buf) - L : SubSeq(buf, L + 1, Len(buf))[i] = buf[L + i]
    <3>1. L =< Len(buf) /\ Len(buf) =< Len(buf)
      BY <1>1, <1>2, <1>4
    <3> QED BY <1>2, <1>4, <3>1, PartFacts
  <2>2. buf' = SubSeq(buf, L + 1, Len(buf))
    BY <1>1, <1>4
  <2> QED BY <2>1, <2>2
<1>7. x \in Answers
  <2>1. buf[5] \in Nat
    BY <1>2, <1>4, ElementOfSeq
  <2>2. \A t \in Nat, b \in Seq(Nat) : decode_body(t, b) \in Answers
    <3>1. TAKE t \in Nat, b \in Seq(Nat)
    <3> DEFINE T == {decode_body(t, c) : c \in Seq(Nat)}
    <3>2. decode_body(t, b) \in T /\ T \in {{decode_body(u, c) : c \in Seq(Nat)} : u \in Nat}
      OBVIOUS
    <3> HIDE DEF T
    <3> QED BY <3>2 DEF Answers
  <2> QED BY <1>5, <2>1, <2>2, Zenon DEF x
<1> HIDE DEF x
<1>8. /\ since' \in Seq(Answers) /\ Len(since') = Len(since) + 1
      /\ \A i \in 1 .. Len(since) : since'[i] = since[i]
      /\ since'[Len(since) + 1] = x
  BY <1>1, <1>2, <1>7, AppendProperties
<1>9. /\ \A k : EndOf(k)' = EndOf(k)
      /\ BytesOf(stream)' = BytesOf(stream)
      /\ Begins(from)' = Begins(from) /\ Before(from)' = Before(from)
  BY <1>1, SameStream DEF Begins, Before
<1>10. Arrived' = Arrived /\ At' = At + L
  <2>1. Arrived' = Arrived
    BY <1>1, <1>9 DEF Arrived
  <2>2. At' = Arrived - (Len(buf) - L)
    BY <1>6, <2>1 DEF At
  <2>3. \A t, b, q \in Nat : (t + b) - (b - q) = t + q
    OBVIOUS
  <2> QED BY <1>2, <1>4, <2>1, <2>2, <2>3
<1>11. Shape'
  BY <1>1, <1>2, <1>6, <1>8 DEF DecoderInv, Shape
<1>12. Window'
  <2>1. /\ \A i \in 1 .. Len(buf) : buf[i] = BytesOf(stream)[At + i]
        /\ \A i \in 1 .. Len(line) : line[i] = BytesOf(stream)[Arrived + i]
    BY DEF DecoderInv, Window
  <2>2. ASSUME NEW i \in 1 .. Len(buf) - L PROVE buf'[i] = BytesOf(stream)[(At + L) + i]
    <3>1. L + i \in 1 .. Len(buf) /\ At + (L + i) = (At + L) + i
      BY <1>1, <1>2, <1>4
    <3> QED BY <1>6, <2>1, <3>1
  <2>3. At + L \in Nat /\ from =< At + L
    BY <1>2, <1>4
  <2> QED BY <1>1, <1>6, <1>9, <1>10, <2>1, <2>2, <2>3 DEF Window
<1>13. LostAfterBad'
  BY <1>1, <1>9 DEF DecoderInv, LostAfterBad
<1>14. Quiet'
  BY <1>1 DEF Quiet
<1>15. ASSUME Begins(from)
       PROVE  /\ Before(from) + Len(since') \in 0 .. Len(stream)
              /\ EndOf(Before(from) + Len(since')) = At + L
              /\ Answered(stream[(Before(from) + Len(since)) + 1])
                   => x = stream[(Before(from) + Len(since)) + 1].expect
  <2> DEFINE k == (Before(from) + Len(since)) + 1
             f == stream[k]
  <2>1. /\ Before(from) \in 0 .. Len(stream) /\ k \in 1 .. Len(stream) /\ EndOf(k - 1) = At
        /\ LengthField(buf) = LengthField(f.bytes)
        /\ \A i \in 1 .. Len(buf) : i =< Len(f.bytes) => buf[i] = f.bytes[i]
    BY <1>1, <1>15, HeadOfBuffer DEF DecoderInv
  <2>2. Before(from) + Len(since') = k
    BY <1>2, <1>8, <2>1
  <2> HIDE DEF k
  <2>3. Framed(f) /\ f.bytes \in Seq(Nat) /\ Len(f.bytes) \in Nat
    BY <1>2, <2>1, StreamFacts
  <2>4. Len(f.bytes) = L
    BY <1>3, <1>4, <2>1, <2>3 DEF Framed, L
  <2>5. EndOf(k) = At + L
    BY <1>2, <2>1, <2>4, Ends
  <2>6. ASSUME Answered(f) PROVE x = f.expect
    <3>1. f.expect = decode_body(f.bytes[5], SubSeq(f.bytes, 6, L))
      BY <1>3, <1>4, <2>1, <2>4, <2>6 DEF Answered
    <3>2. buf[5] = f.bytes[5]
      BY <1>4, <2>1, <2>4
    <3>3. /\ SubSeq(f.bytes, 6, L) \in Seq(Nat) /\ Len(SubSeq(f.bytes, 6, L)) = L - 5
          /\ \A i \in 1 .. L - 5 : SubSeq(f.bytes, 6, L)[i] = f.bytes[5 + i]
      <4>1. L =< Len(f.bytes)
        BY <1>4, <2>4
      <4> QED BY <1>4, <2>3, <4>1, PartFacts, SMTT(30)
    <3>4. \A i \in 1 .. L - 5 : SubSeq(f.bytes, 6, L)[i] = SubSeq(buf, 6, L)[i]
      <4>1. \A i \in 1 .. L - 5 : 5 + i \in 1 .. Len(buf) /\ 5 + i =< L
        BY <1>1, <1>2, <1>4
      <4> QED BY <1>5, <2>1, <2>4, <3>3, <4>1
    <3>5. SubSeq(f.bytes, 6, L) = SubSeq(buf, 6, L)
      BY <1>5, <3>3, <3>4, SeqEqual
    <3> QED BY <3>1, <3>2, <3>5 DEF x
  <2>7. k \in 0 .. Len(stream)
    BY <1>2, <2>1
  <2> QED BY <2>2, <2>5, <2>6, <2>7 DEF k
<1>16. Synced'
  BY <1>1, <1>9, <1>10, <1>15 DEF Synced
<1>17. ASSUME \A k \in 1 .. Len(stream) : Answered(stream[k]), Told PROVE Told'
  <2> SUFFICES ASSUME Begins(from), NEW i \in 1 .. Len(since) + 1
               PROVE  since'[i] = stream[Before(from) + i].expect
    BY <1>1, <1>8, <1>9 DEF Told
  <2>1. CASE i \in 1 .. Len(since)
    BY <1>8, <1>17, <2>1 DEF Told
  <2>2. CASE i = Len(since) + 1
    <3>1. /\ (Before(from) + Len(since)) + 1 \in 1 .. Len(stream) /\ Before(from) \in 0 .. Len(stream)
      BY <1>1, HeadOfBuffer DEF DecoderInv
    <3>2. Before(from) + i = (Before(from) + Len(since)) + 1
      BY <1>2, <2>2, <3>1
    <3> QED BY <1>8, <1>15, <1>17, <2>2, <3>1, <3>2
  <2> QED BY <1>2, <2>1, <2>2
<1> QED BY <1>11, <1>12, <1>13, <1>14, <1>16, <1>17 DEF DecoderInv

\* One step of the decoder.
LEMMA DecoderSteps ==
  ASSUME DecoderInv, [FrameNext]_vars
  PROVE  /\ DecoderInv'
         /\ (\A s \in Streams : \A k \in 1 .. Len(s) : Answered(s[k])) => (Told => Told')
<1>0. stream \in Streams
  BY DEF DecoderInv, Shape
<1>1. ASSUME NEW n \in Pieces, push(n) PROVE DecoderInv' /\ (Told => Told')
  BY <1>1, PushKeeps
<1>2. CASE NoFrame
  BY <1>2, NoFrameKeeps
<1>3. CASE BadLength
  BY <1>3, BadLengthKeeps
<1>4. CASE TakeFrame
  BY <1>0, <1>4, TakeFrameKeeps
<1>5. CASE UNCHANGED vars
  <2>1. UNCHANGED <<stream, line, buf, since, from>> /\ idle' = idle
    BY <1>5 DEF vars
  <2>2. idle' \in BOOLEAN
    BY <2>1 DEF DecoderInv, Shape
  <2>3. Quiet'
    BY <2>1 DEF DecoderInv, Quiet, HasLength, OutOfRange, Whole, length
  <2> QED BY <2>1, <2>2, <2>3, NothingMoves
<1>6. CASE Finished
  BY <1>5, <1>6 DEF Finished
<1> QED BY <1>1, <1>2, <1>3, <1>4, <1>5, <1>6 DEF FrameNext, next_frame

\* Nothing is held back in a state that satisfies the invariant.
LEMMA QuietHoldsNothing == DecoderInv => NothingHeldBack
<1> SUFFICES ASSUME DecoderInv, idle PROVE NothingHeldBack
  BY DEF NothingHeldBack
<1> DEFINE b == Before(from)
           m == b + Len(since)
           n == Len(stream)
<1>1. /\ buf \in Seq(Nat) /\ Len(buf) \in Nat /\ Len(since) \in Nat /\ stream \in Streams
      /\ n \in Nat /\ Arrived \in Nat /\ At \in Nat /\ Arrived = At + Len(buf)
  BY Sizes, StreamFacts DEF DecoderInv, Shape
<1>2. MAX_FRAME \in Nat \ {0}
  BY WireBounds
<1>3. Len(buf) >= 4 => /\ length \in Nat /\ length = LengthField(buf)
                       /\ ~(length = 0 \/ length > MAX_FRAME) /\ ~(Len(buf) >= 4 + length)
  BY <1>1, LengthFieldIsNat
  DEF DecoderInv, Quiet, HasLength, OutOfRange, Whole, length, LengthField
<1>4. Len(buf) < 4 + MAX_FRAME
  <2>1. \A l, f, u \in Nat : (u >= 4 => ~(l > f) /\ ~(u >= 4 + l)) /\ f # 0 => u < 4 + f
    OBVIOUS
  <2>2. \A f, u \in Nat : ~(u >= 4) => u < 4 + f
    OBVIOUS
  <2> QED BY <1>1, <1>2, <1>3, <2>1, <2>2
<1>5. ASSUME Begins(from), NEW k \in b .. n, EndOf(k) =< Arrived, ~(m >= k) PROVE FALSE
  <2>1. b \in 0 .. n /\ m \in 0 .. n /\ EndOf(m) = At
    <3>1. b = CHOOSE j \in 0 .. n : from = EndOf(j)
      BY DEF Before
    <3>2. \E j \in 0 .. n : from = EndOf(j)
      BY <1>5 DEF Begins
    <3>3. b \in 0 .. n
      BY <3>1, <3>2, Zenon
    <3> QED BY <1>5, <3>3 DEF DecoderInv, Synced
  <2> HIDE DEF n, m, b
  <2>2. m < k /\ k \in 0 .. n /\ m + 1 \in 1 .. n /\ m + 1 \in 0 .. n /\ (m + 1) - 1 = m
    BY <1>1, <1>5, <2>1
  <2>3. EndOf(m) + 4 =< EndOf(k) /\ EndOf(k) \in Nat /\ EndOf(m + 1) \in Nat
    BY <1>1, <2>1, <2>2, Ends DEF n
  <2>4. Len(buf) >= 4
    BY <1>1, <1>5, <2>1, <2>3
  <2> DEFINE f == stream[m + 1]
  <2>5. LengthField(buf) = LengthField(f.bytes)
    BY <1>5, <2>4, HeadOfBuffer DEF DecoderInv, m, b
  <2>6. Framed(f) /\ Len(f.bytes) \in Nat /\ EndOf(m + 1) = At + Len(f.bytes)
    BY <1>1, <2>1, <2>2, StreamFacts, Ends DEF n
  <2>7. EndOf(m + 1) =< EndOf(k)
    <3>1. m + 1 = k \/ m + 1 < k
      BY <1>1, <2>1, <2>2
    <3>2. m + 1 < k => EndOf(m + 1) + 4 =< EndOf(k)
      BY <1>1, <2>2, Ends DEF n
    <3> QED BY <2>3, <3>1, <3>2
  <2>8. length \in 1 .. MAX_FRAME
    BY <1>2, <1>3, <2>4
  <2>9. Len(f.bytes) = 4 + length
    BY <1>3, <2>4, <2>5, <2>6, <2>8 DEF Framed
  <2>10. Len(buf) >= 4 + length
    <3>1. \A t, u, l, e, w \in Nat : e =< w /\ w =< t + u /\ e = t + (4 + l) => u >= 4 + l
      OBVIOUS
    <3> QED BY <1>1, <1>3, <1>5, <2>3, <2>4, <2>6, <2>7, <2>9, <3>1
  <2> QED BY <1>3, <2>4, <2>10
<1> QED BY <1>4, <1>5 DEF NothingHeldBack

\* What was said of the frames, in a state that satisfies the invariant.
LEMMA ToldIsIntact == DecoderInv /\ Told => FramesIntact
<1> SUFFICES ASSUME DecoderInv, Told PROVE FramesIntact
  OBVIOUS
<1>1. Len(stream) \in Nat /\ DOMAIN stream = 1 .. Len(stream)
  BY StreamFacts DEF DecoderInv, Shape
<1>2. DOMAIN since = 1 .. Len(since)
  BY LenProperties DEF DecoderInv, Shape
<1>3. ASSUME Begins(from) PROVE Before(from) + Len(since) =< Len(stream)
  <2>1. Before(from) + Len(since) \in 0 .. Len(stream)
    BY <1>3 DEF DecoderInv, Synced
  <2> QED BY <1>1, <2>1
<1>4. from > 0 => \E k \in DOMAIN stream : stream[k].expect = Err("Length") /\ EndOf(k - 1) + 4 =< from
  BY <1>1 DEF DecoderInv, LostAfterBad
<1> QED BY <1>2, <1>3, <1>4 DEF FramesIntact, Told

\* The decoder never holds back a frame that has arrived whole, and never
\* holds more than one frame of the largest size (next_frame).
THEOREM DecoderHoldsNothing == FrameSpec => []NothingHeldBack
<1>1. FrameInit => DecoderInv
  BY DecoderStarts
<1>2. DecoderInv /\ [FrameNext]_vars => DecoderInv'
  BY DecoderSteps
<1> QED BY <1>1, <1>2, QuietHoldsNothing, PTL DEF FrameSpec

\* Whatever the pieces, the decoder makes of each frame what decode_body makes
\* of its body, in order, from one loss of the boundary to the next.
THEOREM DecoderTellsFrames ==
  ASSUME \A s \in Streams : \A k \in 1 .. Len(s) : Answered(s[k])
  PROVE  FrameSpec => []FramesIntact
<1>1. FrameInit => DecoderInv /\ Told
  BY DecoderStarts
<1>2. DecoderInv /\ Told /\ [FrameNext]_vars => DecoderInv' /\ Told'
  BY DecoderSteps
<1> QED BY <1>1, <1>2, ToldIsIntact, PTL DEF FrameSpec

----------------------------------------------------------------------------
(* Numbers, written and read back.                                         *)

\* What is left of v after each byte.
Rests(f, v, k) ==
  /\ f[0] = v /\ \A i \in 1 .. k : f[i] = f[i - 1] \div Base
  /\ LittleEndian(v, k) = [i \in 1 .. k |-> f[i - 1] % Base]

\* The recursion of LittleEndian has a solution: writing a number divides it down.
LEMMA RestsExist ==
  ASSUME NEW v, NEW k \in Nat
  PROVE  \E f : Rests(f, v, k)
<1> DEFINE n == k
           Solves(m, g) == g = [i \in 0 .. m |-> IF i = 0 THEN v ELSE g[i - 1] \div Base]
           S == {m \in 0 .. n : \E g : Solves(m, g)}
<1>1. n \in Nat
  OBVIOUS
<1>2. LittleEndian(v, k) = [i \in 1 .. n |-> (CHOOSE g : Solves(n, g))[i - 1] % Base]
  BY DEF LittleEndian
<1> HIDE DEF n
<1>3. 0 \in S
  <2> DEFINE g == [i \in 0 .. 0 |-> v]
  <2>1. Solves(0, g)
    OBVIOUS
  <2>2. 0 \in 0 .. n
    BY <1>1
  <2> HIDE DEF g, Solves
  <2> QED BY <2>1, <2>2
<1>4. ASSUME NEW m \in 0 .. n - 1, m \in S PROVE m + 1 \in S
  <2>1. PICK g : Solves(m, g)
    BY <1>4
  <2> DEFINE h == [i \in 0 .. m + 1 |-> IF i = m + 1 THEN g[m] \div Base ELSE g[i]]
  <2>2. m \in Nat /\ m + 1 \in 0 .. n
    BY <1>1
  <2>3. \A i \in 0 .. m + 1 : h[i] = IF i = 0 THEN v ELSE h[i - 1] \div Base
    <3>1. TAKE i \in 0 .. m + 1
    <3>2. CASE i = m + 1
      <4>1. i # 0 /\ i - 1 = m /\ m \in 0 .. m + 1 /\ m # m + 1
        BY <2>2, <3>2
      <4> QED BY <3>2, <4>1
    <3>3. CASE i # m + 1
      <4>1. i \in 0 .. m /\ (i # 0 => i - 1 \in 0 .. m + 1 /\ i - 1 # m + 1)
        BY <2>2, <3>3
      <4>2. g[i] = IF i = 0 THEN v ELSE g[i - 1] \div Base
        BY <2>1, <4>1
      <4> QED BY <3>3, <4>1, <4>2
    <3> QED BY <3>2, <3>3
  <2>4. Solves(m + 1, h)
    <3>1. h = [i \in 0 .. m + 1 |-> h[i]]
      OBVIOUS
    <3> HIDE DEF h
    <3> QED BY <2>3, <3>1
  <2> QED BY <2>2, <2>4
<1> HIDE DEF S
<1>5. \A i \in 0 .. n : i \in S
  BY <1>1, <1>3, <1>4, CountUp
<1>6. n \in S
  BY <1>1, <1>5
<1>7. \E g : Solves(n, g)
  BY <1>6 DEF S
<1> HIDE DEF Solves
<1>8. Solves(n, CHOOSE g : Solves(n, g))
  BY <1>7
<1>9. PICK f : f = CHOOSE g : Solves(n, g)
  OBVIOUS
<1>10. 0 \in 0 .. n /\ \A i \in 1 .. n : i \in 0 .. n /\ i # 0
  BY <1>1
<1>11. f[0] = v /\ \A i \in 1 .. n : f[i] = f[i - 1] \div Base
  BY <1>8, <1>9, <1>10 DEF Solves
<1>12. LittleEndian(v, k) = [i \in 1 .. n |-> f[i - 1] % Base]
  BY <1>2, <1>9
<1>13. Rests(f, v, k)
  BY <1>11, <1>12 DEF Rests, n
<1> QED BY <1>13

\* A byte of a number, and what is left of it.
LEMMA DivideByBase ==
  ASSUME NEW v \in Nat
  PROVE  /\ v \div Base \in Nat /\ v % Base \in Nat /\ v % Base < Base
         /\ (v \div Base) * Base + (v % Base) = v
<1>1. Base \in Nat /\ Base > 0
  BY WireBounds
<1>2. \A b, w \in Nat : b > 0 => /\ w \div b \in Nat /\ w % b \in Nat /\ w % b < b
                                 /\ (w \div b) * b + (w % b) = w
  BY Z3
<1> QED BY <1>1, <1>2

\* A factor less.
LEMMA DivideBound ==
  ASSUME NEW v \in Nat, NEW m \in Nat, v < Base * m
  PROVE  v \div Base < m
<1> DEFINE q == v \div Base
           r == v % Base
<1>1. q \in Nat /\ r \in Nat /\ q * Base + r = v /\ Base \in Nat /\ Base > 0
  BY DivideByBase, WireBounds
<1> HIDE DEF q, r
<1>2. ASSUME q >= m PROVE FALSE
  <2>1. PICK d \in Nat : q = m + d
    <3>1. q - m \in Nat /\ q = m + (q - m)
      BY <1>1, <1>2
    <3> QED BY <3>1
  <2>2. \A a, b, c \in Nat : (a + c) * b = b * a + c * b /\ c * b \in Nat /\ b * a \in Nat
    BY Z3
  <2>3. q * Base = Base * m + d * Base /\ d * Base \in Nat /\ Base * m \in Nat
    BY <1>1, <2>1, <2>2
  <2> QED BY <1>1, <2>3
<1>3. q < m
  BY <1>1, <1>2
<1> QED BY <1>3 DEF q

\* The bytes of a number that fits in them say the number.
LEMMA LittleEndianSays ==
  ASSUME NEW k \in Nat, NEW v \in Nat, NEW f, Rests(f, v, k), f[k] = 0
  PROVE  /\ LittleEndian(v, k) \in Seq(Nat) /\ Len(LittleEndian(v, k)) = k
         /\ Number(LittleEndian(v, k)) = v
<1> DEFINE w == LittleEndian(v, k)
           N == {i \in 0 .. k : f[i] \in Nat}
<1>1. f[0] = v /\ \A i \in 1 .. k : f[i] = f[i - 1] \div Base
  BY DEF Rests
<1>2. \A i \in 0 .. k : f[i] \in Nat
  <2>1. 0 \in N
    BY <1>1
  <2>2. ASSUME NEW i \in 0 .. k - 1, i \in N PROVE i + 1 \in N
    <3>1. i + 1 \in 1 .. k /\ i + 1 \in 0 .. k /\ (i + 1) - 1 = i /\ f[i] \in Nat
      BY <2>2
    <3>2. f[i + 1] = f[i] \div Base
      BY <1>1, <3>1
    <3>3. f[i + 1] \in Nat
      BY <3>1, <3>2, DivideByBase
    <3> QED BY <3>1, <3>3
  <2> HIDE DEF N
  <2>3. \A i \in 0 .. k : i \in N
    BY <2>1, <2>2, CountUp
  <2> QED BY <2>3 DEF N
<1>3. w = [i \in 1 .. k |-> f[i - 1] % Base]
  BY DEF Rests
<1> HIDE DEF w
<1>4. \A i \in 1 .. k : f[i - 1] % Base \in Nat
  <2>1. \A i \in 1 .. k : i - 1 \in 0 .. k
    OBVIOUS
  <2> QED BY <1>2, <2>1, DivideByBase
<1>5. w \in Seq(Nat) /\ Len(w) = k /\ \A i \in 1 .. k : w[i] = f[i - 1] % Base
  BY <1>3, <1>4, IsASeq
<1>6. PICK g : /\ g = [i \in 0 .. k |-> IF i = 0 THEN 0 ELSE g[i - 1] * Base + w[1 + (k - i)]]
               /\ Number(w) = g[k]
  <2>1. \E g : /\ g = [i \in 0 .. Len(w) |-> IF i = 0 THEN 0 ELSE g[i - 1] * Base + w[1 + (Len(w) - i)]]
              /\ Number(w) = g[Len(w)]
    BY <1>5, NumberDefined
  <2> QED BY <1>5, <2>1, ZenonT(60)
<1>7. g[0] = 0 /\ \A i \in 1 .. k : g[i] = g[i - 1] * Base + w[1 + (k - i)]
  <2>1. 0 \in 0 .. k /\ \A i \in 1 .. k : i \in 0 .. k /\ i # 0
    OBVIOUS
  <2> QED BY <1>6, <2>1
<1> DEFINE M == {i \in 0 .. k : g[i] = f[k - i]}
<1>8. \A i \in 0 .. k : g[i] = f[k - i]
  <2>1. 0 \in M
    <3>1. 0 \in 0 .. k /\ k - 0 = k
      OBVIOUS
    <3> QED BY <1>7, <3>1
  <2>2. ASSUME NEW i \in 0 .. k - 1, i \in M PROVE i + 1 \in M
    <3> DEFINE j == k - i
    <3>1. /\ i + 1 \in 1 .. k /\ i + 1 \in 0 .. k /\ (i + 1) - 1 = i /\ 1 + (k - (i + 1)) = j
          /\ j \in 1 .. k /\ j - 1 \in 0 .. k /\ k - (i + 1) = j - 1 /\ g[i] = f[j]
      BY <2>2
    <3> HIDE DEF j
    <3>2. g[i + 1] = f[j] * Base + w[j]
      BY <1>7, <3>1
    <3>3. f[j] = f[j - 1] \div Base /\ w[j] = f[j - 1] % Base /\ f[j - 1] \in Nat
      BY <1>1, <1>2, <1>5, <3>1
    <3>4. f[j] * Base + w[j] = f[j - 1]
      BY <3>3, DivideByBase
    <3>5. g[i + 1] = f[k - (i + 1)]
      BY <3>1, <3>2, <3>4
    <3> QED BY <3>1, <3>5
  <2> HIDE DEF M
  <2>3. \A i \in 0 .. k : i \in M
    BY <2>1, <2>2, CountUp
  <2> QED BY <2>3 DEF M
<1>9. g[k] = v
  <2>1. k \in 0 .. k /\ k - k = 0
    OBVIOUS
  <2> QED BY <1>1, <1>8, <2>1
<1> QED BY <1>5, <1>6, <1>9 DEF w

\* u16, u32 and u64, each up to its largest value.
U64 == U32 * U32
LEMMA Widths ==
  /\ U16 \in Nat /\ U32 \in Nat /\ U64 \in Nat /\ U16 >= 4 /\ U32 >= 16
  /\ \A v \in 0 .. U16 - 1 : LittleEndian(v, 2) \in Seq(Nat) /\ Len(LittleEndian(v, 2)) = 2
                             /\ Number(LittleEndian(v, 2)) = v
  /\ \A v \in 0 .. U32 - 1 : LittleEndian(v, 4) \in Seq(Nat) /\ Len(LittleEndian(v, 4)) = 4
                             /\ Number(LittleEndian(v, 4)) = v
  /\ \A v \in 0 .. U64 - 1 : LittleEndian(v, 8) \in Seq(Nat) /\ Len(LittleEndian(v, 8)) = 8
                             /\ Number(LittleEndian(v, 8)) = v
<1> DEFINE B == Base
           B2 == B * (B * 1)
           B3 == B * B2
           B4 == B * B3
           B5 == B * B4
           B6 == B * B5
           B7 == B * B6
           B8 == B * B7
<1>1. B \in Nat /\ B >= 2
  BY WireBounds
<1>2. \A a, b \in Nat : a * b \in Nat
  OBVIOUS
<1>3. B * 1 \in Nat /\ B * 1 = B /\ B2 \in Nat /\ B3 \in Nat /\ B4 \in Nat
  BY <1>1, <1>2
<1>4. B5 \in Nat /\ B6 \in Nat /\ B7 \in Nat /\ B8 \in Nat
  BY <1>1, <1>2, <1>3
<1>5. U16 = B2 /\ U32 = B4
  <2>1. \A b \in Nat : b * b = b * (b * 1) /\ (b * b) * (b * b) = b * (b * (b * (b * 1)))
    BY Z3
  <2> QED BY <1>1, <2>1 DEF U16, U32
<1>6. U64 = B8
  <2>1. \A b, c \in Nat : c * (b * (b * (b * (b * 1)))) = b * (b * (b * (b * c)))
    BY Z3
  <2>2. U64 = B4 * B4
    BY <1>5 DEF U64
  <2> QED BY <1>1, <1>3, <2>1, <2>2
<1>7. U16 >= 4 /\ U32 >= 16
  <2>1. \A b \in Nat : b >= 2 => b * b >= 4
    BY Z3
  <2>2. \A b \in Nat : b >= 4 => b * b >= 16
    BY Z3
  <2>3. Base * Base \in Nat /\ Base * Base >= 4
    BY <1>1, <2>1
  <2> QED BY <2>2, <2>3 DEF U16, U32
<1> HIDE DEF B2, B3, B4, B5, B6, B7, B8
<1>8. ASSUME NEW v, NEW k \in Nat, NEW f, Rests(f, v, k), NEW j \in 1 .. k,
             NEW m \in Nat, f[j - 1] \in Nat, f[j - 1] < Base * m
      PROVE  f[j] \in Nat /\ f[j] < m
  <2>1. f[j] = f[j - 1] \div Base
    BY <1>8 DEF Rests
  <2> QED BY <1>8, <2>1, DivideByBase, DivideBound
<1>9. ASSUME NEW v \in 0 .. U16 - 1
      PROVE  LittleEndian(v, 2) \in Seq(Nat) /\ Len(LittleEndian(v, 2)) = 2 /\ Number(LittleEndian(v, 2)) = v
  <2>1. PICK k \in Nat : k = 2
    OBVIOUS
  <2>2. v \in Nat /\ v < B2
    BY <1>3, <1>5
  <2>3. PICK f : Rests(f, v, k)
    BY RestsExist
  <2>4. f[0] = v /\ 1 \in 1 .. k /\ 2 \in 1 .. k /\ 1 - 1 = 0 /\ 2 - 1 = 1
    BY <2>1, <2>3 DEF Rests
  <2>5. f[1] \in Nat /\ f[1] < B * 1
    BY <1>3, <1>8, <2>2, <2>3, <2>4 DEF B2
  <2>6. f[2] \in Nat /\ f[2] < 1
    BY <1>8, <2>2, <2>3, <2>4, <2>5
  <2>7. f[k] = 0
    BY <2>1, <2>6
  <2> QED BY <2>1, <2>2, <2>3, <2>7, LittleEndianSays
<1>10. ASSUME NEW v \in 0 .. U32 - 1
       PROVE  LittleEndian(v, 4) \in Seq(Nat) /\ Len(LittleEndian(v, 4)) = 4 /\ Number(LittleEndian(v, 4)) = v
  <2>1. PICK k \in Nat : k = 4
    OBVIOUS
  <2>2. v \in Nat /\ v < B4
    BY <1>3, <1>5
  <2>3. PICK f : Rests(f, v, k)
    BY RestsExist
  <2>4. /\ f[0] = v /\ 1 \in 1 .. k /\ 2 \in 1 .. k /\ 3 \in 1 .. k /\ 4 \in 1 .. k
        /\ 1 - 1 = 0 /\ 2 - 1 = 1 /\ 3 - 1 = 2 /\ 4 - 1 = 3
    BY <2>1, <2>3 DEF Rests
  <2>5. f[1] \in Nat /\ f[1] < B3
    BY <1>3, <1>8, <2>2, <2>3, <2>4 DEF B4
  <2>6. f[2] \in Nat /\ f[2] < B2
    BY <1>3, <1>8, <2>2, <2>3, <2>4, <2>5 DEF B3
  <2>7. f[3] \in Nat /\ f[3] < B * 1
    BY <1>3, <1>8, <2>2, <2>3, <2>4, <2>6 DEF B2
  <2>8. f[4] \in Nat /\ f[4] < 1
    BY <1>8, <2>2, <2>3, <2>4, <2>7
  <2>9. f[k] = 0
    BY <2>1, <2>8
  <2> QED BY <2>1, <2>2, <2>3, <2>9, LittleEndianSays
<1>11. ASSUME NEW v \in 0 .. U64 - 1
       PROVE  LittleEndian(v, 8) \in Seq(Nat) /\ Len(LittleEndian(v, 8)) = 8 /\ Number(LittleEndian(v, 8)) = v
  <2>1. PICK k \in Nat : k = 8
    OBVIOUS
  <2>2. v \in Nat /\ v < B8
    BY <1>4, <1>6
  <2>3. PICK f : Rests(f, v, k)
    BY RestsExist
  <2>4. /\ f[0] = v /\ \A j \in 1 .. 8 : j \in 1 .. k
        /\ 1 - 1 = 0 /\ 2 - 1 = 1 /\ 3 - 1 = 2 /\ 4 - 1 = 3 /\ 5 - 1 = 4 /\ 6 - 1 = 5 /\ 7 - 1 = 6
        /\ 8 - 1 = 7
    BY <2>1, <2>3 DEF Rests
  <2>5. /\ 1 \in 1 .. k /\ 2 \in 1 .. k /\ 3 \in 1 .. k /\ 4 \in 1 .. k /\ 5 \in 1 .. k
        /\ 6 \in 1 .. k /\ 7 \in 1 .. k /\ 8 \in 1 .. k
    BY <2>4
  <2>6. f[1] \in Nat /\ f[1] < B7
    BY <1>4, <1>8, <2>2, <2>3, <2>4, <2>5 DEF B8
  <2>7. f[2] \in Nat /\ f[2] < B6
    BY <1>4, <1>8, <2>2, <2>3, <2>4, <2>5, <2>6 DEF B7
  <2>8. f[3] \in Nat /\ f[3] < B5
    BY <1>4, <1>8, <2>2, <2>3, <2>4, <2>5, <2>7 DEF B6
  <2>9. f[4] \in Nat /\ f[4] < B4
    BY <1>3, <1>8, <2>2, <2>3, <2>4, <2>5, <2>8 DEF B5
  <2>10. f[5] \in Nat /\ f[5] < B3
    BY <1>3, <1>8, <2>2, <2>3, <2>4, <2>5, <2>9 DEF B4
  <2>11. f[6] \in Nat /\ f[6] < B2
    BY <1>3, <1>8, <2>2, <2>3, <2>4, <2>5, <2>10 DEF B3
  <2>12. f[7] \in Nat /\ f[7] < B * 1
    BY <1>3, <1>8, <2>2, <2>3, <2>4, <2>5, <2>11 DEF B2
  <2>13. f[8] \in Nat /\ f[8] < 1
    BY <1>8, <2>2, <2>3, <2>4, <2>5, <2>12
  <2>14. f[k] = 0
    BY <2>1, <2>13
  <2> QED BY <2>1, <2>2, <2>3, <2>14, LittleEndianSays
<1> QED BY <1>3, <1>4, <1>5, <1>6, <1>7, <1>9, <1>10, <1>11

----------------------------------------------------------------------------
(* Text, cut to its limit.                                                 *)

\* How the cut walks down to a character boundary.
Walks(f, s, max) ==
  /\ \A i \in 0 .. max : f[i] = IF is_char_boundary(s, i) THEN i ELSE f[i - 1]
  /\ clip(s, max) = SubSeq(s, 1, f[max])

\* The recursion of clip has a solution.
LEMMA WalksExist ==
  ASSUME NEW s, NEW max \in Nat, ~(Len(s) =< max)
  PROVE  \E f : Walks(f, s, max)
<1> DEFINE n == max
           Solves(m, g) == g = [i \in 0 .. m |-> IF is_char_boundary(s, i) THEN i ELSE g[i - 1]]
           S == {m \in 0 .. n : \E g : Solves(m, g)}
<1>1. n \in Nat
  OBVIOUS
<1>0. is_char_boundary(s, 0)
  BY DEF is_char_boundary
<1>2. clip(s, max) = SubSeq(s, 1, (CHOOSE g : Solves(n, g))[n])
  BY DEF clip
<1> HIDE DEF n
<1>3. 0 \in S
  <2> DEFINE g == [i \in 0 .. 0 |-> 0]
  <2>1. Solves(0, g)
    BY <1>0
  <2>2. 0 \in 0 .. n
    BY <1>1
  <2> HIDE DEF g, Solves
  <2> QED BY <2>1, <2>2
<1>4. ASSUME NEW m \in 0 .. n - 1, m \in S PROVE m + 1 \in S
  <2>1. PICK g : Solves(m, g)
    BY <1>4
  <2> DEFINE h == [i \in 0 .. m + 1 |-> IF i = m + 1 THEN IF is_char_boundary(s, (m + 1)) THEN (m + 1) ELSE g[m] ELSE g[i]]
  <2>2. m \in Nat /\ m + 1 \in 0 .. n
    BY <1>1
  <2>3. \A i \in 0 .. m + 1 : h[i] = IF is_char_boundary(s, i) THEN i ELSE h[i - 1]
    <3>1. TAKE i \in 0 .. m + 1
    <3>2. CASE i = m + 1
      <4>1. i # 0 /\ i - 1 = m /\ m \in 0 .. m + 1 /\ m # m + 1
        BY <2>2, <3>2
      <4> QED BY <3>2, <4>1
    <3>3. CASE i # m + 1
      <4>1. i \in 0 .. m /\ (i # 0 => i - 1 \in 0 .. m + 1 /\ i - 1 # m + 1)
        BY <2>2, <3>3
      <4>2. g[i] = IF is_char_boundary(s, i) THEN i ELSE g[i - 1]
        BY <2>1, <4>1
      <4> QED BY <1>0, <3>3, <4>1, <4>2
    <3> QED BY <3>2, <3>3
  <2>4. Solves(m + 1, h)
    <3>1. h = [i \in 0 .. m + 1 |-> h[i]]
      OBVIOUS
    <3> HIDE DEF h
    <3> QED BY <2>3, <3>1
  <2> QED BY <2>2, <2>4
<1> HIDE DEF S
<1>5. \A i \in 0 .. n : i \in S
  BY <1>1, <1>3, <1>4, CountUp
<1>6. n \in S
  BY <1>1, <1>5
<1>7. \E g : Solves(n, g)
  BY <1>6 DEF S
<1> HIDE DEF Solves
<1>8. Solves(n, CHOOSE g : Solves(n, g))
  BY <1>7
<1>9. PICK f : f = CHOOSE g : Solves(n, g)
  OBVIOUS
<1>10. \A i \in 0 .. n : f[i] = IF is_char_boundary(s, i) THEN i ELSE f[i - 1]
  BY <1>8, <1>9 DEF Solves
<1>11. clip(s, max) = SubSeq(s, 1, f[n])
  BY <1>2, <1>9
<1>12. Walks(f, s, max)
  BY <1>10, <1>11 DEF Walks, n
<1> QED BY <1>12

\* The walk ends on the last character boundary.
LEMMA WalkEnds ==
  ASSUME NEW s, NEW max \in Nat, NEW f, Walks(f, s, max)
  PROVE  /\ f[max] \in 0 .. max /\ is_char_boundary(s, f[max])
         /\ \A e \in 0 .. max : is_char_boundary(s, e) => e =< f[max]
<1> DEFINE S == {i \in 0 .. max : /\ f[i] \in 0 .. i /\ is_char_boundary(s, f[i])
                                  /\ \A e \in 0 .. i : is_char_boundary(s, e) => e =< f[i]}
<1>1. \A i \in 0 .. max : f[i] = IF is_char_boundary(s, i) THEN i ELSE f[i - 1]
  BY DEF Walks
<1>2. is_char_boundary(s, 0)
  BY DEF is_char_boundary
<1>3. 0 \in S
  <2>1. 0 \in 0 .. max /\ 0 .. 0 = {0} /\ 0 \in 0 .. 0
    OBVIOUS
  <2>2. f[0] = 0
    BY <1>1, <1>2, <2>1
  <2> QED BY <1>2, <2>1, <2>2
<1>4. ASSUME NEW i \in 0 .. max - 1, i \in S PROVE i + 1 \in S
  <2>1. i \in Nat /\ i + 1 \in 0 .. max /\ (i + 1) - 1 = i /\ i + 1 \in 0 .. i + 1
        /\ (\A e \in 0 .. i + 1 : e = i + 1 \/ e \in 0 .. i)
        /\ (\A e \in 0 .. i : e \in 0 .. i + 1)
    OBVIOUS
  <2>2. f[i + 1] = IF is_char_boundary(s, i + 1) THEN i + 1 ELSE f[i]
    BY <1>1, <2>1
  <2>3. /\ f[i] \in 0 .. i /\ is_char_boundary(s, f[i])
        /\ \A e \in 0 .. i : is_char_boundary(s, e) => e =< f[i]
    BY <1>4
  <2>4. CASE is_char_boundary(s, i + 1)
    <3>1. f[i + 1] = i + 1
      BY <2>2, <2>4
    <3>2. \A e \in 0 .. i + 1 : e =< i + 1
      BY <2>1
    <3> QED BY <2>1, <2>4, <3>1, <3>2
  <2>5. CASE ~is_char_boundary(s, i + 1)
    <3>1. f[i + 1] = f[i]
      BY <2>2, <2>5
    <3>2. \A e \in 0 .. i + 1 : is_char_boundary(s, e) => e =< f[i]
      BY <2>1, <2>3, <2>5
    <3> QED BY <2>1, <2>3, <3>1, <3>2
  <2> QED BY <2>4, <2>5
<1> HIDE DEF S
<1>5. \A i \in 0 .. max : i \in S
  BY <1>3, <1>4, CountUp
<1>6. max \in 0 .. max
  OBVIOUS
<1> QED BY <1>5, <1>6 DEF S

Text == {s \in Seq(Nat) : ValidUtf8(s)}

\* A prefix of a text is a text exactly if it ends on a character boundary.
LEMMA ValidPrefix ==
  ASSUME NEW s \in Text, NEW e \in 0 .. Len(s)
  PROVE  /\ SubSeq(s, 1, e) \in Seq(Nat) /\ Len(SubSeq(s, 1, e)) = e
         /\ \A i \in 1 .. e : SubSeq(s, 1, e)[i] = s[i]
         /\ (ValidUtf8(SubSeq(s, 1, e)) <=> is_char_boundary(s, e))
<1> DEFINE t == SubSeq(s, 1, e)
           n == Len(s)
<1>1. s \in Seq(Nat) /\ n \in Nat /\ e \in Nat /\ e =< n
  BY LenProperties DEF Text
<1>2. t \in Seq(Nat) /\ Len(t) = e /\ DOMAIN t = 1 .. e /\ \A i \in 1 .. e : t[i] = s[i]
  <2>1. PICK z \in Nat : z = 0
    OBVIOUS
  <2>2. z =< e /\ z + 1 = 1 /\ e - z = e /\ \A i \in 1 .. e : z + i = i
    BY <1>1, <2>1
  <2>3. /\ SubSeq(s, z + 1, e) \in Seq(Nat) /\ Len(SubSeq(s, z + 1, e)) = e - z
        /\ \A i \in 1 .. e - z : SubSeq(s, z + 1, e)[i] = s[z + i]
    BY <1>1, <2>2, PartFacts
  <2>4. t \in Seq(Nat) /\ Len(t) = e /\ \A i \in 1 .. e : t[i] = s[i]
    BY <2>2, <2>3
  <2> QED BY <2>4, LenProperties
<1>3. \A i \in 1 .. n :
        /\ s[i] # Never
        /\ s[i] = Lead2 => i + 1 <= n
        /\ s[i] = Lead3 => i + 2 <= n
        /\ s[i] = Contin <=> \/ i > 1 /\ s[i - 1] \in {Lead2, Lead3}
                             \/ i > 2 /\ s[i - 2] = Lead3
  <2>1. DOMAIN s = 1 .. n
    BY <1>1, LenProperties
  <2> QED BY <2>1 DEF Text, ValidUtf8
<1> DEFINE Whole2 == \A i \in 1 .. e : (t[i] = Lead2 => i + 1 =< e) /\ (t[i] = Lead3 => i + 2 =< e)
<1> HIDE DEF t, n
<1>4. ValidUtf8(t) <=> Whole2
  <2>1. \A i \in 1 .. e : /\ i \in 1 .. n /\ (i > 1 => i - 1 \in 1 .. e) /\ (i > 2 => i - 2 \in 1 .. e)
    BY <1>1
  <2>2. \A i \in 1 .. e :
          /\ t[i] # Never
          /\ t[i] = Contin <=> \/ i > 1 /\ t[i - 1] \in {Lead2, Lead3}
                               \/ i > 2 /\ t[i - 2] = Lead3
    BY <1>2, <1>3, <2>1
  <2> QED BY <1>2, <2>2 DEF ValidUtf8
<1>5. CASE e = n
  <2>1. Whole2
    BY <1>2, <1>3, <1>5
  <2> QED BY <1>2, <1>4, <1>5, <2>1 DEF is_char_boundary, t, n
<1>6. CASE e # n
  <2>1. e + 1 \in 1 .. n /\ (e + 1) - 1 = e /\ (e + 1) - 2 = e - 1 /\ (e + 1 > 1 <=> e >= 1) /\ (e + 1 > 2 <=> e >= 2)
    BY <1>1, <1>6
  <2>2. s[e + 1] = Contin <=> ((e >= 1 /\ s[e] \in {Lead2, Lead3}) \/ (e >= 2 /\ s[e - 1] = Lead3))
    BY <1>3, <2>1
  <2>3. Whole2 <=> ~((e >= 1 /\ s[e] \in {Lead2, Lead3}) \/ (e >= 2 /\ s[e - 1] = Lead3))
    <3>1. (e >= 1 => e \in 1 .. e) /\ (e >= 2 => e - 1 \in 1 .. e /\ ~((e - 1) + 2 =< e)) /\ ~(e + 1 =< e)
          /\ ~(e + 2 =< e)
      BY <1>1
    <3>2. ASSUME Whole2 PROVE ~((e >= 1 /\ s[e] \in {Lead2, Lead3}) \/ (e >= 2 /\ s[e - 1] = Lead3))
      BY <1>2, <3>1, <3>2
    <3>3. ASSUME ~((e >= 1 /\ s[e] \in {Lead2, Lead3}) \/ (e >= 2 /\ s[e - 1] = Lead3)) PROVE Whole2
      <4>1. TAKE i \in 1 .. e
      <4>2. e >= 1 /\ (i = e \/ (i = e - 1 /\ e >= 2) \/ i + 2 =< e) /\ (i # e => i + 1 =< e)
        BY <1>1
      <4>3. t[i] = s[i] /\ (i + 2 =< e => i + 1 =< e)
        BY <1>1, <1>2
      <4>4. CASE i = e
        <5>0. ~(s[e] \in {Lead2, Lead3})
          BY <3>3, <4>2
        <5>1. t[i] # Lead2 /\ t[i] # Lead3
          BY <4>3, <4>4, <5>0
        <5> QED BY <5>1
      <4>5. CASE i = e - 1 /\ e >= 2
        <5>1. t[i] # Lead3 /\ i # e
          BY <1>1, <3>3, <4>3, <4>5
        <5> QED BY <4>2, <5>1
      <4>6. CASE i + 2 =< e
        BY <4>3, <4>6
      <4> QED BY <4>2, <4>4, <4>5, <4>6
    <3> QED BY <3>2, <3>3
  <2>4. is_char_boundary(s, e) <=> s[e + 1] # Contin
    <3>1. e = 0 => s[e + 1] # Contin
      BY <2>2
    <3> QED BY <1>6, <3>1 DEF is_char_boundary, n
  <2> HIDE DEF Whole2
  <2>5. ValidUtf8(t) <=> is_char_boundary(s, e)
    BY <1>4, <2>2, <2>3, <2>4
  <2> QED BY <1>2, <2>5 DEF t
<1> QED BY <1>5, <1>6

\* clip keeps the longest text that fits.
LEMMA ClipKeeps ==
  ASSUME NEW s \in Text
  PROVE  /\ clip(s, MAX_STRING) = Kept(s) /\ Kept(s) \in Text /\ Len(Kept(s)) \in 0 .. U16 - 1
         /\ Len(s) =< MAX_STRING => Kept(s) = s
<1> DEFINE n == Len(s)
           fit == {k \in 0 .. n : k <= MAX_STRING /\ ValidUtf8(SubSeq(s, 1, k))}
<1>1. n \in Nat /\ MAX_STRING \in Nat /\ MAX_STRING = U16 - 1 /\ s \in Seq(Nat)
  BY LenProperties, Widths DEF MAX_STRING, Text
<1>2. \A k \in 0 .. n : ValidUtf8(SubSeq(s, 1, k)) <=> is_char_boundary(s, k)
  BY ValidPrefix
<1>3. Kept(s) = SubSeq(s, 1, Max(fit))
  BY DEF Kept
<1> HIDE DEF n, fit
<1>4. ASSUME NEW k \in 0 .. n, k =< MAX_STRING, is_char_boundary(s, k),
             \A e \in 0 .. n : e =< MAX_STRING /\ is_char_boundary(s, e) => e =< k
      PROVE  Kept(s) = SubSeq(s, 1, k) /\ Kept(s) \in Text /\ Len(Kept(s)) \in 0 .. U16 - 1
  <2>1. k \in fit /\ \A e \in fit : k >= e
    BY <1>1, <1>2, <1>4 DEF fit
  <2>2. Max(fit) \in fit /\ \A e \in fit : Max(fit) >= e
    <3>1. \E x \in fit : \A y \in fit : x >= y
      BY <2>1
    <3> QED BY <3>1, Zenon DEF Max
  <2>3. fit \subseteq Nat
    BY <1>1 DEF fit
  <2>4. Max(fit) = k
    <3>1. PICK mx : mx = Max(fit)
      OBVIOUS
    <3>2. mx \in Nat /\ k \in Nat /\ mx >= k /\ k >= mx
      BY <2>1, <2>2, <2>3, <3>1
    <3>3. mx = k
      BY <3>2
    <3> QED BY <3>1, <3>3
  <2>5. SubSeq(s, 1, k) \in Text /\ Len(SubSeq(s, 1, k)) = k
    BY <1>4, ValidPrefix DEF Text, n
  <2>6. k \in 0 .. U16 - 1
    BY <1>1, <1>4
  <2> QED BY <1>3, <2>4, <2>5, <2>6
<1>5. CASE n =< MAX_STRING
  <2>1. n \in 0 .. n /\ is_char_boundary(s, n) /\ \A e \in 0 .. n : e =< n
    BY <1>1 DEF is_char_boundary, n
  <2>2. SubSeq(s, 1, n) = s
    <3>1. /\ SubSeq(s, 1, n) \in Seq(Nat) /\ Len(SubSeq(s, 1, n)) = n
          /\ \A i \in 1 .. n : SubSeq(s, 1, n)[i] = s[i]
      BY <2>1, ValidPrefix DEF n
    <3> QED BY <1>1, <3>1, SeqEqual DEF n
  <2>3. Kept(s) = s /\ Kept(s) \in Text /\ Len(Kept(s)) \in 0 .. U16 - 1
    BY <1>4, <1>5, <2>1, <2>2
  <2>4. clip(s, MAX_STRING) = s
    BY <1>5 DEF clip, n
  <2> QED BY <2>3, <2>4
<1>6. CASE ~(n =< MAX_STRING)
  <2>1. PICK f : Walks(f, s, MAX_STRING)
    BY <1>1, <1>6, WalksExist DEF n
  <2>2. PICK k : k = f[MAX_STRING]
    OBVIOUS
  <2>3. /\ k \in 0 .. MAX_STRING /\ is_char_boundary(s, k)
        /\ \A e \in 0 .. MAX_STRING : is_char_boundary(s, e) => e =< k
    BY <1>1, <2>1, <2>2, WalkEnds
  <2>4. k \in 0 .. n /\ k =< MAX_STRING /\ \A e \in 0 .. n : e =< MAX_STRING => e \in 0 .. MAX_STRING
    BY <1>1, <1>6, <2>3
  <2>5. clip(s, MAX_STRING) = SubSeq(s, 1, k)
    BY <2>1, <2>2 DEF Walks
  <2>6. Kept(s) = SubSeq(s, 1, k) /\ Kept(s) \in Text /\ Len(Kept(s)) \in 0 .. U16 - 1
    BY <1>4, <2>3, <2>4
  <2> QED BY <1>6, <2>5, <2>6 DEF n
<1> QED BY <1>5, <1>6 DEF n

----------------------------------------------------------------------------
(* Reading what was written, whole or cut short.                           *)

Kinds == {"u8", "bool", "u16", "i16", "u32", "i32", "u64", "str"}
SignedOf(size) == (0 - (size - size \div 2)) .. (size \div 2 - 1)
Values(kind) ==
  CASE kind = "u8" -> Nat
    [] kind = "bool" -> BOOLEAN
    [] kind = "u16" -> 0 .. U16 - 1
    [] kind = "i16" -> SignedOf(U16)
    [] kind = "u32" -> 0 .. U32 - 1
    [] kind = "i32" -> SignedOf(U32)
    [] kind = "u64" -> 0 .. U64 - 1
    [] kind = "str" -> Text
Written(kind, v) ==
  CASE kind = "u8" -> put_u8(v)
    [] kind = "bool" -> put_u8(IF v THEN 1 ELSE 0)
    [] kind \in {"u16", "i16"} -> put_u16(v)
    [] kind \in {"u32", "i32"} -> put_u32(v)
    [] kind = "u64" -> put_u64(v)
    [] kind = "str" -> put_str(v)
\* What comes back of a value.
Back(kind, v) == IF kind = "str" THEN Kept(v) ELSE v

Cur(p, vs) == [ok |-> TRUE, pos |-> p, vals |-> vs]

\* From p on, body has the bytes of piece, as far as it goes.
Agrees(body, p, piece) ==
  /\ body \in Seq(Nat) /\ piece \in Seq(Nat) /\ p \in Nat /\ p =< Len(body)
  /\ \A i \in 1 .. Len(piece) : p + i =< Len(body) => body[p + i] = piece[i]
\* A read of piece succeeds exactly if all of it is there.
Outcome(body, p, piece, vals) ==
  IF p + Len(piece) =< Len(body) THEN Cur(p + Len(piece), vals) ELSE Malformed

\* A piece that is there is what a reader takes.
LEMMA TakesPiece ==
  ASSUME NEW body, NEW p, NEW piece, Agrees(body, p, piece), NEW n, n = Len(piece), p + n =< Len(body)
  PROVE  SubSeq(body, p + 1, p + n) = piece
<1>1. body \in Seq(Nat) /\ piece \in Seq(Nat) /\ p \in Nat /\ n \in Nat /\ Len(body) \in Nat
  BY LenProperties DEF Agrees
<1>2. p =< p + n /\ (p + n) - p = n /\ p + n \in Nat /\ \A i \in 1 .. n : p + i =< p + n
  BY <1>1
<1>3. /\ SubSeq(body, p + 1, p + n) \in Seq(Nat) /\ Len(SubSeq(body, p + 1, p + n)) = n
      /\ \A i \in 1 .. n : SubSeq(body, p + 1, p + n)[i] = body[p + i]
  <2>1. PICK e \in Nat : e = p + n
    BY <1>2
  <2>2. p =< e /\ e =< Len(body) /\ e - p = n
    BY <1>2, <2>1
  <2>3. /\ SubSeq(body, p + 1, e) \in Seq(Nat) /\ Len(SubSeq(body, p + 1, e)) = e - p
        /\ \A i \in 1 .. e - p : SubSeq(body, p + 1, e)[i] = body[p + i]
    BY <1>1, <2>2, PartFacts
  <2> QED BY <2>1, <2>2, <2>3
<1>4. \A i \in 1 .. n : body[p + i] = piece[i]
  <2>1. TAKE i \in 1 .. n
  <2>2. p + i =< Len(body) /\ i \in 1 .. Len(piece)
    BY <1>1
  <2> QED BY <2>2 DEF Agrees
<1>5. \A i \in 1 .. Len(piece) : SubSeq(body, p + 1, p + n)[i] = piece[i]
  BY <1>3, <1>4
<1> QED BY <1>1, <1>3, <1>5, SeqEqual

\* A remainder keeps a small number, and the sign of a small signed one.
LEMMA SmallRemainders ==
  ASSUME NEW m \in Nat, m >= 2
  PROVE  /\ \A x \in 0 .. m - 1 : x % m = x
         /\ \A x \in SignedOf(m) : x % m \in 0 .. m - 1 /\ Signed(x % m, m) = x
<1>1. \A x \in 0 .. m - 1 : x % m = x
  <2>1. TAKE x \in 0 .. m - 1
  <2>2. m \in Nat \ {0} /\ 0 \in Int /\ x \in Int /\ x = m * 0 + x
    OBVIOUS
  <2> QED BY <2>2, ModUnique
<1>2. PICK h : h = m \div 2
  OBVIOUS
<1>3. h \in Nat /\ h =< m
  BY <1>2
<1>4. ASSUME NEW x \in SignedOf(m) PROVE x % m \in 0 .. m - 1 /\ Signed(x % m, m) = x
  <2>1. x \in Int /\ x >= 0 - (m - h) /\ x =< h - 1
    BY <1>2, <1>3, <1>4 DEF SignedOf
  <2>2. CASE x >= 0
    <3>1. x \in 0 .. m - 1 /\ ~(x >= h)
      BY <1>3, <2>1, <2>2
    <3>2. x % m = x
      BY <1>1, <3>1
    <3> QED BY <1>2, <3>1, <3>2 DEF Signed
  <2>3. CASE x < 0
    <3>1. PICK y \in Int : y = x + m
      BY <2>1
    <3>2. y \in 0 .. m - 1 /\ y >= h /\ y - m = x /\ -1 \in Int /\ x = m * (-1) + y /\ m \in Nat \ {0}
      BY <1>3, <2>1, <2>3, <3>1
    <3>3. x % m = y
      BY <2>1, <3>2, ModUnique
    <3> QED BY <1>2, <3>2, <3>3 DEF Signed
  <2> QED BY <2>1, <2>2, <2>3
<1> QED BY <1>1, <1>4

\* What a reader makes of the number w.
Meant(kind, w) ==
  CASE kind = "i16" -> Signed(w % U16, U16)
    [] kind = "i32" -> Signed(w % U32, U32)
    [] kind = "bool" -> w # 0
    [] OTHER -> w

\* Numbers come back as they were.
LEMMA WrittenNumbers ==
  ASSUME NEW kind \in Kinds, kind # "str", NEW v \in Values(kind)
  PROVE  /\ Written(kind, v) \in Seq(Nat) /\ Len(Written(kind, v)) = Width(kind) /\ Width(kind) \in Nat
         /\ v = Meant(kind, Number(Written(kind, v)))
<1>1. \A b \in Nat : <<b>> \in Seq(Nat) /\ Len(<<b>>) = 1 /\ Number(<<b>>) = b
  <2>1. TAKE b \in Nat
  <2>2. <<b>> \in Seq(Nat) /\ Len(<<b>>) = 1 /\ <<b>>[1] = b
    OBVIOUS
  <2> QED BY <2>2, NumberSays
<1>2. U16 \in Nat /\ U16 >= 2 /\ U32 \in Nat /\ U32 >= 2
  BY Widths
<1>3. ASSUME NEW x, x % U16 \in 0 .. U16 - 1
      PROVE put_u16(x) \in Seq(Nat) /\ Len(put_u16(x)) = 2 /\ Number(put_u16(x)) = x % U16
  BY <1>3, Widths DEF put_u16
<1>4. ASSUME NEW x, x % U32 \in 0 .. U32 - 1
      PROVE put_u32(x) \in Seq(Nat) /\ Len(put_u32(x)) = 4 /\ Number(put_u32(x)) = x % U32
  BY <1>4, Widths DEF put_u32
<1>5. CASE kind = "u8"
  <2>1. v \in Nat /\ Written(kind, v) = <<v>> /\ Width(kind) = 1 /\ Meant(kind, v) = v
    BY <1>5 DEF Values, Written, Width, Meant, put_u8
  <2> QED BY <1>1, <2>1
<1>6. CASE kind = "bool"
  <2>1. PICK b \in Nat : b = IF v THEN 1 ELSE 0
    OBVIOUS
  <2>2. v \in BOOLEAN /\ Written(kind, v) = <<b>> /\ Width(kind) = 1 /\ Meant(kind, b) = (b # 0)
    BY <1>6, <2>1 DEF Values, Written, Width, Meant, put_u8
  <2>3. v = (b # 0)
    BY <2>1, <2>2
  <2> QED BY <1>1, <2>2, <2>3
<1>7. CASE kind = "u16"
  <2>1. v \in 0 .. U16 - 1 /\ Written(kind, v) = put_u16(v) /\ Width(kind) = 2
        /\ Meant(kind, v % U16) = v % U16
    BY <1>7 DEF Values, Written, Width, Meant
  <2>2. v % U16 = v
    BY <1>2, <2>1, SmallRemainders
  <2> QED BY <1>3, <2>1, <2>2
<1>8. CASE kind = "i16"
  <2>1. v \in SignedOf(U16) /\ Written(kind, v) = put_u16(v) /\ Width(kind) = 2
        /\ Meant(kind, v % U16) = Signed((v % U16) % U16, U16)
    BY <1>8 DEF Values, Written, Width, Meant
  <2>2. v % U16 \in 0 .. U16 - 1 /\ Signed(v % U16, U16) = v
    BY <1>2, <2>1, SmallRemainders
  <2>3. (v % U16) % U16 = v % U16
    BY <1>2, <2>2, SmallRemainders
  <2> QED BY <1>3, <2>1, <2>2, <2>3
<1>9. CASE kind = "u32"
  <2>1. v \in 0 .. U32 - 1 /\ Written(kind, v) = put_u32(v) /\ Width(kind) = 4
        /\ Meant(kind, v % U32) = v % U32
    BY <1>9 DEF Values, Written, Width, Meant
  <2>2. v % U32 = v
    BY <1>2, <2>1, SmallRemainders
  <2> QED BY <1>4, <2>1, <2>2
<1>10. CASE kind = "i32"
  <2>1. v \in SignedOf(U32) /\ Written(kind, v) = put_u32(v) /\ Width(kind) = 4
        /\ Meant(kind, v % U32) = Signed((v % U32) % U32, U32)
    BY <1>10 DEF Values, Written, Width, Meant
  <2>2. v % U32 \in 0 .. U32 - 1 /\ Signed(v % U32, U32) = v
    BY <1>2, <2>1, SmallRemainders
  <2>3. (v % U32) % U32 = v % U32
    BY <1>2, <2>2, SmallRemainders
  <2> QED BY <1>4, <2>1, <2>2, <2>3
<1>11. CASE kind = "u64"
  <2>1. v \in 0 .. U64 - 1 /\ Written(kind, v) = LittleEndian(v, 8) /\ Width(kind) = 8 /\ Meant(kind, v) = v
    BY <1>11 DEF Values, Written, Width, Meant, put_u64
  <2> QED BY <2>1, Widths
<1> QED BY <1>5, <1>6, <1>7, <1>8, <1>9, <1>10, <1>11 DEF Kinds

\* A number is read back, or found missing.
LEMMA ReadsNumber ==
  ASSUME NEW kind \in Kinds, kind # "str", NEW v \in Values(kind), NEW body, NEW p, NEW vs,
         Agrees(body, p, Written(kind, v))
  PROVE  ReadNumber(body, Cur(p, vs), kind) = Outcome(body, p, Written(kind, v), Append(vs, v))
<1> DEFINE w == Written(kind, v)
           n == Width(kind)
           got == Number(SubSeq(body, p + 1, p + n))
           val == Meant(kind, got)
<1>1. w \in Seq(Nat) /\ Len(w) = n /\ n \in Nat
  BY WrittenNumbers
<1>2. v = Meant(kind, Number(w))
  BY WrittenNumbers
<1>3. ReadNumber(body, Cur(p, vs), kind) = IF n =< Len(body) - p THEN Cur(p + n, Append(vs, val)) ELSE Malformed
  BY DEF ReadNumber, Cur, Room, take, Meant
<1>4. p \in Nat /\ Len(body) \in Nat /\ Agrees(body, p, w)
  BY LenProperties DEF Agrees
<1> HIDE DEF w, n
<1>5. (n =< Len(body) - p) <=> (p + n =< Len(body))
  BY <1>1, <1>4
<1>6. p + n =< Len(body) => got = Number(w)
  BY <1>1, <1>4, TakesPiece
<1> HIDE DEF got
<1>7. p + n =< Len(body) => val = v
  BY <1>2, <1>6
<1> HIDE DEF val
<1> QED BY <1>1, <1>3, <1>5, <1>7 DEF Outcome, w

\* Of two pieces in a row, each is where it belongs.
LEMMA AgreesSplit ==
  ASSUME NEW body, NEW p, NEW a \in Seq(Nat), NEW b \in Seq(Nat), Agrees(body, p, a \o b)
  PROVE  /\ Len(a) \in Nat /\ Len(b) \in Nat /\ Len(a \o b) = Len(a) + Len(b)
         /\ p \in Nat /\ Len(body) \in Nat
         /\ Agrees(body, p, a)
         /\ p + Len(a) =< Len(body) => Agrees(body, p + Len(a), b)
<1>1. /\ Len(a) \in Nat /\ Len(b) \in Nat /\ Len(a \o b) = Len(a) + Len(b)
      /\ \A i \in 1 .. Len(a) + Len(b) : (a \o b)[i] = IF i =< Len(a) THEN a[i] ELSE b[i - Len(a)]
  BY ConcatProperties, LenProperties
<1>2. body \in Seq(Nat) /\ p \in Nat /\ p =< Len(body) /\ Len(body) \in Nat
  BY LenProperties DEF Agrees
<1>3. \A i \in 1 .. Len(a) + Len(b) : p + i =< Len(body) => body[p + i] = (a \o b)[i]
  BY <1>1 DEF Agrees
<1>4. PICK k \in Nat : k = Len(a)
  BY <1>1
<1>5. PICK m \in Nat : m = Len(b)
  BY <1>1
<1>6. \A i \in 1 .. k : p + i =< Len(body) => body[p + i] = a[i]
  <2>1. \A i \in 1 .. k : i \in 1 .. k + m /\ i =< k
    OBVIOUS
  <2> QED BY <1>1, <1>3, <1>4, <1>5, <2>1
<1>7. \A i \in 1 .. m : (p + k) + i =< Len(body) => body[(p + k) + i] = b[i]
  <2>1. TAKE i \in 1 .. m
  <2>2. k + i \in 1 .. k + m /\ ~(k + i =< k) /\ (k + i) - k = i /\ p + (k + i) = (p + k) + i
    BY <1>2
  <2>3. (a \o b)[k + i] = b[i]
    BY <1>1, <1>4, <1>5, <2>2
  <2>4. p + (k + i) =< Len(body) => body[p + (k + i)] = (a \o b)[k + i]
    BY <1>3, <1>4, <1>5, <2>2
  <2> QED BY <2>2, <2>3, <2>4
<1>8. Agrees(body, p, a)
  BY <1>2, <1>4, <1>6 DEF Agrees
<1>9. ASSUME p + Len(a) =< Len(body) PROVE Agrees(body, p + Len(a), b)
  <2>1. p + k \in Nat /\ p + k =< Len(body)
    BY <1>2, <1>4, <1>9
  <2> QED BY <1>2, <1>4, <1>5, <1>7, <2>1 DEF Agrees
<1> QED BY <1>1, <1>2, <1>8, <1>9

\* A count is two bytes, and is read back.
LEMMA WrittenCount ==
  ASSUME NEW n \in 0 .. U16 - 1
  PROVE  put_u16(n) \in Seq(Nat) /\ Len(put_u16(n)) = 2 /\ Number(put_u16(n)) = n
<1>1. U16 \in Nat /\ U16 >= 2
  BY Widths
<1>2. n % U16 = n
  BY <1>1, SmallRemainders
<1> QED BY <1>2, Widths DEF put_u16

\* Text is read back as far as it was kept, or found missing.
LEMMA ReadsStr ==
  ASSUME NEW v \in Text, NEW body, NEW p, NEW vs, Agrees(body, p, put_str(v))
  PROVE  /\ put_str(v) \in Seq(Nat)
         /\ ReadStr(body, Cur(p, vs)) = Outcome(body, p, put_str(v), Append(vs, Kept(v)))
<1>1. PICK t : t = Kept(v)
  OBVIOUS
<1>2. t \in Text /\ t \in Seq(Nat) /\ Len(t) \in 0 .. U16 - 1 /\ ValidUtf8(t) /\ put_str(v) = put_u16(Len(t)) \o t
  BY <1>1, ClipKeeps DEF Text, put_str
<1>3. PICK c : c = put_u16(Len(t))
  OBVIOUS
<1>4. c \in Seq(Nat) /\ Len(c) = 2 /\ Number(c) = Len(t)
  BY <1>2, <1>3, WrittenCount
<1>5. put_str(v) = c \o t /\ Agrees(body, p, c \o t)
  BY <1>2, <1>3
<1>6. /\ Len(t) \in Nat /\ Len(c \o t) = Len(c) + Len(t) /\ p \in Nat /\ Len(body) \in Nat
      /\ Agrees(body, p, c) /\ (p + Len(c) =< Len(body) => Agrees(body, p + Len(c), t))
  <2>1. t \in Seq(Nat) /\ c \in Seq(Nat) /\ Agrees(body, p, c \o t)
    BY <1>2, <1>4, <1>5
  <2>2. Len(t) \in Nat /\ Len(c \o t) = Len(c) + Len(t)
    BY <2>1, AgreesSplit
  <2>3. p \in Nat /\ Len(body) \in Nat
    BY <2>1, AgreesSplit
  <2>4. Agrees(body, p, c)
    BY <2>1, AgreesSplit
  <2>5. p + Len(c) =< Len(body) => Agrees(body, p + Len(c), t)
    BY <2>1, AgreesSplit
  <2> QED BY <2>2, <2>3, <2>4, <2>5
<1>7. PICK m \in Nat : m = Len(t)
  BY <1>6
<1>8. PICK e \in Nat : e = Len(body)
  BY <1>6
<1> DEFINE n == Number(SubSeq(body, p + 1, p + 2))
           s == SubSeq(body, p + 3, (p + 2) + n)
<1>9. ReadStr(body, Cur(p, vs)) =
        IF 2 =< e - p /\ 2 + n =< e - p /\ ValidUtf8(s) THEN Cur((p + 2) + n, Append(vs, s)) ELSE Malformed
  BY <1>8 DEF ReadStr, Cur, Room, take
<1>10. Outcome(body, p, put_str(v), Append(vs, t)) =
         IF p + (2 + m) =< e THEN Cur(p + (2 + m), Append(vs, t)) ELSE Malformed
  BY <1>4, <1>5, <1>6, <1>7, <1>8 DEF Outcome
<1>11. p + 2 =< e => n = m
  BY <1>4, <1>6, <1>7, <1>8, TakesPiece
<1>12. p + (2 + m) =< e /\ n = m => s = t
  <2>1. SUFFICES ASSUME p + (2 + m) =< e, n = m PROVE s = t
    OBVIOUS
  <2>2. PICK q \in Nat : q = p + 2
    BY <1>6
  <2>3. q =< e /\ q + m =< e /\ q + 1 = p + 3
    BY <1>6, <2>1, <2>2
  <2>4. Agrees(body, q, t)
    BY <1>4, <1>6, <1>8, <2>2, <2>3
  <2>5. SubSeq(body, q + 1, q + m) = t
    BY <1>7, <1>8, <2>3, <2>4, TakesPiece
  <2> QED BY <2>1, <2>2, <2>3, <2>5
<1> HIDE DEF n, s
<1>13. c \o t \in Seq(Nat)
  BY <1>2, <1>4, ConcatProperties
<1>14. CASE p + (2 + m) =< e
  <2>1. p + 2 =< e /\ 2 =< e - p /\ 2 + m =< e - p /\ (p + 2) + m = p + (2 + m)
    BY <1>6, <1>14
  <2>2. n = m /\ s = t
    BY <1>11, <1>12, <1>14, <2>1
  <2> QED BY <1>1, <1>2, <1>5, <1>9, <1>10, <1>13, <1>14, <2>1, <2>2
<1>15. CASE ~(p + (2 + m) =< e)
  <2>1. ~(2 =< e - p /\ 2 + n =< e - p)
    <3>1. CASE p + 2 =< e
      <4>1. n = m
        BY <1>11, <3>1
      <4>2. ~(2 + m =< e - p)
        BY <1>6, <1>15
      <4> QED BY <4>1, <4>2
    <3>2. CASE ~(p + 2 =< e)
      <4>1. ~(2 =< e - p)
        BY <1>6, <3>2
      <4> QED BY <4>1
    <3> QED BY <3>1, <3>2
  <2> QED BY <1>1, <1>5, <1>9, <1>10, <1>13, <1>15, <2>1
<1> QED BY <1>14, <1>15

\* What is written is bytes.
LEMMA WrittenIsBytes ==
  ASSUME NEW kind \in Kinds, NEW v \in Values(kind)
  PROVE  Written(kind, v) \in Seq(Nat) /\ Len(Written(kind, v)) \in Nat
<1>1. CASE kind # "str"
  BY <1>1, WrittenNumbers
<1>2. CASE kind = "str"
  <2>1. v \in Text /\ Written(kind, v) = put_str(v)
    BY <1>2 DEF Values, Written
  <2>2. Kept(v) \in Seq(Nat) /\ Len(Kept(v)) \in 0 .. U16 - 1 /\ put_str(v) = put_u16(Len(Kept(v))) \o Kept(v)
    BY <2>1, ClipKeeps DEF Text, put_str
  <2>3. put_u16(Len(Kept(v))) \in Seq(Nat)
    BY <2>2, WrittenCount
  <2>4. put_str(v) \in Seq(Nat)
    BY <2>2, <2>3, ConcatProperties
  <2> QED BY <2>1, <2>4, LenProperties
<1> QED BY <1>1, <1>2

\* One field of any kind is read back, or found missing.
LEMMA ReadsOne ==
  ASSUME NEW kind \in Kinds, NEW v \in Values(kind), NEW body, NEW p, NEW vs,
         Agrees(body, p, Written(kind, v))
  PROVE  ReadOne(body, Cur(p, vs), kind) = Outcome(body, p, Written(kind, v), Append(vs, Back(kind, v)))
<1>1. CASE kind # "str"
  BY <1>1, ReadsNumber DEF ReadOne, Back, Cur
<1>2. CASE kind = "str"
  <2>1. v \in Text /\ Written(kind, v) = put_str(v)
    BY <1>2 DEF Values, Written
  <2> QED BY <1>2, <2>1, ReadsStr DEF ReadOne, Back, Cur
<1> QED BY <1>1, <1>2

\* How the fields of an item, the items of a list and the fields of a body are
\* read one after another.
Flat(f, body, r, kinds) ==
  /\ \A i \in 0 .. Len(kinds) : f[i] = IF i = 0 THEN r ELSE ReadOne(body, f[i - 1], kinds[i])
  /\ ReadFlat(body, r, kinds) = f[Len(kinds)]

\* The recursion of ReadFlat has a solution.
LEMMA FlatExists ==
  ASSUME NEW body, NEW r, NEW kinds, Len(kinds) \in Nat
  PROVE  \E f : Flat(f, body, r, kinds)
<1> DEFINE n == Len(kinds)
           Solves(m, g) == g = [i \in 0 .. m |-> IF i = 0 THEN r ELSE ReadOne(body, g[i - 1], kinds[i])]
           S == {m \in 0 .. n : \E g : Solves(m, g)}
<1>1. n \in Nat
  OBVIOUS
<1>2. ReadFlat(body, r, kinds) = (CHOOSE g : Solves(n, g))[n]
  BY DEF ReadFlat
<1> HIDE DEF n
<1>3. 0 \in S
  <2> DEFINE g == [i \in 0 .. 0 |-> r]
  <2>1. Solves(0, g)
    OBVIOUS
  <2>2. 0 \in 0 .. n
    BY <1>1
  <2> HIDE DEF g, Solves
  <2> QED BY <2>1, <2>2
<1>4. ASSUME NEW m \in 0 .. n - 1, m \in S PROVE m + 1 \in S
  <2>1. PICK g : Solves(m, g)
    BY <1>4
  <2> DEFINE h == [i \in 0 .. m + 1 |-> IF i = m + 1 THEN ReadOne(body, g[m], kinds[(m + 1)]) ELSE g[i]]
  <2>2. m \in Nat /\ m + 1 \in 0 .. n
    BY <1>1
  <2>3. \A i \in 0 .. m + 1 : h[i] = IF i = 0 THEN r ELSE ReadOne(body, h[i - 1], kinds[i])
    <3>1. TAKE i \in 0 .. m + 1
    <3>2. CASE i = m + 1
      <4>1. i # 0 /\ i - 1 = m /\ m \in 0 .. m + 1 /\ m # m + 1
        BY <2>2, <3>2
      <4> QED BY <3>2, <4>1
    <3>3. CASE i # m + 1
      <4>1. i \in 0 .. m /\ (i # 0 => i - 1 \in 0 .. m + 1 /\ i - 1 # m + 1)
        BY <2>2, <3>3
      <4>2. g[i] = IF i = 0 THEN r ELSE ReadOne(body, g[i - 1], kinds[i])
        BY <2>1, <4>1
      <4> QED BY <3>3, <4>1, <4>2
    <3> QED BY <3>2, <3>3
  <2>4. Solves(m + 1, h)
    <3>1. h = [i \in 0 .. m + 1 |-> h[i]]
      OBVIOUS
    <3> HIDE DEF h
    <3> QED BY <2>3, <3>1
  <2> QED BY <2>2, <2>4
<1> HIDE DEF S
<1>5. \A i \in 0 .. n : i \in S
  BY <1>1, <1>3, <1>4, CountUp
<1>6. n \in S
  BY <1>1, <1>5
<1>7. \E g : Solves(n, g)
  BY <1>6 DEF S
<1> HIDE DEF Solves
<1>8. Solves(n, CHOOSE g : Solves(n, g))
  BY <1>7
<1>9. PICK f : f = CHOOSE g : Solves(n, g)
  OBVIOUS
<1>10. \A i \in 0 .. n : f[i] = IF i = 0 THEN r ELSE ReadOne(body, f[i - 1], kinds[i])
  BY <1>8, <1>9 DEF Solves
<1>11. ReadFlat(body, r, kinds) = f[n]
  BY <1>2, <1>9
<1>12. Flat(f, body, r, kinds)
  BY <1>10, <1>11 DEF Flat, n
<1> QED BY <1>12

Items(f, body, r, kinds, n) ==
  /\ \A i \in 0 .. n : f[i] = IF i = 0 THEN r ELSE ReadItem(body, f[i - 1], kinds)
  /\ ReadItems(body, r, kinds, n) = f[n]

\* The recursion of ReadItems has a solution.
LEMMA ItemsExist ==
  ASSUME NEW body, NEW r, NEW kinds, NEW n \in Nat
  PROVE  \E f : Items(f, body, r, kinds, n)
<1> DEFINE Solves(m, g) == g = [i \in 0 .. m |-> IF i = 0 THEN r ELSE ReadItem(body, g[i - 1], kinds)]
           S == {m \in 0 .. n : \E g : Solves(m, g)}
<1>1. n \in Nat
  OBVIOUS
<1>2. ReadItems(body, r, kinds, n) = (CHOOSE g : Solves(n, g))[n]
  BY DEF ReadItems
<1>3. 0 \in S
  <2> DEFINE g == [i \in 0 .. 0 |-> r]
  <2>1. Solves(0, g)
    OBVIOUS
  <2>2. 0 \in 0 .. n
    BY <1>1
  <2> HIDE DEF g, Solves
  <2> QED BY <2>1, <2>2
<1>4. ASSUME NEW m \in 0 .. n - 1, m \in S PROVE m + 1 \in S
  <2>1. PICK g : Solves(m, g)
    BY <1>4
  <2> DEFINE h == [i \in 0 .. m + 1 |-> IF i = m + 1 THEN ReadItem(body, g[m], kinds) ELSE g[i]]
  <2>2. m \in Nat /\ m + 1 \in 0 .. n
    BY <1>1
  <2>3. \A i \in 0 .. m + 1 : h[i] = IF i = 0 THEN r ELSE ReadItem(body, h[i - 1], kinds)
    <3>1. TAKE i \in 0 .. m + 1
    <3>2. CASE i = m + 1
      <4>1. i # 0 /\ i - 1 = m /\ m \in 0 .. m + 1 /\ m # m + 1
        BY <2>2, <3>2
      <4> QED BY <3>2, <4>1
    <3>3. CASE i # m + 1
      <4>1. i \in 0 .. m /\ (i # 0 => i - 1 \in 0 .. m + 1 /\ i - 1 # m + 1)
        BY <2>2, <3>3
      <4>2. g[i] = IF i = 0 THEN r ELSE ReadItem(body, g[i - 1], kinds)
        BY <2>1, <4>1
      <4> QED BY <3>3, <4>1, <4>2
    <3> QED BY <3>2, <3>3
  <2>4. Solves(m + 1, h)
    <3>1. h = [i \in 0 .. m + 1 |-> h[i]]
      OBVIOUS
    <3> HIDE DEF h
    <3> QED BY <2>3, <3>1
  <2> QED BY <2>2, <2>4
<1> HIDE DEF S
<1>5. \A i \in 0 .. n : i \in S
  BY <1>1, <1>3, <1>4, CountUp
<1>6. n \in S
  BY <1>1, <1>5
<1>7. \E g : Solves(n, g)
  BY <1>6 DEF S
<1> HIDE DEF Solves
<1>8. Solves(n, CHOOSE g : Solves(n, g))
  BY <1>7
<1>9. PICK f : f = CHOOSE g : Solves(n, g)
  OBVIOUS
<1>10. \A i \in 0 .. n : f[i] = IF i = 0 THEN r ELSE ReadItem(body, f[i - 1], kinds)
  BY <1>8, <1>9 DEF Solves
<1>11. ReadItems(body, r, kinds, n) = f[n]
  BY <1>2, <1>9
<1>12. Items(f, body, r, kinds, n)
  BY <1>10, <1>11 DEF Items
<1> QED BY <1>12

Fields(f, body, schema) ==
  /\ \A i \in 0 .. Len(schema) : f[i] = IF i = 0 THEN Cur(0, << >>) ELSE ReadField(body, f[i - 1], schema[i])
  /\ ReadFields(body, schema) = f[Len(schema)]

\* The recursion of ReadFields has a solution.
LEMMA FieldsExist ==
  ASSUME NEW body, NEW schema, Len(schema) \in Nat
  PROVE  \E f : Fields(f, body, schema)
<1> DEFINE n == Len(schema)
           Solves(m, g) == g = [i \in 0 .. m |-> IF i = 0 THEN Cur(0, << >>) ELSE ReadField(body, g[i - 1], schema[i])]
           S == {m \in 0 .. n : \E g : Solves(m, g)}
<1>1. n \in Nat
  OBVIOUS
<1>2. ReadFields(body, schema) = (CHOOSE g : Solves(n, g))[n]
  BY DEF ReadFields, Cur
<1> HIDE DEF n
<1>3. 0 \in S
  <2> DEFINE g == [i \in 0 .. 0 |-> Cur(0, << >>)]
  <2>1. Solves(0, g)
    OBVIOUS
  <2>2. 0 \in 0 .. n
    BY <1>1
  <2> HIDE DEF g, Solves
  <2> QED BY <2>1, <2>2
<1>4. ASSUME NEW m \in 0 .. n - 1, m \in S PROVE m + 1 \in S
  <2>1. PICK g : Solves(m, g)
    BY <1>4
  <2> DEFINE h == [i \in 0 .. m + 1 |-> IF i = m + 1 THEN ReadField(body, g[m], schema[(m + 1)]) ELSE g[i]]
  <2>2. m \in Nat /\ m + 1 \in 0 .. n
    BY <1>1
  <2>3. \A i \in 0 .. m + 1 : h[i] = IF i = 0 THEN Cur(0, << >>) ELSE ReadField(body, h[i - 1], schema[i])
    <3>1. TAKE i \in 0 .. m + 1
    <3>2. CASE i = m + 1
      <4>1. i # 0 /\ i - 1 = m /\ m \in 0 .. m + 1 /\ m # m + 1
        BY <2>2, <3>2
      <4> QED BY <3>2, <4>1
    <3>3. CASE i # m + 1
      <4>1. i \in 0 .. m /\ (i # 0 => i - 1 \in 0 .. m + 1 /\ i - 1 # m + 1)
        BY <2>2, <3>3
      <4>2. g[i] = IF i = 0 THEN Cur(0, << >>) ELSE ReadField(body, g[i - 1], schema[i])
        BY <2>1, <4>1
      <4> QED BY <3>3, <4>1, <4>2
    <3> QED BY <3>2, <3>3
  <2>4. Solves(m + 1, h)
    <3>1. h = [i \in 0 .. m + 1 |-> h[i]]
      OBVIOUS
    <3> HIDE DEF h
    <3> QED BY <2>3, <3>1
  <2> QED BY <2>2, <2>4
<1> HIDE DEF S
<1>5. \A i \in 0 .. n : i \in S
  BY <1>1, <1>3, <1>4, CountUp
<1>6. n \in S
  BY <1>1, <1>5
<1>7. \E g : Solves(n, g)
  BY <1>6 DEF S
<1> HIDE DEF Solves
<1>8. Solves(n, CHOOSE g : Solves(n, g))
  BY <1>7
<1>9. PICK f : f = CHOOSE g : Solves(n, g)
  OBVIOUS
<1>10. \A i \in 0 .. n : f[i] = IF i = 0 THEN Cur(0, << >>) ELSE ReadField(body, f[i - 1], schema[i])
  BY <1>8, <1>9 DEF Solves
<1>11. ReadFields(body, schema) = f[n]
  BY <1>2, <1>9
<1>12. Fields(f, body, schema)
  BY <1>10, <1>11 DEF Fields, n
<1> QED BY <1>12

\* A piece of a row is where the pieces before it end.
LEMMA AgreesPiece ==
  ASSUME NEW body, NEW p, NEW l \in Seq(Seq(Nat)), Agrees(body, p, Concat(l)), NEW k \in 1 .. Len(l),
         NEW o, o = Len(Joined(l)[k - 1]), p + o =< Len(body)
  PROVE  Agrees(body, p + o, l[k])
<1>1. body \in Seq(Nat) /\ p \in Nat /\ Len(body) \in Nat
  BY LenProperties DEF Agrees
<1>2. l[k] \in Seq(Nat) /\ Len(l[k]) \in Nat /\ o \in Nat
  <2>1. Len(l) \in Nat
    BY JoinedFacts
  <2>2. k - 1 \in 0 .. Len(l)
    BY <2>1
  <2> QED BY <2>2, JoinedFacts
<1>3. /\ o + Len(l[k]) =< Len(Concat(l)) /\ Len(Concat(l)) \in Nat
      /\ \A i \in 1 .. Len(l[k]) : Concat(l)[o + i] = l[k][i]
  BY JoinedPiece
<1>4. PICK m \in Nat : m = Len(l[k])
  BY <1>2
<1>5. \A i \in 1 .. m : (p + o) + i =< Len(body) => body[(p + o) + i] = l[k][i]
  <2>1. TAKE i \in 1 .. m
  <2>2. o + i \in 1 .. Len(Concat(l)) /\ p + (o + i) = (p + o) + i
    <3>1. PICK c \in Nat : c = Len(Concat(l))
      BY <1>3
    <3>2. o + m =< c /\ o \in Nat /\ p \in Nat
      BY <1>1, <1>2, <1>3, <1>4, <3>1
    <3>3. o + i \in 1 .. c /\ p + (o + i) = (p + o) + i
      BY <3>2
    <3> QED BY <3>1, <3>3
  <2>3. p + (o + i) =< Len(body) => body[p + (o + i)] = Concat(l)[o + i]
    BY <2>2 DEF Agrees
  <2>4. Concat(l)[o + i] = l[k][i]
    BY <1>3, <1>4
  <2> QED BY <2>2, <2>3, <2>4
<1>6. p + o \in Nat
  BY <1>1, <1>2
<1> QED BY <1>1, <1>2, <1>4, <1>5, <1>6 DEF Agrees

\* One reader of a row: it reads its piece, or passes on that it cannot.
ReadsPiece(body, before, after, piece, vs, ws) ==
  /\ \A q : before = Cur(q, vs) /\ Agrees(body, q, piece) => after = Outcome(body, q, piece, ws)
  /\ before = Malformed => after = Malformed

ReadsRow(body, l, f, vs) ==
  \A i \in 1 .. Len(l) : ReadsPiece(body, f[i - 1], f[i], l[i], vs[i - 1], vs[i])

\* Readers one after another read pieces one after another.
LEMMA InARow ==
  ASSUME NEW body, NEW p, NEW l \in Seq(Seq(Nat)), Agrees(body, p, Concat(l)), NEW f, NEW vs,
         f[0] = Cur(p, vs[0]), ReadsRow(body, l, f, vs)
  PROVE  f[Len(l)] = Outcome(body, p, Concat(l), vs[Len(l)])
<1> DEFINE n == Len(l)
           o(i) == Len(Joined(l)[i])
           S == {i \in 0 .. n : f[i] = IF p + o(i) =< Len(body) THEN Cur(p + o(i), vs[i]) ELSE Malformed}
<1>1. n \in Nat /\ o(0) = 0 /\ \A i \in 0 .. n : o(i) \in Nat
  BY JoinedFacts
<1>2. \A i \in 1 .. n : o(i) = o(i - 1) + Len(l[i]) /\ Len(l[i]) \in Nat
  BY JoinedFacts
<1>3. p \in Nat /\ Len(body) \in Nat /\ p =< Len(body)
  BY LenProperties DEF Agrees
<1>4. 0 \in S
  <2>1. p + 0 = p /\ 0 \in 0 .. n
    BY <1>1, <1>3
  <2> QED BY <1>1, <1>3, <2>1
<1>5. ASSUME NEW j \in 0 .. n - 1, j \in S PROVE j + 1 \in S
  <2>1. PICK k : k = j + 1
    OBVIOUS
  <2>2. k \in 1 .. n /\ k \in 0 .. n /\ k - 1 = j /\ j \in 0 .. n
    BY <1>1, <2>1
  <2>3. PICK a \in Nat : a = o(j)
    BY <1>1, <2>2
  <2>4. PICK w \in Nat : w = Len(l[k])
    BY <1>2, <2>2
  <2>5. o(k) = a + w
    BY <1>2, <2>2, <2>3, <2>4
  <2>6. f[j] = IF p + a =< Len(body) THEN Cur(p + a, vs[j]) ELSE Malformed
    BY <1>5, <2>3
  <2>7. ReadsPiece(body, f[j], f[k], l[k], vs[j], vs[k])
    BY <2>2 DEF ReadsRow
  <2>8. f[k] = IF p + (a + w) =< Len(body) THEN Cur(p + (a + w), vs[k]) ELSE Malformed
    <3>1. CASE p + a =< Len(body)
      <4>1. Agrees(body, p + a, l[k])
        BY <2>2, <2>3, <3>1, AgreesPiece
      <4>2. f[k] = Outcome(body, p + a, l[k], vs[k])
        BY <2>6, <2>7, <3>1, <4>1 DEF ReadsPiece
      <4>3. (p + a) + w = p + (a + w)
        BY <1>3
      <4> QED BY <2>4, <4>2, <4>3 DEF Outcome
    <3>2. CASE ~(p + a =< Len(body))
      <4>1. f[k] = Malformed
        BY <2>6, <2>7, <3>2 DEF ReadsPiece
      <4>2. ~(p + (a + w) =< Len(body))
        BY <1>3, <3>2
      <4> QED BY <4>1, <4>2
    <3> QED BY <3>1, <3>2
  <2>9. k \in S
    BY <2>2, <2>5, <2>8
  <2> QED BY <2>1, <2>9
<1> HIDE DEF S
<1>6. n \in S
  <2>1. \A i \in 0 .. n : i \in S
    BY <1>1, <1>4, <1>5, CountUp
  <2>2. n \in 0 .. n
    BY <1>1
  <2> QED BY <2>1, <2>2
<1>7. Concat(l) = Joined(l)[n]
  BY DEF Concat
<1> QED BY <1>6, <1>7 DEF S, Outcome

\* What is gathered grows by one.
LEMMA Gathers ==
  ASSUME NEW g, NEW n \in Nat
  PROVE  /\ [j \in 1 .. 0 |-> g[j]] = << >>
         /\ \A i \in 1 .. n : Append([j \in 1 .. i - 1 |-> g[j]], g[i]) = [j \in 1 .. i |-> g[j]]
<1>1. [j \in 1 .. 0 |-> g[j]] = << >>
  OBVIOUS
<1>2. ASSUME NEW i \in 1 .. n PROVE Append([j \in 1 .. i - 1 |-> g[j]], g[i]) = [j \in 1 .. i |-> g[j]]
  <2> DEFINE T == {g[j] : j \in 1 .. i}
             a == [j \in 1 .. i - 1 |-> g[j]]
             b == [j \in 1 .. i |-> g[j]]
  <2>1. i - 1 \in Nat /\ (i - 1) + 1 = i /\ 1 .. i - 1 \subseteq 1 .. i /\ i \in 1 .. i /\ i \in Nat
    OBVIOUS
  <2>2. a \in Seq(T) /\ Len(a) = i - 1
    BY <2>1
  <2>3. b \in Seq(T) /\ Len(b) = i
    BY <2>1
  <2>4. \A j \in 1 .. i : Append(a, g[i])[j] = b[j]
    BY <2>1, <2>2
  <2>5. Append(a, g[i]) \in Seq(T) /\ Len(Append(a, g[i])) = i
    BY <2>1, <2>2, AppendProperties
  <2> QED BY <2>3, <2>4, <2>5, SeqEqual
<1> QED BY <1>1, <1>2

\* An item of a list: its fields, the bytes they make, and what comes back.
IsItem(kinds, x) == x = [j \in 1 .. Len(kinds) |-> x[j]] /\ \A j \in 1 .. Len(kinds) : x[j] \in Values(kinds[j])
ItemPieces(kinds, x) == [j \in 1 .. Len(kinds) |-> Written(kinds[j], x[j])]
ItemBytes(kinds, x) == Concat(ItemPieces(kinds, x))
ItemBack(kinds, x) == [j \in 1 .. Len(kinds) |-> Back(kinds[j], x[j])]

\* The bytes of an item are bytes.
LEMMA ItemIsBytes ==
  ASSUME NEW kinds \in Seq(Kinds), NEW x, IsItem(kinds, x)
  PROVE  /\ ItemPieces(kinds, x) \in Seq(Seq(Nat)) /\ Len(ItemPieces(kinds, x)) = Len(kinds)
         /\ ItemBytes(kinds, x) \in Seq(Nat) /\ Len(ItemBytes(kinds, x)) \in Nat
<1>1. Len(kinds) \in Nat /\ \A j \in 1 .. Len(kinds) : kinds[j] \in Kinds
  BY LenProperties
<1>2. \A j \in 1 .. Len(kinds) : Written(kinds[j], x[j]) \in Seq(Nat)
  BY <1>1, WrittenIsBytes DEF IsItem
<1>3. ItemPieces(kinds, x) \in Seq(Seq(Nat)) /\ Len(ItemPieces(kinds, x)) = Len(kinds)
  <2>1. PICK n \in Nat : n = Len(kinds)
    BY <1>1
  <2>2. [j \in 1 .. n |-> Written(kinds[j], x[j])] \in Seq(Seq(Nat))
        /\ Len([j \in 1 .. n |-> Written(kinds[j], x[j])]) = n
    BY <1>2, <2>1
  <2> QED BY <2>1, <2>2 DEF ItemPieces
<1>4. ItemBytes(kinds, x) \in Seq(Nat)
  <2>1. PICK l \in Seq(Seq(Nat)) : l = ItemPieces(kinds, x)
    BY <1>3
  <2>2. Len(l) \in Nat
    BY LenProperties
  <2>3. Len(l) \in 0 .. Len(l)
    BY <2>2
  <2>4. Joined(l)[Len(l)] \in Seq(Nat)
    BY <2>3, JoinedFacts
  <2> QED BY <2>1, <2>4 DEF ItemBytes, Concat
<1> QED BY <1>3, <1>4, LenProperties

\* The fields of an item are read back, or one is found missing.
LEMMA ReadsFlat ==
  ASSUME NEW kinds \in Seq(Kinds), NEW x, IsItem(kinds, x), NEW body, NEW p,
         Agrees(body, p, ItemBytes(kinds, x))
  PROVE  ReadFlat(body, Cur(p, << >>), kinds) = Outcome(body, p, ItemBytes(kinds, x), ItemBack(kinds, x))
<1>1. PICK n \in Nat : n = Len(kinds)
  BY LenProperties
<1>2. \A j \in 1 .. n : kinds[j] \in Kinds /\ x[j] \in Values(kinds[j])
  BY <1>1 DEF IsItem
<1>3. PICK l : l = ItemPieces(kinds, x)
  OBVIOUS
<1>4. l \in Seq(Seq(Nat)) /\ Len(l) = n /\ \A j \in 1 .. n : l[j] = Written(kinds[j], x[j])
  BY <1>1, <1>3, ItemIsBytes DEF ItemPieces
<1>5. PICK f : Flat(f, body, Cur(p, << >>), kinds)
  BY <1>1, FlatExists
<1>6. PICK g : g = [j \in 1 .. n |-> Back(kinds[j], x[j])]
  OBVIOUS
<1>7. PICK vs : vs = [i \in 0 .. n |-> [j \in 1 .. i |-> g[j]]]
  OBVIOUS
<1>8. vs[0] = << >> /\ \A i \in 1 .. n : Append(vs[i - 1], g[i]) = vs[i]
  <2>1. 0 \in 0 .. n /\ \A i \in 1 .. n : i \in 0 .. n /\ i - 1 \in 0 .. n
    OBVIOUS
  <2>2. vs[0] = [j \in 1 .. 0 |-> g[j]]
    BY <1>7, <2>1
  <2>3. \A i \in 1 .. n : vs[i - 1] = [j \in 1 .. i - 1 |-> g[j]] /\ vs[i] = [j \in 1 .. i |-> g[j]]
    BY <1>7, <2>1
  <2>4. vs[0] = << >>
    BY <2>2, Gathers
  <2>5. \A i \in 1 .. n : Append([j \in 1 .. i - 1 |-> g[j]], g[i]) = [j \in 1 .. i |-> g[j]]
    BY Gathers
  <2> QED BY <2>3, <2>4, <2>5
<1>9. f[0] = Cur(p, vs[0]) /\ \A i \in 1 .. n : f[i] = ReadOne(body, f[i - 1], kinds[i])
  BY <1>1, <1>5, <1>8 DEF Flat
<1>10. \A i \in 1 .. n : ReadsPiece(body, f[i - 1], f[i], l[i], vs[i - 1], vs[i])
  <2>1. TAKE i \in 1 .. n
  <2>2. PICK k \in Kinds : k = kinds[i]
    BY <1>2
  <2>3. PICK v \in Values(k) : v = x[i]
    BY <1>2, <2>2
  <2>4. l[i] = Written(k, v) /\ g[i] = Back(k, v) /\ f[i] = ReadOne(body, f[i - 1], k)
    BY <1>4, <1>6, <1>9, <2>2, <2>3
  <2>5. ASSUME NEW q, f[i - 1] = Cur(q, vs[i - 1]), Agrees(body, q, l[i])
        PROVE  f[i] = Outcome(body, q, l[i], vs[i])
    <3>1. ReadOne(body, Cur(q, vs[i - 1]), k) = Outcome(body, q, Written(k, v), Append(vs[i - 1], Back(k, v)))
      BY <2>4, <2>5, ReadsOne
    <3>2. Append(vs[i - 1], Back(k, v)) = vs[i]
      BY <1>8, <2>4
    <3> QED BY <2>4, <2>5, <3>1, <3>2
  <2>6. ReadOne(body, Malformed, k) = Malformed
    BY DEF ReadOne, Malformed
  <2> QED BY <2>4, <2>5, <2>6 DEF ReadsPiece
<1>11. Agrees(body, p, Concat(l))
  BY <1>3 DEF ItemBytes
<1>12. f[Len(l)] = Outcome(body, p, Concat(l), vs[Len(l)])
  <2>1. ReadsRow(body, l, f, vs)
    BY <1>4, <1>10 DEF ReadsRow
  <2> QED BY <1>4, <1>9, <1>11, <2>1, InARow
<1>13. vs[n] = ItemBack(kinds, x)
  <2>1. n \in 0 .. n
    OBVIOUS
  <2>2. vs[n] = [j \in 1 .. n |-> g[j]]
    BY <1>7, <2>1
  <2> QED BY <1>1, <1>6, <2>2 DEF ItemBack
<1>14. ReadFlat(body, Cur(p, << >>), kinds) = f[n]
  BY <1>1, <1>5 DEF Flat
<1> QED BY <1>3, <1>4, <1>12, <1>13, <1>14 DEF ItemBytes

\* What becomes of a reader whose values are replaced.
LEMMA CurVals ==
  ASSUME NEW p, NEW vs, NEW e
  PROVE  [Cur(p, vs) EXCEPT !.vals = e] = Cur(p, e) /\ Cur(p, vs).ok /\ Cur(p, vs).vals = vs
<1>1. Cur(p, vs) \in [ok : BOOLEAN, pos : {p}, vals : {vs, e}]
  BY DEF Cur
<1>2. [Cur(p, vs) EXCEPT !.vals = e] \in [ok : BOOLEAN, pos : {p}, vals : {vs, e}]
  BY <1>1
<1>3. PICK r \in [ok : BOOLEAN, pos : {p}, vals : {vs, e}] : r = [Cur(p, vs) EXCEPT !.vals = e]
  BY <1>2
<1>4. r.ok = TRUE /\ r.pos = p /\ r.vals = e
  BY <1>3 DEF Cur
<1>5. r = [ok |-> TRUE, pos |-> p, vals |-> e]
  BY <1>4
<1>6. Cur(p, vs).ok /\ Cur(p, vs).vals = vs
  BY DEF Cur
<1> QED BY <1>3, <1>5, <1>6 DEF Cur

\* So is an item.
LEMMA ReadsItem ==
  ASSUME NEW kinds \in Seq(Kinds), NEW x, IsItem(kinds, x), NEW body
  PROVE  /\ \A p, vs : Agrees(body, p, ItemBytes(kinds, x)) =>
               ReadItem(body, Cur(p, vs), kinds) = Outcome(body, p, ItemBytes(kinds, x), Append(vs, ItemBack(kinds, x)))
         /\ ReadItem(body, Malformed, kinds) = Malformed
<1>1. ReadItem(body, Malformed, kinds) = Malformed
  BY DEF ReadItem, Malformed
<1>2. ASSUME NEW p, NEW vs, Agrees(body, p, ItemBytes(kinds, x))
      PROVE  ReadItem(body, Cur(p, vs), kinds) = Outcome(body, p, ItemBytes(kinds, x), Append(vs, ItemBack(kinds, x)))
  <2>1. PICK item : item = ReadFlat(body, Cur(p, << >>), kinds)
    OBVIOUS
  <2>2. [Cur(p, vs) EXCEPT !.vals = << >>] = Cur(p, << >>) /\ Cur(p, vs).ok /\ Cur(p, vs).vals = vs
    BY CurVals
  <2>3. ReadItem(body, Cur(p, vs), kinds) = IF item.ok THEN [item EXCEPT !.vals = Append(vs, item.vals)] ELSE Malformed
    BY <2>1, <2>2 DEF ReadItem
  <2>4. item = Outcome(body, p, ItemBytes(kinds, x), ItemBack(kinds, x))
    BY <1>2, <2>1, ReadsFlat
  <2>5. CASE p + Len(ItemBytes(kinds, x)) =< Len(body)
    <3>1. PICK z : z = p + Len(ItemBytes(kinds, x))
      OBVIOUS
    <3>2. PICK a : a = ItemBack(kinds, x)
      OBVIOUS
    <3>3. PICK w : w = Append(vs, a)
      OBVIOUS
    <3>4. item = Cur(z, a)
      BY <2>4, <2>5, <3>1, <3>2 DEF Outcome
    <3>5. [Cur(z, a) EXCEPT !.vals = w] = Cur(z, w) /\ Cur(z, a).ok /\ Cur(z, a).vals = a
      BY CurVals
    <3>6. ReadItem(body, Cur(p, vs), kinds) = [item EXCEPT !.vals = w]
      BY <2>3, <3>3, <3>4, <3>5
    <3>7. ReadItem(body, Cur(p, vs), kinds) = Cur(z, w)
      BY <3>4, <3>5, <3>6
    <3> QED BY <2>5, <3>1, <3>2, <3>3, <3>7 DEF Outcome
  <2>6. CASE ~(p + Len(ItemBytes(kinds, x)) =< Len(body))
    BY <2>3, <2>4, <2>6 DEF Outcome, Malformed
  <2> QED BY <2>5, <2>6
<1> QED BY <1>1, <1>2

\* A list: its items, the bytes they make, and what comes back.
IsList(kinds, xs) ==
  Len(xs) \in Nat /\ xs = [i \in 1 .. Len(xs) |-> xs[i]] /\ \A i \in 1 .. Len(xs) : IsItem(kinds, xs[i])
ListPieces(kinds, xs) == [i \in 1 .. count(Len(xs)) |-> ItemBytes(kinds, xs[i])]
ListBytes(kinds, xs) == put_count(Len(xs)) \o Concat(ListPieces(kinds, xs))
ListBack(kinds, xs) == [i \in 1 .. count(Len(xs)) |-> ItemBack(kinds, xs[i])]

\* Where sequences of bytes in a row are bytes.
LEMMA ConcatIsBytes ==
  ASSUME NEW l \in Seq(Seq(Nat))
  PROVE  Concat(l) \in Seq(Nat) /\ Len(Concat(l)) \in Nat
<1>1. Len(l) \in Nat
  BY LenProperties
<1>2. Len(l) \in 0 .. Len(l)
  BY <1>1
<1>3. Joined(l)[Len(l)] \in Seq(Nat)
  BY <1>2, JoinedFacts
<1> QED BY <1>3, LenProperties DEF Concat

\* The bytes of a list are bytes.
LEMMA ListIsBytes ==
  ASSUME NEW kinds \in Seq(Kinds), NEW xs, IsList(kinds, xs)
  PROVE  /\ count(Len(xs)) \in 0 .. U16 - 1 /\ count(Len(xs)) =< Len(xs)
         /\ put_count(Len(xs)) \in Seq(Nat) /\ Len(put_count(Len(xs))) = 2
         /\ Number(put_count(Len(xs))) = count(Len(xs))
         /\ ListPieces(kinds, xs) \in Seq(Seq(Nat)) /\ Len(ListPieces(kinds, xs)) = count(Len(xs))
         /\ ListBytes(kinds, xs) \in Seq(Nat) /\ Len(ListBytes(kinds, xs)) \in Nat
<1>1. PICK m \in Nat : m = Len(xs)
  BY DEF IsList
<1>2. U16 \in Nat /\ U16 >= 4
  BY Widths
<1>3. PICK n : n = count(m)
  OBVIOUS
<1>4. n \in 0 .. U16 - 1 /\ n =< m /\ n \in Nat
  BY <1>2, <1>3 DEF count, MAX_LIST
<1>5. PICK c : c = put_count(m)
  OBVIOUS
<1>6. c \in Seq(Nat) /\ Len(c) = 2 /\ Number(c) = n
  BY <1>3, <1>4, <1>5, WrittenCount DEF put_count
<1>7. \A i \in 1 .. n : ItemBytes(kinds, xs[i]) \in Seq(Nat)
  <2>1. \A i \in 1 .. n : i \in 1 .. m
    BY <1>4
  <2> QED BY <1>1, <2>1, ItemIsBytes DEF IsList
<1>8. PICK l : l = ListPieces(kinds, xs)
  OBVIOUS
<1>9. l \in Seq(Seq(Nat)) /\ Len(l) = n
  <2>1. l = [i \in 1 .. n |-> ItemBytes(kinds, xs[i])]
    BY <1>1, <1>3, <1>8 DEF ListPieces
  <2> QED BY <1>4, <1>7, <2>1
<1>10. c \o Concat(l) \in Seq(Nat)
  BY <1>6, <1>9, ConcatIsBytes, ConcatProperties
<1>11. ListBytes(kinds, xs) = c \o Concat(l)
  BY <1>1, <1>5, <1>8 DEF ListBytes
<1> QED BY <1>1, <1>3, <1>4, <1>5, <1>6, <1>8, <1>9, <1>10, <1>11, LenProperties

\* l holds the bytes of the first n items of xs.
ItemsAre(l, kinds, xs, n) ==
  /\ l \in Seq(Seq(Nat)) /\ Len(l) = n
  /\ \A i \in 1 .. n : IsItem(kinds, xs[i]) /\ l[i] = ItemBytes(kinds, xs[i])

\* The items of a list are read back, or one is found missing.
LEMMA ReadsItems ==
  ASSUME NEW kinds \in Seq(Kinds), NEW xs, NEW n \in Nat, NEW l, ItemsAre(l, kinds, xs, n),
         NEW body, NEW p, Agrees(body, p, Concat(l))
  PROVE  ReadItems(body, Cur(p, << >>), kinds, n)
           = Outcome(body, p, Concat(l), [i \in 1 .. n |-> ItemBack(kinds, xs[i])])
<1>0. l \in Seq(Seq(Nat)) /\ Len(l) = n /\ \A i \in 1 .. n : IsItem(kinds, xs[i]) /\ l[i] = ItemBytes(kinds, xs[i])
  BY DEF ItemsAre
<1>1. PICK f : Items(f, body, Cur(p, << >>), kinds, n)
  BY ItemsExist
<1>2. PICK g : g = [j \in 1 .. n |-> ItemBack(kinds, xs[j])]
  OBVIOUS
<1>3. PICK vs : vs = [i \in 0 .. n |-> [j \in 1 .. i |-> g[j]]]
  OBVIOUS
<1>4. vs[0] = << >> /\ \A i \in 1 .. n : Append(vs[i - 1], g[i]) = vs[i]
  <2>1. 0 \in 0 .. n /\ \A i \in 1 .. n : i \in 0 .. n /\ i - 1 \in 0 .. n
    OBVIOUS
  <2>2. vs[0] = [j \in 1 .. 0 |-> g[j]]
    BY <1>3, <2>1
  <2>3. \A i \in 1 .. n : vs[i - 1] = [j \in 1 .. i - 1 |-> g[j]] /\ vs[i] = [j \in 1 .. i |-> g[j]]
    BY <1>3, <2>1
  <2>4. vs[0] = << >>
    BY <2>2, Gathers
  <2>5. \A i \in 1 .. n : Append([j \in 1 .. i - 1 |-> g[j]], g[i]) = [j \in 1 .. i |-> g[j]]
    BY Gathers
  <2> QED BY <2>3, <2>4, <2>5
<1>5. f[0] = Cur(p, vs[0]) /\ \A i \in 1 .. n : f[i] = ReadItem(body, f[i - 1], kinds)
  BY <1>1, <1>4 DEF Items
<1>6. \A i \in 1 .. n : ReadsPiece(body, f[i - 1], f[i], l[i], vs[i - 1], vs[i])
  <2>1. TAKE i \in 1 .. n
  <2>2. PICK x : x = xs[i]
    OBVIOUS
  <2>3. IsItem(kinds, x) /\ l[i] = ItemBytes(kinds, x) /\ g[i] = ItemBack(kinds, x)
        /\ f[i] = ReadItem(body, f[i - 1], kinds)
    BY <1>0, <1>2, <1>5, <2>2
  <2>4. ASSUME NEW q, f[i - 1] = Cur(q, vs[i - 1]), Agrees(body, q, l[i])
        PROVE  f[i] = Outcome(body, q, l[i], vs[i])
    <3>1. ReadItem(body, Cur(q, vs[i - 1]), kinds)
            = Outcome(body, q, ItemBytes(kinds, x), Append(vs[i - 1], ItemBack(kinds, x)))
      <4>1. Agrees(body, q, ItemBytes(kinds, x))
        BY <2>3, <2>4
      <4>2. PICK us : us = vs[i - 1]
        OBVIOUS
      <4>3. ReadItem(body, Cur(q, us), kinds) = Outcome(body, q, ItemBytes(kinds, x), Append(us, ItemBack(kinds, x)))
        BY <2>3, <4>1, ReadsItem
      <4> QED BY <4>2, <4>3
    <3>2. Append(vs[i - 1], ItemBack(kinds, x)) = vs[i]
      BY <1>4, <2>3
    <3> QED BY <2>3, <2>4, <3>1, <3>2
  <2>5. ReadItem(body, Malformed, kinds) = Malformed
    BY <2>3, ReadsItem
  <2> QED BY <2>3, <2>4, <2>5 DEF ReadsPiece
<1>7. f[Len(l)] = Outcome(body, p, Concat(l), vs[Len(l)])
  <2>1. f[0] = Cur(p, vs[0])
    BY <1>5
  <2>2. ReadsRow(body, l, f, vs)
    BY <1>0, <1>6 DEF ReadsRow
  <2> QED BY <1>0, <2>1, <2>2, InARow
<1>8. vs[n] = g
  <2>1. n \in 0 .. n
    OBVIOUS
  <2>2. vs[n] = [j \in 1 .. n |-> g[j]]
    BY <1>3, <2>1
  <2> QED BY <1>2, <2>2
<1>9. ReadItems(body, Cur(p, << >>), kinds, n) = f[n]
  BY <1>1 DEF Items
<1> QED BY <1>0, <1>2, <1>7, <1>8, <1>9

\* A list is read back as far as it was counted, or something is missing.
LEMMA ReadsList ==
  ASSUME NEW kinds \in Seq(Kinds), NEW xs, IsList(kinds, xs), NEW body, NEW p, NEW vs,
         Agrees(body, p, ListBytes(kinds, xs))
  PROVE  ReadList(body, Cur(p, vs), kinds) = Outcome(body, p, ListBytes(kinds, xs), Append(vs, ListBack(kinds, xs)))
<1>1. PICK n : n = count(Len(xs))
  OBVIOUS
<1>2. PICK c : c = put_count(Len(xs))
  OBVIOUS
<1>3. PICK l : l = ListPieces(kinds, xs)
  OBVIOUS
<1>4. /\ n \in Nat /\ n =< Len(xs) /\ Len(xs) \in Nat
      /\ c \in Seq(Nat) /\ Len(c) = 2 /\ Number(c) = n /\ l \in Seq(Seq(Nat)) /\ Len(l) = n
  BY <1>1, <1>2, <1>3, ListIsBytes DEF IsList
<1>5. PICK t : t = Concat(l)
  OBVIOUS
<1>6. t \in Seq(Nat) /\ ListBytes(kinds, xs) = c \o t
  BY <1>2, <1>3, <1>4, <1>5, ConcatIsBytes DEF ListBytes
<1>7. \A i \in 1 .. n : IsItem(kinds, xs[i]) /\ l[i] = ItemBytes(kinds, xs[i])
  <2>1. \A i \in 1 .. n : i \in 1 .. Len(xs)
    BY <1>4
  <2> QED BY <1>1, <1>3, <2>1 DEF IsList, ListPieces
<1>8. Agrees(body, p, c \o t)
  BY <1>6
<1>9. Len(t) \in Nat /\ Len(c \o t) = Len(c) + Len(t)
  BY <1>4, <1>6, LenProperties, ConcatProperties
<1>10. p \in Nat /\ Len(body) \in Nat /\ Agrees(body, p, c)
  BY <1>4, <1>6, <1>8, AgreesSplit
<1>11. p + Len(c) =< Len(body) => Agrees(body, p + Len(c), t)
  BY <1>4, <1>6, <1>8, AgreesSplit
<1>12. PICK m \in Nat : m = Len(t)
  BY <1>9
<1>13. PICK e \in Nat : e = Len(body)
  BY <1>10
<1> DEFINE got == Number(SubSeq(body, p + 1, p + 2))
           end == ReadItems(body, Cur(p + 2, << >>), kinds, got)
<1>14. ReadList(body, Cur(p, vs), kinds) =
         IF 2 =< e - p /\ end.ok THEN [end EXCEPT !.vals = Append(vs, end.vals)] ELSE Malformed
  BY <1>13 DEF ReadList, Cur, Room, take
<1>15. \A w : Outcome(body, p, c \o t, w) = IF p + (2 + m) =< e THEN Cur(p + (2 + m), w) ELSE Malformed
  BY <1>4, <1>9, <1>12, <1>13 DEF Outcome
<1>16. p + 2 =< e => got = n
  BY <1>4, <1>10, <1>13, TakesPiece
<1> HIDE DEF got
<1>17. p + 2 =< e => end = Outcome(body, p + 2, t, ListBack(kinds, xs))
  <2>1. SUFFICES ASSUME p + 2 =< e PROVE end = Outcome(body, p + 2, t, ListBack(kinds, xs))
    OBVIOUS
  <2>2. Agrees(body, p + 2, Concat(l))
    BY <1>4, <1>5, <1>11, <1>13, <2>1
  <2>3. ReadItems(body, Cur(p + 2, << >>), kinds, n)
          = Outcome(body, p + 2, Concat(l), [i \in 1 .. n |-> ItemBack(kinds, xs[i])])
    <3>1. ItemsAre(l, kinds, xs, n)
      BY <1>4, <1>7 DEF ItemsAre
    <3>3. PICK q : q = p + 2
      OBVIOUS
    <3>4. ReadItems(body, Cur(q, << >>), kinds, n)
            = Outcome(body, q, Concat(l), [i \in 1 .. n |-> ItemBack(kinds, xs[i])])
      BY <1>4, <2>2, <3>1, <3>3, ReadsItems
    <3> QED BY <3>3, <3>4
  <2> QED BY <1>1, <1>5, <1>16, <2>1, <2>3 DEF ListBack
<1> HIDE DEF end
<1>18. p + 2 =< e => end = IF p + (2 + m) =< e THEN Cur(p + (2 + m), ListBack(kinds, xs)) ELSE Malformed
  <2>1. (p + 2) + m = p + (2 + m)
    BY <1>10
  <2> QED BY <1>12, <1>13, <1>17, <2>1 DEF Outcome
<1>19. CASE p + (2 + m) =< e
  <2>1. p + 2 =< e /\ 2 =< e - p
    BY <1>10, <1>19
  <2>2. end = Cur(p + (2 + m), ListBack(kinds, xs))
    BY <1>18, <1>19, <2>1
  <2>3. end.ok /\ end.vals = ListBack(kinds, xs)
        /\ [end EXCEPT !.vals = Append(vs, ListBack(kinds, xs))] = Cur(p + (2 + m), Append(vs, ListBack(kinds, xs)))
    <3>1. PICK z : z = p + (2 + m)
      OBVIOUS
    <3>2. PICK a : a = ListBack(kinds, xs)
      OBVIOUS
    <3>3. PICK w : w = Append(vs, a)
      OBVIOUS
    <3>4. [Cur(z, a) EXCEPT !.vals = w] = Cur(z, w) /\ Cur(z, a).ok /\ Cur(z, a).vals = a
      BY CurVals
    <3> QED BY <2>2, <3>1, <3>2, <3>3, <3>4
  <2> QED BY <1>6, <1>14, <1>15, <1>19, <2>1, <2>3
<1>20. CASE ~(p + (2 + m) =< e)
  <2>1. CASE p + 2 =< e
    <3>1. ~end.ok
      BY <1>18, <1>20, <2>1 DEF Malformed
    <3> QED BY <1>6, <1>14, <1>15, <1>20, <3>1
  <2>2. CASE ~(p + 2 =< e)
    <3>1. ~(2 =< e - p)
      BY <1>10, <2>2
    <3> QED BY <1>6, <1>14, <1>15, <1>20, <3>1
  <2> QED BY <2>1, <2>2
<1> QED BY <1>19, <1>20

\* A field of a body: what may stand in it, its bytes, and what comes back.
Fills(field, v) ==
  \/ field[1] = "one" /\ field[2] \in Kinds /\ v \in Values(field[2])
  \/ field[1] = "list" /\ field[2] \in Seq(Kinds) /\ IsList(field[2], v)
FieldBytes(field, v) == IF field[1] = "list" THEN ListBytes(field[2], v) ELSE Written(field[2], v)
FieldBack(field, v) == IF field[1] = "list" THEN ListBack(field[2], v) ELSE Back(field[2], v)

\* A field is read back, or something of it is missing.
LEMMA ReadsField ==
  ASSUME NEW field, NEW v, Fills(field, v)
  PROVE  /\ FieldBytes(field, v) \in Seq(Nat)
         /\ \A body, p, vs : Agrees(body, p, FieldBytes(field, v)) =>
               ReadField(body, Cur(p, vs), field) = Outcome(body, p, FieldBytes(field, v), Append(vs, FieldBack(field, v)))
         /\ \A body : ReadField(body, Malformed, field) = Malformed
<1>1. \A body : ReadField(body, Malformed, field) = Malformed
  BY DEF ReadField, Malformed
<1>2. CASE field[1] = "one" /\ field[2] \in Kinds /\ v \in Values(field[2])
  <2>1. PICK k \in Kinds : k = field[2]
    BY <1>2
  <2>2. v \in Values(k) /\ FieldBytes(field, v) = Written(k, v) /\ FieldBack(field, v) = Back(k, v)
    BY <1>2, <2>1 DEF FieldBytes, FieldBack
  <2>3. \A body, p, vs : ReadField(body, Cur(p, vs), field) = ReadOne(body, Cur(p, vs), k)
    BY <1>2, <2>1 DEF ReadField, Cur
  <2>4. ASSUME NEW body, NEW p, NEW vs, Agrees(body, p, FieldBytes(field, v))
        PROVE  ReadField(body, Cur(p, vs), field) = Outcome(body, p, FieldBytes(field, v), Append(vs, FieldBack(field, v)))
    <3>1. Agrees(body, p, Written(k, v))
      BY <2>2, <2>4
    <3>2. ReadOne(body, Cur(p, vs), k) = Outcome(body, p, Written(k, v), Append(vs, Back(k, v)))
      BY <2>2, <3>1, ReadsOne
    <3> QED BY <2>2, <2>3, <3>2
  <2>5. FieldBytes(field, v) \in Seq(Nat)
    BY <2>2, WrittenIsBytes
  <2> QED BY <1>1, <2>4, <2>5
<1>3. CASE field[1] = "list" /\ field[2] \in Seq(Kinds) /\ IsList(field[2], v)
  <2>1. PICK ks \in Seq(Kinds) : ks = field[2]
    BY <1>3
  <2>2. IsList(ks, v) /\ FieldBytes(field, v) = ListBytes(ks, v) /\ FieldBack(field, v) = ListBack(ks, v)
    BY <1>3, <2>1 DEF FieldBytes, FieldBack
  <2>3. \A body, p, vs : ReadField(body, Cur(p, vs), field) = ReadList(body, Cur(p, vs), ks)
    BY <1>3, <2>1 DEF ReadField, Cur
  <2>4. ASSUME NEW body, NEW p, NEW vs, Agrees(body, p, FieldBytes(field, v))
        PROVE  ReadField(body, Cur(p, vs), field) = Outcome(body, p, FieldBytes(field, v), Append(vs, FieldBack(field, v)))
    <3>1. Agrees(body, p, ListBytes(ks, v))
      BY <2>2, <2>4
    <3>2. ReadList(body, Cur(p, vs), ks) = Outcome(body, p, ListBytes(ks, v), Append(vs, ListBack(ks, v)))
      BY <2>2, <3>1, ReadsList
    <3> QED BY <2>2, <2>3, <3>2
  <2>5. FieldBytes(field, v) \in Seq(Nat)
    BY <2>2, ListIsBytes
  <2> QED BY <1>1, <2>4, <2>5
<1> QED BY <1>2, <1>3 DEF Fills

\* A body: its fields, the bytes they make, and what comes back.
Filled(schema, fs) == Len(schema) \in Nat /\ \A i \in 1 .. Len(schema) : Fills(schema[i], fs[i])
BodyPieces(schema, fs) == [i \in 1 .. Len(schema) |-> FieldBytes(schema[i], fs[i])]
BodyBack(schema, fs) == [i \in 1 .. Len(schema) |-> FieldBack(schema[i], fs[i])]

\* The bytes of a body are bytes.
LEMMA BodyIsBytes ==
  ASSUME NEW schema, NEW fs, Filled(schema, fs)
  PROVE  /\ BodyPieces(schema, fs) \in Seq(Seq(Nat)) /\ Len(BodyPieces(schema, fs)) = Len(schema)
         /\ Concat(BodyPieces(schema, fs)) \in Seq(Nat)
<1>1. PICK n \in Nat : n = Len(schema)
  BY DEF Filled
<1>2. \A i \in 1 .. n : FieldBytes(schema[i], fs[i]) \in Seq(Nat)
  BY <1>1, ReadsField DEF Filled
<1>3. PICK l : l = [i \in 1 .. n |-> FieldBytes(schema[i], fs[i])]
  OBVIOUS
<1>4. l \in Seq(Seq(Nat)) /\ Len(l) = n
  BY <1>2, <1>3
<1>5. Concat(l) \in Seq(Nat)
  BY <1>4, ConcatIsBytes
<1> QED BY <1>1, <1>3, <1>4, <1>5 DEF BodyPieces

\* The fields of a body are read back, or something is missing.
LEMMA ReadsFields ==
  ASSUME NEW schema, NEW fs, Filled(schema, fs), NEW body, Agrees(body, 0, Concat(BodyPieces(schema, fs)))
  PROVE  ReadFields(body, schema) = Outcome(body, 0, Concat(BodyPieces(schema, fs)), BodyBack(schema, fs))
<1>1. PICK n \in Nat : n = Len(schema)
  BY DEF Filled
<1>2. PICK l : l = BodyPieces(schema, fs)
  OBVIOUS
<1>3. l \in Seq(Seq(Nat)) /\ Len(l) = n /\ Agrees(body, 0, Concat(l))
  BY <1>1, <1>2, BodyIsBytes
<1>4. \A i \in 1 .. n : l[i] = FieldBytes(schema[i], fs[i]) /\ Fills(schema[i], fs[i])
  BY <1>1, <1>2 DEF BodyPieces, Filled
<1>5. PICK f : Fields(f, body, schema)
  BY <1>1, FieldsExist
<1>6. PICK g : g = [j \in 1 .. n |-> FieldBack(schema[j], fs[j])]
  OBVIOUS
<1>7. PICK vs : vs = [i \in 0 .. n |-> [j \in 1 .. i |-> g[j]]]
  OBVIOUS
<1>8. vs[0] = << >> /\ \A i \in 1 .. n : Append(vs[i - 1], g[i]) = vs[i]
  <2>1. 0 \in 0 .. n /\ \A i \in 1 .. n : i \in 0 .. n /\ i - 1 \in 0 .. n
    OBVIOUS
  <2>2. vs[0] = [j \in 1 .. 0 |-> g[j]]
    BY <1>7, <2>1
  <2>3. \A i \in 1 .. n : vs[i - 1] = [j \in 1 .. i - 1 |-> g[j]] /\ vs[i] = [j \in 1 .. i |-> g[j]]
    BY <1>7, <2>1
  <2>4. vs[0] = << >>
    BY <2>2, Gathers
  <2>5. \A i \in 1 .. n : Append([j \in 1 .. i - 1 |-> g[j]], g[i]) = [j \in 1 .. i |-> g[j]]
    BY Gathers
  <2> QED BY <2>3, <2>4, <2>5
<1>9. f[0] = Cur(0, vs[0]) /\ \A i \in 1 .. n : f[i] = ReadField(body, f[i - 1], schema[i])
  BY <1>1, <1>5, <1>8 DEF Fields
<1>10. \A i \in 1 .. n : ReadsPiece(body, f[i - 1], f[i], l[i], vs[i - 1], vs[i])
  <2>1. TAKE i \in 1 .. n
  <2>2. PICK k : k = schema[i]
    OBVIOUS
  <2>3. PICK v : v = fs[i]
    OBVIOUS
  <2>4. Fills(k, v) /\ l[i] = FieldBytes(k, v) /\ g[i] = FieldBack(k, v) /\ f[i] = ReadField(body, f[i - 1], k)
    BY <1>4, <1>6, <1>9, <2>2, <2>3
  <2>5. ASSUME NEW q, f[i - 1] = Cur(q, vs[i - 1]), Agrees(body, q, l[i])
        PROVE  f[i] = Outcome(body, q, l[i], vs[i])
    <3>1. Agrees(body, q, FieldBytes(k, v))
      BY <2>4, <2>5
    <3>2. PICK us : us = vs[i - 1]
      OBVIOUS
    <3>3. ReadField(body, Cur(q, us), k) = Outcome(body, q, FieldBytes(k, v), Append(us, FieldBack(k, v)))
      BY <2>4, <3>1, ReadsField
    <3>4. Append(us, FieldBack(k, v)) = vs[i]
      BY <1>8, <2>4, <3>2
    <3> QED BY <2>4, <2>5, <3>2, <3>3, <3>4
  <2>6. ReadField(body, Malformed, k) = Malformed
    BY <2>4, ReadsField
  <2> QED BY <2>4, <2>5, <2>6 DEF ReadsPiece
<1>11. f[Len(l)] = Outcome(body, 0, Concat(l), vs[Len(l)])
  <2>1. ReadsRow(body, l, f, vs)
    BY <1>3, <1>10 DEF ReadsRow
  <2> QED BY <1>3, <1>9, <2>1, InARow
<1>12. vs[n] = BodyBack(schema, fs)
  <2>1. n \in 0 .. n
    OBVIOUS
  <2>2. vs[n] = [j \in 1 .. n |-> g[j]]
    BY <1>7, <2>1
  <2> QED BY <1>1, <1>6, <2>2 DEF BodyBack
<1>13. ReadFields(body, schema) = f[n]
  BY <1>1, <1>5 DEF Fields
<1> QED BY <1>2, <1>3, <1>11, <1>12, <1>13

\* Every kind of message has a tag of its own.
LEMMA TagsDiffer ==
  /\ Tags = {"Exec", "Stdin", "StdinEof", "Stdout", "Stderr", "Exit", "PutOpen", "PutData", "PutClose", "Get",
             "GetData", "GetEnd", "Error", "Ping", "Pong", "Sensors", "SensorsReply", "Stat", "StatReply",
             "Traffic", "TrafficReply"}
  /\ \A t \in Tags : TAG[t] \in 1 .. 21
  /\ \A t, u \in Tags : TAG[t] = TAG[u] => t = u
<1>1. Tags = {"Exec", "Stdin", "StdinEof", "Stdout", "Stderr", "Exit", "PutOpen", "PutData", "PutClose", "Get",
             "GetData", "GetEnd", "Error", "Ping", "Pong", "Sensors", "SensorsReply", "Stat", "StatReply",
             "Traffic", "TrafficReply"}
  BY DEF Tags, TAG
<1>2. /\ TAG["Exec"] = 1 /\ TAG["Stdin"] = 2 /\ TAG["StdinEof"] = 3 /\ TAG["Stdout"] = 4
      /\ TAG["Stderr"] = 5 /\ TAG["Exit"] = 6 /\ TAG["PutOpen"] = 7 /\ TAG["PutData"] = 8
      /\ TAG["PutClose"] = 9 /\ TAG["Get"] = 10 /\ TAG["GetData"] = 11 /\ TAG["GetEnd"] = 12
      /\ TAG["Error"] = 13 /\ TAG["Ping"] = 14 /\ TAG["Pong"] = 15 /\ TAG["Sensors"] = 16
      /\ TAG["SensorsReply"] = 17 /\ TAG["Stat"] = 18 /\ TAG["StatReply"] = 19
      /\ TAG["Traffic"] = 20 /\ TAG["TrafficReply"] = 21
  BY DEF TAG
<1>3. \A t \in Tags : TAG[t] \in 1 .. 21
  BY <1>1, <1>2
<1>4. \A t, u \in Tags : TAG[t] = TAG[u] => t = u
  BY <1>1, <1>2
<1> QED BY <1>1, <1>3, <1>4

\* The decoder finds the kind of message by its tag.
LEMMA TagFound ==
  ASSUME NEW t \in Tags
  PROVE  (\E u \in Tags : TAG[u] = TAG[t]) /\ (CHOOSE u \in Tags : TAG[u] = TAG[t]) = t
<1>1. \E u \in Tags : TAG[u] = TAG[t]
  OBVIOUS
<1>2. PICK u : u = CHOOSE w \in Tags : TAG[w] = TAG[t]
  OBVIOUS
<1>3. u \in Tags /\ TAG[u] = TAG[t]
  BY <1>1, <1>2
<1> QED BY <1>1, <1>2, <1>3, TagsDiffer

\* A row of no piece and of one.
LEMMA ShortRows ==
  /\ Concat(<< >>) = << >>
  /\ \A a \in Seq(Nat) : Concat(<<a>>) = a
<1>1. << >> \in Seq(Seq(Nat)) /\ Len(<< >>) = 0
  OBVIOUS
<1>2. Concat(<< >>) = << >>
  BY <1>1, JoinedFacts DEF Concat
<1>3. ASSUME NEW a \in Seq(Nat) PROVE Concat(<<a>>) = a
  <2>1. PICK l : l = <<a>>
    OBVIOUS
  <2>2. l \in Seq(Seq(Nat)) /\ Len(l) = 1 /\ l[1] = a /\ 1 \in 1 .. 1
    BY <2>1
  <2>3. Joined(l)[1] = Joined(l)[1 - 1] \o l[1] /\ Joined(l)[0] = << >> /\ 1 - 1 = 0
    <3>1. PICK i \in 1 .. Len(l) : i = 1
      BY <2>2
    <3>2. Joined(l)[i] = Joined(l)[i - 1] \o l[i]
      BY <2>2, JoinedFacts
    <3>3. Joined(l)[0] = << >>
      BY <2>2, JoinedFacts
    <3> QED BY <3>1, <3>2, <3>3
  <2>4. Joined(l)[1] = << >> \o a
    BY <2>2, <2>3
  <2>5. << >> \o a = a
    OBVIOUS
  <2> QED BY <2>1, <2>2, <2>4, <2>5 DEF Concat
<1> QED BY <1>2, <1>3

\* A message, and the fields it is written as: no working directory is an
\* empty one.
Wired(m) == IF m.tag = "Exec" /\ m.f[3] = None THEN [m.f EXCEPT ![3] = << >>] ELSE m.f
IsMessage(m) ==
  /\ m.tag \in Tags /\ m = Msg(m.tag, m.f)
  /\ m.tag \in Payload => m.f = <<m.f[1]>> /\ m.f[1] \in Seq(Nat)
  /\ m.tag \notin Payload => /\ m.f = [i \in 1 .. Len(ReadSchema(m.tag)) |-> m.f[i]]
                             /\ Filled(ReadSchema(m.tag), Wired(m))

\* The items of each list of the format.
LEMMA ItemForms ==
  ASSUME NEW x
  PROVE  /\ ItemBytes(<<"str">>, x) = Concat(<<put_str(x[1])>>)
         /\ ItemBytes(<<"str", "str">>, x) = Concat(<<put_str(x[1]), put_str(x[2])>>)
         /\ ItemBytes(<<"u16", "u32", "u32">>, x) = Concat(<<put_u16(x[1]), put_u32(x[2]), put_u32(x[3])>>)
         /\ ItemBytes(<<"i16">>, x) = Concat(<<put_u16(x[1])>>)
         /\ ItemBytes(<<"str", "u64", "u64">>, x) = Concat(<<put_str(x[1]), put_u64(x[2]), put_u64(x[3])>>)
         /\ ItemBytes(<<"u32", "u8", "bool", "u64", "u64", "u32", "str">>, x) =
              Concat(<<put_u32(x[1]), put_u8(x[2]), put_u8(IF x[3] THEN 1 ELSE 0),
                       put_u64(x[4]), put_u64(x[5]), put_u32(x[6]), put_str(x[7])>>)
<1>1. \A v : /\ Written("u8", v) = put_u8(v) /\ Written("bool", v) = put_u8(IF v THEN 1 ELSE 0)
             /\ Written("u16", v) = put_u16(v) /\ Written("i16", v) = put_u16(v)
             /\ Written("u32", v) = put_u32(v) /\ Written("i32", v) = put_u32(v)
             /\ Written("u64", v) = put_u64(v) /\ Written("str", v) = put_str(v)
  BY DEF Written
<1>2. ItemPieces(<<"str">>, x) = <<put_str(x[1])>>
  BY <1>1 DEF ItemPieces
<1>3. ItemPieces(<<"str", "str">>, x) = <<put_str(x[1]), put_str(x[2])>>
  BY <1>1 DEF ItemPieces
<1>4. ItemPieces(<<"u16", "u32", "u32">>, x) = <<put_u16(x[1]), put_u32(x[2]), put_u32(x[3])>>
  BY <1>1 DEF ItemPieces
<1>5. ItemPieces(<<"i16">>, x) = <<put_u16(x[1])>>
  BY <1>1 DEF ItemPieces
<1>6. ItemPieces(<<"str", "u64", "u64">>, x) = <<put_str(x[1]), put_u64(x[2]), put_u64(x[3])>>
  BY <1>1 DEF ItemPieces
<1>7. ItemPieces(<<"u32", "u8", "bool", "u64", "u64", "u32", "str">>, x) =
        <<put_u32(x[1]), put_u8(x[2]), put_u8(IF x[3] THEN 1 ELSE 0),
          put_u64(x[4]), put_u64(x[5]), put_u32(x[6]), put_str(x[7])>>
  BY <1>1 DEF ItemPieces
<1> QED BY <1>2, <1>3, <1>4, <1>5, <1>6, <1>7 DEF ItemBytes

\* The lists of the format, written item by item.
LEMMA ListForms ==
  ASSUME NEW xs
  PROVE  /\ put_list(xs, LAMBDA a : Concat(<<put_str(a[1])>>)) = ListBytes(<<"str">>, xs)
         /\ put_list(xs, LAMBDA e : Concat(<<put_str(e[1]), put_str(e[2])>>)) = ListBytes(<<"str", "str">>, xs)
         /\ put_list(xs, LAMBDA c : Concat(<<put_u16(c[1]), put_u32(c[2]), put_u32(c[3])>>))
              = ListBytes(<<"u16", "u32", "u32">>, xs)
         /\ put_list(xs, LAMBDA t : Concat(<<put_u16(t[1])>>)) = ListBytes(<<"i16">>, xs)
         /\ put_devs(xs) = ListBytes(<<"str", "u64", "u64">>, xs)
         /\ put_list(xs, LAMBDA p :
              Concat(<<put_u32(p[1]), put_u8(p[2]), put_u8(IF p[3] THEN 1 ELSE 0),
                       put_u64(p[4]), put_u64(p[5]), put_u32(p[6]), put_str(p[7])>>))
              = ListBytes(<<"u32", "u8", "bool", "u64", "u64", "u32", "str">>, xs)
<1>1. put_list(xs, LAMBDA a : Concat(<<put_str(a[1])>>)) = ListBytes(<<"str">>, xs)
  BY ItemForms, Zenon DEF put_list, ListBytes, ListPieces
<1>2. put_list(xs, LAMBDA e : Concat(<<put_str(e[1]), put_str(e[2])>>)) = ListBytes(<<"str", "str">>, xs)
  BY ItemForms DEF put_list, ListBytes, ListPieces
<1>3. put_list(xs, LAMBDA c : Concat(<<put_u16(c[1]), put_u32(c[2]), put_u32(c[3])>>))
        = ListBytes(<<"u16", "u32", "u32">>, xs)
  BY ItemForms DEF put_list, ListBytes, ListPieces
<1>4. put_list(xs, LAMBDA t : Concat(<<put_u16(t[1])>>)) = ListBytes(<<"i16">>, xs)
  BY ItemForms DEF put_list, ListBytes, ListPieces
<1>5. put_devs(xs) = ListBytes(<<"str", "u64", "u64">>, xs)
  BY ItemForms DEF put_devs, put_list, ListBytes, ListPieces
<1>6. put_list(xs, LAMBDA p :
              Concat(<<put_u32(p[1]), put_u8(p[2]), put_u8(IF p[3] THEN 1 ELSE 0),
                       put_u64(p[4]), put_u64(p[5]), put_u32(p[6]), put_str(p[7])>>))
              = ListBytes(<<"u32", "u8", "bool", "u64", "u64", "u32", "str">>, xs)
  BY ItemForms DEF put_list, ListBytes, ListPieces
<1> QED BY <1>1, <1>2, <1>3, <1>4, <1>5, <1>6

\* The fields of the format, one by one.
LEMMA FieldForms ==
  /\ \A v : /\ FieldBytes(One("u16"), v) = put_u16(v) /\ FieldBytes(One("i16"), v) = put_u16(v)
            /\ FieldBytes(One("u32"), v) = put_u32(v) /\ FieldBytes(One("i32"), v) = put_u32(v)
            /\ FieldBytes(One("u64"), v) = put_u64(v) /\ FieldBytes(One("str"), v) = put_str(v)
  /\ \A ks, v : FieldBytes(List(ks), v) = ListBytes(ks, v) /\ FieldBack(List(ks), v) = ListBack(ks, v)
  /\ \A k, v : FieldBack(One(k), v) = Back(k, v)
<1>1. \A k, v : FieldBytes(One(k), v) = Written(k, v) /\ FieldBack(One(k), v) = Back(k, v)
  BY DEF FieldBytes, FieldBack, One
<1>2. \A v : /\ Written("u16", v) = put_u16(v) /\ Written("i16", v) = put_u16(v)
             /\ Written("u32", v) = put_u32(v) /\ Written("i32", v) = put_u32(v)
             /\ Written("u64", v) = put_u64(v) /\ Written("str", v) = put_str(v)
  BY DEF Written
<1>3. \A ks, v : FieldBytes(List(ks), v) = ListBytes(ks, v) /\ FieldBack(List(ks), v) = ListBack(ks, v)
  BY DEF FieldBytes, FieldBack, List
<1> QED BY <1>1, <1>2, <1>3

\* The schema of the statistics, field by field.
LEMMA StatFields ==
  /\ Len(StatReads) = 22
  /\ StatReads[1] = One("u64")
  /\ StatReads[2] = List(<<"u16", "u32", "u32">>)
  /\ StatReads[3] = One("u64")
  /\ StatReads[4] = One("u64")
  /\ StatReads[5] = One("u64")
  /\ StatReads[6] = One("u64")
  /\ StatReads[7] = One("u64")
  /\ StatReads[8] = One("u64")
  /\ StatReads[9] = One("u16")
  /\ StatReads[10] = One("u16")
  /\ StatReads[11] = One("u16")
  /\ StatReads[12] = One("u32")
  /\ StatReads[13] = One("u32")
  /\ StatReads[14] = List(<<"i16">>)
  /\ StatReads[15] = One("i16")
  /\ StatReads[16] = One("u32")
  /\ StatReads[17] = One("u32")
  /\ StatReads[18] = List(<<"str", "u64", "u64">>)
  /\ StatReads[19] = List(<<"str", "u64", "u64">>)
  /\ StatReads[20] = List(<<"u32", "u8", "bool", "u64", "u64", "u32", "str">>)
  /\ StatReads[21] = One("u32")
  /\ StatReads[22] = One("u32")
BY DEF StatReads, DevReads

\* The statistics are written as their schema says.
LEMMA StatForm ==
  ASSUME NEW s
  PROVE  put_stat(s) = Concat(BodyPieces(StatReads, s))
<1> DEFINE l == <<
        put_u64(s[1]),
        ListBytes(<<"u16", "u32", "u32">>, s[2]),
        put_u64(s[3]),
        put_u64(s[4]),
        put_u64(s[5]),
        put_u64(s[6]),
        put_u64(s[7]),
        put_u64(s[8]),
        put_u16(s[9]),
        put_u16(s[10]),
        put_u16(s[11]),
        put_u32(s[12]),
        put_u32(s[13]),
        ListBytes(<<"i16">>, s[14]),
        put_u16(s[15]),
        put_u32(s[16]),
        put_u32(s[17]),
        ListBytes(<<"str", "u64", "u64">>, s[18]),
        ListBytes(<<"str", "u64", "u64">>, s[19]),
        ListBytes(<<"u32", "u8", "bool", "u64", "u64", "u32", "str">>, s[20]),
        put_u32(s[21]),
        put_u32(s[22])>>
<1>1. put_stat(s) = Concat(l)
  BY ListForms, Zenon DEF put_stat
<1>2. BodyPieces(StatReads, s) = [i \in 1 .. 22 |-> FieldBytes(StatReads[i], s[i])]
  BY StatFields DEF BodyPieces
<1>3. l = [i \in 1 .. 22 |-> l[i]]
  OBVIOUS
<1>4. FieldBytes(StatReads[1], s[1]) = l[1]
  BY StatFields, FieldForms
<1>5. FieldBytes(StatReads[2], s[2]) = l[2]
  BY StatFields, FieldForms
<1>6. FieldBytes(StatReads[3], s[3]) = l[3]
  BY StatFields, FieldForms
<1>7. FieldBytes(StatReads[4], s[4]) = l[4]
  BY StatFields, FieldForms
<1>8. FieldBytes(StatReads[5], s[5]) = l[5]
  BY StatFields, FieldForms
<1>9. FieldBytes(StatReads[6], s[6]) = l[6]
  BY StatFields, FieldForms
<1>10. FieldBytes(StatReads[7], s[7]) = l[7]
  BY StatFields, FieldForms
<1>11. FieldBytes(StatReads[8], s[8]) = l[8]
  BY StatFields, FieldForms
<1>12. FieldBytes(StatReads[9], s[9]) = l[9]
  BY StatFields, FieldForms
<1>13. FieldBytes(StatReads[10], s[10]) = l[10]
  BY StatFields, FieldForms
<1>14. FieldBytes(StatReads[11], s[11]) = l[11]
  BY StatFields, FieldForms
<1>15. FieldBytes(StatReads[12], s[12]) = l[12]
  BY StatFields, FieldForms
<1>16. FieldBytes(StatReads[13], s[13]) = l[13]
  BY StatFields, FieldForms
<1>17. FieldBytes(StatReads[14], s[14]) = l[14]
  BY StatFields, FieldForms
<1>18. FieldBytes(StatReads[15], s[15]) = l[15]
  BY StatFields, FieldForms
<1>19. FieldBytes(StatReads[16], s[16]) = l[16]
  BY StatFields, FieldForms
<1>20. FieldBytes(StatReads[17], s[17]) = l[17]
  BY StatFields, FieldForms
<1>21. FieldBytes(StatReads[18], s[18]) = l[18]
  BY StatFields, FieldForms
<1>22. FieldBytes(StatReads[19], s[19]) = l[19]
  BY StatFields, FieldForms
<1>23. FieldBytes(StatReads[20], s[20]) = l[20]
  BY StatFields, FieldForms
<1>24. FieldBytes(StatReads[21], s[21]) = l[21]
  BY StatFields, FieldForms
<1>25. FieldBytes(StatReads[22], s[22]) = l[22]
  BY StatFields, FieldForms
<1> HIDE DEF l
<1>26. \A i \in 1 .. 22 : FieldBytes(StatReads[i], s[i]) = l[i]
  BY <1>4, <1>5, <1>6, <1>7, <1>8, <1>9, <1>10, <1>11, <1>12, <1>13, <1>14, <1>15, <1>16, <1>17, <1>18, <1>19, <1>20, <1>21, <1>22, <1>23, <1>24, <1>25
<1> QED BY <1>1, <1>2, <1>3, <1>26

\* The schema of each kind of message.
LEMMA Schemas ==
  /\ ReadSchema("Exec") = <<List(<<"str">>), List(<<"str", "str">>), One("str")>>
  /\ \A t \in Payload : ReadSchema(t) = <<Rest>>
  /\ \A t \in Bare : ReadSchema(t) = << >>
  /\ \A t \in OneString : ReadSchema(t) = <<One("str")>>
  /\ ReadSchema("Exit") = <<One("i32")>>
  /\ ReadSchema("PutOpen") = <<One("str"), One("u32")>>
  /\ ReadSchema("GetEnd") = <<One("u64")>>
  /\ ReadSchema("StatReply") = StatReads
  /\ ReadSchema("TrafficReply") = [i \in 1 .. 6 |-> One("u64")]
BY DEF ReadSchema, Payload, Bare, OneString

\* The kinds of message.
LEMMA TagCases ==
  ASSUME NEW t \in Tags
  PROVE  \/ t = "Exec" \/ t \in Payload \/ t \in Bare \/ t \in OneString \/ t = "Exit" \/ t = "PutOpen"
         \/ t = "GetEnd" \/ t = "StatReply" \/ t = "TrafficReply"
BY TagsDiffer DEF Payload, Bare, OneString

\* The body of each kind of message.
LEMMA Bodies ==
  ASSUME NEW m
  PROVE  /\ m.tag = "Exec" => EncodeBody(m) =
              Concat(<<ListBytes(<<"str">>, m.f[1]), ListBytes(<<"str", "str">>, m.f[2]),
                       put_str(IF m.f[3] = None THEN << >> ELSE m.f[3])>>)
         /\ m.tag \in Payload => EncodeBody(m) = m.f[1]
         /\ m.tag \in Bare => EncodeBody(m) = << >>
         /\ m.tag \in OneString => EncodeBody(m) = put_str(m.f[1])
         /\ m.tag = "Exit" => EncodeBody(m) = put_u32(m.f[1])
         /\ m.tag = "PutOpen" => EncodeBody(m) = Concat(<<put_str(m.f[1]), put_u32(m.f[2])>>)
         /\ m.tag = "GetEnd" => EncodeBody(m) = put_u64(m.f[1])
         /\ m.tag = "StatReply" => EncodeBody(m) = put_stat(m.f)
         /\ m.tag = "TrafficReply" => EncodeBody(m) = put_u64s(m.f)
<1>1. ASSUME m.tag = "Exec"
      PROVE EncodeBody(m) = Concat(<<put_list(m.f[1], LAMBDA a : Concat(<<put_str(a[1])>>)),
                     put_list(m.f[2], LAMBDA e : Concat(<<put_str(e[1]), put_str(e[2])>>)),
                     put_str(IF m.f[3] = None THEN << >> ELSE m.f[3])>>)
  BY <1>1 DEF EncodeBody, Payload, Bare, OneString
<1>2. m.tag = "Exec" => EncodeBody(m) =
              Concat(<<ListBytes(<<"str">>, m.f[1]), ListBytes(<<"str", "str">>, m.f[2]),
                       put_str(IF m.f[3] = None THEN << >> ELSE m.f[3])>>)
  BY <1>1, ListForms, Zenon
<1>3. m.tag \in Payload => EncodeBody(m) = m.f[1]
  BY DEF EncodeBody, Payload, Bare, OneString
<1>4. m.tag \in Bare => EncodeBody(m) = << >>
  BY DEF EncodeBody, Payload, Bare, OneString
<1>5. m.tag \in OneString => EncodeBody(m) = put_str(m.f[1])
  BY DEF EncodeBody, Payload, Bare, OneString
<1>6. m.tag = "Exit" => EncodeBody(m) = put_u32(m.f[1])
  BY DEF EncodeBody, Payload, Bare, OneString
<1>7. m.tag = "PutOpen" => EncodeBody(m) = Concat(<<put_str(m.f[1]), put_u32(m.f[2])>>)
  BY DEF EncodeBody, Payload, Bare, OneString
<1>8. m.tag = "GetEnd" => EncodeBody(m) = put_u64(m.f[1])
  BY DEF EncodeBody, Payload, Bare, OneString
<1>9. m.tag = "StatReply" => EncodeBody(m) = put_stat(m.f)
  BY DEF EncodeBody, Payload, Bare, OneString
<1>10. m.tag = "TrafficReply" => EncodeBody(m) = put_u64s(m.f)
  BY DEF EncodeBody, Payload, Bare, OneString
<1> QED BY <1>2, <1>3, <1>4, <1>5, <1>6, <1>7, <1>8, <1>9, <1>10, Zenon

\* A message is written field by field as its schema says.
LEMMA EncodesFields ==
  ASSUME NEW m, IsMessage(m), m.tag \notin Payload
  PROVE  EncodeBody(m) = Concat(BodyPieces(ReadSchema(m.tag), Wired(m)))
<1>1. PICK t \in Tags : t = m.tag
  BY DEF IsMessage
<1>2. PICK s : s = ReadSchema(t)
  OBVIOUS
<1>3. PICK w : w = Wired(m)
  OBVIOUS
<1>4. Filled(s, w) /\ m.f = [i \in 1 .. Len(s) |-> m.f[i]]
  BY <1>1, <1>2, <1>3 DEF IsMessage
<1>5. BodyPieces(s, w) = [i \in 1 .. Len(s) |-> FieldBytes(s[i], w[i])]
  BY DEF BodyPieces
<1>6. t # "Exec" => w = m.f
  BY <1>1, <1>3 DEF Wired
<1>7. Len(s) = 1 /\ EncodeBody(m) = FieldBytes(s[1], w[1]) => EncodeBody(m) = Concat(BodyPieces(s, w))
  <2>1. SUFFICES ASSUME Len(s) = 1 PROVE FieldBytes(s[1], w[1]) = Concat(BodyPieces(s, w))
    OBVIOUS
  <2>2. PICK a : a = FieldBytes(s[1], w[1])
    OBVIOUS
  <2>3. a \in Seq(Nat)
    BY <1>4, <2>1, <2>2, ReadsField DEF Filled
  <2>4. BodyPieces(s, w) = <<a>>
    BY <1>5, <2>1, <2>2
  <2> QED BY <2>2, <2>3, <2>4, ShortRows
<1>8. CASE t = "Exec"
  <2>1. s = <<List(<<"str">>), List(<<"str", "str">>), One("str")>>
    BY <1>2, <1>8, Schemas
  <2>2. Len(s) = 3 /\ s[1] = List(<<"str">>) /\ s[2] = List(<<"str", "str">>) /\ s[3] = One("str")
    BY <2>1
  <2>3. w[1] = m.f[1] /\ w[2] = m.f[2] /\ w[3] = IF m.f[3] = None THEN << >> ELSE m.f[3]
    <3>1. DOMAIN m.f = 1 .. 3
      BY <1>4, <2>2
    <3> QED BY <1>1, <1>3, <1>8, <3>1 DEF Wired
  <2>4. /\ FieldBytes(s[1], w[1]) = ListBytes(<<"str">>, m.f[1])
        /\ FieldBytes(s[2], w[2]) = ListBytes(<<"str", "str">>, m.f[2])
        /\ FieldBytes(s[3], w[3]) = put_str(IF m.f[3] = None THEN << >> ELSE m.f[3])
    BY <2>2, <2>3, FieldForms
  <2>5. BodyPieces(s, w) = <<FieldBytes(s[1], w[1]), FieldBytes(s[2], w[2]), FieldBytes(s[3], w[3])>>
    BY <1>5, <2>2
  <2> QED BY <1>1, <1>2, <1>3, <1>8, <2>4, <2>5, Bodies
<1>9. CASE t \in Bare
  <2>1. s = << >> /\ Len(s) = 0
    BY <1>2, <1>9, Schemas
  <2>2. BodyPieces(s, w) = << >>
    BY <1>5, <2>1
  <2> QED BY <1>1, <1>2, <1>3, <1>9, <2>2, ShortRows, Bodies
<1>10. CASE t \in OneString
  <2>1. s = <<One("str")>>
    BY <1>2, <1>10, Schemas
  <2>2. Len(s) = 1 /\ s[1] = One("str") /\ w = m.f
    BY <1>6, <1>10, <2>1 DEF OneString
  <2>3. EncodeBody(m) = put_str(m.f[1]) /\ FieldBytes(s[1], w[1]) = put_str(m.f[1])
    BY <1>1, <1>10, <2>2, Bodies, FieldForms
  <2> QED BY <1>1, <1>2, <1>3, <1>7, <2>2, <2>3
<1>11. CASE t = "Exit"
  <2>1. s = <<One("i32")>>
    BY <1>2, <1>11, Schemas
  <2>2. Len(s) = 1 /\ s[1] = One("i32") /\ w = m.f
    BY <1>6, <1>11, <2>1
  <2>3. EncodeBody(m) = put_u32(m.f[1]) /\ FieldBytes(s[1], w[1]) = put_u32(m.f[1])
    BY <1>1, <1>11, <2>2, Bodies, FieldForms
  <2> QED BY <1>1, <1>2, <1>3, <1>7, <2>2, <2>3
<1>12. CASE t = "PutOpen"
  <2>1. s = <<One("str"), One("u32")>>
    BY <1>2, <1>12, Schemas
  <2>2. Len(s) = 2 /\ s[1] = One("str") /\ s[2] = One("u32") /\ w = m.f
    BY <1>6, <1>12, <2>1
  <2>3. FieldBytes(s[1], w[1]) = put_str(m.f[1]) /\ FieldBytes(s[2], w[2]) = put_u32(m.f[2])
    BY <2>2, FieldForms
  <2>4. BodyPieces(s, w) = <<FieldBytes(s[1], w[1]), FieldBytes(s[2], w[2])>>
    BY <1>5, <2>2
  <2> QED BY <1>1, <1>2, <1>3, <1>12, <2>3, <2>4, Bodies
<1>13. CASE t = "GetEnd"
  <2>1. s = <<One("u64")>>
    BY <1>2, <1>13, Schemas
  <2>2. Len(s) = 1 /\ s[1] = One("u64") /\ w = m.f
    BY <1>6, <1>13, <2>1
  <2>3. EncodeBody(m) = put_u64(m.f[1]) /\ FieldBytes(s[1], w[1]) = put_u64(m.f[1])
    BY <1>1, <1>13, <2>2, Bodies, FieldForms
  <2> QED BY <1>1, <1>2, <1>3, <1>7, <2>2, <2>3
<1>14. CASE t = "StatReply"
  <2>1. s = StatReads /\ w = m.f
    BY <1>2, <1>6, <1>14, Schemas
  <2>2. EncodeBody(m) = put_stat(m.f)
    BY <1>1, <1>14, Bodies
  <2>3. put_stat(w) = Concat(BodyPieces(StatReads, w))
    BY StatForm
  <2> QED BY <1>1, <1>2, <1>3, <2>1, <2>2, <2>3
<1>15. CASE t = "TrafficReply"
  <2>1. s = [i \in 1 .. 6 |-> One("u64")] /\ w = m.f
    BY <1>2, <1>6, <1>15, Schemas
  <2>2. Len(s) = 6 /\ \A i \in 1 .. 6 : s[i] = One("u64")
    BY <2>1
  <2>3. DOMAIN m.f = 1 .. 6
    BY <1>4, <2>2
  <2>4. BodyPieces(s, w) = [i \in DOMAIN m.f |-> put_u64(m.f[i])]
    <3>1. \A i \in 1 .. 6 : FieldBytes(s[i], w[i]) = put_u64(m.f[i])
      BY <2>1, <2>2, FieldForms
    <3> QED BY <1>5, <2>2, <2>3, <3>1
  <2>5. EncodeBody(m) = put_u64s(m.f)
    BY <1>1, <1>15, Bodies
  <2> QED BY <1>1, <1>2, <1>3, <2>4, <2>5 DEF put_u64s
<1> QED BY <1>1, <1>8, <1>9, <1>10, <1>11, <1>12, <1>13, <1>14, <1>15, TagCases

\* What survives of a text that has any is not empty: the limit is no less
\* than the longest character.
LEMMA KeptNotEmpty ==
  ASSUME NEW s \in Text, s # << >>
  PROVE  Kept(s) # << >>
<1>1. PICK n \in Nat : n = Len(s)
  BY LenProperties DEF Text
<1>2. s \in Seq(Nat) /\ DOMAIN s = 1 .. n /\ n # 0
  BY <1>1, LenProperties, EmptySeq DEF Text
<1>3. MAX_STRING \in Nat /\ MAX_STRING >= 3
  <2>1. U16 \in Nat /\ U16 >= 4
    BY Widths
  <2> QED BY <2>1 DEF MAX_STRING
<1>4. \A i \in 1 .. n :
        /\ s[i] = Lead2 => i + 1 =< n
        /\ s[i] = Lead3 => i + 2 =< n
        /\ (s[i] = Contin <=> ((i > 1 /\ s[i - 1] \in {Lead2, Lead3}) \/ (i > 2 /\ s[i - 2] = Lead3)))
  BY <1>1, <1>2 DEF Text, ValidUtf8
<1>5. Contin # Lead2 /\ Contin # Lead3 /\ Lead2 # Lead3
  BY DEF Contin, Lead2, Lead3
<1>6. \E e \in 1 .. 3 : e =< n /\ is_char_boundary(s, e)
  <2>1. 1 \in 1 .. n
    BY <1>2
  <2>2. CASE s[1] = Lead3
    <3>1. 3 =< n /\ 2 \in 1 .. n /\ 3 \in 1 .. n
      BY <1>4, <2>1, <2>2
    <3>2. s[2] = Contin
      BY <1>4, <2>2, <3>1
    <3>3. s[3] = Contin
      BY <1>4, <2>2, <3>1
    <3>4. n # 3 => s[4] # Contin
      <4>1. n # 3 => 4 \in 1 .. n
        BY <3>1
      <4> QED BY <1>4, <1>5, <3>2, <3>3, <4>1
    <3>5. is_char_boundary(s, 3)
      BY <1>1, <3>4 DEF is_char_boundary
    <3> QED BY <3>1, <3>5
  <2>3. CASE s[1] = Lead2
    <3>1. 2 =< n /\ 2 \in 1 .. n
      BY <1>4, <2>1, <2>3
    <3>2. s[2] = Contin
      BY <1>4, <2>3, <3>1
    <3>3. n # 2 => s[3] # Contin
      <4>1. n # 2 => 3 \in 1 .. n
        BY <3>1
      <4> QED BY <1>4, <1>5, <2>3, <3>2, <4>1
    <3>4. is_char_boundary(s, 2)
      BY <1>1, <3>3 DEF is_char_boundary
    <3> QED BY <3>1, <3>4
  <2>4. CASE s[1] # Lead2 /\ s[1] # Lead3
    <3>1. n # 1 => s[2] # Contin
      <4>1. n # 1 => 2 \in 1 .. n
        BY <2>1
      <4> QED BY <1>4, <2>4, <4>1
    <3>2. is_char_boundary(s, 1)
      BY <1>1, <3>1 DEF is_char_boundary
    <3> QED BY <2>1, <3>2
  <2> QED BY <2>2, <2>3, <2>4
<1>7. CASE n =< MAX_STRING
  BY <1>1, <1>7, ClipKeeps
<1>8. CASE ~(n =< MAX_STRING)
  <2>1. PICK f : Walks(f, s, MAX_STRING)
    BY <1>1, <1>3, <1>8, WalksExist
  <2>2. PICK k : k = f[MAX_STRING]
    OBVIOUS
  <2>3. k \in 0 .. MAX_STRING /\ \A e \in 0 .. MAX_STRING : is_char_boundary(s, e) => e =< k
    BY <1>3, <2>1, <2>2, WalkEnds
  <2>4. PICK e \in 1 .. 3 : is_char_boundary(s, e)
    BY <1>6
  <2>5. e \in 0 .. MAX_STRING
    BY <1>3
  <2>6. k \in 1 .. n
    BY <1>3, <1>8, <2>3, <2>4, <2>5
  <2>7. Kept(s) = SubSeq(s, 1, k)
    BY <2>1, <2>2, ClipKeeps DEF Walks
  <2>8. Len(SubSeq(s, 1, k)) = k
    <3>1. k \in 0 .. Len(s)
      BY <1>1, <2>6
    <3> QED BY <3>1, ValidPrefix
  <2>9. Len(Kept(s)) # 0
    BY <2>6, <2>7, <2>8
  <2> QED BY <2>9
<1> QED BY <1>7, <1>8

\* No text is the mark of an absent working directory.
LEMMA NoneIsNoText == None \notin Text /\ << >> \in Text /\ Kept(<< >>) = << >> /\ None # << >>
<1>1. None \notin Text
  BY DEF None, Text
<1>2. << >> \in Text
  BY DEF Text, ValidUtf8
<1>3. Len(<< >>) =< MAX_STRING
  <2>1. U16 \in Nat /\ U16 >= 4
    BY Widths
  <2> QED BY <2>1 DEF MAX_STRING
<1>4. Kept(<< >>) = << >>
  BY <1>2, <1>3, ClipKeeps
<1> QED BY <1>1, <1>2, <1>4 DEF None

\* What comes back of a list of numbers: its first items.
LEMMA PlainList ==
  ASSUME NEW kinds, NEW xs, IsList(kinds, xs), Len(kinds) \in Nat, \A j \in 1 .. Len(kinds) : kinds[j] # "str"
  PROVE  ListBack(kinds, xs) = FirstItems(xs)
<1>1. PICK m \in Nat : m = Len(xs)
  BY DEF IsList
<1>2. PICK n : n = count(m)
  OBVIOUS
<1>3. n \in 0 .. m
  <2>1. U16 \in Nat /\ U16 >= 4
    BY Widths
  <2> QED BY <1>2, <2>1 DEF count, MAX_LIST
<1>4. \A i \in 1 .. n : ItemBack(kinds, xs[i]) = xs[i]
  <2>1. TAKE i \in 1 .. n
  <2>2. PICK x : x = xs[i]
    OBVIOUS
  <2>3. x = [j \in 1 .. Len(kinds) |-> x[j]]
    <3>1. i \in 1 .. m
      BY <1>3
    <3> QED BY <1>1, <2>2, <3>1 DEF IsList, IsItem
  <2>4. ItemBack(kinds, x) = [j \in 1 .. Len(kinds) |-> x[j]]
    BY DEF ItemBack, Back
  <2> QED BY <2>2, <2>3, <2>4
<1>5. ListBack(kinds, xs) = [i \in 1 .. n |-> xs[i]]
  BY <1>1, <1>2, <1>4 DEF ListBack
<1>6. FirstItems(xs) = SubSeq(xs, 1, n)
  BY <1>1, <1>2 DEF FirstItems
<1>7. SubSeq(xs, 1, n) = [i \in 1 .. n |-> xs[i]]
  <2> DEFINE S == {xs[i] : i \in 1 .. m}
  <2>1. xs \in Seq(S)
    <3>1. xs = [i \in 1 .. m |-> xs[i]]
      BY <1>1 DEF IsList
    <3>2. [i \in 1 .. m |-> xs[i]] \in Seq(S)
      OBVIOUS
    <3> QED BY <3>1, <3>2
  <2> HIDE DEF S
  <2>2. PICK z \in Nat : z = 0
    OBVIOUS
  <2>3. z =< n /\ n =< Len(xs) /\ n \in Nat /\ z + 1 = 1 /\ n - z = n /\ \A i \in 1 .. n : z + i = i
    BY <1>1, <1>3, <2>2
  <2>4. /\ SubSeq(xs, z + 1, n) \in Seq(S) /\ Len(SubSeq(xs, z + 1, n)) = n - z
        /\ \A i \in 1 .. n - z : SubSeq(xs, z + 1, n)[i] = xs[z + i]
    BY <2>1, <2>3, PartFacts
  <2>5. PICK y : y = SubSeq(xs, 1, n)
    OBVIOUS
  <2>6. y \in Seq(S) /\ Len(y) = n /\ \A i \in 1 .. n : y[i] = xs[i]
    BY <2>3, <2>4, <2>5
  <2>7. y = [i \in 1 .. n |-> y[i]]
    BY <2>6, LenProperties
  <2> QED BY <2>5, <2>6, <2>7
<1> QED BY <1>5, <1>6, <1>7

\* What comes back of the devices and of the processes.
LEMMA NamedLists ==
  ASSUME NEW xs
  PROVE  /\ IsList(<<"str", "u64", "u64">>, xs) => ListBack(<<"str", "u64", "u64">>, xs) = KeptDevs(xs)
         /\ IsList(<<"u32", "u8", "bool", "u64", "u64", "u32", "str">>, xs) =>
               ListBack(<<"u32", "u8", "bool", "u64", "u64", "u32", "str">>, xs) = KeptProcs(xs)
<1> DEFINE ds == <<"str", "u64", "u64">>
           ps == <<"u32", "u8", "bool", "u64", "u64", "u32", "str">>
<1>1. ASSUME NEW x, IsItem(ds, x) PROVE ItemBack(ds, x) = [x EXCEPT ![1] = Kept(@)]
  <2>1. x = [j \in 1 .. 3 |-> x[j]]
    BY <1>1 DEF IsItem
  <2>2. ItemBack(ds, x) = [j \in 1 .. 3 |-> IF j = 1 THEN Kept(x[1]) ELSE x[j]]
    <3>1. \A j \in 1 .. 3 : Back(ds[j], x[j]) = IF j = 1 THEN Kept(x[1]) ELSE x[j]
      BY DEF Back
    <3> QED BY <3>1 DEF ItemBack
  <2>3. [x EXCEPT ![1] = Kept(@)] = [j \in 1 .. 3 |-> IF j = 1 THEN Kept(x[1]) ELSE x[j]]
    <3>1. DOMAIN x = 1 .. 3
      BY <2>1
    <3>2. [x EXCEPT ![1] = Kept(@)] = [j \in DOMAIN x |-> IF j = 1 THEN Kept(x[1]) ELSE x[j]]
      OBVIOUS
    <3> QED BY <3>1, <3>2
  <2> QED BY <2>2, <2>3
<1>2. ASSUME NEW x, IsItem(ps, x) PROVE ItemBack(ps, x) = [x EXCEPT ![7] = Kept(@)]
  <2>1. x = [j \in 1 .. 7 |-> x[j]]
    BY <1>2 DEF IsItem
  <2>2. ItemBack(ps, x) = [j \in 1 .. 7 |-> IF j = 7 THEN Kept(x[7]) ELSE x[j]]
    <3>1. \A j \in 1 .. 7 : Back(ps[j], x[j]) = IF j = 7 THEN Kept(x[7]) ELSE x[j]
      BY DEF Back
    <3> QED BY <3>1 DEF ItemBack
  <2>3. [x EXCEPT ![7] = Kept(@)] = [j \in 1 .. 7 |-> IF j = 7 THEN Kept(x[7]) ELSE x[j]]
    <3>1. DOMAIN x = 1 .. 7
      BY <2>1
    <3>2. [x EXCEPT ![7] = Kept(@)] = [j \in DOMAIN x |-> IF j = 7 THEN Kept(x[7]) ELSE x[j]]
      OBVIOUS
    <3> QED BY <3>1, <3>2
  <2> QED BY <2>2, <2>3
<1> HIDE DEF ds, ps
<1>3. ASSUME NEW ks, IsList(ks, xs) PROVE \A i \in 1 .. count(Len(xs)) : IsItem(ks, xs[i])
  <2>1. Len(xs) \in Nat /\ \A i \in 1 .. Len(xs) : IsItem(ks, xs[i])
    BY <1>3 DEF IsList
  <2>2. U16 \in Nat /\ U16 >= 4
    BY Widths
  <2>3. count(Len(xs)) =< Len(xs) /\ count(Len(xs)) \in Nat
    BY <2>1, <2>2 DEF count, MAX_LIST
  <2>4. \A i \in 1 .. count(Len(xs)) : i \in 1 .. Len(xs)
    BY <2>1, <2>3
  <2> QED BY <2>1, <2>4
<1>4. ASSUME IsList(ds, xs) PROVE ListBack(ds, xs) = KeptDevs(xs)
  BY <1>1, <1>3, <1>4 DEF ListBack, KeptDevs
<1>5. ASSUME IsList(ps, xs) PROVE ListBack(ps, xs) = KeptProcs(xs)
  BY <1>2, <1>3, <1>5, SMTT(30) DEF ListBack, KeptProcs
<1> QED BY <1>4, <1>5 DEF ds, ps

\* What comes back of the statistics.
LEMMA StatBack ==
  ASSUME NEW s, Filled(StatReads, s), s = [i \in 1 .. 22 |-> s[i]]
  PROVE  BodyBack(StatReads, s) =
           [s EXCEPT ![2] = FirstItems(@), ![14] = FirstItems(@),
                     ![18] = KeptDevs(@), ![19] = KeptDevs(@), ![20] = KeptProcs(@)]
<1> DEFINE F == [s EXCEPT ![2] = FirstItems(@), ![14] = FirstItems(@),
                          ![18] = KeptDevs(@), ![19] = KeptDevs(@), ![20] = KeptProcs(@)]
           g == BodyBack(StatReads, s)
<1>1. DOMAIN s = 1 .. 22
  OBVIOUS
<1>2. /\ F = [i \in 1 .. 22 |-> F[i]] /\ F[2] = FirstItems(s[2]) /\ F[14] = FirstItems(s[14])
      /\ F[18] = KeptDevs(s[18]) /\ F[19] = KeptDevs(s[19]) /\ F[20] = KeptProcs(s[20])
      /\ \A i \in 1 .. 22 : i \notin {2, 14, 18, 19, 20} => F[i] = s[i]
  <2>1. PICK a : a = [s EXCEPT ![2] = FirstItems(s[2])]
    OBVIOUS
  <2>2. PICK b : b = [a EXCEPT ![14] = FirstItems(s[14])]
    OBVIOUS
  <2>3. PICK c : c = [b EXCEPT ![18] = KeptDevs(s[18])]
    OBVIOUS
  <2>4. PICK d : d = [c EXCEPT ![19] = KeptDevs(s[19])]
    OBVIOUS
  <2>5. PICK e : e = [d EXCEPT ![20] = KeptProcs(s[20])]
    OBVIOUS
  <2>6. F = e
    BY <2>1, <2>2, <2>3, <2>4, <2>5
  <2> HIDE DEF F
  <2>7. DOMAIN a = 1 .. 22 /\ a[2] = FirstItems(s[2]) /\ \A i \in 1 .. 22 : i # 2 => a[i] = s[i]
    BY <1>1, <2>1
  <2>8. DOMAIN b = 1 .. 22 /\ b[14] = FirstItems(s[14]) /\ \A i \in 1 .. 22 : i # 14 => b[i] = a[i]
    BY <2>2, <2>7
  <2>9. DOMAIN c = 1 .. 22 /\ c[18] = KeptDevs(s[18]) /\ \A i \in 1 .. 22 : i # 18 => c[i] = b[i]
    BY <2>3, <2>8
  <2>10. DOMAIN d = 1 .. 22 /\ d[19] = KeptDevs(s[19]) /\ \A i \in 1 .. 22 : i # 19 => d[i] = c[i]
    BY <2>4, <2>9
  <2>11. DOMAIN e = 1 .. 22 /\ e[20] = KeptProcs(s[20]) /\ \A i \in 1 .. 22 : i # 20 => e[i] = d[i]
    BY <2>5, <2>10
  <2>12. e = [i \in 1 .. 22 |-> e[i]]
    <3>1. e = [i \in DOMAIN d |-> e[i]]
      BY <2>5
    <3> QED BY <2>10, <3>1
  <2>13. /\ e[2] = FirstItems(s[2]) /\ e[14] = FirstItems(s[14]) /\ e[18] = KeptDevs(s[18])
         /\ e[19] = KeptDevs(s[19]) /\ e[20] = KeptProcs(s[20])
    BY <2>7, <2>8, <2>9, <2>10, <2>11
  <2>14. \A i \in 1 .. 22 : i \notin {2, 14, 18, 19, 20} => e[i] = s[i]
    BY <2>7, <2>8, <2>9, <2>10, <2>11
  <2> QED BY <2>6, <2>12, <2>13, <2>14
<1>3. g = [i \in 1 .. 22 |-> FieldBack(StatReads[i], s[i])]
  BY StatFields DEF BodyBack
<1>4. \A i \in 1 .. 22 : Fills(StatReads[i], s[i])
  BY StatFields DEF Filled
<1>5. \A ks, v : Fills(List(ks), v) => IsList(ks, v)
  BY DEF Fills, List
<1> HIDE DEF F, g
<1>6. FieldBack(StatReads[2], s[2]) = F[2]
  <2>1. IsList(<<"u16", "u32", "u32">>, s[2])
    BY <1>4, <1>5, StatFields
  <2>2. ListBack(<<"u16", "u32", "u32">>, s[2]) = FirstItems(s[2])
    <3>1. PICK ks : ks = <<"u16", "u32", "u32">>
      OBVIOUS
    <3>2. Len(ks) \in Nat /\ \A j \in 1 .. Len(ks) : ks[j] # "str"
      BY <3>1
    <3> QED BY <2>1, <3>1, <3>2, PlainList
  <2> QED BY <1>2, <2>2, StatFields, FieldForms
<1>7. FieldBack(StatReads[14], s[14]) = F[14]
  <2>1. IsList(<<"i16">>, s[14])
    BY <1>4, <1>5, StatFields
  <2>2. ListBack(<<"i16">>, s[14]) = FirstItems(s[14])
    <3>1. PICK ks : ks = <<"i16">>
      OBVIOUS
    <3>2. Len(ks) \in Nat /\ \A j \in 1 .. Len(ks) : ks[j] # "str"
      BY <3>1
    <3> QED BY <2>1, <3>1, <3>2, PlainList
  <2> QED BY <1>2, <2>2, StatFields, FieldForms
<1>8. FieldBack(StatReads[18], s[18]) = F[18]
  BY <1>2, <1>4, <1>5, StatFields, FieldForms, NamedLists
<1>9. FieldBack(StatReads[19], s[19]) = F[19]
  BY <1>2, <1>4, <1>5, StatFields, FieldForms, NamedLists
<1>10. FieldBack(StatReads[20], s[20]) = F[20]
  BY <1>2, <1>4, <1>5, StatFields, FieldForms, NamedLists
<1>11. \A k : k # "str" => \A v : FieldBack(One(k), v) = v
  BY FieldForms DEF Back
<1>12. \A i \in 1 .. 22 : i \notin {2, 14, 18, 19, 20} => FieldBack(StatReads[i], s[i]) = F[i]
  <2>1. \A i \in 1 .. 22 : i \notin {2, 14, 18, 19, 20} => StatReads[i] \in {One("u16"), One("i16"), One("u32"), One("u64")}
    BY StatFields
  <2>2. \A v : FieldBack(One("u16"), v) = v /\ FieldBack(One("i16"), v) = v /\ FieldBack(One("u32"), v) = v
               /\ FieldBack(One("u64"), v) = v
    BY <1>11
  <2> QED BY <1>2, <2>1, <2>2
<1>13. \A i \in 1 .. 22 : FieldBack(StatReads[i], s[i]) = F[i]
  BY <1>6, <1>7, <1>8, <1>9, <1>10, <1>12
<1> QED BY <1>2, <1>3, <1>13 DEF F, g

\* What must come back of each kind of message.
LEMMA Normals ==
  ASSUME NEW m
  PROVE  /\ m.tag = "Exec" => Normal(m) =
              Msg("Exec",
                <<[i \in 1 .. count(Len(m.f[1])) |-> <<Kept(m.f[1][i][1])>>],
                  [i \in 1 .. count(Len(m.f[2])) |-> <<Kept(m.f[2][i][1]), Kept(m.f[2][i][2])>>],
                  IF m.f[3] = << >> THEN None
                  ELSE IF m.f[3] = None THEN None ELSE Kept(m.f[3])>>)
         /\ m.tag \in OneString \cup {"PutOpen"} => Normal(m) = Msg(m.tag, [m.f EXCEPT ![1] = Kept(m.f[1])])
         /\ m.tag = "StatReply" => Normal(m) =
              Msg(m.tag, [m.f EXCEPT ![2] = FirstItems(@), ![14] = FirstItems(@),
                                     ![18] = KeptDevs(@), ![19] = KeptDevs(@), ![20] = KeptProcs(@)])
         /\ m.tag \in Payload \cup Bare \cup {"Exit", "GetEnd", "TrafficReply"} => Normal(m) = m
<1>1. m.tag = "Exec" => Normal(m) =
              Msg("Exec",
                <<[i \in 1 .. count(Len(m.f[1])) |-> <<Kept(m.f[1][i][1])>>],
                  [i \in 1 .. count(Len(m.f[2])) |-> <<Kept(m.f[2][i][1]), Kept(m.f[2][i][2])>>],
                  IF m.f[3] = << >> THEN None
                  ELSE IF m.f[3] = None THEN None ELSE Kept(m.f[3])>>)
  BY DEF Normal, OneString
<1>2. m.tag \in OneString \cup {"PutOpen"} => Normal(m) = Msg(m.tag, [m.f EXCEPT ![1] = Kept(m.f[1])])
  BY DEF Normal, OneString
<1>3. m.tag = "StatReply" => Normal(m) =
              Msg(m.tag, [m.f EXCEPT ![2] = FirstItems(@), ![14] = FirstItems(@),
                                     ![18] = KeptDevs(@), ![19] = KeptDevs(@), ![20] = KeptProcs(@)])
  BY DEF Normal, OneString
<1>4. m.tag \in Payload \cup Bare \cup {"Exit", "GetEnd", "TrafficReply"} => Normal(m) = m
  BY DEF Normal, OneString, Payload, Bare
<1> QED BY <1>1, <1>2, <1>3, <1>4

\* What comes back of a command's arguments and environment.
LEMMA TextLists ==
  ASSUME NEW xs
  PROVE  /\ ListBack(<<"str">>, xs) = [i \in 1 .. count(Len(xs)) |-> <<Kept(xs[i][1])>>]
         /\ ListBack(<<"str", "str">>, xs) = [i \in 1 .. count(Len(xs)) |-> <<Kept(xs[i][1]), Kept(xs[i][2])>>]
<1>1. \A x : ItemBack(<<"str">>, x) = <<Kept(x[1])>>
  BY DEF ItemBack, Back
<1>2. \A x : ItemBack(<<"str", "str">>, x) = <<Kept(x[1]), Kept(x[2])>>
  BY DEF ItemBack, Back
<1> QED BY <1>1, <1>2 DEF ListBack

\* What the decoder makes of the fields it has read.
Made(t, vals) == IF t = "Exec" /\ vals[3] = << >> THEN Msg(t, [vals EXCEPT ![3] = None]) ELSE Msg(t, vals)

\* The fields that come back are those of the message at its wire limits.
LEMMA MakesNormal ==
  ASSUME NEW m, IsMessage(m), m.tag \notin Payload
  PROVE  Made(m.tag, BodyBack(ReadSchema(m.tag), Wired(m))) = Normal(m)
<1>1. PICK t \in Tags : t = m.tag
  BY DEF IsMessage
<1>2. PICK s : s = ReadSchema(t)
  OBVIOUS
<1>3. PICK w : w = Wired(m)
  OBVIOUS
<1>4. Filled(s, w) /\ m.f = [i \in 1 .. Len(s) |-> m.f[i]] /\ m = Msg(t, m.f)
  BY <1>1, <1>2, <1>3 DEF IsMessage
<1>5. PICK g : g = BodyBack(s, w)
  OBVIOUS
<1>6. g = [i \in 1 .. Len(s) |-> FieldBack(s[i], w[i])]
  BY <1>5 DEF BodyBack
<1>7. t # "Exec" => w = m.f /\ Made(t, g) = Msg(t, g)
  BY <1>1, <1>3 DEF Wired, Made
<1>8. SUFFICES Made(t, g) = Normal(m)
  BY <1>1, <1>2, <1>3, <1>5
<1>9. PICK F : F = m.f
  OBVIOUS
<1>10. CASE t = "Exec"
  <2>1. s = <<List(<<"str">>), List(<<"str", "str">>), One("str")>>
    BY <1>2, <1>10, Schemas
  <2>2. Len(s) = 3 /\ s[1] = List(<<"str">>) /\ s[2] = List(<<"str", "str">>) /\ s[3] = One("str")
    BY <2>1
  <2>3. w[1] = F[1] /\ w[2] = F[2] /\ w[3] = IF F[3] = None THEN << >> ELSE F[3]
    <3>1. DOMAIN m.f = 1 .. 3
      BY <1>4, <2>2, Zenon
    <3> QED BY <1>1, <1>3, <1>9, <1>10, <3>1 DEF Wired
  <2>4. w[3] \in Text
    <3>1. Fills(s[3], w[3])
      <4>1. 3 \in 1 .. Len(s)
        BY <2>2
      <4> QED BY <1>4, <4>1, Zenon DEF Filled
    <3> QED BY <2>2, <3>1 DEF Fills, One, Values
  <2>5. g[1] = ListBack(<<"str">>, F[1]) /\ g[2] = ListBack(<<"str", "str">>, F[2]) /\ g[3] = Kept(w[3])
        /\ g = <<g[1], g[2], g[3]>>
    <3>1. FieldBack(s[1], w[1]) = ListBack(<<"str">>, F[1])
      BY <2>2, <2>3, FieldForms
    <3>2. FieldBack(s[2], w[2]) = ListBack(<<"str", "str">>, F[2])
      BY <2>2, <2>3, FieldForms
    <3>3. FieldBack(s[3], w[3]) = Kept(w[3])
      BY <2>2, FieldForms DEF Back
    <3> QED BY <1>6, <2>2, <3>1, <3>2, <3>3
  <2>6. PICK a : a = [i \in 1 .. count(Len(F[1])) |-> <<Kept(F[1][i][1])>>]
    OBVIOUS
  <2>7. PICK b : b = [i \in 1 .. count(Len(F[2])) |-> <<Kept(F[2][i][1]), Kept(F[2][i][2])>>]
    OBVIOUS
  <2>8. g = <<a, b, Kept(w[3])>>
    BY <2>5, <2>6, <2>7, TextLists
  <2>9. Normal(m) = Msg("Exec", <<a, b, IF F[3] = << >> THEN None ELSE IF F[3] = None THEN None ELSE Kept(F[3])>>)
    <3>1. m.tag = "Exec"
      BY <1>1, <1>10
    <3>2. Normal(m) =
              Msg("Exec",
                <<[i \in 1 .. count(Len(m.f[1])) |-> <<Kept(m.f[1][i][1])>>],
                  [i \in 1 .. count(Len(m.f[2])) |-> <<Kept(m.f[2][i][1]), Kept(m.f[2][i][2])>>],
                  IF m.f[3] = << >> THEN None
                  ELSE IF m.f[3] = None THEN None ELSE Kept(m.f[3])>>)
      BY <3>1, Normals, Zenon
    <3> QED BY <1>9, <2>6, <2>7, <3>2, Zenon
  <2>10. Made(t, g) = IF Kept(w[3]) = << >> THEN Msg("Exec", <<a, b, None>>) ELSE Msg("Exec", <<a, b, Kept(w[3])>>)
    <3>1. g[3] = Kept(w[3]) /\ [g EXCEPT ![3] = None] = <<a, b, None>>
      BY <2>8
    <3> QED BY <1>10, <2>8, <3>1 DEF Made
  <2>11. Kept(w[3]) = << >> <=> w[3] = << >>
    BY <2>4, KeptNotEmpty, NoneIsNoText
  <2>12. CASE w[3] = << >>
    <3>1. F[3] = << >> \/ F[3] = None
      BY <2>3, <2>12
    <3>2. Made(t, g) = Msg("Exec", <<a, b, None>>)
      BY <2>10, <2>11, <2>12
    <3>3. Normal(m) = Msg("Exec", <<a, b, None>>)
      BY <2>9, <3>1
    <3> QED BY <3>2, <3>3
  <2>13. CASE w[3] # << >>
    <3>1. F[3] # << >> /\ F[3] # None /\ w[3] = F[3]
      BY <2>3, <2>4, <2>13, NoneIsNoText
    <3>2. Made(t, g) = Msg("Exec", <<a, b, Kept(w[3])>>)
      BY <2>10, <2>11, <2>13
    <3>3. Normal(m) = Msg("Exec", <<a, b, Kept(F[3])>>)
      BY <2>9, <3>1
    <3> QED BY <3>1, <3>2, <3>3
  <2> QED BY <2>12, <2>13
<1>11. CASE t \in Bare
  <2>1. s = << >> /\ Len(s) = 0 /\ t # "Exec"
    BY <1>2, <1>11, Schemas DEF Bare
  <2>2. g = F
    BY <1>4, <1>6, <1>9, <2>1
  <2>3. Normal(m) = m
    BY <1>1, <1>11, Normals
  <2> QED BY <1>4, <1>7, <1>9, <2>1, <2>2, <2>3
<1>12. CASE t \in OneString
  <2>1. s = <<One("str")>> /\ t # "Exec"
    BY <1>2, <1>12, Schemas DEF OneString
  <2>2. Len(s) = 1 /\ s[1] = One("str")
    BY <2>1
  <2>3. g = [i \in 1 .. 1 |-> Kept(F[1])]
    <3>1. FieldBack(s[1], w[1]) = Kept(F[1])
      BY <1>7, <1>9, <2>1, <2>2, FieldForms DEF Back
    <3> QED BY <1>6, <2>2, <3>1
  <2>4. [F EXCEPT ![1] = Kept(F[1])] = [i \in 1 .. 1 |-> Kept(F[1])]
    <3>1. F = [i \in 1 .. 1 |-> F[i]]
      BY <1>4, <1>9, <2>2, Zenon
    <3> QED BY <3>1
  <2>5. Normal(m) = Msg(t, [F EXCEPT ![1] = Kept(F[1])])
    BY <1>1, <1>9, <1>12, Normals
  <2> QED BY <1>7, <2>1, <2>3, <2>4, <2>5
<1>13. CASE t = "PutOpen"
  <2>1. s = <<One("str"), One("u32")>> /\ t # "Exec"
    BY <1>2, <1>13, Schemas
  <2>2. Len(s) = 2 /\ s[1] = One("str") /\ s[2] = One("u32")
    BY <2>1
  <2>3. g = [i \in 1 .. 2 |-> IF i = 1 THEN Kept(F[1]) ELSE F[i]]
    <3>1. FieldBack(s[1], w[1]) = Kept(F[1]) /\ FieldBack(s[2], w[2]) = F[2]
      BY <1>7, <1>9, <2>1, <2>2, FieldForms DEF Back
    <3> QED BY <1>6, <2>2, <3>1
  <2>4. [F EXCEPT ![1] = Kept(F[1])] = [i \in 1 .. 2 |-> IF i = 1 THEN Kept(F[1]) ELSE F[i]]
    <3>1. F = [i \in 1 .. 2 |-> F[i]]
      BY <1>4, <1>9, <2>2, Zenon
    <3>2. DOMAIN F = 1 .. 2
      BY <3>1
    <3>3. [F EXCEPT ![1] = Kept(F[1])] = [i \in DOMAIN F |-> IF i = 1 THEN Kept(F[1]) ELSE F[i]]
      OBVIOUS
    <3> QED BY <3>2, <3>3
  <2>5. Normal(m) = Msg(t, [F EXCEPT ![1] = Kept(F[1])])
    BY <1>1, <1>9, <1>13, Normals, Zenon
  <2> QED BY <1>7, <2>1, <2>3, <2>4, <2>5
<1>14. CASE t \in {"Exit", "GetEnd", "TrafficReply"}
  <2>1. /\ t # "Exec" /\ Len(s) \in Nat
        /\ \A i \in 1 .. Len(s) : s[i] \in {One("i32"), One("u64")}
    BY <1>2, <1>14, Schemas
  <2>2. \A i \in 1 .. Len(s) : FieldBack(s[i], w[i]) = F[i]
    BY <1>7, <1>9, <2>1, FieldForms DEF Back
  <2>3. g = F
    BY <1>4, <1>6, <1>9, <2>2, Zenon
  <2>4. Normal(m) = m
    BY <1>1, <1>14, Normals
  <2> QED BY <1>4, <1>7, <1>9, <2>1, <2>3, <2>4, Zenon
<1>15. CASE t = "StatReply"
  <2>1. s = StatReads /\ w = F /\ Len(s) = 22 /\ Made(t, g) = Msg(t, g)
    BY <1>2, <1>7, <1>9, <1>15, Schemas, StatFields
  <2>2. Filled(StatReads, F) /\ F = [i \in 1 .. 22 |-> F[i]]
    BY <1>4, <1>9, <2>1, Zenon
  <2>3. BodyBack(StatReads, F) =
           [F EXCEPT ![2] = FirstItems(@), ![14] = FirstItems(@),
                     ![18] = KeptDevs(@), ![19] = KeptDevs(@), ![20] = KeptProcs(@)]
    BY <2>2, StatBack, Zenon
  <2>4. PICK G : G = [F EXCEPT ![2] = FirstItems(@), ![14] = FirstItems(@),
                     ![18] = KeptDevs(@), ![19] = KeptDevs(@), ![20] = KeptProcs(@)]
    OBVIOUS
  <2>5. g = G
    BY <1>5, <2>1, <2>3, <2>4
  <2>6. Normal(m) = Msg(t, G)
    BY <1>1, <1>9, <1>15, <2>4, Normals
  <2> QED BY <2>1, <2>5, <2>6
<1>16. t \notin Payload
  BY <1>1
<1> QED BY <1>1, <1>10, <1>11, <1>12, <1>13, <1>14, <1>15, <1>16, TagCases

\* However much of it has arrived, a body that begins as the message's is
\* decoded to that message if it is whole, and to no other message if not.
LEMMA Decodes ==
  ASSUME NEW m, IsMessage(m), m.tag \notin Payload, NEW body, Agrees(body, 0, EncodeBody(m))
  PROVE  /\ EncodeBody(m) \in Seq(Nat)
         /\ decode_body(TAG[m.tag], body) = IF Len(EncodeBody(m)) =< Len(body) THEN Normal(m) ELSE Err("Malformed")
<1>1. PICK t \in Tags : t = m.tag
  BY DEF IsMessage
<1>2. PICK s : s = ReadSchema(t)
  OBVIOUS
<1>3. PICK w : w = Wired(m)
  OBVIOUS
<1>4. PICK b : b = EncodeBody(m)
  OBVIOUS
<1>5. Filled(s, w) /\ b = Concat(BodyPieces(s, w)) /\ Agrees(body, 0, b)
  BY <1>1, <1>2, <1>3, <1>4, EncodesFields DEF IsMessage
<1>6. PICK r : r = ReadFields(body, s)
  OBVIOUS
<1>7. PICK g : g = BodyBack(s, w)
  OBVIOUS
<1>8. r = Outcome(body, 0, b, g)
  BY <1>5, <1>6, <1>7, ReadsFields
<1>9. Made(t, g) = Normal(m)
  BY <1>1, <1>2, <1>3, <1>7, MakesNormal
<1>10. decode_body(TAG[t], body) = IF ~r.ok THEN Err("Malformed") ELSE Made(t, r.vals)
  <2>1. (\E u \in Tags : TAG[u] = TAG[t]) /\ (CHOOSE u \in Tags : TAG[u] = TAG[t]) = t
    BY TagFound
  <2> QED BY <1>2, <1>6, <2>1, Zenon DEF decode_body, Made
<1>11. b \in Seq(Nat) /\ Len(b) \in Nat /\ 0 + Len(b) = Len(b)
  <2>1. b \in Seq(Nat)
    BY <1>5 DEF Agrees
  <2>2. Len(b) \in Nat
    BY <2>1, LenProperties
  <2> QED BY <2>1, <2>2
<1>12. r = IF Len(b) =< Len(body) THEN Cur(Len(b), g) ELSE Malformed
  BY <1>8, <1>11 DEF Outcome
<1>13. CASE Len(b) =< Len(body)
  <2>1. r.ok /\ r.vals = g
    BY <1>12, <1>13, CurVals
  <2> QED BY <1>1, <1>4, <1>9, <1>10, <1>11, <1>13, <2>1
<1>14. CASE ~(Len(b) =< Len(body))
  <2>1. ~r.ok
    BY <1>12, <1>14 DEF Malformed
  <2> QED BY <1>1, <1>4, <1>10, <1>11, <1>14, <2>1
<1> QED BY <1>13, <1>14

\* The beginning of a body, the whole of it, and more than it.
LEMMA Beginnings ==
  ASSUME NEW b \in Seq(Nat)
  PROVE  /\ Len(b) \in Nat /\ Agrees(b, 0, b)
         /\ \A n \in 0 .. Len(b) : /\ SubSeq(b, 1, n) \in Seq(Nat) /\ Len(SubSeq(b, 1, n)) = n
                                   /\ Agrees(SubSeq(b, 1, n), 0, b)
         /\ \A x \in Seq(Nat) : /\ b \o x \in Seq(Nat) /\ Len(b \o x) = Len(b) + Len(x) /\ Len(x) \in Nat
                                /\ Agrees(b \o x, 0, b)
<1>1. PICK k \in Nat : k = Len(b)
  BY LenProperties
<1>2. \A i \in 1 .. k : 0 + i = i
  OBVIOUS
<1>3. Agrees(b, 0, b)
  BY <1>1, <1>2 DEF Agrees
<1>4. ASSUME NEW n \in 0 .. k
      PROVE /\ SubSeq(b, 1, n) \in Seq(Nat) /\ Len(SubSeq(b, 1, n)) = n
            /\ Agrees(SubSeq(b, 1, n), 0, b)
  <2>1. PICK z \in Nat : z = 0
    OBVIOUS
  <2>2. z =< n /\ n =< Len(b) /\ n \in Nat /\ z + 1 = 1 /\ n - z = n /\ \A i \in 1 .. n : z + i = i
    BY <1>1, <2>1
  <2>3. /\ SubSeq(b, z + 1, n) \in Seq(Nat) /\ Len(SubSeq(b, z + 1, n)) = n - z
        /\ \A i \in 1 .. n - z : SubSeq(b, z + 1, n)[i] = b[z + i]
    BY <2>2, PartFacts
  <2>4. PICK y : y = SubSeq(b, 1, n)
    OBVIOUS
  <2>5. y \in Seq(Nat) /\ Len(y) = n /\ \A i \in 1 .. n : y[i] = b[i]
    BY <2>2, <2>3, <2>4
  <2>6. \A i \in 1 .. k : 0 + i =< n => 0 + i = i /\ i \in 1 .. n
    BY <2>2
  <2>7. Agrees(y, 0, b)
    BY <1>1, <2>2, <2>5, <2>6 DEF Agrees
  <2> QED BY <2>4, <2>5, <2>7
<1>5. ASSUME NEW x \in Seq(Nat)
      PROVE /\ b \o x \in Seq(Nat) /\ Len(b \o x) = Len(b) + Len(x) /\ Len(x) \in Nat
            /\ Agrees(b \o x, 0, b)
  <2>1. PICK y : y = b \o x
    OBVIOUS
  <2>2. y \in Seq(Nat) /\ Len(y) = k + Len(x) /\ Len(x) \in Nat
    BY <1>1, <2>1, ConcatProperties, LenProperties
  <2>3. \A i \in 1 .. k : y[i] = b[i]
    <3>1. \A i \in 1 .. k : i \in 1 .. k + Len(x) /\ i =< k
      BY <2>2
    <3> QED BY <1>1, <2>1, <3>1, ConcatProperties
  <2>4. 0 =< Len(y) /\ Len(y) \in Nat
    BY <2>2
  <2>5. Agrees(y, 0, b)
    BY <1>1, <1>2, <2>2, <2>3, <2>4 DEF Agrees
  <2> QED BY <1>1, <2>1, <2>2, <2>5
<1> QED BY <1>1, <1>3, <1>4, <1>5

(* Every message the program can write comes back from its own body with its
   strings and lists at their wire limits and nothing else changed, whatever
   follows it; cut anywhere, it comes back as no message at all (encode,
   decode_body). *)
THEOREM RoundTrip ==
  ASSUME NEW m, IsMessage(m)
  PROVE  /\ EncodeBody(m) \in Seq(Nat)
         /\ decode_body(TAG[m.tag], EncodeBody(m)) = Normal(m)
         /\ m.tag \notin Payload =>
               /\ \A x \in Seq(Nat) : decode_body(TAG[m.tag], EncodeBody(m) \o x) = Normal(m)
               /\ \A n \in 0 .. Len(EncodeBody(m)) - 1 :
                     decode_body(TAG[m.tag], SubSeq(EncodeBody(m), 1, n)) = Err("Malformed")
<1>1. PICK t \in Tags : t = m.tag
  BY DEF IsMessage
<1>2. PICK b : b = EncodeBody(m)
  OBVIOUS
<1>3. CASE t \in Payload
  <2>1. PICK d \in Seq(Nat) : m.f = <<d>>
    BY <1>1, <1>3 DEF IsMessage
  <2>2. b = d /\ m.f[1] = d /\ m = Msg(t, <<d>>) /\ Normal(m) = m
    <3>1. m.f[1] = d
      BY <2>1
    <3>2. EncodeBody(m) = m.f[1]
      BY <1>1, <1>3, Bodies
    <3>3. Normal(m) = m
      BY <1>1, <1>3, Normals
    <3>4. m = Msg(t, m.f)
      BY <1>1 DEF IsMessage
    <3> QED BY <1>2, <2>1, <3>1, <3>2, <3>3, <3>4
  <2>3. ReadSchema(t) = <<Rest>> /\ t # "Exec"
    BY <1>3, Schemas DEF Payload
  <2>4. PICK s : s = <<Rest>>
    OBVIOUS
  <2>5. Len(s) = 1 /\ s[1] = Rest /\ 1 \in 0 .. 1 /\ 0 \in 0 .. 1 /\ 1 - 1 = 0 /\ 1 # 0
    BY <2>4
  <2>6. PICK f : Fields(f, d, s)
    <3>1. Len(s) \in Nat
      BY <2>5
    <3> QED BY <3>1, FieldsExist
  <2>7. f[0] = Cur(0, << >>) /\ f[1] = ReadField(d, f[0], Rest) /\ ReadFields(d, s) = f[1]
    BY <2>5, <2>6 DEF Fields
  <2>8. Len(d) \in Nat /\ SubSeq(d, 0 + 1, Len(d)) = d
    <3>1. Len(d) \in Nat
      BY LenProperties
    <3>2. Agrees(d, 0, d) /\ 0 + Len(d) = Len(d) /\ Len(d) =< Len(d)
      BY <3>1, Beginnings
    <3>3. SubSeq(d, 0 + 1, 0 + Len(d)) = d
      BY <3>1, <3>2, TakesPiece
    <3> QED BY <3>1, <3>2, <3>3
  <2>9. ReadField(d, Cur(0, << >>), Rest) = Cur(Len(d), Append(<< >>, d))
    BY <2>8 DEF ReadField, Cur, Rest
  <2>10. PICK r : r = ReadFields(d, ReadSchema(t))
    OBVIOUS
  <2>11. r.ok /\ r.vals = <<d>>
    <3>1. Append(<< >>, d) = <<d>>
      OBVIOUS
    <3>2. r = Cur(Len(d), <<d>>)
      BY <2>3, <2>4, <2>7, <2>9, <2>10, <3>1
    <3> QED BY <3>2, CurVals
  <2>12. decode_body(TAG[t], d) = IF ~r.ok THEN Err("Malformed") ELSE Made(t, r.vals)
    <3>1. (\E u \in Tags : TAG[u] = TAG[t]) /\ (CHOOSE u \in Tags : TAG[u] = TAG[t]) = t
      BY TagFound
    <3> QED BY <2>10, <3>1, Zenon DEF decode_body, Made
  <2>13. decode_body(TAG[t], d) = Normal(m)
    BY <2>2, <2>3, <2>11, <2>12 DEF Made
  <2> QED BY <1>1, <1>2, <1>3, <2>2, <2>13
<1>4. CASE t \notin Payload
  <2>1. b \in Seq(Nat)
    BY <1>1, <1>2, <1>4, EncodesFields, BodyIsBytes, SMTT(30) DEF IsMessage
  <2>2. ASSUME NEW body, Agrees(body, 0, b)
        PROVE  decode_body(TAG[t], body) = IF Len(b) =< Len(body) THEN Normal(m) ELSE Err("Malformed")
    BY <1>1, <1>2, <1>4, <2>2, Decodes
  <2>3. PICK k \in Nat : k = Len(b)
    BY <2>1, LenProperties
  <2>4. decode_body(TAG[t], b) = Normal(m)
    BY <2>1, <2>2, <2>3, Beginnings
  <2>5. \A x \in Seq(Nat) : decode_body(TAG[t], b \o x) = Normal(m)
    <3>1. TAKE x \in Seq(Nat)
    <3>2. Agrees(b \o x, 0, b) /\ Len(b \o x) = k + Len(x) /\ Len(x) \in Nat
      BY <2>1, <2>3, Beginnings
    <3>3. k =< Len(b \o x)
      BY <3>2
    <3> QED BY <2>2, <2>3, <3>2, <3>3
  <2>6. \A n \in 0 .. k - 1 : decode_body(TAG[t], SubSeq(b, 1, n)) = Err("Malformed")
    <3>1. TAKE n \in 0 .. k - 1
    <3>2. n \in 0 .. k /\ ~(k =< n)
      OBVIOUS
    <3>3. Agrees(SubSeq(b, 1, n), 0, b) /\ Len(SubSeq(b, 1, n)) = n
      BY <2>1, <2>3, <3>2, Beginnings
    <3> QED BY <2>2, <2>3, <3>2, <3>3
  <2> QED BY <1>1, <1>2, <2>1, <2>3, <2>4, <2>5, <2>6
<1> QED BY <1>3, <1>4

----------------------------------------------------------------------------
(* Frames, as a sender writes them and as a line may deliver them.         *)

\* Text that is not UTF-8 in the one field of a message.
NotText(t, s) == [bytes |-> Frame(TAG[t], put_str(s)), expect |-> Err("Malformed")]
IsFrame(f) ==
  \/ \E m : IsMessage(m) /\ 1 + Len(EncodeBody(m)) < U32 /\ f = Sent(m)
  \/ \E m : /\ IsMessage(m) /\ m.tag \notin Payload
            /\ \E n \in 0 .. Len(EncodeBody(m)) - 1 : 1 + n =< MAX_FRAME /\ f = Cut(m, n)
  \/ \E m : /\ IsMessage(m) /\ m.tag \notin Payload
            /\ \E x \in Seq(Nat) : 1 + Len(EncodeBody(m) \o x) =< MAX_FRAME /\ f = Padded(m, x)
  \/ \E t \in OneString : \E s \in Seq(Nat) :
        ~ValidUtf8(s) /\ Len(s) =< MAX_STRING /\ 1 + Len(put_str(s)) =< MAX_FRAME /\ f = NotText(t, s)
  \/ \E tag \in Nat : \E b \in Seq(Nat) :
        (~ \E t \in Tags : TAG[t] = tag) /\ 1 + Len(b) =< MAX_FRAME /\ f = Unknown(tag, b)
  \/ \E n \in 0 .. U32 - 1 : \E tag \in Nat : \E b \in Seq(Nat) : n \notin 1 .. MAX_FRAME /\ f = Oversize(n, tag, b)

\* Two sequences of bytes in a row, the first of length m.
InTwo(y, m, a, b) ==
  /\ y \in Seq(Nat) /\ m \in Nat /\ Len(b) \in Nat /\ Len(y) = m + Len(b)
  /\ \A i \in 1 .. m : y[i] = a[i]
  /\ \A i \in 1 .. Len(b) : y[m + i] = b[i]

\* Two sequences of bytes, one after the other.
LEMMA TwoInARow ==
  ASSUME NEW a \in Seq(Nat), NEW b \in Seq(Nat)
  PROVE  InTwo(a \o b, Len(a), a, b)
<1>1. PICK y : y = a \o b
  OBVIOUS
<1>2. PICK m : m = Len(a)
  OBVIOUS
<1>3. /\ y \in Seq(Nat) /\ m \in Nat /\ Len(b) \in Nat /\ Len(y) = m + Len(b)
      /\ \A i \in 1 .. m + Len(b) : y[i] = IF i =< m THEN a[i] ELSE b[i - m]
  BY <1>1, <1>2, ConcatProperties, LenProperties
<1>4. PICK k \in Nat : k = Len(b)
  BY <1>3
<1>5. \A i \in 1 .. m : i \in 1 .. m + k /\ i =< m
  BY <1>3
<1>6. \A i \in 1 .. k : m + i \in 1 .. m + k /\ ~(m + i =< m) /\ (m + i) - m = i
  BY <1>3
<1>7. InTwo(y, m, a, b)
  BY <1>3, <1>4, <1>5, <1>6 DEF InTwo
<1> QED BY <1>1, <1>2, <1>7

LaidOut(y, n, tag, b) ==
  /\ y \in Seq(Nat) /\ Len(y) = 5 + Len(b) /\ Len(b) \in Nat /\ LengthField(y) = n
  /\ y[5] = tag /\ SubSeq(y, 6, Len(y)) = b

\* How a frame is laid out.
LEMMA FrameBytes ==
  ASSUME NEW n, NEW tag, NEW b \in Seq(Nat), NEW c \in Seq(Nat), Len(c) = 4, Number(c) = n,
         NEW a, Len(a) = 1, a[1] = tag, NEW h, InTwo(h, 4, c, a), NEW y, InTwo(y, 5, h, b)
  PROVE  LaidOut(y, n, tag, b)
<1>1. PICK k \in Nat : k = Len(b)
  BY LenProperties
<1>2. h \in Seq(Nat) /\ Len(h) = 5 /\ (\A i \in 1 .. 4 : h[i] = c[i]) /\ h[5] = tag
  <2>1. h \in Seq(Nat) /\ Len(h) = 4 + 1 /\ (\A i \in 1 .. 4 : h[i] = c[i]) /\ \A i \in 1 .. 1 : h[4 + i] = a[i]
    BY DEF InTwo
  <2>2. 1 \in 1 .. 1 /\ 4 + 1 = 5
    OBVIOUS
  <2> QED BY <2>1, <2>2
<1>3. y \in Seq(Nat) /\ Len(y) = 5 + k /\ \A i \in 1 .. 5 : y[i] = h[i]
  BY <1>1 DEF InTwo
<1>4. \A i \in 1 .. k : y[5 + i] = b[i]
  BY <1>1 DEF InTwo
<1>5. y[5] = tag
  BY <1>2, <1>3
<1>6. LengthField(y) = n
  <2>1. \A i \in 1 .. 4 : y[i] = c[i]
    <3>1. \A i \in 1 .. 4 : i \in 1 .. 5
      OBVIOUS
    <3> QED BY <1>2, <1>3, <3>1
  <2>2. PICK z \in Nat : z = 0
    OBVIOUS
  <2>3. z + 1 = 1 /\ z + 4 = 4 /\ z =< Len(y) /\ z + 4 =< Len(y) /\ \A i \in 1 .. 4 : z + i = i
    BY <1>1, <1>3, <2>2
  <2>4. Agrees(y, z, c)
    BY <1>3, <2>1, <2>3 DEF Agrees
  <2>5. PICK m : m = 4
    OBVIOUS
  <2>6. SubSeq(y, z + 1, z + m) = c
    BY <2>3, <2>4, <2>5, TakesPiece
  <2> QED BY <2>3, <2>5, <2>6 DEF LengthField
<1>7. SubSeq(y, 6, Len(y)) = b
  <2>1. PICK p \in Nat : p = 5
    OBVIOUS
  <2>2. p + 1 = 6 /\ p + k = Len(y) /\ p =< Len(y) /\ p + k =< Len(y)
    BY <1>3, <2>1
  <2>3. Agrees(y, p, b)
    BY <1>1, <1>3, <1>4, <2>1, <2>2 DEF Agrees
  <2>4. SubSeq(y, p + 1, p + k) = b
    BY <1>1, <2>2, <2>3, TakesPiece
  <2> QED BY <2>2, <2>4
<1> QED BY <1>1, <1>3, <1>5, <1>6, <1>7 DEF LaidOut

\* How a frame is laid out, from its fields.
LEMMA FrameLaidOut ==
  ASSUME NEW n \in 0 .. U32 - 1, NEW tag \in Nat, NEW b \in Seq(Nat)
  PROVE  LaidOut(put_u32(n) \o <<tag>> \o b, n, tag, b)
<1>1. PICK c : c = put_u32(n)
  OBVIOUS
<1>2. c \in Seq(Nat) /\ Len(c) = 4 /\ Number(c) = n
  <2>1. U32 \in Nat /\ U32 >= 2
    BY Widths
  <2>2. n % U32 = n
    BY <2>1, SmallRemainders
  <2> QED BY <1>1, <2>2, Widths DEF put_u32
<1>3. PICK a : a = <<tag>>
  OBVIOUS
<1>4. a \in Seq(Nat) /\ Len(a) = 1 /\ a[1] = tag
  BY <1>3
<1>5. PICK h : h = c \o a
  OBVIOUS
<1>6. PICK y : y = h \o b
  OBVIOUS
<1>7. InTwo(h, 4, c, a)
  BY <1>2, <1>4, <1>5, TwoInARow
<1>8. h \in Seq(Nat) /\ Len(h) = 5
  <2>1. h \in Seq(Nat) /\ Len(h) = 4 + Len(a)
    BY <1>7 DEF InTwo
  <2> QED BY <1>4, <2>1
<1>9. InTwo(y, 5, h, b)
  BY <1>6, <1>8, TwoInARow
<1>10. LaidOut(y, n, tag, b)
  BY <1>2, <1>4, <1>7, <1>9, FrameBytes
<1> QED BY <1>1, <1>3, <1>5, <1>6, <1>10

\* Text that is not UTF-8 is refused.
LEMMA RefusesNotText ==
  ASSUME NEW t \in OneString, NEW s \in Seq(Nat), ~ValidUtf8(s), Len(s) =< MAX_STRING
  PROVE  put_str(s) \in Seq(Nat) /\ decode_body(TAG[t], put_str(s)) = Err("Malformed")
<1>1. PICK k \in Nat : k = Len(s)
  BY LenProperties
<1>2. U16 \in Nat /\ U16 >= 4
  BY Widths
<1>3. k \in 0 .. U16 - 1 /\ put_str(s) = put_u16(k) \o s
  BY <1>1, <1>2 DEF MAX_STRING, put_str, clip
<1>4. PICK c : c = put_u16(k)
  OBVIOUS
<1>5. c \in Seq(Nat) /\ Len(c) = 2 /\ Number(c) = k
  BY <1>3, <1>4, WrittenCount
<1>6. PICK b : b = put_str(s)
  OBVIOUS
<1>7. b \in Seq(Nat) /\ Len(b) = 2 + k /\ b = c \o s
  <2>1. b = c \o s
    BY <1>3, <1>4, <1>6
  <2>2. InTwo(b, 2, c, s)
    BY <1>5, <2>1, TwoInARow
  <2>3. b \in Seq(Nat) /\ Len(b) = 2 + Len(s)
    BY <2>2 DEF InTwo
  <2> QED BY <1>1, <2>1, <2>3
<1>8. Agrees(b, 0, c \o s)
  BY <1>7, Beginnings
<1>9. Agrees(b, 0, c) /\ (0 + 2 =< Len(b) => Agrees(b, 0 + 2, s))
  <2>1. Agrees(b, 0, c)
    BY <1>5, <1>8, AgreesSplit
  <2>2. 0 + Len(c) =< Len(b) => Agrees(b, 0 + Len(c), s)
    BY <1>5, <1>8, AgreesSplit
  <2> QED BY <1>5, <2>1, <2>2
<1>10. SubSeq(b, 0 + 1, 0 + 2) = c
  <2>1. 0 + 2 =< Len(b)
    BY <1>7
  <2> QED BY <1>5, <1>9, <2>1, TakesPiece
<1>11. SubSeq(b, 0 + 3, (0 + 2) + k) = s
  <2>1. Agrees(b, 2, s) /\ 2 + k =< Len(b)
    BY <1>7, <1>9
  <2>2. SubSeq(b, 2 + 1, 2 + k) = s
    BY <1>1, <2>1, TakesPiece
  <2> QED BY <2>2
<1>12. ReadStr(b, Cur(0, << >>)) = Malformed
  BY <1>5, <1>10, <1>11 DEF ReadStr, Cur, take
<1>13. PICK sc : sc = <<One("str")>>
  OBVIOUS
<1>14. Len(sc) = 1 /\ sc[1] = One("str") /\ 1 \in 0 .. 1 /\ 0 \in 0 .. 1 /\ 1 - 1 = 0 /\ 1 # 0 /\ Len(sc) \in Nat
  BY <1>13
<1>15. PICK f : Fields(f, b, sc)
  BY <1>14, FieldsExist
<1>16. f[0] = Cur(0, << >>) /\ f[1] = ReadField(b, f[0], One("str")) /\ ReadFields(b, sc) = f[1]
  BY <1>14, <1>15 DEF Fields
<1>17. ReadField(b, Cur(0, << >>), One("str")) = ReadStr(b, Cur(0, << >>))
  BY DEF ReadField, ReadOne, One, Cur
<1>18. t \in Tags /\ ReadSchema(t) = sc
  BY <1>13, Schemas, TagsDiffer DEF OneString
<1>19. PICK r : r = ReadFields(b, ReadSchema(t))
  OBVIOUS
<1>20. ~r.ok
  BY <1>12, <1>16, <1>17, <1>18, <1>19 DEF Malformed
<1>21. decode_body(TAG[t], b) = IF ~r.ok THEN Err("Malformed") ELSE Made(t, r.vals)
  <2>1. (\E u \in Tags : TAG[u] = TAG[t]) /\ (CHOOSE u \in Tags : TAG[u] = TAG[t]) = t
    BY <1>18, TagFound
  <2> QED BY <1>19, <2>1, Zenon DEF decode_body, Made
<1> QED BY <1>6, <1>7, <1>20, <1>21

\* The frame of a body.
LEMMA FrameOf ==
  ASSUME NEW tag \in Nat, NEW b \in Seq(Nat), 1 + Len(b) < U32
  PROVE  LaidOut(Frame(tag, b), 1 + Len(b), tag, b)
<1>1. Len(b) \in Nat /\ U32 \in Nat
  BY LenProperties, Widths
<1>2. 1 + Len(b) \in 0 .. U32 - 1
  BY <1>1
<1> QED BY <1>2, FrameLaidOut DEF Frame

\* A frame of the right length is well framed, and answered as it says if its
\* body is.
LEMMA FrameAnswered ==
  ASSUME NEW f, NEW n, NEW tag, NEW b, LaidOut(f.bytes, n, tag, b),
         \/ f.expect = Err("Length") /\ n \notin 1 .. MAX_FRAME
         \/ n \in 1 .. MAX_FRAME /\ n = 1 + Len(b) /\ f.expect = decode_body(tag, b)
  PROVE  Framed(f) /\ Answered(f)
<1>1. PICK y : y = f.bytes
  OBVIOUS
<1>2. /\ y \in Seq(Nat) /\ Len(y) = 5 + Len(b) /\ Len(b) \in Nat /\ LengthField(y) = n
      /\ y[5] = tag /\ SubSeq(y, 6, Len(y)) = b
  BY <1>1 DEF LaidOut
<1>3. Len(y) >= 4 /\ (n = 1 + Len(b) => Len(y) = 4 + n)
  BY <1>2
<1> QED BY <1>1, <1>2, <1>3 DEF Framed, Answered

\* Every frame a sender writes is well framed and answered as it says.
LEMMA FramesAnswered ==
  ASSUME NEW f, IsFrame(f)
  PROVE  Framed(f) /\ Answered(f)
<1>1. U32 \in Nat /\ MAX_FRAME \in Nat /\ MAX_FRAME + 2 =< U32
  BY WireBounds, Widths
<1>2. \A t \in Tags : TAG[t] \in Nat
  BY TagsDiffer
<1>3. ASSUME NEW m, IsMessage(m), 1 + Len(EncodeBody(m)) < U32, f = Sent(m)
      PROVE  Framed(f) /\ Answered(f)
  <2>1. PICK b : b = EncodeBody(m)
    OBVIOUS
  <2>2. PICK g : g = TAG[m.tag]
    OBVIOUS
  <2>3. b \in Seq(Nat) /\ decode_body(g, b) = Normal(m)
    BY <1>3, <2>1, <2>2, RoundTrip
  <2>4. g \in Nat /\ Len(b) \in Nat
    BY <1>2, <1>3, <2>2, <2>3, LenProperties DEF IsMessage
  <2>5. f.bytes = Frame(g, b) /\ f.expect = IF 1 + Len(b) =< MAX_FRAME THEN Normal(m) ELSE Err("Length")
    BY <1>3, <2>1, <2>2 DEF Sent, encode, Fits
  <2>6. LaidOut(f.bytes, 1 + Len(b), g, b)
    BY <1>3, <2>1, <2>3, <2>4, <2>5, FrameOf
  <2>7. 1 + Len(b) \in 1 .. MAX_FRAME <=> 1 + Len(b) =< MAX_FRAME
    BY <1>1, <2>4
  <2>8. \/ f.expect = Err("Length") /\ 1 + Len(b) \notin 1 .. MAX_FRAME
        \/ 1 + Len(b) \in 1 .. MAX_FRAME /\ f.expect = decode_body(g, b)
    BY <2>3, <2>5, <2>7
  <2> QED BY <2>6, <2>8, FrameAnswered
<1>4. ASSUME NEW g \in Nat, NEW b \in Seq(Nat), 1 + Len(b) =< MAX_FRAME, f.bytes = Frame(g, b),
             f.expect = decode_body(g, b)
      PROVE  Framed(f) /\ Answered(f)
  <2>1. Len(b) \in Nat
    BY LenProperties
  <2>2. 1 + Len(b) < U32 /\ 1 + Len(b) \in 1 .. MAX_FRAME
    BY <1>1, <1>4, <2>1
  <2>3. LaidOut(f.bytes, 1 + Len(b), g, b)
    BY <1>4, <2>2, FrameOf
  <2> QED BY <1>4, <2>2, <2>3, FrameAnswered
<1>5. ASSUME NEW m, IsMessage(m), m.tag \notin Payload, NEW n \in 0 .. Len(EncodeBody(m)) - 1,
             1 + n =< MAX_FRAME, f = Cut(m, n)
      PROVE  Framed(f) /\ Answered(f)
  <2>1. PICK b : b = EncodeBody(m)
    OBVIOUS
  <2>2. PICK c : c = SubSeq(b, 1, n)
    OBVIOUS
  <2>3. PICK g : g = TAG[m.tag]
    OBVIOUS
  <2>4. b \in Seq(Nat) /\ decode_body(g, c) = Err("Malformed")
    BY <1>5, <2>1, <2>2, <2>3, RoundTrip
  <2>5. Len(b) \in Nat
    BY <2>4, LenProperties
  <2>6. n \in 0 .. Len(b)
    BY <2>1, <2>5
  <2>7. c \in Seq(Nat) /\ Len(c) = n
    BY <2>2, <2>4, <2>6, Beginnings
  <2>8. g \in Nat
    BY <1>2, <1>5, <2>3 DEF IsMessage
  <2>9. f.bytes = Frame(g, c) /\ f.expect = decode_body(g, c)
    BY <1>5, <2>1, <2>2, <2>3, <2>4 DEF Cut
  <2> QED BY <1>4, <1>5, <2>7, <2>8, <2>9
<1>6. ASSUME NEW m, IsMessage(m), m.tag \notin Payload, NEW x \in Seq(Nat),
             1 + Len(EncodeBody(m) \o x) =< MAX_FRAME, f = Padded(m, x)
      PROVE  Framed(f) /\ Answered(f)
  <2>1. PICK b : b = EncodeBody(m)
    OBVIOUS
  <2>2. PICK c : c = b \o x
    OBVIOUS
  <2>3. PICK g : g = TAG[m.tag]
    OBVIOUS
  <2>4. b \in Seq(Nat) /\ decode_body(g, c) = Normal(m)
    BY <1>6, <2>1, <2>2, <2>3, RoundTrip
  <2>5. c \in Seq(Nat)
    BY <2>2, <2>4, Beginnings
  <2>6. g \in Nat
    BY <1>2, <1>6, <2>3 DEF IsMessage
  <2>7. f.bytes = Frame(g, c) /\ f.expect = decode_body(g, c) /\ 1 + Len(c) =< MAX_FRAME
    BY <1>6, <2>1, <2>2, <2>3, <2>4 DEF Padded
  <2> QED BY <1>4, <2>5, <2>6, <2>7
<1>7. ASSUME NEW t \in OneString, NEW s \in Seq(Nat), ~ValidUtf8(s), Len(s) =< MAX_STRING,
             1 + Len(put_str(s)) =< MAX_FRAME, f = NotText(t, s)
      PROVE  Framed(f) /\ Answered(f)
  <2>1. put_str(s) \in Seq(Nat) /\ decode_body(TAG[t], put_str(s)) = Err("Malformed")
    BY <1>7, RefusesNotText
  <2>2. TAG[t] \in Nat
    BY <1>2, TagsDiffer DEF OneString
  <2>3. f.bytes = Frame(TAG[t], put_str(s)) /\ f.expect = Err("Malformed")
    BY <1>7 DEF NotText
  <2> QED BY <1>4, <1>7, <2>1, <2>2, <2>3
<1>8. ASSUME NEW tag \in Nat, NEW b \in Seq(Nat), ~ \E t \in Tags : TAG[t] = tag, 1 + Len(b) =< MAX_FRAME,
             f = Unknown(tag, b)
      PROVE  Framed(f) /\ Answered(f)
  <2>1. decode_body(tag, b) = Err("Tag")
    BY <1>8, Zenon DEF decode_body
  <2>2. f.bytes = Frame(tag, b) /\ f.expect = Err("Tag")
    BY <1>8 DEF Unknown
  <2> QED BY <1>4, <1>8, <2>1, <2>2
<1>9. ASSUME NEW n \in 0 .. U32 - 1, NEW tag \in Nat, NEW b \in Seq(Nat), n \notin 1 .. MAX_FRAME,
             f = Oversize(n, tag, b)
      PROVE  Framed(f) /\ Answered(f)
  <2>1. f.bytes = put_u32(n) \o <<tag>> \o b /\ f.expect = Err("Length")
    BY <1>9 DEF Oversize
  <2>2. LaidOut(f.bytes, n, tag, b)
    BY <2>1, FrameLaidOut
  <2> QED BY <1>9, <2>1, <2>2, FrameAnswered
<1> QED BY <1>3, <1>5, <1>6, <1>7, <1>8, <1>9 DEF IsFrame

(* FramesIntact for every stream of frames that a sender writes or a line
   truncates: messages of every kind with fields of any value, their bodies
   cut anywhere or followed by more bytes, text that is not UTF-8, unknown
   tags and length fields out of range, in any order and cut into pieces in
   any way (encode, next_frame, decode_body). *)
THEOREM StreamsComeBack ==
  ASSUME \A s \in Streams : \A k \in 1 .. Len(s) : IsFrame(s[k])
  PROVE  FrameSpec => []FramesIntact
<1>1. \A s \in Streams : \A k \in 1 .. Len(s) : Answered(s[k])
  BY FramesAnswered
<1> QED BY <1>1, DecoderTellsFrames

-----------------------------------------------------------------------------
(* The masked loop.                                                        *)

\* The recursion of MaskedUpTo has a solution.
LEMMA MaskedDefined ==
  ASSUME NEW z, NEW k, NEW program, Len(program) \in Nat
  PROVE  MaskedUpTo(z, k, program) = [i \in 0 .. Len(program) |-> IF i = 0 THEN z
                    ELSE [l \in Lanes |-> IF l \notin k THEN z[l]
                            ELSE [MaskedUpTo(z, k, program)[i - 1][l] EXCEPT ![program[i][2]] = LaneResult(MaskedUpTo(z, k, program)[i - 1][l], program[i])]]]
<1> DEFINE m == Len(program)
           Step(a, i) == [l \in Lanes |-> IF l \notin k THEN z[l]
                            ELSE [a[l] EXCEPT ![program[i][2]] = LaneResult(a[l], program[i])]]
           Start == z
           Solves(q, g) == g = [i \in 0 .. q |-> IF i = 0 THEN Start ELSE Step(g[i - 1], i)]
           S == {q \in 0 .. m : \E g : Solves(q, g)}
<1>7. MaskedUpTo(z, k, program) = CHOOSE g : Solves(m, g)
  BY DEF MaskedUpTo
<1>1. m \in Nat
  OBVIOUS
<1> HIDE DEF m, Step, Start
<1>2. 0 \in S
  <2> DEFINE g == [i \in 0 .. 0 |-> Start]
  <2>1. Solves(0, g)
    OBVIOUS
  <2>2. 0 \in 0 .. m
    BY <1>1
  <2> HIDE DEF g, Solves
  <2> QED BY <2>1, <2>2
<1>3. ASSUME NEW q \in 0 .. m - 1, q \in S PROVE q + 1 \in S
  <2>1. PICK g : Solves(q, g)
    BY <1>3
  <2> DEFINE h == [i \in 0 .. q + 1 |-> IF i = q + 1 THEN Step(g[q], q + 1) ELSE g[i]]
  <2>2. q \in Nat /\ q + 1 \in 0 .. m
    BY <1>1
  <2>3. \A i \in 0 .. q + 1 : h[i] = IF i = 0 THEN Start ELSE Step(h[i - 1], i)
    <3>1. TAKE i \in 0 .. q + 1
    <3>2. CASE i = q + 1
      <4>1. i # 0 /\ i - 1 = q /\ q \in 0 .. q + 1 /\ q # q + 1
        BY <2>2, <3>2
      <4> QED BY <3>2, <4>1
    <3>3. CASE i # q + 1
      <4>1. i \in 0 .. q /\ (i # 0 => i - 1 \in 0 .. q + 1 /\ i - 1 # q + 1)
        BY <2>2, <3>3
      <4>2. g[i] = IF i = 0 THEN Start ELSE Step(g[i - 1], i)
        BY <2>1, <4>1
      <4> QED BY <3>3, <4>1, <4>2
    <3> QED BY <3>2, <3>3
  <2>4. Solves(q + 1, h)
    <3>1. h = [i \in 0 .. q + 1 |-> h[i]]
      OBVIOUS
    <3> HIDE DEF h
    <3> QED BY <2>3, <3>1
  <2> QED BY <2>2, <2>4
<1> HIDE DEF S
<1>4. \A i \in 0 .. m : i \in S
  BY <1>1, <1>2, <1>3, CountUp
<1>5. m \in S
  BY <1>1, <1>4
<1>6. \E g : Solves(m, g)
  BY <1>5 DEF S
<1> HIDE DEF Solves
<1>8. Solves(m, MaskedUpTo(z, k, program))
  BY <1>6, <1>7
<1> QED BY <1>8 DEF Solves, m, Step, Start

\* The recursion of Orbit has a solution.
LEMMA OrbitDefined ==
  ASSUME NEW c, NEW max \in Nat
  PROVE  Orbit(c, max) = [i \in 0 .. max |-> IF i = 0 THEN <<0, 0>>
                    ELSE <<(Orbit(c, max)[i - 1][1] * Orbit(c, max)[i - 1][1] - Orbit(c, max)[i - 1][2] * Orbit(c, max)[i - 1][2] + c[1]) % Prime,
                              (2 * Orbit(c, max)[i - 1][1] * Orbit(c, max)[i - 1][2] + c[2]) % Prime>>]
<1> DEFINE m == max
           Step(a, i) == <<(a[1] * a[1] - a[2] * a[2] + c[1]) % Prime,
                              (2 * a[1] * a[2] + c[2]) % Prime>>
           Start == <<0, 0>>
           Solves(q, g) == g = [i \in 0 .. q |-> IF i = 0 THEN Start ELSE Step(g[i - 1], i)]
           S == {q \in 0 .. m : \E g : Solves(q, g)}
<1>7. Orbit(c, max) = CHOOSE g : Solves(m, g)
  BY DEF Orbit
<1>1. m \in Nat
  OBVIOUS
<1> HIDE DEF m, Step, Start
<1>2. 0 \in S
  <2> DEFINE g == [i \in 0 .. 0 |-> Start]
  <2>1. Solves(0, g)
    OBVIOUS
  <2>2. 0 \in 0 .. m
    BY <1>1
  <2> HIDE DEF g, Solves
  <2> QED BY <2>1, <2>2
<1>3. ASSUME NEW q \in 0 .. m - 1, q \in S PROVE q + 1 \in S
  <2>1. PICK g : Solves(q, g)
    BY <1>3
  <2> DEFINE h == [i \in 0 .. q + 1 |-> IF i = q + 1 THEN Step(g[q], q + 1) ELSE g[i]]
  <2>2. q \in Nat /\ q + 1 \in 0 .. m
    BY <1>1
  <2>3. \A i \in 0 .. q + 1 : h[i] = IF i = 0 THEN Start ELSE Step(h[i - 1], i)
    <3>1. TAKE i \in 0 .. q + 1
    <3>2. CASE i = q + 1
      <4>1. i # 0 /\ i - 1 = q /\ q \in 0 .. q + 1 /\ q # q + 1
        BY <2>2, <3>2
      <4> QED BY <3>2, <4>1
    <3>3. CASE i # q + 1
      <4>1. i \in 0 .. q /\ (i # 0 => i - 1 \in 0 .. q + 1 /\ i - 1 # q + 1)
        BY <2>2, <3>3
      <4>2. g[i] = IF i = 0 THEN Start ELSE Step(g[i - 1], i)
        BY <2>1, <4>1
      <4> QED BY <3>3, <4>1, <4>2
    <3> QED BY <3>2, <3>3
  <2>4. Solves(q + 1, h)
    <3>1. h = [i \in 0 .. q + 1 |-> h[i]]
      OBVIOUS
    <3> HIDE DEF h
    <3> QED BY <2>3, <3>1
  <2> QED BY <2>2, <2>4
<1> HIDE DEF S
<1>4. \A i \in 0 .. m : i \in S
  BY <1>1, <1>2, <1>3, CountUp
<1>5. m \in S
  BY <1>1, <1>4
<1>6. \E g : Solves(m, g)
  BY <1>5 DEF S
<1> HIDE DEF Solves
<1>8. Solves(m, Orbit(c, max))
  BY <1>6, <1>7
<1> QED BY <1>8, Zenon DEF Solves, m, Step, Start

\* The recursion of RunUpTo has a solution.
LEMMA RunDefined ==
  ASSUME NEW s, NEW program, Len(program) \in Nat
  PROVE  RunUpTo(s, program) = [i \in 0 .. Len(program) |-> IF i = 0 THEN s
                    ELSE Exec(RunUpTo(s, program)[i - 1], program[i])]
<1> DEFINE m == Len(program)
           Step(a, i) == Exec(a, program[i])
           Start == s
           Solves(q, g) == g = [i \in 0 .. q |-> IF i = 0 THEN Start ELSE Step(g[i - 1], i)]
           S == {q \in 0 .. m : \E g : Solves(q, g)}
<1>7. RunUpTo(s, program) = CHOOSE g : Solves(m, g)
  BY DEF RunUpTo
<1>1. m \in Nat
  OBVIOUS
<1> HIDE DEF m, Step, Start
<1>2. 0 \in S
  <2> DEFINE g == [i \in 0 .. 0 |-> Start]
  <2>1. Solves(0, g)
    OBVIOUS
  <2>2. 0 \in 0 .. m
    BY <1>1
  <2> HIDE DEF g, Solves
  <2> QED BY <2>1, <2>2
<1>3. ASSUME NEW q \in 0 .. m - 1, q \in S PROVE q + 1 \in S
  <2>1. PICK g : Solves(q, g)
    BY <1>3
  <2> DEFINE h == [i \in 0 .. q + 1 |-> IF i = q + 1 THEN Step(g[q], q + 1) ELSE g[i]]
  <2>2. q \in Nat /\ q + 1 \in 0 .. m
    BY <1>1
  <2>3. \A i \in 0 .. q + 1 : h[i] = IF i = 0 THEN Start ELSE Step(h[i - 1], i)
    <3>1. TAKE i \in 0 .. q + 1
    <3>2. CASE i = q + 1
      <4>1. i # 0 /\ i - 1 = q /\ q \in 0 .. q + 1 /\ q # q + 1
        BY <2>2, <3>2
      <4> QED BY <3>2, <4>1
    <3>3. CASE i # q + 1
      <4>1. i \in 0 .. q /\ (i # 0 => i - 1 \in 0 .. q + 1 /\ i - 1 # q + 1)
        BY <2>2, <3>3
      <4>2. g[i] = IF i = 0 THEN Start ELSE Step(g[i - 1], i)
        BY <2>1, <4>1
      <4> QED BY <3>3, <4>1, <4>2
    <3> QED BY <3>2, <3>3
  <2>4. Solves(q + 1, h)
    <3>1. h = [i \in 0 .. q + 1 |-> h[i]]
      OBVIOUS
    <3> HIDE DEF h
    <3> QED BY <2>3, <3>1
  <2> QED BY <2>2, <2>4
<1> HIDE DEF S
<1>4. \A i \in 0 .. m : i \in S
  BY <1>1, <1>2, <1>3, CountUp
<1>5. m \in S
  BY <1>1, <1>4
<1>6. \E g : Solves(m, g)
  BY <1>5 DEF S
<1> HIDE DEF Solves
<1>8. Solves(m, RunUpTo(s, program))
  BY <1>6, <1>7
<1> QED BY <1>8 DEF Solves, m, Step, Start


\* Remainders may be taken before a product, a sum or a difference.
LEMMA ModMul ==
  ASSUME NEW m \in Nat \ {0}, NEW a \in Int, NEW b \in Int
  PROVE  ((a % m) * b) % m = (a * b) % m
<1>1. PICK q \in Int, e \in 0 .. m - 1 : e = a % m /\ a = m * q + e
  BY DivMod
<1>2. e * b \in Int
  OBVIOUS
<1>3. PICK f \in Int, g \in 0 .. m - 1 : g = (e * b) % m /\ e * b = m * f + g
  BY <1>2, DivMod
<1>4. a * b = (m * q + e) * b
  BY <1>1
<1>5. (m * q + e) * b = m * (q * b) + e * b
  BY Z3
<1>6. PICK x \in Int, c \in Int : x = q * b /\ c = a * b
  OBVIOUS
<1>9. c = m * x + (m * f + g)
  BY <1>3, <1>4, <1>5, <1>6, Zenon
<1>10. m * x + (m * f + g) = m * (x + f) + g
  BY Z3
<1>7. c = m * (x + f) + g /\ x + f \in Int
  BY <1>9, <1>10
<1>8. c % m = g
  BY <1>7, ModUnique
<1> QED BY <1>1, <1>3, <1>6, <1>8, Zenon

\* The difference of two remainders.
LEMMA ModMinus ==
  ASSUME NEW m \in Nat \ {0}, NEW a \in Int, NEW b \in Int
  PROVE  ((a % m) - (b % m)) % m = (a - b) % m
<1>1. PICK p \in Int, e \in 0 .. m - 1 : e = a % m /\ a = m * p + e
  BY DivMod
<1>2. PICK q \in Int, f \in 0 .. m - 1 : f = b % m /\ b = m * q + f
  BY DivMod
<1>3. PICK h \in Int, g \in 0 .. m - 1 : g = (e - f) % m /\ e - f = m * h + g
  <2>1. e - f \in Int
    OBVIOUS
  <2> QED BY <2>1, DivMod
<1>4. a - b = (m * p + e) - (m * q + f)
  BY <1>1, <1>2
<1>5. (m * p + e) - (m * q + f) = m * (p - q) + (e - f)
  BY Z3
<1>6. m * (p - q) + (m * h + g) = m * (p - q + h) + g
  BY Z3
<1>7. a - b = m * (p - q + h) + g /\ a - b \in Int /\ p - q + h \in Int
  BY <1>3, <1>4, <1>5, <1>6
<1>8. (a - b) % m = g
  BY <1>7, ModUnique
<1> QED BY <1>1, <1>2, <1>3, <1>8

\* The sum of two remainders.
LEMMA ModPlus ==
  ASSUME NEW m \in Nat \ {0}, NEW a \in Int, NEW b \in Int
  PROVE  ((a % m) + (b % m)) % m = (a + b) % m
<1>1. PICK f \in Int : f = b % m
  BY DivMod
<1>2. ((a % m) + f) % m = (a + f) % m
  BY ModAdd
<1>3. ((b % m) + a) % m = (b + a) % m
  BY ModAdd
<1>4. a + f = f + a /\ a + b = b + a
  OBVIOUS
<1>5. (a + f) % m = (b + a) % m
  BY <1>1, <1>3, <1>4
<1> QED BY <1>1, <1>2, <1>4, <1>5

\* What the registers of a lane hold after n steps at z, with the constant c.
Complex(z) == z[1] \in Int /\ z[2] \in Int
Holds(r, c, z, n) ==
  /\ r \in [0 .. 11 -> Int] /\ Complex(c) /\ Complex(z) /\ n \in Nat
  /\ r[0] = c[1] /\ r[1] = c[2] /\ r[2] = z[1] /\ r[3] = z[2]
  /\ r[4] = (z[1] * z[1]) % Prime /\ r[5] = (z[2] * z[2]) % Prime
  /\ r[6] = n % Prime /\ r[7] = 2 /\ r[8] = 4 /\ r[9] = 1
NextZ(c, z) == <<(z[1] * z[1] - z[2] * z[2] + c[1]) % Prime, (2 * z[1] * z[2] + c[2]) % Prime>>

\* The instructions of the loop.
LEMMA LaneResults ==
  ASSUME NEW r, NEW d, NEW a, NEW b
  PROVE  /\ LaneResult(r, <<"add", d, a, b>>) = (r[a] + r[b]) % Prime
         /\ LaneResult(r, <<"sub", d, a, b>>) = (r[a] - r[b]) % Prime
         /\ LaneResult(r, <<"mul", d, a, b>>) = (r[a] * r[b]) % Prime
         /\ LaneResult(r, <<"fmadd213", d, a, b>>) = (r[a] * r[d] + r[b]) % Prime
BY DEF LaneResult

\* The registers g of one lane as it goes through the program, and the lanes L
\* of the registers f.
Went(g, program, n) ==
  \A i \in 1 .. n : g[i] = [g[i - 1] EXCEPT ![program[i][2]] = LaneResult(g[i - 1], program[i])]
AllWent(f, L, program, n) ==
  \A l \in L : \A i \in 1 .. n :
     f[i][l] = [f[i - 1][l] EXCEPT ![program[i][2]] = LaneResult(f[i - 1][l], program[i])]

\* A masked program leaves the lanes outside the mask and runs the others; a lane
\* that runs goes through the whole program.
LanesRun(z, k, program) ==
  /\ MaskedUpTo(z, k, program)[0] = z
  /\ Masked(z, k, program) = MaskedUpTo(z, k, program)[Len(program)]
  /\ \A l \in Lanes : l \notin k => Masked(z, k, program)[l] = z[l]
  /\ AllWent(MaskedUpTo(z, k, program), Lanes \cap k, program, Len(program))
LaneRan(z, k, program, l) ==
  \E g : g[0] = z[l] /\ Masked(z, k, program)[l] = g[Len(program)] /\ Went(g, program, Len(program))

\* A lane under the mask executes the program, another one does nothing.
LEMMA MaskedLanes ==
  ASSUME NEW z, NEW k, NEW program, Len(program) \in Nat \ {0}
  PROVE  LanesRun(z, k, program)
<1>1. PICK n \in Nat \ {0} : n = Len(program)
  OBVIOUS
<1>1b. PICK f : f = MaskedUpTo(z, k, program)
  OBVIOUS
<1>2. f = [i \in 0 .. n |-> IF i = 0 THEN z
             ELSE [l \in Lanes |-> IF l \notin k THEN z[l]
                     ELSE [f[i - 1][l] EXCEPT ![program[i][2]] = LaneResult(f[i - 1][l], program[i])]]]
  BY <1>1, <1>1b, MaskedDefined
<1>3. f[0] = z
  <2>1. 0 \in 0 .. n
    OBVIOUS
  <2> QED BY <1>2, <2>1, Zenon
<1>4. \A i \in 1 .. n : i \in 0 .. n /\ i # 0
  OBVIOUS
<1>5. \A i \in 1 .. n : f[i] = [l \in Lanes |-> IF l \notin k THEN z[l]
                     ELSE [f[i - 1][l] EXCEPT ![program[i][2]] = LaneResult(f[i - 1][l], program[i])]]
  BY <1>2, <1>4, Zenon
<1>6. ASSUME NEW l \in Lanes \cap k, NEW i \in 1 .. n
      PROVE  f[i][l] = [f[i - 1][l] EXCEPT ![program[i][2]] = LaneResult(f[i - 1][l], program[i])]
  <2>1. l \in Lanes /\ ~(l \notin k)
    OBVIOUS
  <2> QED BY <1>5, <2>1, Zenon
<1>7. Masked(z, k, program) = f[n] /\ n \in 1 .. n
  BY <1>1, <1>1b DEF Masked
<1>8. \A l \in Lanes : l \notin k => f[n][l] = z[l]
  BY <1>5, <1>7, Zenon
<1>9. AllWent(f, Lanes \cap k, program, n)
  BY <1>6, Zenon DEF AllWent
<1> QED BY <1>1, <1>1b, <1>3, <1>7, <1>8, <1>9, Zenon DEF LanesRun

\* What one lane under the mask goes through.
LEMMA LaneRuns ==
  ASSUME NEW z, NEW k, NEW program, Len(program) \in Nat \ {0}, NEW l \in Lanes, l \in k
  PROVE  LaneRan(z, k, program, l)
<1>0. PICK n \in Nat \ {0} : n = Len(program)
  OBVIOUS
<1>1. PICK f : f = MaskedUpTo(z, k, program)
  OBVIOUS
<1>2. f[0] = z /\ Masked(z, k, program) = f[n] /\ AllWent(f, Lanes \cap k, program, n)
  <2>1. /\ MaskedUpTo(z, k, program)[0] = z
        /\ Masked(z, k, program) = MaskedUpTo(z, k, program)[Len(program)]
        /\ AllWent(MaskedUpTo(z, k, program), Lanes \cap k, program, Len(program))
    <3>1. LanesRun(z, k, program)
      BY MaskedLanes, Zenon
    <3> QED BY <3>1, Zenon DEF LanesRun
  <2> QED BY <1>0, <1>1, <2>1, Zenon
<1>7. \A i \in 1 .. n : f[i][l] = [f[i - 1][l] EXCEPT ![program[i][2]] = LaneResult(f[i - 1][l], program[i])]
  <2>1. l \in Lanes \cap k
    OBVIOUS
  <2> QED BY <1>2, <2>1, Zenon DEF AllWent
<1> DEFINE g == [i \in 0 .. n |-> f[i][l]]
<1>3. \A i \in 0 .. n : g[i] = f[i][l]
  OBVIOUS
<1>4. 0 \in 0 .. n /\ n \in 0 .. n /\ \A i \in 1 .. n : i \in 0 .. n /\ i - 1 \in 0 .. n
  OBVIOUS
<1> HIDE DEF g
<1>5. g[0] = z[l] /\ Masked(z, k, program)[l] = g[n]
  BY <1>2, <1>3, <1>4, Zenon
<1>6. Went(g, program, n)
  BY <1>7, <1>3, <1>4, Zenon DEF Went
<1> QED BY <1>0, <1>5, <1>6, Zenon DEF LaneRan

\* The magnitude goes to register 10 and changes nothing else.
LEMMA MagnitudeOf ==
  ASSUME NEW z, NEW l \in Lanes, NEW c, NEW w, NEW n, Holds(z[l], c, w, n), NEW y, y = Masked(z, Lanes, Magnitude)[l]
  PROVE  Holds(y, c, w, n) /\ y[10] = Out(w)
<1>1. PICK program : program = Magnitude
  OBVIOUS
<1>2. Len(program) = 1 /\ program[1] = <<"add", 10, 4, 5>> /\ program[1][2] = 10 /\ 1 \in Nat \ {0}
  BY <1>1 DEF Magnitude
<1>3. PICK g : g[0] = z[l] /\ Masked(z, Lanes, program)[l] = g[1] /\ Went(g, program, 1)
  <2>1. Len(program) \in Nat \ {0}
    BY <1>2
  <2>2. LaneRan(z, Lanes, program, l)
    BY <2>1, LaneRuns, Zenon
  <2> QED BY <1>2, <2>2, Zenon DEF LaneRan
<1>4. PICK r : r = z[l]
  OBVIOUS
<1>5. y = [r EXCEPT ![10] = (r[4] + r[5]) % Prime]
  <2>1. LaneResult(r, <<"add", 10, 4, 5>>) = (r[4] + r[5]) % Prime
    BY LaneResults, ZenonT(60)
  <2>2. 1 \in 1 .. 1 /\ 1 - 1 = 0
    OBVIOUS
  <2>3. g[1] = [g[1 - 1] EXCEPT ![program[1][2]] = LaneResult(g[1 - 1], program[1])]
    BY <1>3, <2>2, Zenon DEF Went
  <2>4. g[1] = [r EXCEPT ![10] = LaneResult(r, <<"add", 10, 4, 5>>)]
    BY <1>2, <1>3, <1>4, <2>2, <2>3, Zenon
  <2> QED BY <1>1, <1>3, <2>1, <2>4, Zenon
<1>6. Prime \in Nat \ {0}
  BY PrimeBig
<1>7. Holds(r, c, w, n)
  BY <1>4
<1>8. PICK p \in Int, q \in Int : p = w[1] * w[1] /\ q = w[2] * w[2]
  BY <1>7 DEF Holds, Complex
<1>9. (r[4] + r[5]) % Prime = Out(w) /\ (r[4] + r[5]) % Prime \in Int
  <2>1. ((p % Prime) + (q % Prime)) % Prime = (p + q) % Prime
    BY <1>6, ModPlus
  <2>2. r[4] = p % Prime /\ r[5] = q % Prime /\ Out(w) = (p + q) % Prime
    BY <1>7, <1>8 DEF Holds, Out
  <2>3. (p + q) % Prime \in Int
    BY <1>6, DivMod
  <2> QED BY <2>1, <2>2, <2>3
<1>10. PICK v \in Int : v = (r[4] + r[5]) % Prime
  BY <1>9
<1>11. y = [r EXCEPT ![10] = v]
  BY <1>5, <1>10
<1>12. r \in [0 .. 11 -> Int]
  BY <1>7 DEF Holds
<1>13. y \in [0 .. 11 -> Int] /\ y[10] = v /\ \A i \in 0 .. 9 : y[i] = r[i]
  BY <1>11, <1>12
<1>14. Holds(y, c, w, n)
  BY <1>7, <1>13 DEF Holds
<1> QED BY <1>9, <1>10, <1>13, <1>14

\* One step of the iteration: the registers move on to the next z.
LEMMA IterateOf ==
  ASSUME NEW z, NEW k, NEW l \in Lanes, l \in k, NEW c, NEW w, NEW n, Holds(z[l], c, w, n),
         NEW y, y = Masked(z, k, Iterate)[l]
  PROVE  Holds(y, c, NextZ(c, w), n + 1)
<1>1. PICK program : program = Iterate
  OBVIOUS
<1>2. /\ Len(program) = 7 /\ 7 \in Nat \ {0}
      /\ program[1] = <<"mul", 11, 2, 7>> /\ program[2] = <<"fmadd213", 3, 11, 1>>
      /\ program[3] = <<"sub", 2, 4, 5>> /\ program[4] = <<"add", 2, 2, 0>>
      /\ program[5] = <<"mul", 4, 2, 2>> /\ program[6] = <<"mul", 5, 3, 3>>
      /\ program[7] = <<"add", 6, 6, 9>>
  BY <1>1 DEF Iterate
<1>3. PICK g : g[0] = z[l] /\ Masked(z, k, program)[l] = g[7] /\ Went(g, program, 7)
  <2>1. Len(program) \in Nat \ {0}
    BY <1>2
  <2>2. LaneRan(z, k, program, l)
    BY <2>1, LaneRuns, Zenon
  <2> QED BY <1>2, <2>2, Zenon DEF LaneRan
<1>4. /\ g[1] = [g[0] EXCEPT ![11] = LaneResult(g[0], <<"mul", 11, 2, 7>>)]
      /\ g[2] = [g[1] EXCEPT ![3] = LaneResult(g[1], <<"fmadd213", 3, 11, 1>>)]
      /\ g[3] = [g[2] EXCEPT ![2] = LaneResult(g[2], <<"sub", 2, 4, 5>>)]
      /\ g[4] = [g[3] EXCEPT ![2] = LaneResult(g[3], <<"add", 2, 2, 0>>)]
      /\ g[5] = [g[4] EXCEPT ![4] = LaneResult(g[4], <<"mul", 4, 2, 2>>)]
      /\ g[6] = [g[5] EXCEPT ![5] = LaneResult(g[5], <<"mul", 5, 3, 3>>)]
      /\ g[7] = [g[6] EXCEPT ![6] = LaneResult(g[6], <<"add", 6, 6, 9>>)]
  <2> DEFINE StepAt(i) == g[i] = [g[i - 1] EXCEPT ![program[i][2]] = LaneResult(g[i - 1], program[i])]
  <2>1. \A i \in 1 .. 7 : StepAt(i)
    BY <1>3 DEF Went
  <2> HIDE DEF StepAt
  <2>2. StepAt(1) /\ StepAt(2) /\ StepAt(3) /\ StepAt(4) /\ StepAt(5) /\ StepAt(6) /\ StepAt(7)
    BY <2>1
  <2>3. g[1] = [g[0] EXCEPT ![11] = LaneResult(g[0], <<"mul", 11, 2, 7>>)]
    BY <1>2, <2>2 DEF StepAt
  <2>4. g[2] = [g[1] EXCEPT ![3] = LaneResult(g[1], <<"fmadd213", 3, 11, 1>>)]
    BY <1>2, <2>2, SMTT(30) DEF StepAt
  <2>5. g[3] = [g[2] EXCEPT ![2] = LaneResult(g[2], <<"sub", 2, 4, 5>>)]
    BY <1>2, <2>2 DEF StepAt
  <2>6. g[4] = [g[3] EXCEPT ![2] = LaneResult(g[3], <<"add", 2, 2, 0>>)]
    BY <1>2, <2>2 DEF StepAt
  <2>7. g[5] = [g[4] EXCEPT ![4] = LaneResult(g[4], <<"mul", 4, 2, 2>>)]
    BY <1>2, <2>2 DEF StepAt
  <2>8. g[6] = [g[5] EXCEPT ![5] = LaneResult(g[5], <<"mul", 5, 3, 3>>)]
    BY <1>2, <2>2 DEF StepAt
  <2>9. g[7] = [g[6] EXCEPT ![6] = LaneResult(g[6], <<"add", 6, 6, 9>>)]
    BY <1>2, <2>2 DEF StepAt
  <2> QED BY <2>3, <2>4, <2>5, <2>6, <2>7, <2>8, <2>9
<1>5. PICK r0, r1, r2, r3, r4, r5, r6, r7 :
         r0 = g[0] /\ r1 = g[1] /\ r2 = g[2] /\ r3 = g[3] /\ r4 = g[4] /\ r5 = g[5] /\ r6 = g[6] /\ r7 = g[7]
  OBVIOUS
<1>6. /\ r1 = [r0 EXCEPT ![11] = (r0[2] * r0[7]) % Prime]
      /\ r2 = [r1 EXCEPT ![3] = (r1[11] * r1[3] + r1[1]) % Prime]
      /\ r3 = [r2 EXCEPT ![2] = (r2[4] - r2[5]) % Prime]
      /\ r4 = [r3 EXCEPT ![2] = (r3[2] + r3[0]) % Prime]
      /\ r5 = [r4 EXCEPT ![4] = (r4[2] * r4[2]) % Prime]
      /\ r6 = [r5 EXCEPT ![5] = (r5[3] * r5[3]) % Prime]
      /\ r7 = [r6 EXCEPT ![6] = (r6[6] + r6[9]) % Prime]
  <2>1. LaneResult(r0, <<"mul", 11, 2, 7>>) = (r0[2] * r0[7]) % Prime
    BY LaneResults, ZenonT(60)
  <2>2. LaneResult(r1, <<"fmadd213", 3, 11, 1>>) = (r1[11] * r1[3] + r1[1]) % Prime
    BY LaneResults
  <2>3. LaneResult(r2, <<"sub", 2, 4, 5>>) = (r2[4] - r2[5]) % Prime
    BY LaneResults, ZenonT(60)
  <2>4. LaneResult(r3, <<"add", 2, 2, 0>>) = (r3[2] + r3[0]) % Prime
    BY LaneResults, ZenonT(60)
  <2>5. LaneResult(r4, <<"mul", 4, 2, 2>>) = (r4[2] * r4[2]) % Prime
    BY LaneResults, ZenonT(60)
  <2>6. LaneResult(r5, <<"mul", 5, 3, 3>>) = (r5[3] * r5[3]) % Prime
    BY LaneResults, ZenonT(60)
  <2>7. LaneResult(r6, <<"add", 6, 6, 9>>) = (r6[6] + r6[9]) % Prime
    BY LaneResults, ZenonT(60)
  <2> QED BY <1>4, <1>5, <2>1, <2>2, <2>3, <2>4, <2>5, <2>6, <2>7, Zenon
<1>7. Prime \in Nat \ {0} /\ Holds(r0, c, w, n) /\ y = r7
  BY <1>1, <1>3, <1>5, PrimeBig
<1>8. PICK cr \in Int, ci \in Int, a \in Int, b \in Int :
         cr = c[1] /\ ci = c[2] /\ a = w[1] /\ b = w[2] /\ n \in Nat
  BY <1>7 DEF Holds, Complex
<1>9. /\ r0 \in [0 .. 11 -> Int] /\ r0[0] = cr /\ r0[1] = ci /\ r0[2] = a /\ r0[3] = b
      /\ r0[4] = (a * a) % Prime /\ r0[5] = (b * b) % Prime /\ r0[6] = n % Prime
      /\ r0[7] = 2 /\ r0[8] = 4 /\ r0[9] = 1
  BY <1>7, <1>8 DEF Holds
<1>10. PICK aa \in Int, bb \in Int : aa = a * a /\ bb = b * b
  OBVIOUS
<1>11. PICK t1 \in Int, u \in Int, t2 \in Int, x \in Int :
          /\ t1 = (a * 2) % Prime /\ u = (t1 * b + ci) % Prime
          /\ t2 = ((aa % Prime) - (bb % Prime)) % Prime /\ x = (t2 + cr) % Prime
  <2>1. \A e \in Int : e % Prime \in Int
    BY <1>7, DivMod
  <2>2. PICK t1 \in Int : t1 = (a * 2) % Prime
    BY <2>1
  <2>3. PICK u \in Int : u = (t1 * b + ci) % Prime
    BY <2>1
  <2>4. PICK t2 \in Int : t2 = ((aa % Prime) - (bb % Prime)) % Prime
    BY <2>1
  <2>5. PICK x \in Int : x = (t2 + cr) % Prime
    BY <2>1
  <2> QED BY <2>2, <2>3, <2>4, <2>5, Zenon
<1>12. PICK xx \in Int, uu \in Int, m \in Int : xx = (x * x) % Prime /\ uu = (u * u) % Prime /\ m = ((n % Prime) + 1) % Prime
  <2>1. \A e \in Int : e % Prime \in Int
    BY <1>7, DivMod
  <2>2. x * x \in Int /\ u * u \in Int /\ n \in Int
    BY <1>8
  <2> QED BY <2>1, <2>2
<1>13. /\ r7 \in [0 .. 11 -> Int] /\ r7[0] = cr /\ r7[1] = ci /\ r7[2] = x /\ r7[3] = u
       /\ r7[4] = xx /\ r7[5] = uu /\ r7[6] = m /\ r7[7] = 2 /\ r7[8] = 4 /\ r7[9] = 1
  <2>1. /\ r1 \in [0 .. 11 -> Int] /\ r1[11] = t1 /\ \A i \in 0 .. 10 : r1[i] = r0[i]
    <3>1. r1 = [r0 EXCEPT ![11] = t1]
      BY <1>6, <1>9, <1>11, Zenon
    <3> QED BY <1>9, <3>1
  <2>2. /\ r2 \in [0 .. 11 -> Int] /\ r2[3] = u /\ \A i \in 0 .. 10 : i # 3 => r2[i] = r0[i]
    <3>1. r1[11] = t1 /\ r1[3] = b /\ r1[1] = ci
      BY <1>9, <2>1
    <3>2. r2 = [r1 EXCEPT ![3] = u]
      BY <1>6, <1>11, <3>1, Zenon
    <3> QED BY <2>1, <3>2
  <2>3. /\ r3 \in [0 .. 11 -> Int] /\ r3[3] = u /\ r3[2] = t2 /\ \A i \in 0 .. 10 : i \notin {2, 3} => r3[i] = r0[i]
    <3>1. r2[4] = aa % Prime /\ r2[5] = bb % Prime
      BY <1>9, <1>10, <2>2
    <3>2. r3 = [r2 EXCEPT ![2] = t2]
      BY <1>6, <1>11, <3>1, Zenon
    <3> QED BY <2>2, <3>2
  <2>4. /\ r4 \in [0 .. 11 -> Int] /\ r4[3] = u /\ r4[2] = x /\ \A i \in 0 .. 10 : i \notin {2, 3} => r4[i] = r0[i]
    <3>1. r3[2] = t2 /\ r3[0] = cr
      BY <1>9, <2>3
    <3>2. r4 = [r3 EXCEPT ![2] = x]
      BY <1>6, <1>11, <3>1, Zenon
    <3> QED BY <2>3, <3>2
  <2>5. /\ r5 \in [0 .. 11 -> Int] /\ r5[3] = u /\ r5[2] = x /\ r5[4] = xx
        /\ \A i \in 0 .. 10 : i \notin {2, 3, 4} => r5[i] = r0[i]
    <3>1. r5 = [r4 EXCEPT ![4] = xx]
      BY <1>6, <1>12, <2>4, Zenon
    <3> QED BY <2>4, <3>1
  <2>6. /\ r6 \in [0 .. 11 -> Int] /\ r6[3] = u /\ r6[2] = x /\ r6[4] = xx /\ r6[5] = uu
        /\ \A i \in 0 .. 10 : i \notin {2, 3, 4, 5} => r6[i] = r0[i]
    <3>1. r6 = [r5 EXCEPT ![5] = uu]
      BY <1>6, <1>12, <2>5, Zenon
    <3> QED BY <2>5, <3>1
  <2>7. /\ r7 \in [0 .. 11 -> Int] /\ r7[3] = u /\ r7[2] = x /\ r7[4] = xx /\ r7[5] = uu /\ r7[6] = m
        /\ \A i \in 0 .. 10 : i \notin {2, 3, 4, 5, 6} => r7[i] = r0[i]
    <3>1. r6[6] = n % Prime /\ r6[9] = 1
      BY <1>9, <2>6
    <3>2. r7 = [r6 EXCEPT ![6] = m]
      BY <1>6, <1>12, <3>1, Zenon
    <3> QED BY <2>6, <3>2
  <2> QED BY <1>9, <2>7
<1>14. m = (n + 1) % Prime
  <2>1. n \in Int /\ 1 \in Int
    BY <1>8
  <2> QED BY <1>7, <1>12, <2>1, ModAdd
<1>15. x = (aa - bb + cr) % Prime
  <2>3. ((aa % Prime) - (bb % Prime)) % Prime = (aa - bb) % Prime
    BY <1>7, ModMinus
  <2>1. t2 = (aa - bb) % Prime /\ aa - bb \in Int
    BY <1>11, <2>3
  <2>2. (((aa - bb) % Prime) + cr) % Prime = (aa - bb + cr) % Prime
    BY <1>7, <2>1, ModAdd
  <2> QED BY <1>11, <2>1, <2>2, Zenon
<1>16. u = (2 * a * b + ci) % Prime
  <2>1. PICK e \in Int, h \in Int : e = a * 2 /\ h = e * b
    OBVIOUS
  <2>2. t1 = e % Prime /\ u = (t1 * b + ci) % Prime
    BY <1>11, <2>1
  <2>3. PICK j \in Int : j = t1 * b
    OBVIOUS
  <2>4. j % Prime = h % Prime
    <3>1. ((e % Prime) * b) % Prime = (e * b) % Prime
      BY <1>7, ModMul
    <3> QED BY <2>1, <2>2, <2>3, <3>1, Zenon
  <2>5. ((j % Prime) + ci) % Prime = (j + ci) % Prime /\ ((h % Prime) + ci) % Prime = (h + ci) % Prime
    BY <1>7, ModAdd
  <2>6. u = (h + ci) % Prime
    BY <2>2, <2>3, <2>4, <2>5
  <2>7. 2 * a * b = h
    BY <2>1
  <2> QED BY <2>6, <2>7
<1>17. NextZ(c, w) = <<x, u>>
  <2>1. NextZ(c, w) = <<(a * a - b * b + cr) % Prime, (2 * a * b + ci) % Prime>>
    BY <1>8 DEF NextZ
  <2> QED BY <1>10, <1>15, <1>16, <2>1, Zenon
<1>18. NextZ(c, w)[1] = x /\ NextZ(c, w)[2] = u
  BY <1>17
<1>19. Complex(NextZ(c, w)) /\ Complex(c) /\ n + 1 \in Nat
  BY <1>7, <1>8, <1>18 DEF Holds, Complex
<1>20. PICK v : v = NextZ(c, w)
  OBVIOUS
<1>21. v[1] = x /\ v[2] = u /\ Complex(v) /\ v[1] * v[1] = x * x /\ v[2] * v[2] = u * u
  BY <1>18, <1>19, <1>20, Zenon
<1>22. /\ r7[0] = c[1] /\ r7[1] = c[2] /\ r7[2] = v[1] /\ r7[3] = v[2]
       /\ r7[4] = (v[1] * v[1]) % Prime /\ r7[5] = (v[2] * v[2]) % Prime
       /\ r7[6] = (n + 1) % Prime
  BY <1>8, <1>12, <1>13, <1>14, <1>21, Zenon
<1>23. Holds(r7, c, v, n + 1)
  BY <1>13, <1>19, <1>21, <1>22, Zenon DEF Holds
<1> QED BY <1>7, <1>20, <1>23


\* Where lane l is: s steps of its own iteration, all of them below 4 before;
\* still in the mask and as far as the loop, or out of it for good.
Lane(c, max, y, p, m, l, s) ==
  /\ s \in 0 .. max
  /\ Holds(y, c, Orbit(c, max)[s], s)
  /\ \A n \in 0 .. s - 1 : Out(Orbit(c, max)[n]) < 4
  /\ l \in m.k1 => s = p.i /\ (p.stage = "iterate" => Out(Orbit(c, max)[s]) < 4)
  /\ l \notin m.k1 => ~(Out(Orbit(c, max)[s]) < 4)
  /\ p.stage \in {"store", "ret"} => s = max \/ l \notin m.k1
  /\ p.stage = "ret" => m.n[l] = s % Prime /\ m.mag[l] = Out(Orbit(c, max)[s])

\* The loop, and every lane of it.
MandelInv ==
  /\ job.kind = "mandel" /\ job.maxiter \in Nat \ {0}
  /\ pc \in [stage : {"test", "iterate", "store", "ret"}, i : 0 .. job.maxiter]
  /\ pc.stage \in {"test", "iterate"} => pc.i < job.maxiter
  /\ mem = [k1 |-> mem.k1, n |-> mem.n, mag |-> mem.mag] /\ mem.k1 \subseteq Lanes
  /\ \A l \in Lanes : \E s \in 0 .. job.maxiter : Lane(job.c[l], job.maxiter, zmm[l], pc, mem, l, s)

\* The test sorts the lanes by their own magnitudes.
LEMMA TestLane ==
  ASSUME NEW c, NEW max \in Nat, NEW z, NEW p, NEW m, NEW l \in Lanes, NEW s,
         Lane(c, max, z[l], p, m, l, s), p.stage = "test", NEW y, y = Masked(z, Lanes, Magnitude)[l],
         NEW q, NEW e, (l \in e.k1) <=> (l \in m.k1 /\ y[10] < y[8]), q.i = p.i,
         q.stage = IF e.k1 = {} THEN "store" ELSE "iterate"
  PROVE  Lane(c, max, y, q, e, l, s)
<1>1. PICK w : w = Orbit(c, max)[s]
  OBVIOUS
<1>2. Holds(z[l], c, w, s)
  BY <1>1 DEF Lane
<1>3. Holds(y, c, w, s) /\ y[10] = Out(w)
  BY <1>2, MagnitudeOf
<1>4. y[8] = 4
  BY <1>3 DEF Holds
<1>5. (l \in e.k1) <=> (l \in m.k1 /\ Out(w) < 4)
  BY <1>3, <1>4
<1> QED BY <1>1, <1>3, <1>5 DEF Lane

\* The step takes the lanes in the mask on and leaves the others where they are.
LEMMA IterLane ==
  ASSUME NEW c, NEW max \in Nat, NEW z, NEW p, NEW m, NEW l \in Lanes, NEW s,
         Lane(c, max, z[l], p, m, l, s), p.stage = "iterate", p.i \in 0 .. max - 1,
         NEW y, y = Masked(z, m.k1, Iterate)[l],
         NEW q, q.i = p.i + 1, q.stage = IF p.i + 1 < max THEN "test" ELSE "store"
  PROVE  \E t \in 0 .. max : Lane(c, max, y, q, m, l, t)
<1>1. PICK o : o = Orbit(c, max)
  OBVIOUS
<1>2. /\ s \in 0 .. max /\ Holds(z[l], c, o[s], s) /\ \A n \in 0 .. s - 1 : Out(o[n]) < 4
      /\ l \in m.k1 => s = p.i /\ Out(o[s]) < 4
      /\ l \notin m.k1 => ~(Out(o[s]) < 4)
  BY <1>1 DEF Lane
<1>3. CASE l \in m.k1
  <2>1. s = p.i /\ Out(o[s]) < 4 /\ s \in Nat /\ s + 1 \in 0 .. max
    BY <1>2, <1>3
  <2>2. o[s + 1] = NextZ(c, o[s])
    <3>1. o = [i \in 0 .. max |-> IF i = 0 THEN <<0, 0>>
                 ELSE <<(o[i - 1][1] * o[i - 1][1] - o[i - 1][2] * o[i - 1][2] + c[1]) % Prime,
                        (2 * o[i - 1][1] * o[i - 1][2] + c[2]) % Prime>>]
      BY <1>1, OrbitDefined
    <3>2. o = [i \in 0 .. max |-> IF i = 0 THEN <<0, 0>> ELSE NextZ(c, o[i - 1])]
      BY <3>1, Zenon DEF NextZ
    <3>3. PICK t \in 0 .. max : t = s + 1 /\ t # 0 /\ t - 1 = s
      BY <2>1
    <3>4. o[t] = NextZ(c, o[t - 1])
      BY <3>2, <3>3, Zenon
    <3> QED BY <3>3, <3>4
  <2>3. Holds(y, c, o[s + 1], s + 1)
    <3>1. Holds(y, c, NextZ(c, o[s]), s + 1)
      BY <1>2, <1>3, IterateOf
    <3> QED BY <2>2, <3>1
  <2>4. \A n \in 0 .. s + 1 - 1 : Out(o[n]) < 4
    <3>1. \A n \in 0 .. s + 1 - 1 : n = s \/ n \in 0 .. s - 1
      BY <2>1
    <3> QED BY <1>2, <2>1, <3>1
  <2>5. q.stage # "iterate" /\ q.stage # "ret" /\ (q.stage = "store" => s + 1 = max) /\ s + 1 = q.i
    BY <2>1
  <2>6. Lane(c, max, y, q, m, l, s + 1)
    BY <1>1, <1>3, <2>1, <2>3, <2>4, <2>5 DEF Lane
  <2> QED BY <2>1, <2>6
<1>4. CASE l \notin m.k1
  <2>1. y = z[l]
    <3>1. Len(Iterate) \in Nat \ {0}
      BY DEF Iterate
    <3>2. LanesRun(z, m.k1, Iterate)
      BY <3>1, MaskedLanes, Zenon
    <3> QED BY <1>4, <3>2 DEF LanesRun
  <2>2. q.stage # "ret"
    OBVIOUS
  <2>3. Lane(c, max, y, q, m, l, s)
    BY <1>1, <1>2, <1>4, <2>1, <2>2 DEF Lane
  <2> QED BY <1>2, <2>3
<1> QED BY <1>3, <1>4

\* What is stored of a lane.
LEMMA StoreLane ==
  ASSUME NEW c, NEW max \in Nat, NEW z, NEW p, NEW m, NEW l \in Lanes, NEW s,
         Lane(c, max, z[l], p, m, l, s), p.stage = "store", NEW y, y = Masked(z, Lanes, Magnitude)[l],
         NEW q, NEW e, e.k1 = m.k1, e.n[l] = z[l][6], e.mag[l] = y[10], q.i = p.i, q.stage = "ret"
  PROVE  Lane(c, max, y, q, e, l, s)
<1>1. PICK w : w = Orbit(c, max)[s]
  OBVIOUS
<1>2. Holds(z[l], c, w, s)
  BY <1>1 DEF Lane
<1>3. Holds(y, c, w, s) /\ y[10] = Out(w)
  BY <1>2, MagnitudeOf
<1>4. z[l][6] = s % Prime
  BY <1>2 DEF Holds
<1> QED BY <1>1, <1>3, <1>4 DEF Lane

\* A lane that has returned stopped where the scalar iteration does.
LEMMA LaneStops ==
  ASSUME NEW c, NEW max \in Nat, NEW y, NEW p, NEW m, NEW l, NEW s, Lane(c, max, y, p, m, l, s), p.stage = "ret"
  PROVE  /\ Min(Stops(c, max)) = s
         /\ m.n[l] = s % Prime /\ m.mag[l] = Out(Orbit(c, max)[s])
<1>1. PICK o : o = Orbit(c, max)
  OBVIOUS
<1>2. /\ s \in 0 .. max /\ \A n \in 0 .. s - 1 : Out(o[n]) < 4
      /\ s = max \/ ~(Out(o[s]) < 4)
      /\ m.n[l] = s % Prime /\ m.mag[l] = Out(o[s])
  BY <1>1 DEF Lane
<1>3. PICK S : S = Stops(c, max)
  OBVIOUS
<1>4. S = {n \in 0 .. max : n = max \/ ~(Out(o[n]) < 4)}
  BY <1>1, <1>3 DEF Stops
<1>5. s \in S
  BY <1>2, <1>4
<1>6. \A n \in S : n \in Nat /\ s <= n
  BY <1>2, <1>4
<1>7. \A x \in S : (\A n \in S : x <= n) => x = s
  BY <1>5, <1>6
<1>8. Min(S) = s
  BY <1>5, <1>6, <1>7 DEF Min
<1> QED BY <1>1, <1>2, <1>3, <1>8

\* The loop starts with every lane in the mask, at z = 0.
LEMMA MandelStarts == MandelInit => MandelInv
<1>1. SUFFICES ASSUME MandelInit PROVE MandelInv
  OBVIOUS
<1>2. /\ job.kind = "mandel" /\ job.maxiter \in Nat \ {0}
      /\ \A l \in Lanes : job.c[l][1] \in Int /\ job.c[l][2] \in Int
  BY <1>1, PrimeBig DEF MandelInit, Field
<1>3. /\ pc = [stage |-> "test", i |-> 0] /\ mem = [k1 |-> Lanes, n |-> << >>, mag |-> << >>]
      /\ zmm = [l \in Lanes |-> [r \in 0 .. 11 |->
              CASE r = 0 -> job.c[l][1] [] r = 1 -> job.c[l][2]
                [] r = 7 -> 2 [] r = 8 -> 4 [] r = 9 -> 1 [] OTHER -> 0]]
  BY <1>1 DEF MandelInit
<1>4. PICK max \in Nat \ {0} : max = job.maxiter
  BY <1>2
<1>5. ASSUME NEW l \in Lanes PROVE \E s \in 0 .. max : Lane(job.c[l], max, zmm[l], pc, mem, l, s)
  <2>1. PICK c : c = job.c[l]
    OBVIOUS
  <2>2. Complex(c)
    BY <1>2, <2>1 DEF Complex
  <2>3. Orbit(c, max)[0] = <<0, 0>>
    <3>1. PICK o : o = Orbit(c, max)
      OBVIOUS
    <3>2. o = [i \in 0 .. max |-> IF i = 0 THEN <<0, 0>>
               ELSE <<(o[i - 1][1] * o[i - 1][1] - o[i - 1][2] * o[i - 1][2] + c[1]) % Prime,
                      (2 * o[i - 1][1] * o[i - 1][2] + c[2]) % Prime>>]
      BY <3>1, OrbitDefined
    <3>3. 0 \in 0 .. max
      OBVIOUS
    <3> QED BY <3>1, <3>2, <3>3, Zenon
  <2>4. PICK w : w = <<0, 0>>
    OBVIOUS
  <2>5. w[1] = 0 /\ w[2] = 0 /\ Complex(w) /\ 0 * 0 = 0 /\ 0 % Prime = 0 /\ 0 \in Nat
    <3>1. w[1] = 0 /\ w[2] = 0
      BY <2>4
    <3>2. 0 % Prime = 0
      <4>1. Prime \in Nat \ {0} /\ 0 \in 0 .. Prime - 1 /\ 0 = Prime * 0 + 0 /\ 0 \in Int
        BY PrimeBig
      <4> QED BY <4>1, ModUnique
    <3> QED BY <3>1, <3>2 DEF Complex
  <2>6. PICK r : r = zmm[l]
    OBVIOUS
  <2>7. r = [i \in 0 .. 11 |->
              CASE i = 0 -> c[1] [] i = 1 -> c[2]
                [] i = 7 -> 2 [] i = 8 -> 4 [] i = 9 -> 1 [] OTHER -> 0]
    BY <1>3, <2>1, <2>6
  <2>8. /\ r \in [0 .. 11 -> Int] /\ r[0] = c[1] /\ r[1] = c[2] /\ r[2] = 0 /\ r[3] = 0 /\ r[4] = 0
        /\ r[5] = 0 /\ r[6] = 0 /\ r[7] = 2 /\ r[8] = 4 /\ r[9] = 1
    BY <2>2, <2>7 DEF Complex
  <2>9. Holds(r, c, w, 0)
    BY <2>2, <2>5, <2>8 DEF Holds
  <2>10. Lane(c, max, r, pc, mem, l, 0)
    <3>1. l \in mem.k1 /\ pc.i = 0 /\ pc.stage = "test" /\ 0 \in 0 .. max /\ 0 .. 0 - 1 = {}
      BY <1>3
    <3>2. Orbit(c, max)[0] = w
      BY <2>3, <2>4
    <3> QED BY <2>9, <3>1, <3>2 DEF Lane
  <2>11. 0 \in 0 .. max
    OBVIOUS
  <2> QED BY <2>1, <2>6, <2>10, <2>11
<1>6. /\ pc \in [stage : {"test", "iterate", "store", "ret"}, i : 0 .. max] /\ pc.i < max
      /\ mem = [k1 |-> mem.k1, n |-> mem.n, mag |-> mem.mag] /\ mem.k1 \subseteq Lanes
  BY <1>3
<1> QED BY <1>2, <1>4, <1>5, <1>6 DEF MandelInv

\* Every step of the loop keeps every lane where its own iteration has it.
LEMMA MandelSteps == MandelInv /\ [MandelNext]_laneVars => MandelInv'
<1>0. SUFFICES ASSUME MandelInv, [MandelNext]_laneVars PROVE MandelInv'
  OBVIOUS
<1>1. PICK max \in Nat \ {0} : max = job.maxiter
  BY <1>0 DEF MandelInv
<1>2. /\ job.kind = "mandel" /\ pc \in [stage : {"test", "iterate", "store", "ret"}, i : 0 .. max]
      /\ pc.stage \in {"test", "iterate"} => pc.i < max
      /\ mem = [k1 |-> mem.k1, n |-> mem.n, mag |-> mem.mag] /\ mem.k1 \subseteq Lanes
  BY <1>0, <1>1 DEF MandelInv
<1>3. \A l \in Lanes : \E s \in 0 .. max : Lane(job.c[l], max, zmm[l], pc, mem, l, s)
  BY <1>0, <1>1 DEF MandelInv
<1>4. SUFFICES /\ job' = job
               /\ pc' \in [stage : {"test", "iterate", "store", "ret"}, i : 0 .. max]
               /\ pc'.stage \in {"test", "iterate"} => pc'.i < max
               /\ mem' = [k1 |-> mem'.k1, n |-> mem'.n, mag |-> mem'.mag] /\ mem'.k1 \subseteq Lanes
               /\ \A l \in Lanes : \E s \in 0 .. max : Lane(job.c[l], max, zmm'[l], pc', mem', l, s)
  BY <1>1, <1>2 DEF MandelInv
<1>5. CASE MandelTest
  <2>1. PICK z, k : z = Masked(zmm, Lanes, Magnitude) /\ k = CompareLt(z, mem.k1)
    OBVIOUS
  <2>2. /\ pc.stage = "test" /\ zmm' = z /\ mem' = [mem EXCEPT !.k1 = k] /\ job' = job
        /\ pc' = [pc EXCEPT !.stage = IF k = {} THEN "store" ELSE "iterate"]
    BY <1>5, <2>1 DEF MandelTest
  <2>3. k = {l \in mem.k1 : z[l][10] < z[l][8]}
    BY <2>1 DEF CompareLt
  <2>4. /\ mem'.k1 = k /\ k \subseteq Lanes /\ mem' = [k1 |-> k, n |-> mem.n, mag |-> mem.mag]
    BY <1>2, <2>2, <2>3
  <2>5. /\ pc'.stage = (IF k = {} THEN "store" ELSE "iterate") /\ pc'.i = pc.i
        /\ pc' \in [stage : {"test", "iterate", "store", "ret"}, i : 0 .. max] /\ pc.i < max
    BY <1>2, <2>2
  <2>6. ASSUME NEW l \in Lanes PROVE \E s \in 0 .. max : Lane(job.c[l], max, zmm'[l], pc', mem', l, s)
    <3>1. PICK s \in 0 .. max : Lane(job.c[l], max, zmm[l], pc, mem, l, s)
      BY <1>3
    <3>2. PICK y : y = Masked(zmm, Lanes, Magnitude)[l]
      OBVIOUS
    <3>3. (l \in mem'.k1) <=> (l \in mem.k1 /\ y[10] < y[8])
      BY <2>1, <2>3, <2>4, <3>2
    <3>4. pc'.stage = IF mem'.k1 = {} THEN "store" ELSE "iterate"
      BY <2>4, <2>5
    <3>5. Lane(job.c[l], max, y, pc', mem', l, s)
      BY <2>2, <2>5, <3>1, <3>2, <3>3, <3>4, TestLane
    <3> QED BY <2>1, <2>2, <3>2, <3>5
  <2>7. mem' = [k1 |-> mem'.k1, n |-> mem'.n, mag |-> mem'.mag]
    BY <2>4
  <2> QED BY <2>2, <2>4, <2>5, <2>6, <2>7
<1>6. CASE MandelIterate
  <2>1. /\ pc.stage = "iterate" /\ zmm' = Masked(zmm, mem.k1, Iterate) /\ job' = job /\ mem' = mem
        /\ pc' = [stage |-> IF pc.i + 1 < max THEN "test" ELSE "store", i |-> pc.i + 1]
    BY <1>1, <1>6 DEF MandelIterate
  <2>2. pc.i \in 0 .. max - 1
    BY <1>2, <2>1
  <2>3. /\ pc'.stage = (IF pc.i + 1 < max THEN "test" ELSE "store") /\ pc'.i = pc.i + 1
        /\ pc' \in [stage : {"test", "iterate", "store", "ret"}, i : 0 .. max]
        /\ pc'.stage \in {"test", "iterate"} => pc'.i < max
    BY <2>1, <2>2
  <2>4. ASSUME NEW l \in Lanes PROVE \E s \in 0 .. max : Lane(job.c[l], max, zmm'[l], pc', mem', l, s)
    <3>1. PICK s \in 0 .. max : Lane(job.c[l], max, zmm[l], pc, mem, l, s)
      BY <1>3
    <3>2. PICK y : y = Masked(zmm, mem.k1, Iterate)[l]
      OBVIOUS
    <3>3. \E t \in 0 .. max : Lane(job.c[l], max, y, pc', mem, l, t)
      BY <2>1, <2>2, <2>3, <3>1, <3>2, IterLane
    <3> QED BY <2>1, <3>2, <3>3
  <2> QED BY <1>2, <2>1, <2>3, <2>4
<1>7. CASE MandelStore
  <2>1. PICK z : z = Masked(zmm, Lanes, Magnitude)
    OBVIOUS
  <2>2. /\ pc.stage = "store" /\ zmm' = z /\ job' = job /\ pc' = [pc EXCEPT !.stage = "ret"]
        /\ mem' = [mem EXCEPT !.n = [l \in Lanes |-> zmm[l][6]], !.mag = [l \in Lanes |-> z[l][10]]]
    BY <1>7, <2>1 DEF MandelStore
  <2>3. mem' = [k1 |-> mem.k1, n |-> [l \in Lanes |-> zmm[l][6]], mag |-> [l \in Lanes |-> z[l][10]]]
    BY <1>2, <2>2
  <2>4. /\ mem'.k1 = mem.k1 /\ mem'.n = [l \in Lanes |-> zmm[l][6]] /\ mem'.mag = [l \in Lanes |-> z[l][10]]
        /\ mem' = [k1 |-> mem'.k1, n |-> mem'.n, mag |-> mem'.mag]
    BY <2>3
  <2>5. /\ pc'.stage = "ret" /\ pc'.i = pc.i
        /\ pc' \in [stage : {"test", "iterate", "store", "ret"}, i : 0 .. max]
    BY <1>2, <2>2
  <2>6. ASSUME NEW l \in Lanes PROVE \E s \in 0 .. max : Lane(job.c[l], max, zmm'[l], pc', mem', l, s)
    <3>1. PICK s \in 0 .. max : Lane(job.c[l], max, zmm[l], pc, mem, l, s)
      BY <1>3
    <3>2. PICK y : y = Masked(zmm, Lanes, Magnitude)[l]
      OBVIOUS
    <3>3. mem'.n[l] = zmm[l][6] /\ mem'.mag[l] = y[10]
      BY <2>1, <2>4, <3>2
    <3>4. Lane(job.c[l], max, y, pc', mem', l, s)
      BY <2>2, <2>4, <2>5, <3>1, <3>2, <3>3, StoreLane, ZenonT(60)
    <3> QED BY <2>1, <2>2, <3>2, <3>4, Zenon
  <2> QED BY <1>2, <2>2, <2>4, <2>5, <2>6, Zenon
<1>8. CASE UNCHANGED laneVars
  <2>1. job' = job /\ pc' = pc /\ zmm' = zmm /\ mem' = mem
    BY <1>8 DEF laneVars
  <2> QED BY <1>2, <1>3, <2>1
<1> QED BY <1>0, <1>5, <1>6, <1>7, <1>8 DEF MandelNext

(* mandel8_vpu, for every number of lanes, every limit and every modulus above
   4: what is stored for a lane is the count and the magnitude of the scalar
   iteration of that lane's own constant, whenever the other lanes leave the
   loop. *)
THEOREM MandelIsScalar == MandelSpec => []LanesIndependent
<1>1. ASSUME MandelInv PROVE LanesIndependent
  <2>1. SUFFICES ASSUME pc.stage = "ret", NEW l \in Lanes
                 PROVE  LET n == Min(Stops(job.c[l], job.maxiter))
                        IN  /\ mem.n[l] = n % Prime
                            /\ mem.mag[l] = Out(Orbit(job.c[l], job.maxiter)[n])
    BY Zenon DEF LanesIndependent
  <2>2. job.maxiter \in Nat /\ \E s \in 0 .. job.maxiter : Lane(job.c[l], job.maxiter, zmm[l], pc, mem, l, s)
    BY <1>1 DEF MandelInv
  <2>3. PICK s \in 0 .. job.maxiter : Lane(job.c[l], job.maxiter, zmm[l], pc, mem, l, s)
    BY <2>2
  <2>4. /\ Min(Stops(job.c[l], job.maxiter)) = s
        /\ mem.n[l] = s % Prime /\ mem.mag[l] = Out(Orbit(job.c[l], job.maxiter)[s])
    BY <2>1, <2>2, <2>3, LaneStops
  <2> QED BY <2>4, Zenon
<1>2. MandelInv /\ [MandelNext]_laneVars => MandelInv'
  BY MandelSteps
<1> QED BY <1>1, <1>2, MandelStarts, PTL DEF MandelSpec

(* Straight-line programs.                                                 *)

\* f goes through the program from the state s.
Ran(f, s, program, n) ==
  f[0] = s /\ \A i \in 1 .. n : f[i] = Exec(f[i - 1], program[i])

\* A run goes through its program.
LEMMA RunSteps ==
  ASSUME NEW s, NEW program, Len(program) \in Nat
  PROVE  /\ Ran(RunUpTo(s, program), s, program, Len(program))
         /\ RunFrom(s, program) = RunUpTo(s, program)[Len(program)]
<1>1. PICK n \in Nat : n = Len(program)
  OBVIOUS
<1>1b. PICK f : f = RunUpTo(s, program)
  OBVIOUS
<1>2. f = [i \in 0 .. n |-> IF i = 0 THEN s ELSE Exec(f[i - 1], program[i])]
  BY <1>1, <1>1b, RunDefined
<1>3. 0 \in 0 .. n /\ \A i \in 1 .. n : i \in 0 .. n /\ i # 0
  OBVIOUS
<1>4. f[0] = s /\ \A i \in 1 .. n : f[i] = Exec(f[i - 1], program[i])
  BY <1>2, <1>3, Zenon
<1>5. Ran(f, s, program, n)
  BY <1>4, Zenon DEF Ran
<1> QED BY <1>1, <1>1b, <1>5, Zenon DEF RunFrom

\* One program after another.
LEMMA RunJoin ==
  ASSUME NEW s, NEW T, NEW p \in Seq(T), NEW q \in Seq(T)
  PROVE  RunFrom(s, p \o q) = RunFrom(RunFrom(s, p), q)
<1>1. PICK a \in Nat, b \in Nat : a = Len(p) /\ b = Len(q)
  <2>1. Len(p) \in Nat /\ Len(q) \in Nat
    OBVIOUS
  <2> QED BY <2>1, Zenon
<1>1b. PICK r : r = p \o q
  OBVIOUS
<1>2. Len(r) = a + b /\ (\A i \in 1 .. a : r[i] = p[i]) /\ (\A i \in 1 .. b : r[a + i] = q[i])
  BY <1>1, <1>1b
<1>3. PICK t, f, g, h : t = RunFrom(s, p) /\ f = RunUpTo(s, p) /\ g = RunUpTo(t, q) /\ h = RunUpTo(s, r)
  OBVIOUS
<1>4. Ran(f, s, p, a) /\ t = f[a]
  BY <1>1, <1>1b, <1>3, RunSteps
<1>5. Ran(g, t, q, b) /\ RunFrom(t, q) = g[b]
  BY <1>1, <1>1b, <1>3, RunSteps
<1>6. Ran(h, s, r, a + b) /\ RunFrom(s, r) = h[a + b]
  <2>1. Len(r) \in Nat
    BY <1>2
  <2> QED BY <1>2, <1>3, <2>1, RunSteps
<1>7. \A i \in 0 .. a : h[i] = f[i]
  <2> DEFINE S == {i \in 0 .. a : h[i] = f[i]}
  <2>1. 0 \in S
    BY <1>4, <1>6 DEF Ran
  <2>2. ASSUME NEW i \in 0 .. a - 1, i \in S PROVE i + 1 \in S
    <3>1. PICK j \in 1 .. a : j = i + 1 /\ j - 1 = i /\ j \in 1 .. a + b /\ j \in 0 .. a
      OBVIOUS
    <3>2. h[j] = Exec(h[j - 1], r[j]) /\ f[j] = Exec(f[j - 1], p[j]) /\ r[j] = p[j]
      BY <1>2, <1>4, <1>6, <3>1, Zenon DEF Ran
    <3>3. h[i] = f[i]
      BY <2>2
    <3>4. h[j] = f[j]
      BY <3>1, <3>2, <3>3, Zenon
    <3> QED BY <3>1, <3>4
  <2> HIDE DEF S
  <2>3. \A i \in 0 .. a : i \in S
    BY <2>1, <2>2, CountUp
  <2> QED BY <2>3 DEF S
<1>8. \A i \in 0 .. b : h[a + i] = g[i]
  <2> DEFINE S == {i \in 0 .. b : h[a + i] = g[i]}
  <2>1. 0 \in S
    <3>1. a \in 0 .. a /\ a + 0 = a /\ 0 \in 0 .. b
      OBVIOUS
    <3>2. h[a] = t /\ g[0] = t
      BY <1>4, <1>5, <1>7, <3>1, Zenon DEF Ran
    <3> QED BY <3>1, <3>2
  <2>2. ASSUME NEW i \in 0 .. b - 1, i \in S PROVE i + 1 \in S
    <3>1. PICK j \in 1 .. b, k \in 1 .. a + b :
             j = i + 1 /\ j - 1 = i /\ k = a + j /\ k - 1 = a + i /\ j \in 0 .. b
      OBVIOUS
    <3>2. h[k] = Exec(h[k - 1], r[k]) /\ g[j] = Exec(g[j - 1], q[j]) /\ r[k] = q[j]
      <4>1. r[a + j] = q[j]
        BY <1>2, Zenon
      <4>2. h[k] = Exec(h[k - 1], r[k])
        BY <1>6, Zenon DEF Ran
      <4>3. g[j] = Exec(g[j - 1], q[j])
        BY <1>5, Zenon DEF Ran
      <4> QED BY <3>1, <4>1, <4>2, <4>3, Zenon
    <3>3. h[a + i] = g[i]
      BY <2>2
    <3>4. h[k] = g[j]
      BY <3>1, <3>2, <3>3, Zenon
    <3> QED BY <3>1, <3>4
  <2> HIDE DEF S
  <2>3. \A i \in 0 .. b : i \in S
    BY <2>1, <2>2, CountUp
  <2> QED BY <2>3 DEF S
<1>9. b \in 0 .. b
  OBVIOUS
<1> QED BY <1>1, <1>1b, <1>3, <1>5, <1>6, <1>8, <1>9, Zenon

\* One more element.
LEMMA AppendOne ==
  ASSUME NEW T, NEW x \in Seq(T), NEW v \in T
  PROVE  /\ x \o <<v>> \in Seq(T) /\ Len(x \o <<v>>) = Len(x) + 1
         /\ (x \o <<v>>)[Len(x) + 1] = v /\ \A j \in 1 .. Len(x) : (x \o <<v>>)[j] = x[j]
OBVIOUS

\* A loop that emits one instruction e[k] a turn.
Turns(n, e) == Concat([k \in 1 .. n |-> <<e[k - 1]>>])
Emits(n, T, e) == \A k \in 0 .. n - 1 : e[k] \in T
IsLoop(p, n, T, e) == p \in Seq(T) /\ Len(p) = n /\ \A j \in 1 .. n : p[j] = e[j - 1]

\* Its program.
LEMMA LoopOf ==
  ASSUME NEW n \in Nat, NEW T, NEW e, Emits(n, T, e)
  PROVE  IsLoop(Turns(n, e), n, T, e)
<1>0. \A k \in 0 .. n - 1 : e[k] \in T
  BY DEF Emits
<1>1. PICK l : l = [k \in 1 .. n |-> <<e[k - 1]>>]
  OBVIOUS
<1>2. Len(l) = n
  BY <1>1
<1>3. \A k \in 1 .. n : l[k] = <<e[k - 1]>>
  BY <1>1, Zenon
<1>4. PICK f : f = Joined(l)
  OBVIOUS
<1>5. f = [i \in 0 .. n |-> IF i = 0 THEN << >> ELSE f[i - 1] \o l[i]]
  BY <1>2, <1>4, JoinedDefined
<1>6. 0 \in 0 .. n /\ \A i \in 1 .. n : i \in 0 .. n /\ i # 0
  OBVIOUS
<1>7. f[0] = << >> /\ \A i \in 1 .. n : f[i] = f[i - 1] \o l[i]
  BY <1>5, <1>6, Zenon
<1> DEFINE S == {i \in 0 .. n : f[i] \in Seq(T) /\ Len(f[i]) = i /\ \A j \in 1 .. i : f[i][j] = e[j - 1]}
<1>8. 0 \in S
  <2>1. << >> \in Seq(T) /\ Len(<< >>) = 0 /\ 1 .. 0 = {}
    OBVIOUS
  <2> QED BY <1>6, <1>7, <2>1, Zenon
<1>9. ASSUME NEW i \in 0 .. n - 1, i \in S PROVE i + 1 \in S
  <2>1. PICK x : x = f[i]
    OBVIOUS
  <2>2. x \in Seq(T) /\ Len(x) = i /\ \A j \in 1 .. i : x[j] = e[j - 1]
    BY <1>9, <2>1
  <2>3. PICK v \in T : v = e[i]
    BY <1>0
  <2>4. f[i + 1] = x \o <<v>>
    <3>1. PICK k \in 1 .. n : k = i + 1 /\ k - 1 = i
      OBVIOUS
    <3>2. f[k] = f[k - 1] \o l[k] /\ l[k] = <<e[k - 1]>>
      BY <1>3, <1>7, <3>1, Zenon
    <3> QED BY <2>1, <2>3, <3>1, <3>2, Zenon
  <2>5. PICK y : y = x \o <<v>>
    OBVIOUS
  <2>6. y \in Seq(T) /\ Len(y) = i + 1 /\ y[i + 1] = v /\ \A j \in 1 .. i : y[j] = x[j]
    <3>1. /\ x \o <<v>> \in Seq(T) /\ Len(x \o <<v>>) = Len(x) + 1
          /\ (x \o <<v>>)[Len(x) + 1] = v /\ \A j \in 1 .. Len(x) : (x \o <<v>>)[j] = x[j]
      BY <2>2, AppendOne
    <3> QED BY <2>2, <2>5, <3>1, Zenon
  <2>7. \A j \in 1 .. i + 1 : y[j] = e[j - 1]
    <3>1. TAKE j \in 1 .. i + 1
    <3>2. CASE j = i + 1
      <4>1. j - 1 = i
        BY <3>2
      <4> QED BY <2>3, <2>6, <3>2, <4>1
    <3>3. CASE j # i + 1
      <4>1. j \in 1 .. i
        BY <3>3
      <4> QED BY <2>2, <2>6, <4>1
    <3> QED BY <3>2, <3>3
  <2>8. PICK k \in 0 .. n : k = i + 1
    OBVIOUS
  <2>9. f[k] = y /\ y \in Seq(T) /\ Len(y) = k /\ \A j \in 1 .. k : y[j] = e[j - 1]
    BY <2>4, <2>5, <2>6, <2>7, <2>8
  <2>10. k \in S
    BY <2>9, Zenon
  <2> QED BY <2>8, <2>10
<1> HIDE DEF S
<1>10. \A i \in 0 .. n : i \in S
  BY <1>8, <1>9, CountUp
<1>11. n \in S
  BY <1>10
<1>12. Turns(n, e) = f[n]
  BY <1>1, <1>2, <1>4 DEF Turns, Concat
<1> QED BY <1>11, <1>12 DEF S, IsLoop

(* Loads and stores.                                                       *)

Cpu(z, m) == [zmm |-> z, mem |-> m]
IsFun(f) == f = [x \in DOMAIN f |-> f[x]]
\* The registers W hold v, the others what they held; and the same for the
\* words W of a buffer.
Loaded(z, W, v) == [r \in DOMAIN z |-> IF r \in W THEN v[r] ELSE z[r]]
Stored(m, bank, W, v) == [b \in DOMAIN m |-> IF b = bank THEN Loaded(m[bank], W, v) ELSE m[b]]
Places(n, o) == {o[j] : j \in 1 .. n}
AreLoads(p, n, z, m, d, a, v) ==
  \A j \in 1 .. n : p[j] = Load(d[j], a[j]) /\ d[j] \in DOMAIN z /\ v[d[j]] = Fetch(m, a[j])
AreStores(p, n, z, m, bank, d, o, v) ==
  \A j \in 1 .. n : p[j] = Store(<<bank, o[j]>>, d[j]) /\ o[j] \in DOMAIN m[bank] /\ v[o[j]] = z[d[j]]

\* One load.
LEMMA ExecLoad ==
  ASSUME NEW z, NEW m, NEW d, NEW a
  PROVE  Exec(Cpu(z, m), Load(d, a)) = Cpu([z EXCEPT ![d] = Fetch(m, a)], m)
<1>1. PICK i : i = Load(d, a)
  OBVIOUS
<1>2. i.op = "load" /\ i.d = d /\ i.m = a
  BY <1>1 DEF Load
<1>3. Result(z, m, i) = Fetch(m, a)
  BY <1>2 DEF Result
<1>4. PICK s : s = Cpu(z, m)
  OBVIOUS
<1>5. Exec(s, i) = [s EXCEPT !.zmm[i.d] = Result(s.zmm, s.mem, i)]
  BY <1>2 DEF Exec
<1>6. s = [zmm |-> z, mem |-> m] /\ s.zmm = z /\ s.mem = m
  BY <1>4 DEF Cpu
<1>7. PICK x : x = Fetch(m, a)
  OBVIOUS
<1>8. Exec(s, i) = [s EXCEPT !.zmm[d] = x]
  BY <1>2, <1>3, <1>5, <1>6, <1>7, Zenon
<1>9. Exec(s, i) = [zmm |-> [z EXCEPT ![d] = x], mem |-> m]
  BY <1>6, <1>8
<1> QED BY <1>1, <1>4, <1>7, <1>9 DEF Cpu

\* One store.
LEMMA ExecStore ==
  ASSUME NEW z, NEW m, NEW d, NEW a
  PROVE  Exec(Cpu(z, m), Store(a, d)) = Cpu(z, Put(m, a, z[d]))
<1>1. PICK i : i = Store(a, d)
  OBVIOUS
<1>2. i.op = "store" /\ i.d = d /\ i.m = a
  BY <1>1 DEF Store
<1>3. PICK s : s = Cpu(z, m)
  OBVIOUS
<1>4. s = [zmm |-> z, mem |-> m] /\ s.zmm = z /\ s.mem = m
  BY <1>3 DEF Cpu
<1>5. Exec(s, i) = [s EXCEPT !.mem = Put(s.mem, i.m, s.zmm[i.d])]
  BY <1>2 DEF Exec
<1>6. PICK x : x = Put(m, a, z[d])
  OBVIOUS
<1>7. Exec(s, i) = [s EXCEPT !.mem = x]
  BY <1>2, <1>4, <1>5, <1>6, Zenon
<1>8. Exec(s, i) = [zmm |-> z, mem |-> x]
  BY <1>4, <1>7
<1> QED BY <1>1, <1>3, <1>6, <1>8 DEF Cpu

\* A row of loads: v says what each of their registers gets.
LEMMA LoadsRun ==
  ASSUME NEW z, IsFun(z), NEW m, NEW n \in Nat, NEW p, Len(p) = n, NEW d, NEW a, NEW v,
         AreLoads(p, n, z, m, d, a, v)
  PROVE  RunFrom(Cpu(z, m), p) = Cpu(Loaded(z, Places(n, d), v), m)
<1>1. PICK s, f : s = Cpu(z, m) /\ f = RunUpTo(s, p)
  OBVIOUS
<1>2. Ran(f, s, p, n) /\ RunFrom(s, p) = f[n]
  <2>1. Len(p) \in Nat
    OBVIOUS
  <2> QED BY <1>1, <2>1, RunSteps
<1> DEFINE W(i) == {d[j] : j \in 1 .. i}
           S == {i \in 0 .. n : f[i] = Cpu(Loaded(z, W(i), v), m)}
<1>3. 0 \in S
  <2>1. W(0) = {}
    OBVIOUS
  <2>2. Loaded(z, {}, v) = z
    BY DEF Loaded, IsFun
  <2>3. f[0] = Cpu(z, m) /\ 0 \in 0 .. n
    BY <1>1, <1>2 DEF Ran
  <2> QED BY <2>1, <2>2, <2>3, Zenon
<1>4. ASSUME NEW i \in 0 .. n - 1, i \in S PROVE i + 1 \in S
  <2>1. PICK j \in 1 .. n : j = i + 1 /\ j - 1 = i /\ j \in 0 .. n
    OBVIOUS
  <2>2. PICK y, x : y = Loaded(z, W(i), v) /\ x = Fetch(m, a[j])
    OBVIOUS
  <2>3. f[i] = Cpu(y, m)
    BY <1>4, <2>2
  <2>4. f[j] = Exec(f[j - 1], p[j])
    BY <1>2, Zenon DEF Ran
  <2>5. p[j] = Load(d[j], a[j]) /\ d[j] \in DOMAIN z /\ v[d[j]] = x
    BY <2>2, Zenon DEF AreLoads
  <2>6. Exec(Cpu(y, m), Load(d[j], a[j])) = Cpu([y EXCEPT ![d[j]] = Fetch(m, a[j])], m)
    BY ExecLoad
  <2>7. f[j] = Cpu([y EXCEPT ![d[j]] = x], m)
    BY <2>1, <2>2, <2>3, <2>4, <2>5, <2>6, Zenon
  <2>8. W(j) = W(i) \cup {d[j]}
    <3>1. \A k \in 1 .. j : k = j \/ k \in 1 .. i
      BY <2>1
    <3>2. \A k \in 1 .. i : k \in 1 .. j
      BY <2>1
    <3>3. j \in 1 .. j
      OBVIOUS
    <3> QED BY <3>1, <3>2, <3>3, Zenon
  <2>9. [y EXCEPT ![d[j]] = x] = Loaded(z, W(j), v)
    <3> HIDE DEF W
    <3>1. PICK U, r : U = W(i) /\ r = d[j]
      OBVIOUS
    <3>2. [Loaded(z, U, v) EXCEPT ![r] = v[r]] = Loaded(z, U \cup {r}, v)
      BY DEF Loaded
    <3> QED BY <2>2, <2>5, <2>8, <3>1, <3>2, Zenon
  <2> QED BY <2>1, <2>7, <2>9
<1> HIDE DEF S
<1>5. \A i \in 0 .. n : i \in S
  BY <1>3, <1>4, CountUp
<1>6. n \in S
  BY <1>5
<1> QED BY <1>1, <1>2, <1>6 DEF S, Places

\* A row of stores into one buffer: v says what each of its words gets.
LEMMA StoresRun ==
  ASSUME NEW z, NEW m, IsFun(m), NEW bank \in DOMAIN m, IsFun(m[bank]), NEW n \in Nat, NEW p, Len(p) = n,
         NEW d, NEW o, NEW v, AreStores(p, n, z, m, bank, d, o, v)
  PROVE  RunFrom(Cpu(z, m), p) = Cpu(z, Stored(m, bank, Places(n, o), v))
<1>1. PICK s, f : s = Cpu(z, m) /\ f = RunUpTo(s, p)
  OBVIOUS
<1>2. Ran(f, s, p, n) /\ RunFrom(s, p) = f[n]
  <2>1. Len(p) \in Nat
    OBVIOUS
  <2> QED BY <1>1, <2>1, RunSteps
<1> DEFINE W(i) == {o[j] : j \in 1 .. i}
           S == {i \in 0 .. n : f[i] = Cpu(z, Stored(m, bank, W(i), v))}
<1>3. 0 \in S
  <2>1. W(0) = {}
    OBVIOUS
  <2>2. Loaded(m[bank], {}, v) = m[bank]
    BY DEF Loaded, IsFun
  <2>3. Stored(m, bank, {}, v) = m
    BY <2>2 DEF Stored, IsFun
  <2>4. f[0] = Cpu(z, m) /\ 0 \in 0 .. n
    BY <1>1, <1>2 DEF Ran
  <2> QED BY <2>1, <2>3, <2>4, Zenon
<1>4. ASSUME NEW i \in 0 .. n - 1, i \in S PROVE i + 1 \in S
  <2>1. PICK j \in 1 .. n : j = i + 1 /\ j - 1 = i /\ j \in 0 .. n
    OBVIOUS
  <2>2. PICK y, x, U, r : y = Stored(m, bank, W(i), v) /\ x = z[d[j]] /\ U = W(i) /\ r = o[j]
    OBVIOUS
  <2>3. f[i] = Cpu(z, y)
    BY <1>4, <2>2
  <2>4. f[j] = Exec(f[j - 1], p[j])
    BY <1>2, Zenon DEF Ran
  <2>5. p[j] = Store(<<bank, r>>, d[j]) /\ r \in DOMAIN m[bank] /\ v[r] = x
    BY <2>2, Zenon DEF AreStores
  <2>6. Exec(Cpu(z, y), Store(<<bank, r>>, d[j])) = Cpu(z, Put(y, <<bank, r>>, z[d[j]]))
    BY ExecStore
  <2>7. f[j] = Cpu(z, Put(y, <<bank, r>>, x))
    BY <2>1, <2>2, <2>3, <2>4, <2>5, <2>6, Zenon
  <2>8. W(j) = U \cup {r}
    <3>1. \A k \in 1 .. j : k = j \/ k \in 1 .. i
      BY <2>1
    <3>2. \A k \in 1 .. i : k \in 1 .. j
      BY <2>1
    <3>3. j \in 1 .. j
      OBVIOUS
    <3> QED BY <2>2, <3>1, <3>2, <3>3, Zenon
  <2>9. Put(y, <<bank, r>>, x) = Stored(m, bank, U \cup {r}, v)
    <3>1. y = Stored(m, bank, U, v)
      BY <2>2
    <3>2. DOMAIN y = DOMAIN m /\ y[bank] = Loaded(m[bank], U, v) /\ \A b \in DOMAIN m : b # bank => y[b] = m[b]
      BY <3>1 DEF Stored
    <3>3. r \in DOMAIN y[bank]
      BY <2>5, <3>2 DEF Loaded
    <3>4. Put(y, <<bank, r>>, x) = [y EXCEPT ![bank][r] = x]
      BY <3>3 DEF Put
    <3>5. PICK g : g = [y[bank] EXCEPT ![r] = x]
      OBVIOUS
    <3>6. g = Loaded(m[bank], U \cup {r}, v)
      BY <2>5, <3>2, <3>5 DEF Loaded
    <3>7. [y EXCEPT ![bank][r] = x] = [b \in DOMAIN m |-> IF b = bank THEN g ELSE m[b]]
      BY <3>2, <3>5
    <3> QED BY <3>4, <3>6, <3>7 DEF Stored
  <2> QED BY <2>1, <2>7, <2>8, <2>9
<1> HIDE DEF S
<1>5. \A i \in 0 .. n : i \in S
  BY <1>3, <1>4, CountUp
<1>6. n \in S
  BY <1>5
<1> QED BY <1>1, <1>2, <1>6 DEF S, Places

-----------------------------------------------------------------------------
(* Blocks of 64 bytes.                                                     *)

Grid == 0 .. GuardBlocks - 1
Row(i, n) == i .. i + n - 1
CopyRow(i, n) ==
  Loop(n, LAMBDA k : <<Load(k, <<"src", i + k>>)>>) \o Loop(n, LAMBDA k : <<Store(<<"dst", i + k>>, k)>>)
ClearRow(i, n) == Loop(n, LAMBDA k : <<Store(<<"dst", i + k>>, 0)>>)
NewBlock(k) == IF job.kind = "copy" THEN SrcBlock(k) ELSE Plain(ZeroWord)

Covers(W, b) == \A k \in W : k \in DOMAIN b
AllAre(W, v, x) == \A k \in W : v[k] = x
Copies(z, m, i, n) ==
  \E y : /\ IsFun(y) /\ DOMAIN y = 0 .. 31
         /\ RunFrom(Cpu(z, m), CopyRow(i, n)) = Cpu(y, Stored(m, "dst", Row(i, n), m["src"]))

Clears(z, m, i, n, v) == RunFrom(Cpu(z, m), ClearRow(i, n)) = Cpu(z, Stored(m, "dst", Row(i, n), v))

\* The place of a block in its row.
LEMMA RowIndex ==
  ASSUME NEW i \in Nat, NEW n \in 1 .. 32
  PROVE  \A k \in Row(i, n) : k - i + 1 \in 1 .. n /\ i + ((k - i + 1) - 1) = k
BY DEF Row

\* The loads of n blocks from the i-th on into the first registers, and their
\* stores from there.
LEMMA CopyRuns ==
  ASSUME NEW z, IsFun(z), DOMAIN z = 0 .. 31, NEW n \in 1 .. 32, NEW i \in Nat,
         NEW m, IsFun(m), "src" \in DOMAIN m, "dst" \in DOMAIN m, IsFun(m["dst"]),
         Covers(Row(i, n), m["src"]), Covers(Row(i, n), m["dst"])
  PROVE  Copies(z, m, i, n)
<1>0. PICK p : p = CopyRow(i, n)
  OBVIOUS
<1>a. \A k \in Row(i, n) : k \in DOMAIN m["src"] /\ k \in DOMAIN m["dst"]
  BY Zenon DEF Covers
<1>1. PICK e : e = [k \in 0 .. n - 1 |-> Load(k, <<"src", i + k>>)]
  OBVIOUS
<1>2. PICK g : g = [k \in 0 .. n - 1 |-> Store(<<"dst", i + k>>, k)]
  OBVIOUS
<1>3. PICK T : T = {e[k] : k \in 0 .. n - 1} \cup {g[k] : k \in 0 .. n - 1}
  OBVIOUS
<1>4. \A k \in 0 .. n - 1 : e[k] \in T /\ g[k] \in T
  BY <1>3
<1>5. PICK l, h : l = Turns(n, e) /\ h = Turns(n, g)
  OBVIOUS
<1>6. p = l \o h
  <2>1. \A k \in 1 .. n : k - 1 \in 0 .. n - 1
    OBVIOUS
  <2>2. [k \in 1 .. n |-> <<Load(k - 1, <<"src", i + (k - 1)>>)>>] = [k \in 1 .. n |-> <<e[k - 1]>>]
    BY <1>1, <2>1, Zenon
  <2>3. [k \in 1 .. n |-> <<Store(<<"dst", i + (k - 1)>>, k - 1)>>] = [k \in 1 .. n |-> <<g[k - 1]>>]
    BY <1>2, <2>1, Zenon
  <2> QED BY <1>0, <1>5, <2>2, <2>3, Zenon DEF CopyRow, Loop, Turns
<1>7. n \in Nat
  OBVIOUS
<1>8. l \in Seq(T) /\ Len(l) = n /\ \A j \in 1 .. n : l[j] = e[j - 1]
  <2>1. Emits(n, T, e)
    BY <1>4 DEF Emits
  <2>2. IsLoop(Turns(n, e), n, T, e)
    BY <1>7, <2>1, LoopOf
  <2> QED BY <1>5, <2>2 DEF IsLoop
<1>9. h \in Seq(T) /\ Len(h) = n /\ \A j \in 1 .. n : h[j] = g[j - 1]
  <2>1. Emits(n, T, g)
    BY <1>4 DEF Emits
  <2>2. IsLoop(Turns(n, g), n, T, g)
    BY <1>7, <2>1, LoopOf
  <2> QED BY <1>5, <2>2 DEF IsLoop
<1>10. PICK d, a, o, v :
          /\ d = [j \in 1 .. n |-> j - 1] /\ a = [j \in 1 .. n |-> <<"src", i + (j - 1)>>]
          /\ o = [j \in 1 .. n |-> i + (j - 1)] /\ v = [r \in 0 .. 31 |-> m["src"][i + r]]
  OBVIOUS
<1>11. \A j \in 1 .. n : /\ d[j] = j - 1 /\ a[j] = <<"src", i + (j - 1)>> /\ o[j] = i + (j - 1)
                         /\ j - 1 \in 0 .. n - 1 /\ j - 1 \in 0 .. 31 /\ i + (j - 1) \in Row(i, n)
  <2>1. \A j \in 1 .. n : d[j] = j - 1 /\ a[j] = <<"src", i + (j - 1)>> /\ o[j] = i + (j - 1)
    BY <1>10, Zenon
  <2>2. \A j \in 1 .. n : j - 1 \in 0 .. n - 1 /\ j - 1 \in 0 .. 31 /\ i + (j - 1) \in Row(i, n)
    BY DEF Row
  <2> QED BY <2>1, <2>2, Zenon
<1>12. PICK W : W = Places(n, d)
  OBVIOUS
<1>13. RunFrom(Cpu(z, m), l) = Cpu(Loaded(z, Places(n, d), v), m)
  <2>1. \A j \in 1 .. n : l[j] = Load(d[j], a[j])
    BY <1>1, <1>8, <1>11, Zenon
  <2>2. \A j \in 1 .. n : d[j] \in DOMAIN z
    BY <1>11
  <2>3. \A j \in 1 .. n : Fetch(m, a[j]) = m["src"][i + (j - 1)]
    <3>1. TAKE j \in 1 .. n
    <3>2. PICK x : x = i + (j - 1)
      OBVIOUS
    <3>3. a[j][1] = "src" /\ a[j][2] = x /\ x \in DOMAIN m["src"]
      BY <1>a, <1>11, <3>2
    <3> QED BY <3>2, <3>3 DEF Fetch
  <2>4. \A j \in 1 .. n : v[d[j]] = m["src"][i + (j - 1)]
    BY <1>10, <1>11, Zenon
  <2>5. AreLoads(l, n, z, m, d, a, v)
    BY <2>1, <2>2, <2>3, <2>4, Zenon DEF AreLoads
  <2> QED BY <1>7, <1>8, <2>5, LoadsRun
<1>14. PICK y : y = Loaded(z, W, v)
  OBVIOUS
<1>15. IsFun(y) /\ DOMAIN y = 0 .. 31
  BY <1>14 DEF Loaded, IsFun
<1>16. \A j \in 1 .. n : y[d[j]] = m["src"][o[j]]
  <2>1. \A j \in 1 .. n : d[j] \in W /\ d[j] \in DOMAIN z
    BY <1>11, <1>12 DEF Places
  <2>2. \A j \in 1 .. n : y[d[j]] = v[d[j]]
    BY <1>14, <2>1, Zenon DEF Loaded
  <2>3. \A j \in 1 .. n : v[d[j]] = m["src"][i + (j - 1)]
    BY <1>10, <1>11, Zenon
  <2> QED BY <1>11, <2>2, <2>3, Zenon
<1>17. RunFrom(Cpu(y, m), h) = Cpu(y, Stored(m, "dst", Places(n, o), m["src"]))
  <2>1. \A j \in 1 .. n : h[j] = Store(<<"dst", o[j]>>, d[j])
    BY <1>2, <1>9, <1>11, Zenon
  <2>2. \A j \in 1 .. n : o[j] \in DOMAIN m["dst"]
    BY <1>a, <1>11, Zenon
  <2>3. PICK bank, u : bank = "dst" /\ u = m["src"]
    OBVIOUS
  <2>4. AreStores(h, n, y, m, bank, d, o, u)
    BY <1>16, <2>1, <2>2, <2>3, Zenon DEF AreStores
  <2>5. bank \in DOMAIN m /\ IsFun(m[bank])
    BY <2>3
  <2>6. RunFrom(Cpu(y, m), h) = Cpu(y, Stored(m, bank, Places(n, o), u))
    BY <1>7, <1>9, <2>4, <2>5, StoresRun
  <2> QED BY <2>3, <2>6, Zenon
<1>18. Places(n, o) = Row(i, n)
  <2>1. \A k \in Row(i, n) : k - i + 1 \in 1 .. n /\ i + ((k - i + 1) - 1) = k
    BY RowIndex
  <2>2. \A k \in Row(i, n) : o[k - i + 1] = k
    BY <1>11, <2>1, Zenon
  <2>3. \A j \in 1 .. n : o[j] \in Row(i, n)
    BY <1>11, Zenon
  <2> QED BY <2>1, <2>2, <2>3 DEF Places
<1>19. RunFrom(Cpu(z, m), l \o h) = RunFrom(RunFrom(Cpu(z, m), l), h)
  BY <1>8, <1>9, RunJoin
<1>20. RunFrom(Cpu(z, m), p) = Cpu(y, Stored(m, "dst", Row(i, n), m["src"]))
  BY <1>6, <1>12, <1>13, <1>14, <1>17, <1>18, <1>19, Zenon
<1> QED BY <1>0, <1>15, <1>20, Zenon DEF Copies

\* The stores of register 0 to n blocks from the i-th on.
LEMMA ClearRuns ==
  ASSUME NEW z, NEW n \in 1 .. 32, NEW i \in Nat,
         NEW m, IsFun(m), "dst" \in DOMAIN m, IsFun(m["dst"]), Covers(Row(i, n), m["dst"]),
         NEW v, AllAre(Row(i, n), v, z[0])
  PROVE  Clears(z, m, i, n, v)
<1>0. PICK p : p = ClearRow(i, n)
  OBVIOUS
<1>a. \A k \in Row(i, n) : k \in DOMAIN m["dst"] /\ v[k] = z[0]
  BY Zenon DEF Covers, AllAre
<1>1. PICK g : g = [k \in 0 .. n - 1 |-> Store(<<"dst", i + k>>, 0)]
  OBVIOUS
<1>2. PICK T : T = {g[k] : k \in 0 .. n - 1}
  OBVIOUS
<1>3. \A k \in 0 .. n - 1 : g[k] \in T
  BY <1>2
<1>4. p = Turns(n, g)
  <2>1. \A k \in 1 .. n : k - 1 \in 0 .. n - 1
    OBVIOUS
  <2>2. [k \in 1 .. n |-> <<Store(<<"dst", i + (k - 1)>>, 0)>>] = [k \in 1 .. n |-> <<g[k - 1]>>]
    BY <1>1, <2>1, Zenon
  <2> QED BY <1>0, <2>2, Zenon DEF ClearRow, Loop, Turns
<1>5. n \in Nat
  OBVIOUS
<1>6. p \in Seq(T) /\ Len(p) = n /\ \A j \in 1 .. n : p[j] = g[j - 1]
  <2>1. Emits(n, T, g)
    BY <1>3 DEF Emits
  <2>2. IsLoop(Turns(n, g), n, T, g)
    BY <1>5, <2>1, LoopOf
  <2> QED BY <1>4, <2>2 DEF IsLoop
<1>7. PICK d, o : d = [j \in 1 .. n |-> 0] /\ o = [j \in 1 .. n |-> i + (j - 1)]
  OBVIOUS
<1>8. \A j \in 1 .. n : /\ d[j] = 0 /\ o[j] = i + (j - 1) /\ j - 1 \in 0 .. n - 1 /\ i + (j - 1) \in Row(i, n)
  BY <1>7 DEF Row
<1>9. PICK bank : bank = "dst"
  OBVIOUS
<1>10. AreStores(p, n, z, m, bank, d, o, v)
  <2>1. \A j \in 1 .. n : p[j] = Store(<<bank, o[j]>>, d[j])
    BY <1>1, <1>6, <1>8, <1>9, Zenon
  <2>2. \A j \in 1 .. n : o[j] \in DOMAIN m[bank] /\ v[o[j]] = z[d[j]]
    BY <1>a, <1>8, <1>9, Zenon
  <2> QED BY <2>1, <2>2, Zenon DEF AreStores
<1>11. bank \in DOMAIN m /\ IsFun(m[bank])
  BY <1>9
<1>12. RunFrom(Cpu(z, m), p) = Cpu(z, Stored(m, bank, Places(n, o), v))
  BY <1>5, <1>6, <1>10, <1>11, StoresRun
<1>13. Places(n, o) = Row(i, n)
  <2>1. \A k \in Row(i, n) : k - i + 1 \in 1 .. n /\ i + ((k - i + 1) - 1) = k
    BY RowIndex
  <2>2. \A k \in Row(i, n) : o[k - i + 1] = k
    BY <1>8, <2>1, Zenon
  <2>3. \A j \in 1 .. n : o[j] \in Row(i, n)
    BY <1>8, Zenon
  <2> QED BY <2>1, <2>2, <2>3 DEF Places
<1> QED BY <1>0, <1>9, <1>12, <1>13, Zenon DEF Clears

\* Where a call is: the blocks before pc.i have their new contents, or wait in
\* mem.wc for them; those from it on are as they were.
BlocksInv ==
  /\ job \in CopyJobs \cup SetJobs
  /\ pc \in [stage : {"call", "err", "unrolled", "tail", "ret"}, i : Nat, left : Nat]
  /\ pc.i + pc.left = job.blocks
  /\ pc.stage \in {"call", "err"} => pc.i = 0
  /\ pc.stage = "unrolled" => UNROLL <= pc.left
  /\ pc.stage = "ret" => pc.left = 0 /\ mem.wc = {}
  /\ (pc.stage \notin {"call", "err"} /\ job.kind = "copy") =>
        job.blocks * 64 <= job.dstLen /\ job.blocks * 64 <= job.srcLen
  /\ IsFun(zmm) /\ DOMAIN zmm = 0 .. 31
  /\ (pc.stage # "call" /\ job.kind = "set") => zmm[0] = Plain(ZeroWord)
  /\ mem = [src |-> [k \in Grid |-> SrcBlock(k)], dst |-> mem.dst, wc |-> mem.wc]
  /\ mem.wc \subseteq 0 .. pc.i - 1 /\ (mem.wc # {} => job.kind = "set" /\ job.ngo)
  /\ mem.dst = [k \in Grid |-> IF k < pc.i /\ k \notin mem.wc THEN NewBlock(k) ELSE OldBlock(k)]

\* The memory of a call as a record.
LEMMA CallMemory ==
  ASSUME NEW a, NEW b, NEW c, NEW m, m = [src |-> a, dst |-> b, wc |-> c], NEW W, NEW v
  PROVE  /\ IsFun(m) /\ "src" \in DOMAIN m /\ "dst" \in DOMAIN m /\ m["src"] = a /\ m["dst"] = b
         /\ Stored(m, "dst", W, v) = [src |-> a, dst |-> Loaded(b, W, v), wc |-> c]
<1>1. DOMAIN m = {"src", "dst", "wc"} /\ m["src"] = a /\ m["dst"] = b /\ m["wc"] = c
  OBVIOUS
<1>2. IsFun(m)
  BY DEF IsFun
<1>3. Stored(m, "dst", W, v) = [src |-> a, dst |-> Loaded(b, W, v), wc |-> c]
  BY <1>1 DEF Stored
<1> QED BY <1>1, <1>2, <1>3

\* What moving n blocks does.
LEMMA MoveEffect ==
  ASSUME BlocksInv, NEW n \in 1 .. 32, pc.i + n <= job.blocks, pc.stage \notin {"call", "err"}, MoveBlocks(n)
  PROVE  /\ IsFun(zmm') /\ DOMAIN zmm' = 0 .. 31 /\ (job.kind = "set" => zmm'[0] = zmm[0])
         /\ mem' = [src |-> [k \in Grid |-> SrcBlock(k)],
                    dst |-> [k \in Grid |-> IF k \in Row(pc.i, n) /\ k \notin NgoStores(n) THEN NewBlock(k)
                                                                                         ELSE mem.dst[k]],
                    wc  |-> mem.wc \cup NgoStores(n)]
<1>1. PICK i \in Nat : i = pc.i
  BY DEF BlocksInv
<1>1b. PICK c, b, w, z : c = [k \in Grid |-> SrcBlock(k)] /\ b = mem.dst /\ w = mem.wc /\ z = zmm
  OBVIOUS
<1>2. mem = [src |-> c, dst |-> b, wc |-> w] /\ IsFun(z) /\ DOMAIN z = 0 .. 31
  BY <1>1, <1>1b DEF BlocksInv
<1>3. DOMAIN b = Grid /\ IsFun(b) /\ DOMAIN c = Grid
  BY <1>1, <1>1b DEF BlocksInv, IsFun
<1>4. \A k \in Row(i, n) : k \in Grid
  <2>1. job.blocks \in 0 .. MaxBlocks
    BY DEF BlocksInv, CopyJobs, SetJobs
  <2> QED BY <1>1, <1>1b, <2>1, BlockBounds DEF Row, Grid, GuardBlocks
<1>5. PICK s : s = RunFrom([zmm |-> zmm, mem |-> mem], BlockProgram(n))
  OBVIOUS
<1>6. zmm' = s.zmm /\ mem' = [s.mem EXCEPT !.wc = @ \cup NgoStores(n)]
  BY <1>5, Zenon DEF MoveBlocks
<1>7. PICK m : m = mem
  OBVIOUS
<1>8. s = RunFrom(Cpu(z, m), BlockProgram(n))
  BY <1>1, <1>1b, <1>5, <1>7 DEF Cpu
<1>9. /\ IsFun(m) /\ "src" \in DOMAIN m /\ "dst" \in DOMAIN m /\ m["src"] = c /\ m["dst"] = b
      /\ \A W, v : Stored(m, "dst", W, v) = [src |-> c, dst |-> Loaded(b, W, v), wc |-> w]
  BY <1>2, <1>7, CallMemory
<1>10. SUFFICES \E y, g : /\ s = Cpu(y, [src |-> c, dst |-> g, wc |-> w]) /\ IsFun(y) /\ DOMAIN y = 0 .. 31
                          /\ job.kind = "set" => y[0] = z[0]
                          /\ g = [k \in Grid |-> IF k \in Row(i, n) /\ k \notin NgoStores(n) THEN NewBlock(k) ELSE b[k]]
  <2>1. PICK y, g : /\ s = Cpu(y, [src |-> c, dst |-> g, wc |-> w]) /\ IsFun(y) /\ DOMAIN y = 0 .. 31
                    /\ job.kind = "set" => y[0] = z[0]
                    /\ g = [k \in Grid |-> IF k \in Row(i, n) /\ k \notin NgoStores(n) THEN NewBlock(k) ELSE b[k]]
    BY <1>10
  <2>2. s.zmm = y /\ s.mem = [src |-> c, dst |-> g, wc |-> w]
    BY <2>1 DEF Cpu
  <2>3. PICK u : u = NgoStores(n)
    OBVIOUS
  <2>4. PICK q, x : q = s.mem /\ x = q.wc \cup u
    OBVIOUS
  <2>5. mem' = [q EXCEPT !.wc = x]
    BY <1>6, <2>3, <2>4, Zenon
  <2>6. q = [src |-> c, dst |-> g, wc |-> w] /\ q.wc = w
    BY <2>2, <2>4
  <2>7. mem' = [src |-> c, dst |-> g, wc |-> x] /\ x = w \cup u
    BY <2>4, <2>5, <2>6, SMTT(30)
  <2>8. mem' = [src |-> [k \in Grid |-> SrcBlock(k)],
                dst |-> [k \in Grid |-> IF k \in Row(pc.i, n) /\ k \notin NgoStores(n) THEN NewBlock(k)
                                                                                     ELSE mem.dst[k]],
                wc  |-> mem.wc \cup NgoStores(n)]
    BY <1>1, <1>1b, <2>1, <2>3, <2>7, Zenon
  <2>9. zmm' = y
    BY <1>6, <2>2
  <2> QED BY <1>1, <1>1b, <2>1, <2>8, <2>9, Zenon
<1>11. CASE job.kind = "copy"
  <2>1. BlockProgram(n) = CopyRow(i, n) /\ NgoStores(n) = {}
    <3>1. BlockProgram(n) = CopyRow(pc.i, n)
      BY <1>11, Zenon DEF BlockProgram, CopyRow, Loop
    <3>2. NgoStores(n) = {}
      BY <1>11 DEF NgoStores
    <3> QED BY <1>1, <1>1b, <3>1, <3>2
  <2>2. PICK y : /\ IsFun(y) /\ DOMAIN y = 0 .. 31
                 /\ RunFrom(Cpu(z, m), CopyRow(i, n)) = Cpu(y, Stored(m, "dst", Row(i, n), m["src"]))
    <3>1. Covers(Row(i, n), m["src"]) /\ Covers(Row(i, n), m["dst"]) /\ IsFun(m["dst"])
      BY <1>3, <1>4, <1>9, Zenon DEF Covers
    <3>2. Copies(z, m, i, n)
      BY <1>2, <1>9, <3>1, CopyRuns
    <3> QED BY <3>2, Zenon DEF Copies
  <2>3. Stored(m, "dst", Row(i, n), m["src"]) = [src |-> c, dst |-> Loaded(b, Row(i, n), c), wc |-> w]
    BY <1>9, Zenon
  <2>4. Loaded(b, Row(i, n), c)
          = [k \in Grid |-> IF k \in Row(i, n) /\ k \notin NgoStores(n) THEN NewBlock(k) ELSE b[k]]
    BY <1>1, <1>1b, <1>3, <1>11, <2>1 DEF Loaded, NewBlock
  <2>5. s = Cpu(y, [src |-> c, dst |-> Loaded(b, Row(i, n), c), wc |-> w])
    BY <1>8, <2>1, <2>2, <2>3, Zenon
  <2>6. job.kind # "set"
    BY <1>11
  <2> QED BY <2>2, <2>4, <2>5, <2>6, Zenon
<1>12. CASE job.kind = "set" /\ job.ngo
  <2>1. BlockProgram(n) = << >>
    BY <1>12, Zenon DEF BlockProgram
  <2>2. NgoStores(n) = Row(i, n)
    <3>1. NgoStores(n) = {i + k : k \in 0 .. n - 1}
      BY <1>1, <1>1b, <1>12 DEF NgoStores
    <3>2. \A k \in Row(i, n) : k - i \in 0 .. n - 1 /\ k = i + (k - i)
      BY DEF Row
    <3>3. \A k \in 0 .. n - 1 : i + k \in Row(i, n)
      BY DEF Row
    <3> QED BY <3>1, <3>2, <3>3
  <2>3. s = Cpu(z, m)
    <3>1. PICK p, t : p = << >> /\ t = Cpu(z, m)
      OBVIOUS
    <3>2. Len(p) = 0 /\ Len(p) \in Nat
      BY <3>1
    <3>3. Ran(RunUpTo(t, p), t, p, Len(p)) /\ RunFrom(t, p) = RunUpTo(t, p)[Len(p)]
      BY <3>2, RunSteps
    <3>4. RunFrom(t, p) = t
      BY <3>2, <3>3 DEF Ran
    <3> QED BY <1>8, <2>1, <3>1, <3>4
  <2>4. b = [k \in Grid |-> IF k \in Row(i, n) /\ k \notin NgoStores(n) THEN NewBlock(k) ELSE b[k]]
    BY <1>3, <2>2 DEF IsFun
  <2> QED BY <1>2, <1>7, <2>3, <2>4, Zenon
<1>13. CASE job.kind = "set" /\ ~job.ngo
  <2>1. BlockProgram(n) = ClearRow(i, n) /\ NgoStores(n) = {}
    <3>1. job.kind # "copy" /\ job.kind = "set" /\ ~job.ngo
      BY <1>13
    <3>2. BlockProgram(n) = ClearRow(pc.i, n)
      BY <3>1, Zenon DEF BlockProgram, ClearRow, Loop
    <3>3. NgoStores(n) = {}
      BY <3>1 DEF NgoStores
    <3> QED BY <1>1, <1>1b, <3>2, <3>3
  <2>2. PICK v : v = [k \in Grid |-> z[0]]
    OBVIOUS
  <2>3. RunFrom(Cpu(z, m), ClearRow(i, n)) = Cpu(z, Stored(m, "dst", Row(i, n), v))
    <3>1. AllAre(Row(i, n), v, z[0])
      BY <1>4, <2>2 DEF AllAre
    <3>2. Covers(Row(i, n), m["dst"]) /\ IsFun(m["dst"])
      BY <1>3, <1>4, <1>9, Zenon DEF Covers
    <3>3. IsFun(m) /\ "dst" \in DOMAIN m
      BY <1>9
    <3>4. Clears(z, m, i, n, v)
      BY <3>1, <3>2, <3>3, ClearRuns, Zenon
    <3> QED BY <3>4, Zenon DEF Clears
  <2>4. Stored(m, "dst", Row(i, n), v) = [src |-> c, dst |-> Loaded(b, Row(i, n), v), wc |-> w]
    BY <1>9, Zenon
  <2>5. z[0] = Plain(ZeroWord)
    BY <1>1, <1>1b, <1>13 DEF BlocksInv
  <2>6. Loaded(b, Row(i, n), v)
          = [k \in Grid |-> IF k \in Row(i, n) /\ k \notin NgoStores(n) THEN NewBlock(k) ELSE b[k]]
    BY <1>3, <1>13, <2>1, <2>2, <2>5 DEF Loaded, NewBlock
  <2>7. s = Cpu(z, [src |-> c, dst |-> Loaded(b, Row(i, n), v), wc |-> w])
    BY <1>8, <2>1, <2>3, <2>4, Zenon
  <2> QED BY <1>2, <2>6, <2>7, Zenon
<1>14. job.kind \in {"copy", "set"}
  BY DEF BlocksInv, CopyJobs, SetJobs
<1> QED BY <1>11, <1>12, <1>13, <1>14

\* A call starts with nothing moved.
LEMMA BlocksStart == BlocksInit => BlocksInv
<1>1. SUFFICES ASSUME BlocksInit PROVE BlocksInv
  OBVIOUS
<1>2. job \in CopyJobs \cup SetJobs /\ job.blocks \in Nat
  BY <1>1, BlockBounds DEF BlocksInit, CopyJobs, SetJobs
<1>3. pc = [stage |-> "call", i |-> 0, left |-> job.blocks]
  BY <1>1 DEF BlocksInit
<1>4. mem = [src |-> [k \in Grid |-> SrcBlock(k)], dst |-> [k \in Grid |-> OldBlock(k)], wc |-> {}]
  BY <1>1 DEF BlocksInit, Grid
<1>5. zmm = [r \in 0 .. 31 |-> Plain(JunkWord)]
  BY <1>1 DEF BlocksInit, EntryRegisters
<1>6. IsFun(zmm) /\ DOMAIN zmm = 0 .. 31
  BY <1>5 DEF IsFun
<1>7. mem.dst = [k \in Grid |-> IF k < pc.i /\ k \notin mem.wc THEN NewBlock(k) ELSE OldBlock(k)]
  BY <1>3, <1>4 DEF Grid
<1>8. /\ mem = [src |-> [k \in Grid |-> SrcBlock(k)], dst |-> mem.dst, wc |-> mem.wc] /\ mem.wc = {}
  BY <1>4
<1>9. /\ pc \in [stage : {"call", "err", "unrolled", "tail", "ret"}, i : Nat, left : Nat]
      /\ pc.i = 0 /\ pc.i + pc.left = job.blocks /\ pc.stage = "call"
  BY <1>2, <1>3
<1> QED BY <1>2, <1>6, <1>7, <1>8, <1>9 DEF BlocksInv

\* What a move leaves of the invariant: n more blocks are done.
LEMMA MoveKeeps ==
  ASSUME BlocksInv, NEW n \in 1 .. 32, n <= pc.left, pc.stage \in {"unrolled", "tail"}, MoveBlocks(n), job' = job,
         NEW t \in {"unrolled", "tail"}, pc' = [pc EXCEPT !.i = @ + n, !.left = @ - n, !.stage = t],
         t = "unrolled" => UNROLL <= pc.left - n
  PROVE  BlocksInv'
<1>1. PICK i \in Nat, left \in Nat : i = pc.i /\ left = pc.left
  BY DEF BlocksInv
<1>1b. PICK w : w = mem.wc
  OBVIOUS
<1>2. /\ job \in CopyJobs \cup SetJobs /\ i + left = job.blocks
      /\ pc \in [stage : {"call", "err", "unrolled", "tail", "ret"}, i : Nat, left : Nat]
      /\ job.kind = "copy" => job.blocks * 64 <= job.dstLen /\ job.blocks * 64 <= job.srcLen
      /\ job.kind = "set" => zmm[0] = Plain(ZeroWord)
      /\ w \subseteq 0 .. i - 1 /\ (w # {} => job.kind = "set" /\ job.ngo)
      /\ mem.dst = [k \in Grid |-> IF k < i /\ k \notin w THEN NewBlock(k) ELSE OldBlock(k)]
  BY <1>1, <1>1b DEF BlocksInv
<1>3. PICK u : u = NgoStores(n)
  OBVIOUS
<1>4. /\ IsFun(zmm') /\ DOMAIN zmm' = 0 .. 31 /\ (job.kind = "set" => zmm'[0] = zmm[0])
      /\ mem' = [src |-> [k \in Grid |-> SrcBlock(k)],
                 dst |-> [k \in Grid |-> IF k \in Row(i, n) /\ k \notin u THEN NewBlock(k) ELSE mem.dst[k]],
                 wc  |-> w \cup u]
  <2>1. pc.i + n <= job.blocks /\ pc.stage \notin {"call", "err"}
    BY <1>1, <1>1b, <1>2
  <2>2. /\ IsFun(zmm') /\ DOMAIN zmm' = 0 .. 31 /\ (job.kind = "set" => zmm'[0] = zmm[0])
        /\ mem' = [src |-> [k \in Grid |-> SrcBlock(k)],
                   dst |-> [k \in Grid |-> IF k \in Row(pc.i, n) /\ k \notin NgoStores(n) THEN NewBlock(k)
                                                                                        ELSE mem.dst[k]],
                   wc  |-> mem.wc \cup NgoStores(n)]
    BY <2>1, MoveEffect
  <2> QED BY <1>1, <1>1b, <1>3, <2>2, Zenon
<1>5. /\ pc' \in [stage : {"call", "err", "unrolled", "tail", "ret"}, i : Nat, left : Nat]
      /\ pc'.i = i + n /\ pc'.left = left - n /\ pc'.stage = t
  <2>1. PICK a : pc = [stage |-> a, i |-> i, left |-> left]
    BY <1>1, <1>1b, <1>2
  <2>2. pc' = [stage |-> t, i |-> i + n, left |-> left - n]
    BY <2>1
  <2>3. i + n \in Nat /\ left - n \in Nat
    BY <1>1, <1>1b
  <2>4. t \in {"call", "err", "unrolled", "tail", "ret"}
    OBVIOUS
  <2>5. PICK x \in Nat, y \in Nat : x = i + n /\ y = left - n
    BY <2>3
  <2>6. pc' = [stage |-> t, i |-> x, left |-> y]
    BY <2>2, <2>5
  <2>7. PICK q : q = [stage |-> t, i |-> x, left |-> y]
    OBVIOUS
  <2>8. q \in [stage : {"call", "err", "unrolled", "tail", "ret"}, i : Nat, left : Nat]
    BY <2>4, <2>7
  <2>9. q.i = x /\ q.left = y /\ q.stage = t
    BY <2>7
  <2> QED BY <2>5, <2>6, <2>7, <2>8, <2>9, Zenon
<1>6. u \subseteq Row(i, n) /\ (u # {} => job.kind = "set" /\ job.ngo)
  <2>1. \A k \in 0 .. n - 1 : i + k \in Row(i, n)
    BY DEF Row
  <2> QED BY <1>1, <1>1b, <1>3, <2>1 DEF NgoStores
<1>7. \A k \in Row(i, n) : k \in 0 .. i + n - 1 /\ k >= i
  BY DEF Row
<1>8. w \cup u \subseteq 0 .. (i + n) - 1
  <2>1. \A k \in 0 .. i - 1 : k \in 0 .. (i + n) - 1
    OBVIOUS
  <2>2. \A k \in Row(i, n) : k \in 0 .. (i + n) - 1
    BY <1>7
  <2> QED BY <1>2, <1>6, <2>1, <2>2
<1>9. ASSUME NEW k \in Grid
      PROVE  (IF k \in Row(i, n) /\ k \notin u THEN NewBlock(k) ELSE mem.dst[k])
                = IF k < i + n /\ k \notin w \cup u THEN NewBlock(k) ELSE OldBlock(k)
  <2>1. k \in Nat /\ (k \in Row(i, n) <=> k >= i /\ k < i + n)
    BY BlockBounds DEF Grid, GuardBlocks, Row
  <2>2. mem.dst[k] = IF k < i /\ k \notin w THEN NewBlock(k) ELSE OldBlock(k)
    BY <1>2
  <2>3. CASE k < i
    <3>1. k \notin Row(i, n) /\ k \notin u /\ k < i + n
      BY <1>6, <2>1, <2>3
    <3> QED BY <2>2, <2>3, <3>1
  <2>4. CASE k \in Row(i, n)
    <3>1. k \notin w /\ k < i + n /\ ~(k < i)
      BY <1>2, <2>1, <2>4
    <3> QED BY <2>2, <2>4, <3>1
  <2>5. CASE ~(k < i + n)
    <3>1. k \notin Row(i, n) /\ ~(k < i)
      BY <2>1, <2>5
    <3> QED BY <2>2, <2>5, <3>1
  <2> QED BY <2>1, <2>3, <2>4, <2>5
<1>10. PICK g : g = [k \in Grid |-> IF k < i + n /\ k \notin w \cup u THEN NewBlock(k) ELSE OldBlock(k)]
  OBVIOUS
<1>11. mem' = [src |-> [k \in Grid |-> SrcBlock(k)], dst |-> g, wc |-> w \cup u]
  <2>1. [k \in Grid |-> IF k \in Row(i, n) /\ k \notin u THEN NewBlock(k) ELSE mem.dst[k]] = g
    BY <1>9, <1>10, Zenon
  <2> QED BY <1>4, <2>1, Zenon
<1>12. mem'.dst = g /\ mem'.wc = w \cup u /\ mem' = [src |-> [k \in Grid |-> SrcBlock(k)], dst |-> mem'.dst, wc |-> mem'.wc]
  BY <1>11
<1>13. \A k : NewBlock(k)' = NewBlock(k)
  BY DEF NewBlock
<1>14. mem'.dst = [k \in Grid |-> IF k < pc'.i /\ k \notin mem'.wc THEN NewBlock(k)' ELSE OldBlock(k)]
  BY <1>5, <1>10, <1>12, <1>13, Zenon
<1>15. pc'.i + pc'.left = job.blocks /\ (t = "unrolled" => UNROLL <= pc'.left)
  BY <1>1, <1>1b, <1>2, <1>5
<1>16. mem'.wc \subseteq 0 .. pc'.i - 1 /\ (mem'.wc # {} => job.kind = "set" /\ job.ngo)
  BY <1>2, <1>5, <1>6, <1>8, <1>12
<1>17. job.kind = "set" => zmm'[0] = Plain(ZeroWord)
  BY <1>2, <1>4
<1>18. t # "call" /\ t # "err" /\ t # "ret"
  OBVIOUS
<1> QED BY <1>2, <1>4, <1>5, <1>12, <1>14, <1>15, <1>16, <1>17, <1>18 DEF BlocksInv

\* Every step of a call keeps the blocks right.
LEMMA BlocksSteps == BlocksInv /\ [BlocksNext]_laneVars => BlocksInv'
<1>0. SUFFICES ASSUME BlocksInv, [BlocksNext]_laneVars PROVE BlocksInv'
  OBVIOUS
<1>1. /\ job \in CopyJobs \cup SetJobs /\ pc.i + pc.left = job.blocks
      /\ pc \in [stage : {"call", "err", "unrolled", "tail", "ret"}, i : Nat, left : Nat]
  BY <1>0 DEF BlocksInv
<1>2. CASE BlocksCall
  <2>1. job' = job /\ mem' = mem /\ pc.stage = "call" /\ pc.i = 0 /\ pc.left = job.blocks
    BY <1>0, <1>1, <1>2 DEF BlocksCall, BlocksInv
  <2>2. IsFun(zmm) /\ DOMAIN zmm = 0 .. 31
    BY <1>0 DEF BlocksInv
  <2>3. \E t \in {"err", "tail", "unrolled"} :
          /\ pc' = [pc EXCEPT !.stage = t] /\ (t = "unrolled" => UNROLL <= pc.left)
          /\ (t # "err" /\ job.kind = "copy") => job.blocks * 64 <= job.dstLen /\ job.blocks * 64 <= job.srcLen
          /\ t = "err" => job.kind = "copy"
    <3>1. PICK b \in Nat : b = job.blocks * 64
      BY <1>1
    <3>2. job.kind = "copy" => job.dstLen \in Int /\ job.srcLen \in Int
      <4>1. SUFFICES ASSUME job.kind = "copy" PROVE job.dstLen \in SliceBytes /\ job.srcLen \in SliceBytes
        <5>1. \A x \in SliceBytes : x \in Int
          BY BlockBounds
        <5> QED BY <4>1, <5>1, Zenon
      <4> QED BY <1>1, <4>1 DEF CopyJobs, SetJobs
    <3>3. pc.left \in Nat /\ UNROLL \in Nat
      BY <1>1 DEF UNROLL
    <3>4. CASE job.kind = "copy" /\ (job.dstLen < b \/ job.srcLen < b \/ ~job.aligned)
      <4>1. pc' = [pc EXCEPT !.stage = "err"]
        BY <1>2, <3>1, <3>4 DEF BlocksCall
      <4> QED BY <3>4, <4>1
    <3>5. CASE ~(job.kind = "copy" /\ (job.dstLen < b \/ job.srcLen < b \/ ~job.aligned))
      <4>1. pc' = [pc EXCEPT !.stage = IF pc.left < UNROLL THEN "tail" ELSE "unrolled"]
        BY <1>2, <3>1, <3>5 DEF BlocksCall
      <4>2. job.kind = "copy" => b <= job.dstLen /\ b <= job.srcLen
        BY <3>2, <3>5
      <4> QED BY <3>1, <3>3, <4>1, <4>2
    <3> QED BY <3>4, <3>5
  <2>4. PICK t \in {"err", "tail", "unrolled"} :
          /\ pc' = [pc EXCEPT !.stage = t] /\ (t = "unrolled" => UNROLL <= pc.left)
          /\ (t # "err" /\ job.kind = "copy") => job.blocks * 64 <= job.dstLen /\ job.blocks * 64 <= job.srcLen
          /\ t = "err" => job.kind = "copy"
    BY <2>3
  <2>5. /\ pc' \in [stage : {"call", "err", "unrolled", "tail", "ret"}, i : Nat, left : Nat]
        /\ pc'.stage = t /\ pc'.i = pc.i /\ pc'.left = pc.left
    BY <1>1, <2>4
  <2>6. IsFun(zmm') /\ DOMAIN zmm' = 0 .. 31 /\ (job.kind = "set" => zmm'[0] = Plain(ZeroWord))
    <3>1. CASE job.kind = "copy"
      <4>1. zmm' = zmm /\ job.kind # "set"
        BY <1>2, <3>1 DEF BlocksCall
      <4> QED BY <2>2, <4>1
    <3>2. CASE job.kind # "copy"
      <4>1. zmm' = Exec([zmm |-> zmm, mem |-> mem], Vpxord(0, 0, 0)).zmm
        BY <1>2, <3>2 DEF BlocksCall
      <4>2. PICK q, z : q = Vpxord(0, 0, 0) /\ z = zmm
        OBVIOUS
      <4>3. q.op = "xor" /\ q.d = 0 /\ q.a = 0 /\ q.b = 0
        BY <4>2 DEF Vpxord
      <4>4. PICK s : s = [zmm |-> z, mem |-> mem]
        OBVIOUS
      <4>5. Exec(s, q) = [s EXCEPT !.zmm[0] = Result(s.zmm, s.mem, q)]
        BY <4>3 DEF Exec
      <4>6. Result(s.zmm, s.mem, q) = Plain(ZeroWord)
        BY <4>3 DEF Result
      <4>7. Exec(s, q).zmm = [z EXCEPT ![0] = Plain(ZeroWord)]
        BY <4>4, <4>5, <4>6
      <4>8. zmm' = [z EXCEPT ![0] = Plain(ZeroWord)]
        BY <4>1, <4>2, <4>4, <4>7, Zenon
      <4>9. DOMAIN z = 0 .. 31
        BY <2>2, <4>2
      <4>10. PICK x : x = Plain(ZeroWord)
        OBVIOUS
      <4>11. zmm' = [r \in 0 .. 31 |-> IF r = 0 THEN x ELSE z[r]]
        BY <4>8, <4>9, <4>10
      <4>12. IsFun(zmm') /\ DOMAIN zmm' = 0 .. 31 /\ zmm'[0] = x
        BY <4>11 DEF IsFun
      <4> QED BY <4>10, <4>12
    <3> QED BY <3>1, <3>2
  <2>7. \A k : NewBlock(k)' = NewBlock(k)
    BY <2>1 DEF NewBlock
  <2>8. /\ mem = [src |-> [k \in Grid |-> SrcBlock(k)], dst |-> mem.dst, wc |-> mem.wc]
        /\ mem.wc \subseteq 0 .. pc.i - 1 /\ (mem.wc # {} => job.kind = "set" /\ job.ngo)
        /\ mem.dst = [k \in Grid |-> IF k < pc.i /\ k \notin mem.wc THEN NewBlock(k) ELSE OldBlock(k)]
    BY <1>0 DEF BlocksInv
  <2>9. mem'.dst = [k \in Grid |-> IF k < pc'.i /\ k \notin mem'.wc THEN NewBlock(k)' ELSE OldBlock(k)]
    BY <2>1, <2>5, <2>7, <2>8, Zenon
  <2>10. t # "call" /\ t # "ret"
    OBVIOUS
  <2> QED BY <1>1, <2>1, <2>4, <2>5, <2>6, <2>8, <2>9, <2>10 DEF BlocksInv
<1>3. CASE Unrolled
  <2>1. /\ pc.stage = "unrolled" /\ MoveBlocks(UNROLL) /\ job' = job
        /\ pc' = [pc EXCEPT !.i = @ + UNROLL, !.left = @ - UNROLL,
                        !.stage = IF pc.left - UNROLL >= UNROLL THEN "unrolled" ELSE "tail"]
    BY <1>3, Zenon DEF Unrolled
  <2>2. PICK n \in 1 .. 32 : n = UNROLL
    BY DEF UNROLL
  <2>3. PICK t \in {"unrolled", "tail"} : t = IF pc.left - UNROLL >= UNROLL THEN "unrolled" ELSE "tail"
    OBVIOUS
  <2>4. n <= pc.left
    BY <1>0, <2>1, <2>2 DEF BlocksInv
  <2>5. MoveBlocks(n) /\ pc' = [pc EXCEPT !.i = @ + n, !.left = @ - n, !.stage = t]
    BY <2>1, <2>2, <2>3, Zenon
  <2>6. t = "unrolled" => UNROLL <= pc.left - n
    BY <1>1, <2>2, <2>3
  <2>7. pc.stage \in {"unrolled", "tail"}
    BY <2>1
  <2> QED BY <1>0, <2>1, <2>4, <2>5, <2>6, <2>7, MoveKeeps
<1>4. CASE Tail1
  <2>1. /\ pc.stage = "tail" /\ pc.left # 0 /\ MoveBlocks(1) /\ job' = job
        /\ pc' = [pc EXCEPT !.i = @ + 1, !.left = @ - 1]
    BY <1>4, Zenon DEF Tail1
  <2>2. 1 \in 1 .. 32 /\ 1 <= pc.left
    BY <1>1, <2>1
  <2>3. PICK t \in {"unrolled", "tail"} : t = "tail"
    OBVIOUS
  <2>4. pc' = [pc EXCEPT !.i = @ + 1, !.left = @ - 1, !.stage = t]
    BY <1>1, <2>1, <2>3
  <2>5. t = "unrolled" => UNROLL <= pc.left - 1
    BY <2>3
  <2>6. pc.stage \in {"unrolled", "tail"}
    BY <2>1
  <2> QED BY <1>0, <2>1, <2>2, <2>4, <2>5, <2>6, MoveKeeps
<1>5. CASE Settle
  <2>1. PICK j \in mem.wc :
          /\ mem' = [Put(mem, <<"dst", j>>, zmm[0]) EXCEPT !.wc = @ \ {j}]
          /\ job' = job /\ pc' = pc /\ zmm' = zmm /\ job.kind = "set"
    BY <1>5, Zenon DEF Settle
  <2>2. PICK i \in Nat : i = pc.i
    BY <1>1
  <2>2b. PICK w, b, c : w = mem.wc /\ b = mem.dst /\ c = [k \in Grid |-> SrcBlock(k)]
    OBVIOUS
  <2>3. /\ mem = [src |-> c, dst |-> b, wc |-> w] /\ w \subseteq 0 .. i - 1 /\ (w # {} => job.kind = "set" /\ job.ngo)
        /\ b = [k \in Grid |-> IF k < i /\ k \notin w THEN NewBlock(k) ELSE OldBlock(k)]
        /\ i <= job.blocks /\ job.blocks \in 0 .. MaxBlocks
    <3>1. job.blocks \in 0 .. MaxBlocks
      BY <1>1 DEF CopyJobs, SetJobs
    <3>2. i <= job.blocks
      BY <1>1, <2>2, <2>2b
    <3> QED BY <1>0, <2>2, <2>2b, <3>1, <3>2 DEF BlocksInv
  <2>4. j \in Grid /\ j < i /\ j \in w
    BY <2>1, <2>2, <2>2b, <2>3, BlockBounds DEF Grid, GuardBlocks
  <2>5. zmm[0] = Plain(ZeroWord) /\ NewBlock(j) = Plain(ZeroWord)
    <3>1. pc.stage # "call"
      BY <1>0, <2>2, <2>2b, <2>4 DEF BlocksInv
    <3> QED BY <1>0, <2>1, <3>1 DEF BlocksInv, NewBlock
  <2>6. PICK x : x = zmm[0]
    OBVIOUS
  <2>7. PICK g : g = [b EXCEPT ![j] = x]
    OBVIOUS
  <2>8. Put(mem, <<"dst", j>>, x) = [src |-> c, dst |-> g, wc |-> w]
    <3>1. PICK m, a : m = mem /\ a = <<"dst", j>>
      OBVIOUS
    <3>2. a[1] = "dst" /\ a[2] = j /\ m = [src |-> c, dst |-> b, wc |-> w] /\ m["dst"] = b /\ DOMAIN b = Grid
      BY <2>3, <3>1
    <3>3. Put(m, a, x) = [m EXCEPT !["dst"][j] = x]
      BY <2>4, <3>2 DEF Put
    <3>4. [m EXCEPT !["dst"][j] = x] = [src |-> c, dst |-> g, wc |-> w]
      BY <2>7, <3>2
    <3> QED BY <3>1, <3>3, <3>4
  <2>9. mem' = [src |-> c, dst |-> g, wc |-> w \ {j}]
    <3>1. PICK q : q = [src |-> c, dst |-> g, wc |-> w]
      OBVIOUS
    <3>2. mem' = [q EXCEPT !.wc = q.wc \ {j}]
      BY <2>1, <2>6, <2>8, <3>1, Zenon
    <3> QED BY <3>1, <3>2
  <2>10. g = [k \in Grid |-> IF k < i /\ k \notin w \ {j} THEN NewBlock(k) ELSE OldBlock(k)]
    <3>1. DOMAIN b = Grid
      BY <2>3
    <3>2. g = [k \in Grid |-> IF k = j THEN x ELSE b[k]]
      BY <2>7, <3>1
    <3>3. ASSUME NEW k \in Grid
          PROVE  (IF k = j THEN x ELSE b[k]) = IF k < i /\ k \notin w \ {j} THEN NewBlock(k) ELSE OldBlock(k)
      <4>1. b[k] = IF k < i /\ k \notin w THEN NewBlock(k) ELSE OldBlock(k)
        BY <2>3, Zenon
      <4>2. CASE k = j
        BY <2>4, <2>5, <2>6, <4>2
      <4>3. CASE k # j
        BY <4>1, <4>3
      <4> QED BY <4>2, <4>3
    <3> QED BY <3>2, <3>3, Zenon
  <2>11. mem'.dst = g /\ mem'.wc = w \ {j} /\ mem' = [src |-> c, dst |-> mem'.dst, wc |-> mem'.wc]
    BY <2>9
  <2>12. \A k : NewBlock(k)' = NewBlock(k)
    BY <2>1 DEF NewBlock
  <2>13. mem'.dst = [k \in Grid |-> IF k < pc'.i /\ k \notin mem'.wc THEN NewBlock(k)' ELSE OldBlock(k)]
    BY <2>1, <2>2, <2>2b, <2>10, <2>11, <2>12, Zenon
  <2>14. mem'.wc \subseteq 0 .. pc'.i - 1 /\ (mem'.wc # {} => job.kind = "set" /\ job.ngo)
    BY <2>1, <2>2, <2>2b, <2>3, <2>11
  <2>15. pc.stage # "ret"
    BY <1>0, <2>1 DEF BlocksInv
  <2>16. mem' = [src |-> [k \in Grid |-> SrcBlock(k)], dst |-> mem'.dst, wc |-> mem'.wc]
    BY <2>2, <2>2b, <2>11, Zenon
  <2> QED BY <1>0, <2>1, <2>13, <2>14, <2>15, <2>16 DEF BlocksInv
<1>6. CASE Return
  <2>1. /\ pc.stage = "tail" /\ pc.left = 0 /\ ((job.kind = "set" /\ job.ngo) => mem.wc = {})
        /\ pc' = [pc EXCEPT !.stage = "ret"] /\ job' = job /\ zmm' = zmm /\ mem' = mem
    BY <1>6 DEF Return
  <2>2. /\ pc' \in [stage : {"call", "err", "unrolled", "tail", "ret"}, i : Nat, left : Nat]
        /\ pc'.stage = "ret" /\ pc'.i = pc.i /\ pc'.left = pc.left
    BY <1>1, <2>1
  <2>3. mem.wc = {}
    BY <1>0, <2>1 DEF BlocksInv
  <2>4. \A k : NewBlock(k)' = NewBlock(k)
    BY <2>1 DEF NewBlock
  <2>5. /\ mem.dst = [k \in Grid |-> IF k < pc.i /\ k \notin mem.wc THEN NewBlock(k) ELSE OldBlock(k)]
        /\ mem = [src |-> [k \in Grid |-> SrcBlock(k)], dst |-> mem.dst, wc |-> mem.wc]
        /\ mem.wc \subseteq 0 .. pc.i - 1 /\ IsFun(zmm) /\ DOMAIN zmm = 0 .. 31
        /\ job.kind = "copy" => job.blocks * 64 <= job.dstLen /\ job.blocks * 64 <= job.srcLen
        /\ job.kind = "set" => zmm[0] = Plain(ZeroWord)
    BY <1>0, <2>1 DEF BlocksInv
  <2>6. mem'.dst = [k \in Grid |-> IF k < pc'.i /\ k \notin mem'.wc THEN NewBlock(k)' ELSE OldBlock(k)]
    BY <2>1, <2>2, <2>4, <2>5, Zenon
  <2> QED BY <1>1, <2>1, <2>2, <2>3, <2>5, <2>6 DEF BlocksInv
<1>7. CASE UNCHANGED laneVars
  <2>1. job' = job /\ pc' = pc /\ zmm' = zmm /\ mem' = mem
    BY <1>7 DEF laneVars
  <2>2. \A k : NewBlock(k)' = NewBlock(k)
    BY <2>1 DEF NewBlock
  <2>3. mem.dst = [k \in Grid |-> IF k < pc.i /\ k \notin mem.wc THEN NewBlock(k) ELSE OldBlock(k)]
    BY <1>0 DEF BlocksInv
  <2>4. mem'.dst = [k \in Grid |-> IF k < pc'.i /\ k \notin mem'.wc THEN NewBlock(k)' ELSE OldBlock(k)]
    BY <2>1, <2>2, <2>3, Zenon
  <2> QED BY <1>0, <2>1, <2>4 DEF BlocksInv
<1> QED BY <1>0, <1>2, <1>3, <1>4, <1>5, <1>6, <1>7 DEF BlocksNext

(* knc_memcpy64 behind memcpy64, and the two knc_memset64, for every number of
   blocks, every length of slice and every order in which unordered stores
   settle: what a call that returns leaves is exactly the blocks asked for, and
   one that is refused leaves everything as it was. *)
THEOREM BlocksAreExact == BlocksSpec => []BlocksExact
<1>1. ASSUME BlocksInv PROVE BlocksExact
  <2>1. /\ mem = [src |-> [k \in Grid |-> SrcBlock(k)], dst |-> mem.dst, wc |-> mem.wc]
        /\ mem.dst = [k \in Grid |-> IF k < pc.i /\ k \notin mem.wc THEN NewBlock(k) ELSE OldBlock(k)]
        /\ pc.stage = "ret" => mem.wc = {} /\ pc.left = 0
        /\ pc.stage = "err" => pc.i = 0
        /\ pc.i \in Nat /\ pc.left \in Nat /\ pc.i + pc.left = job.blocks
        /\ pc.stage = "ret" /\ job.kind = "copy" => job.blocks * 64 <= job.dstLen /\ job.blocks * 64 <= job.srcLen
    BY <1>1 DEF BlocksInv
  <2>2. DOMAIN mem.dst = Grid /\ mem.src = [k \in Grid |-> SrcBlock(k)]
    BY <2>1
  <2>3. \A k \in Grid : k \in Nat
    BY BlockBounds DEF Grid, GuardBlocks
  <2>4. ASSUME NEW k \in Grid
        PROVE  \/ mem.dst[k] = NewBlock(k) /\ k < job.blocks /\ pc.stage # "err"
               \/ mem.dst[k] = OldBlock(k) /\ ~(pc.stage = "ret" /\ k < job.blocks)
    <3>1. mem.dst[k] = IF k < pc.i /\ k \notin mem.wc THEN NewBlock(k) ELSE OldBlock(k)
      BY <2>1, Zenon
    <3> QED BY <2>1, <2>3, <3>1
  <2>5. \A k \in Grid :
           mem.dst[k] \in (IF k < job.blocks /\ pc.stage # "err"
                             THEN {IF job.kind = "copy" THEN SrcBlock(k) ELSE Plain(ZeroWord)} ELSE {})
                          \cup (IF k < (IF pc.stage = "ret" THEN job.blocks ELSE 0) THEN {} ELSE {OldBlock(k)})
    <3>1. TAKE k \in Grid
    <3>2. ~(k < 0)
      BY <2>3
    <3>3. k < (IF pc.stage = "ret" THEN job.blocks ELSE 0) <=> pc.stage = "ret" /\ k < job.blocks
      BY <3>2
    <3>4. NewBlock(k) = IF job.kind = "copy" THEN SrcBlock(k) ELSE Plain(ZeroWord)
      BY DEF NewBlock
    <3> QED BY <2>4, <3>3, <3>4
  <2> QED BY <2>1, <2>2, <2>5, Zenon DEF BlocksExact, Grid
<1>2. BlocksInv /\ [BlocksNext]_laneVars => BlocksInv'
  BY BlocksSteps
<1> QED BY <1>1, <1>2, BlocksStart, PTL DEF BlocksSpec

-----------------------------------------------------------------------------
(* The registers of a task.                                                *)

\* The run of p from s ends in t; the values o[k], one a turn.
RunEnds(s, p, t) == RunFrom(s, p) = t
Cells(n, o) == {o[k] : k \in 0 .. n - 1}
\* v gives the word o[k] what register d[k] holds; and register d[k] what the
\* word o[k] holds.
Saves(n, z, b, d, o, v) == \A k \in 0 .. n - 1 : o[k] \in DOMAIN b /\ v[o[k]] = z[d[k]]
Gives(n, z, b, d, o, v) == \A k \in 0 .. n - 1 : o[k] \in DOMAIN b /\ d[k] \in DOMAIN z /\ v[d[k]] = b[o[k]]

\* Counted from 1 or from 0, the values are the same.
LEMMA SamePlaces ==
  ASSUME NEW n \in Nat, NEW w, NEW o, \A j \in 1 .. n : w[j] = o[j - 1]
  PROVE  Places(n, w) = Cells(n, o)
<1>1. \A k \in 0 .. n - 1 : k + 1 \in 1 .. n /\ (k + 1) - 1 = k
  OBVIOUS
<1>2. \A k \in 0 .. n - 1 : w[k + 1] = o[k]
  BY <1>1
<1>3. \A j \in 1 .. n : j - 1 \in 0 .. n - 1
  OBVIOUS
<1> QED BY <1>1, <1>2, <1>3 DEF Places, Cells

\* A loop of stores into one buffer.
LEMMA StoreTurns ==
  ASSUME NEW n \in Nat, NEW T, NEW z, NEW m, IsFun(m), NEW bank \in DOMAIN m, IsFun(m[bank]), NEW d, NEW o, NEW v,
         Saves(n, z, m[bank], d, o, v),
         NEW e, e = [k \in 0 .. n - 1 |-> Store(<<bank, o[k]>>, d[k])], Emits(n, T, e)
  PROVE  /\ Turns(n, e) \in Seq(T)
         /\ RunEnds(Cpu(z, m), Turns(n, e), Cpu(z, Stored(m, bank, Cells(n, o), v)))
<1>1. IsLoop(Turns(n, e), n, T, e)
  BY LoopOf
<1>2. PICK p : p = Turns(n, e)
  OBVIOUS
<1>3. p \in Seq(T) /\ Len(p) = n /\ \A j \in 1 .. n : p[j] = e[j - 1]
  BY <1>1, <1>2 DEF IsLoop
<1>4. PICK c, w : c = [j \in 1 .. n |-> d[j - 1]] /\ w = [j \in 1 .. n |-> o[j - 1]]
  OBVIOUS
<1>5. \A j \in 1 .. n : j - 1 \in 0 .. n - 1
  OBVIOUS
<1>6. \A j \in 1 .. n : c[j] = d[j - 1] /\ w[j] = o[j - 1]
  BY <1>4, Zenon
<1>7. AreStores(p, n, z, m, bank, c, w, v)
  <2>1. \A j \in 1 .. n : p[j] = Store(<<bank, w[j]>>, c[j])
    BY <1>3, <1>5, <1>6, Zenon
  <2>2. \A j \in 1 .. n : w[j] \in DOMAIN m[bank] /\ v[w[j]] = z[c[j]]
    BY <1>5, <1>6, Zenon DEF Saves
  <2> QED BY <2>1, <2>2, Zenon DEF AreStores
<1>8. RunFrom(Cpu(z, m), p) = Cpu(z, Stored(m, bank, Places(n, w), v))
  BY <1>3, <1>7, StoresRun
<1>9. Places(n, w) = Cells(n, o)
  BY <1>6, SamePlaces
<1> QED BY <1>2, <1>3, <1>8, <1>9, Zenon DEF RunEnds

\* A loop of loads from one buffer.
LEMMA LoadTurns ==
  ASSUME NEW n \in Nat, NEW T, NEW z, IsFun(z), NEW m, NEW bank, NEW d, NEW o, NEW v,
         Gives(n, z, m[bank], d, o, v),
         NEW e, e = [k \in 0 .. n - 1 |-> Load(d[k], <<bank, o[k]>>)], Emits(n, T, e)
  PROVE  /\ Turns(n, e) \in Seq(T)
         /\ RunEnds(Cpu(z, m), Turns(n, e), Cpu(Loaded(z, Cells(n, d), v), m))
<1>1. IsLoop(Turns(n, e), n, T, e)
  BY LoopOf
<1>2. PICK p : p = Turns(n, e)
  OBVIOUS
<1>3. p \in Seq(T) /\ Len(p) = n /\ \A j \in 1 .. n : p[j] = e[j - 1]
  BY <1>1, <1>2 DEF IsLoop
<1>4. PICK c, a : c = [j \in 1 .. n |-> d[j - 1]] /\ a = [j \in 1 .. n |-> <<bank, o[j - 1]>>]
  OBVIOUS
<1>5. \A j \in 1 .. n : j - 1 \in 0 .. n - 1
  OBVIOUS
<1>6. \A j \in 1 .. n : c[j] = d[j - 1] /\ a[j] = <<bank, o[j - 1]>>
  BY <1>4, Zenon
<1>7. AreLoads(p, n, z, m, c, a, v)
  <2>1. \A j \in 1 .. n : p[j] = Load(c[j], a[j])
    BY <1>3, <1>5, <1>6, Zenon
  <2>2. \A j \in 1 .. n : c[j] \in DOMAIN z /\ v[c[j]] = m[bank][o[j - 1]] /\ o[j - 1] \in DOMAIN m[bank]
    BY <1>5, <1>6, Zenon DEF Gives
  <2>3. \A x \in DOMAIN m[bank] : Fetch(m, <<bank, x>>) = m[bank][x]
    BY DEF Fetch
  <2>4. \A j \in 1 .. n : v[c[j]] = Fetch(m, a[j])
    BY <1>6, <2>2, <2>3, Zenon
  <2> QED BY <2>1, <2>2, <2>4, Zenon DEF AreLoads
<1>8. RunFrom(Cpu(z, m), p) = Cpu(Loaded(z, Places(n, c), v), m)
  BY <1>3, <1>7, LoadsRun
<1>9. Places(n, c) = Cells(n, d)
  BY <1>6, SamePlaces
<1> QED BY <1>2, <1>3, <1>8, <1>9, Zenon DEF RunEnds

\* Where the state keeps the vector and the mask registers.
Offsets == {64 * r : r \in 0 .. 31} \cup {KNC_VPU_K_OFFSET + 2 * k : k \in 0 .. 7}
PlaceOf == [r \in 0 .. 31 |-> 64 * r]
KPlaceOf == [k \in 0 .. 7 |-> KNC_VPU_K_OFFSET + 2 * k]
RegOf == [r \in 0 .. 31 |-> r]
KRegOf == [k \in 0 .. 7 |-> KReg(k)]
Area(t, n) == [o \in Offsets |->
                 TaskWord(t, IF o < KNC_VPU_K_OFFSET THEN o \div 64 ELSE 32 + (o - KNC_VPU_K_OFFSET) \div 2, n)]
Bank(t, n) == [r \in 0 .. 39 |-> TaskWord(t, r, n)]

\* Every register has a place of its own.
LEMMA PlacesOfRegisters ==
  ASSUME NEW t, NEW n
  PROVE  /\ \A r \in 0 .. 31 : /\ PlaceOf[r] \in Offsets /\ RegOf[r] = r
                               /\ Area(t, n)[PlaceOf[r]] = Bank(t, n)[r] /\ r \in 0 .. 39
         /\ \A k \in 0 .. 7 : /\ KPlaceOf[k] \in Offsets /\ KRegOf[k] = 32 + k
                              /\ Area(t, n)[KPlaceOf[k]] = Bank(t, n)[32 + k] /\ 32 + k \in 0 .. 39
         /\ Offsets = Cells(32, PlaceOf) \cup Cells(8, KPlaceOf)
         /\ 0 .. 39 = Cells(32, RegOf) \cup Cells(8, KRegOf)
<1>1. ASSUME NEW r \in 0 .. 31
      PROVE  /\ PlaceOf[r] \in Offsets /\ RegOf[r] = r
             /\ Area(t, n)[PlaceOf[r]] = Bank(t, n)[r] /\ r \in 0 .. 39
  <2>1. PICK o \in Nat : o = 64 * r /\ o < 2048 /\ o \div 64 = r
    OBVIOUS
  <2>2. PlaceOf[r] = o /\ RegOf[r] = r
    BY <2>1 DEF PlaceOf, RegOf
  <2>3. o \in Offsets
    BY <2>1 DEF Offsets
  <2>4. o < KNC_VPU_K_OFFSET
    BY <2>1 DEF KNC_VPU_K_OFFSET
  <2>5. Area(t, n)[o] = TaskWord(t, r, n)
    <3>1. Area(t, n)[o] = TaskWord(t, IF o < KNC_VPU_K_OFFSET THEN o \div 64 ELSE 32 + (o - KNC_VPU_K_OFFSET) \div 2, n)
      BY <2>3, Zenon DEF Area
    <3>2. (IF o < KNC_VPU_K_OFFSET THEN o \div 64 ELSE 32 + (o - KNC_VPU_K_OFFSET) \div 2) = o \div 64
      BY <2>4, Zenon
    <3>3. o \div 64 = r
      BY <2>1
    <3> QED BY <3>1, <3>2, <3>3, Zenon
  <2>6. r \in 0 .. 39
    OBVIOUS
  <2>7. Bank(t, n)[r] = TaskWord(t, r, n)
    BY <2>6, Zenon DEF Bank
  <2> QED BY <2>2, <2>3, <2>5, <2>6, <2>7
<1>2. ASSUME NEW k \in 0 .. 7
      PROVE  /\ KPlaceOf[k] \in Offsets /\ KRegOf[k] = 32 + k
             /\ Area(t, n)[KPlaceOf[k]] = Bank(t, n)[32 + k] /\ 32 + k \in 0 .. 39
  <2>1. PICK o \in Nat : o = 2048 + 2 * k /\ ~(o < 2048) /\ 32 + (o - 2048) \div 2 = 32 + k
    OBVIOUS
  <2>2. KPlaceOf[k] = o /\ KRegOf[k] = 32 + k
    BY <2>1 DEF KPlaceOf, KRegOf, KReg, KNC_VPU_K_OFFSET
  <2>3. o \in Offsets
    BY <2>1 DEF Offsets, KNC_VPU_K_OFFSET
  <2>4. ~(o < KNC_VPU_K_OFFSET) /\ 32 + (o - KNC_VPU_K_OFFSET) \div 2 = 32 + k
    BY <2>1 DEF KNC_VPU_K_OFFSET
  <2>5. Area(t, n)[o] = TaskWord(t, 32 + k, n)
    BY <2>3, <2>4, Zenon DEF Area
  <2>6. 32 + k \in 0 .. 39
    OBVIOUS
  <2>7. Bank(t, n)[32 + k] = TaskWord(t, 32 + k, n)
    BY <2>6, Zenon DEF Bank
  <2> QED BY <2>2, <2>3, <2>5, <2>6, <2>7
<1>3. 32 - 1 = 31 /\ 8 - 1 = 7
  OBVIOUS
<1>4. Offsets = Cells(32, PlaceOf) \cup Cells(8, KPlaceOf)
  <2>1. Cells(32, PlaceOf) = {64 * r : r \in 0 .. 31}
    <3>1. \A r \in 0 .. 31 : PlaceOf[r] = 64 * r
      BY Zenon DEF PlaceOf
    <3> QED BY <1>3, <3>1 DEF Cells
  <2>2. Cells(8, KPlaceOf) = {KNC_VPU_K_OFFSET + 2 * k : k \in 0 .. 7}
    <3>1. \A k \in 0 .. 7 : KPlaceOf[k] = KNC_VPU_K_OFFSET + 2 * k
      BY Zenon DEF KPlaceOf
    <3> QED BY <1>3, <3>1 DEF Cells
  <2> QED BY <2>1, <2>2, Zenon DEF Offsets
<1>5. 0 .. 39 = Cells(32, RegOf) \cup Cells(8, KRegOf)
  <2>1. \A r \in 0 .. 31 : RegOf[r] = r
    BY <1>1
  <2>2. \A k \in 0 .. 7 : KRegOf[k] = 32 + k
    BY <1>2
  <2>3. \A x \in 0 .. 39 : x \in 0 .. 31 \/ (x - 32 \in 0 .. 7 /\ 32 + (x - 32) = x)
    OBVIOUS
  <2>4. \A x \in 0 .. 39 : (\E r \in 0 .. 31 : x = RegOf[r]) \/ (\E k \in 0 .. 7 : x = KRegOf[k])
    BY <2>1, <2>2, <2>3
  <2>5. (\A r \in 0 .. 31 : RegOf[r] \in 0 .. 39) /\ (\A k \in 0 .. 7 : KRegOf[k] \in 0 .. 39)
    BY <2>1, <2>2
  <2> QED BY <1>3, <2>4, <2>5 DEF Cells
<1> QED BY <1>1, <1>2, <1>4, <1>5


\* One buffer's words written in two rows.
LEMMA StoredTwice ==
  ASSUME NEW m, NEW bank \in DOMAIN m, NEW U, NEW W, NEW v
  PROVE  Stored(Stored(m, bank, U, v), bank, W, v) = Stored(m, bank, U \cup W, v)
<1>1. PICK g : g = Stored(m, bank, U, v)
  OBVIOUS
<1>2. DOMAIN g = DOMAIN m /\ g[bank] = Loaded(m[bank], U, v) /\ \A b \in DOMAIN m : b # bank => g[b] = m[b]
  BY <1>1 DEF Stored
<1>3. Loaded(Loaded(m[bank], U, v), W, v) = Loaded(m[bank], U \cup W, v)
  BY DEF Loaded
<1>4. PICK h : h = Loaded(g[bank], W, v)
  OBVIOUS
<1>5. h = Loaded(m[bank], U \cup W, v)
  BY <1>2, <1>3, <1>4, Zenon
<1>6. Stored(g, bank, W, v) = [b \in DOMAIN m |-> IF b = bank THEN h ELSE m[b]]
  BY <1>2, <1>4 DEF Stored
<1> QED BY <1>1, <1>5, <1>6 DEF Stored

\* The registers z hold what v gives the words of the area, register for
\* register; and the other way round.
AreSaved(z, v) ==
  (\A r \in 0 .. 31 : v[PlaceOf[r]] = z[RegOf[r]]) /\ (\A k \in 0 .. 7 : v[KPlaceOf[k]] = z[KRegOf[k]])
AreGiven(v, b) ==
  (\A r \in 0 .. 31 : v[RegOf[r]] = b[PlaceOf[r]]) /\ (\A k \in 0 .. 7 : v[KRegOf[k]] = b[KPlaceOf[k]])

\* knc_vpu_save puts every register in its place.
LEMMA SaveRuns ==
  ASSUME NEW z, NEW m, IsFun(m), NEW bank \in DOMAIN m, IsFun(m[bank]), DOMAIN m[bank] = Offsets,
         NEW v, AreSaved(z, v)
  PROVE  RunEnds(Cpu(z, m), vpu_save(bank), Cpu(z, Stored(m, bank, Offsets, v)))
<1>1. PICK e : e = [k \in 0 .. 32 - 1 |-> Store(<<bank, PlaceOf[k]>>, RegOf[k])]
  OBVIOUS
<1>2. PICK g : g = [k \in 0 .. 8 - 1 |-> Store(<<bank, KPlaceOf[k]>>, KRegOf[k])]
  OBVIOUS
<1>3. PICK T : T = {e[k] : k \in 0 .. 32 - 1} \cup {g[k] : k \in 0 .. 8 - 1}
  OBVIOUS
<1>4. Emits(32, T, e) /\ Emits(8, T, g)
  BY <1>3 DEF Emits
<1>5. 32 - 1 = 31 /\ 8 - 1 = 7 /\ 32 \in Nat /\ 8 \in Nat
  OBVIOUS
<1>6. vpu_save(bank) = Turns(32, e) \o Turns(8, g)
  <2>1. (\A k \in 1 .. 32 : k - 1 \in 0 .. 31) /\ (\A k \in 1 .. 8 : k - 1 \in 0 .. 7)
    OBVIOUS
  <2>2. /\ \A r \in 0 .. 31 : e[r] = Store(<<bank, 64 * r>>, r)
        /\ \A k \in 0 .. 7 : g[k] = Store(<<bank, KNC_VPU_K_OFFSET + 2 * k>>, KReg(k))
    BY <1>1, <1>2, <1>5, Zenon DEF PlaceOf, RegOf, KPlaceOf, KRegOf
  <2>3. [k \in 1 .. 32 |-> <<Store(<<bank, 64 * (k - 1)>>, k - 1)>>] = [k \in 1 .. 32 |-> <<e[k - 1]>>]
    BY <2>1, <2>2, Zenon
  <2>4. [k \in 1 .. 8 |-> <<Store(<<bank, KNC_VPU_K_OFFSET + 2 * (k - 1)>>, KReg(k - 1))>>]
        = [k \in 1 .. 8 |-> <<g[k - 1]>>]
    BY <2>1, <2>2, Zenon
  <2> QED BY <2>3, <2>4, Zenon DEF vpu_save, Loop, Turns
<1>8. /\ \A r \in 0 .. 31 : PlaceOf[r] \in Offsets
      /\ \A k \in 0 .. 7 : KPlaceOf[k] \in Offsets
      /\ Offsets = Cells(32, PlaceOf) \cup Cells(8, KPlaceOf)
  BY PlacesOfRegisters
<1>9. PICK y : y = Stored(m, bank, Cells(32, PlaceOf), v)
  OBVIOUS
<1>10. /\ Turns(32, e) \in Seq(T)
       /\ RunEnds(Cpu(z, m), Turns(32, e), Cpu(z, y))
  <2>1. Saves(32, z, m[bank], RegOf, PlaceOf, v)
    BY <1>5, <1>8, Zenon DEF Saves, AreSaved
  <2> QED BY <1>1, <1>4, <1>5, <1>9, <2>1, StoreTurns, ZenonT(60)
<1>11. IsFun(y) /\ bank \in DOMAIN y /\ IsFun(y[bank]) /\ DOMAIN y[bank] = Offsets
  <2>1. DOMAIN y = DOMAIN m /\ y[bank] = Loaded(m[bank], Cells(32, PlaceOf), v)
    BY <1>9, Zenon DEF Stored
  <2>2. IsFun(y)
    BY <1>9 DEF Stored, IsFun
  <2>3. IsFun(y[bank]) /\ DOMAIN y[bank] = DOMAIN m[bank]
    BY <2>1 DEF Loaded, IsFun
  <2> QED BY <2>1, <2>2, <2>3
<1>12. /\ Turns(8, g) \in Seq(T)
       /\ RunEnds(Cpu(z, y), Turns(8, g), Cpu(z, Stored(y, bank, Cells(8, KPlaceOf), v)))
  <2>1. Saves(8, z, y[bank], KRegOf, KPlaceOf, v)
    BY <1>5, <1>8, <1>11, Zenon DEF Saves, AreSaved
  <2> QED BY <1>2, <1>4, <1>5, <1>11, <2>1, StoreTurns
<1>13. Stored(y, bank, Cells(8, KPlaceOf), v) = Stored(m, bank, Offsets, v)
  <2>1. PICK U, W : U = Cells(32, PlaceOf) /\ W = Cells(8, KPlaceOf)
    OBVIOUS
  <2>2. Stored(Stored(m, bank, U, v), bank, W, v) = Stored(m, bank, U \cup W, v)
    BY StoredTwice
  <2> QED BY <1>8, <1>9, <2>1, <2>2, Zenon
<1>14. PICK p, h : p = Turns(32, e) /\ h = Turns(8, g)
  OBVIOUS
<1>15. p \in Seq(T) /\ h \in Seq(T)
  BY <1>10, <1>12, <1>14, Zenon
<1>16. PICK s : s = Cpu(z, m)
  OBVIOUS
<1>17. RunFrom(s, p \o h) = RunFrom(RunFrom(s, p), h)
  BY <1>15, RunJoin
<1>18. RunFrom(s, p) = Cpu(z, y) /\ RunFrom(Cpu(z, y), h) = Cpu(z, Stored(m, bank, Offsets, v))
  BY <1>10, <1>12, <1>13, <1>14, <1>16, Zenon DEF RunEnds
<1> QED BY <1>6, <1>14, <1>16, <1>17, <1>18, Zenon DEF RunEnds

\* knc_vpu_restore fills every register from its place.
LEMMA RestoreRuns ==
  ASSUME NEW z, IsFun(z), DOMAIN z = 0 .. 39, NEW m, NEW bank, DOMAIN m[bank] = Offsets,
         NEW v, AreGiven(v, m[bank])
  PROVE  RunEnds(Cpu(z, m), vpu_restore(bank), Cpu(Loaded(z, 0 .. 39, v), m))
<1>1. PICK e : e = [k \in 0 .. 32 - 1 |-> Load(RegOf[k], <<bank, PlaceOf[k]>>)]
  OBVIOUS
<1>2. PICK g : g = [k \in 0 .. 8 - 1 |-> Load(KRegOf[k], <<bank, KPlaceOf[k]>>)]
  OBVIOUS
<1>3. PICK T : T = {e[k] : k \in 0 .. 32 - 1} \cup {g[k] : k \in 0 .. 8 - 1}
  OBVIOUS
<1>4. Emits(32, T, e) /\ Emits(8, T, g)
  BY <1>3 DEF Emits
<1>5. 32 - 1 = 31 /\ 8 - 1 = 7 /\ 32 \in Nat /\ 8 \in Nat
  OBVIOUS
<1>6. vpu_restore(bank) = Turns(32, e) \o Turns(8, g)
  <2>1. (\A k \in 1 .. 32 : k - 1 \in 0 .. 31) /\ (\A k \in 1 .. 8 : k - 1 \in 0 .. 7)
    OBVIOUS
  <2>2. /\ \A r \in 0 .. 31 : e[r] = Load(r, <<bank, 64 * r>>)
        /\ \A k \in 0 .. 7 : g[k] = Load(KReg(k), <<bank, KNC_VPU_K_OFFSET + 2 * k>>)
    BY <1>1, <1>2, <1>5, Zenon DEF PlaceOf, RegOf, KPlaceOf, KRegOf
  <2>3. [k \in 1 .. 32 |-> <<Load(k - 1, <<bank, 64 * (k - 1)>>)>>] = [k \in 1 .. 32 |-> <<e[k - 1]>>]
    BY <2>1, <2>2, Zenon
  <2>4. [k \in 1 .. 8 |-> <<Load(KReg(k - 1), <<bank, KNC_VPU_K_OFFSET + 2 * (k - 1)>>)>>]
        = [k \in 1 .. 8 |-> <<g[k - 1]>>]
    BY <2>1, <2>2, Zenon
  <2> QED BY <2>3, <2>4, Zenon DEF vpu_restore, Loop, Turns
<1>8. /\ \A r \in 0 .. 31 : PlaceOf[r] \in Offsets /\ RegOf[r] \in 0 .. 39
      /\ \A k \in 0 .. 7 : KPlaceOf[k] \in Offsets /\ KRegOf[k] \in 0 .. 39
      /\ 0 .. 39 = Cells(32, RegOf) \cup Cells(8, KRegOf)
  BY PlacesOfRegisters
<1>9. PICK y : y = Loaded(z, Cells(32, RegOf), v)
  OBVIOUS
<1>10. /\ Turns(32, e) \in Seq(T)
       /\ RunEnds(Cpu(z, m), Turns(32, e), Cpu(y, m))
  <2>1. Gives(32, z, m[bank], RegOf, PlaceOf, v)
    BY <1>5, <1>8, Zenon DEF Gives, AreGiven
  <2> QED BY <1>1, <1>4, <1>5, <1>9, <2>1, LoadTurns
<1>11. IsFun(y) /\ DOMAIN y = 0 .. 39
  BY <1>9 DEF Loaded, IsFun
<1>12. /\ Turns(8, g) \in Seq(T)
       /\ RunEnds(Cpu(y, m), Turns(8, g), Cpu(Loaded(y, Cells(8, KRegOf), v), m))
  <2>1. Gives(8, y, m[bank], KRegOf, KPlaceOf, v)
    BY <1>5, <1>8, <1>11, Zenon DEF Gives, AreGiven
  <2> QED BY <1>2, <1>4, <1>5, <1>11, <2>1, LoadTurns
<1>13. Loaded(y, Cells(8, KRegOf), v) = Loaded(z, 0 .. 39, v)
  <2>1. PICK U, W : U = Cells(32, RegOf) /\ W = Cells(8, KRegOf)
    OBVIOUS
  <2>2. Loaded(Loaded(z, U, v), W, v) = Loaded(z, U \cup W, v)
    BY DEF Loaded
  <2> QED BY <1>8, <1>9, <2>1, <2>2, Zenon
<1>14. PICK p, h : p = Turns(32, e) /\ h = Turns(8, g)
  OBVIOUS
<1>15. p \in Seq(T) /\ h \in Seq(T)
  BY <1>10, <1>12, <1>14, Zenon
<1>16. PICK s : s = Cpu(z, m)
  OBVIOUS
<1>17. RunFrom(s, p \o h) = RunFrom(RunFrom(s, p), h)
  BY <1>15, RunJoin
<1>18. RunFrom(s, p) = Cpu(y, m) /\ RunFrom(Cpu(y, m), h) = Cpu(Loaded(z, 0 .. 39, v), m)
  BY <1>10, <1>12, <1>13, <1>14, <1>16, Zenon DEF RunEnds
<1> QED BY <1>6, <1>14, <1>16, <1>17, <1>18, Zenon DEF RunEnds


(* The switch of tasks.                                                    *)

\* What the area of a task that is switched out holds.
AreaKept(m, t, n) == m[t] = Area(t, n)

(* The inductive invariant of the switches: the registers are those of the
   running task, every other task's area holds what it had when it was
   switched out, and every area is as large as the registers need. *)
CtxInv ==
  /\ job.kind = "ctx"
  /\ pc.task \in Tasks /\ pc = [stage |-> "run", task |-> pc.task]
  /\ job = [kind |-> "ctx", low |-> job.low, gen |-> job.gen]
  /\ job.gen = [t \in Tasks |-> job.gen[t]] /\ \A t \in Tasks : job.gen[t] \in Nat
  /\ zmm = Bank(pc.task, job.gen[pc.task])
  /\ IsFun(mem) /\ DOMAIN mem = Tasks
  /\ \A t \in Tasks : IsFun(mem[t]) /\ DOMAIN mem[t] = Offsets
  /\ \A t \in Tasks \ {pc.task} : AreaKept(mem, t, job.gen[t])

\* It holds when the first task starts.
LEMMA CtxStarts == CtxInit => CtxInv
<1> SUFFICES ASSUME CtxInit PROVE CtxInv
  OBVIOUS
<1>1. "a" \in Tasks
  BY DEF Tasks
<1>2. PICK low \in BOOLEAN : job = [kind |-> "ctx", low |-> low, gen |-> [t \in Tasks |-> 0]]
  BY DEF CtxInit
<1>2b. PICK g : g = [t \in Tasks |-> 0]
  OBVIOUS
<1>3. job.kind = "ctx" /\ job.low = low /\ job.gen = g /\ \A t \in Tasks : g[t] = 0
  BY <1>2, <1>2b
<1>4. pc = [stage |-> "run", task |-> "a"] /\ pc.task = "a"
  BY DEF CtxInit
<1>5. zmm = Bank("a", 0)
  BY DEF CtxInit, Bank
<1>6. mem = [t \in Tasks |-> Area(t, 0)]
  BY DEF CtxInit, Area, Offsets
<1>7. DOMAIN mem = Tasks /\ \A t \in Tasks : mem[t] = Area(t, 0)
  BY <1>6, Zenon
<1>8. IsFun(mem)
  BY <1>6 DEF IsFun
<1>9. \A t \in Tasks : IsFun(Area(t, 0)) /\ DOMAIN Area(t, 0) = Offsets
  BY Zenon DEF Area, IsFun
<1>10. \A t \in Tasks : AreaKept(mem, t, g[t])
  BY <1>3, <1>7, Zenon DEF AreaKept
<1>11. g[pc.task] = 0 /\ g = [t \in Tasks |-> g[t]] /\ \A t \in Tasks : g[t] \in Nat
  BY <1>1, <1>2, <1>2b, <1>3, <1>4
<1>12. job = [kind |-> "ctx", low |-> job.low, gen |-> job.gen]
  BY <1>2, <1>2b, <1>3
<1>13. \A t \in Tasks : IsFun(mem[t]) /\ DOMAIN mem[t] = Offsets
  BY <1>7, <1>9, Zenon
<1>14. zmm = Bank(pc.task, job.gen[pc.task])
  BY <1>3, <1>4, <1>5, <1>11, Zenon
<1> QED BY <1>1, <1>3, <1>4, <1>7, <1>8, <1>10, <1>11, <1>12, <1>13, <1>14, Zenon DEF CtxInv

\* The running task changes its registers.
LEMMA CtxWorks == CtxInv /\ CtxWork => CtxInv'
<1> SUFFICES ASSUME CtxInv, CtxWork PROVE CtxInv'
  OBVIOUS
<1>1. PICK t, g, n : t = pc.task /\ g = job.gen /\ n = g[t] + 1
  OBVIOUS
<1>2. t \in Tasks /\ pc = [stage |-> "run", task |-> t]
  BY <1>1 DEF CtxInv
<1>3. job = [kind |-> "ctx", low |-> job.low, gen |-> g] /\ g = [u \in Tasks |-> g[u]] /\ \A u \in Tasks : g[u] \in Nat
  BY <1>1, Zenon DEF CtxInv
<1>4. pc' = pc /\ mem' = mem
  BY DEF CtxWork
<1>5. zmm' = Bank(t, n)
  <2>1. zmm' = [r \in 0 .. 39 |-> TaskWord(t, r, n)]
    BY <1>1 DEF CtxWork
  <2> QED BY <2>1, Zenon DEF Bank
<1>6. PICK h : h = [g EXCEPT ![t] = n]
  OBVIOUS
<1>7. job' = [kind |-> "ctx", low |-> job.low, gen |-> h]
  <2>1. job' = [job EXCEPT !.gen[t] = job.gen[t] + 1]
    BY <1>1 DEF CtxWork
  <2>2. job' = [job EXCEPT !.gen[t] = n]
    BY <1>1, <2>1
  <2> QED BY <1>1, <1>3, <1>6, <2>2
<1>8. h[t] = n /\ h = [u \in Tasks |-> h[u]] /\ (\A u \in Tasks : h[u] \in Nat) /\ \A u \in Tasks \ {t} : h[u] = g[u]
  BY <1>1, <1>2, <1>3, <1>6
<1>9. job'.kind = "ctx" /\ job'.low = job.low /\ job'.gen = h
  BY <1>7
<1>10. \A u \in Tasks \ {t} : AreaKept(mem, u, g[u])
  BY <1>1, Zenon DEF CtxInv
<1>11. \A u \in Tasks \ {t} : AreaKept(mem', u, h[u])
  BY <1>4, <1>8, <1>10, Zenon
<1>12. pc'.task = t
  BY <1>1, <1>4, Zenon
<1>13. job' = [kind |-> "ctx", low |-> job'.low, gen |-> job'.gen]
  BY <1>7, <1>9, Zenon
<1>14. pc' = [stage |-> "run", task |-> pc'.task]
  BY <1>2, <1>4, <1>12, Zenon
<1>15. IsFun(mem') /\ DOMAIN mem' = Tasks /\ \A u \in Tasks : IsFun(mem'[u]) /\ DOMAIN mem'[u] = Offsets
  BY <1>4, Zenon DEF CtxInv
<1>16. zmm' = Bank(pc'.task, job'.gen[pc'.task])
  BY <1>5, <1>8, <1>9, <1>12, Zenon
<1> QED BY <1>2, <1>8, <1>9, <1>11, <1>12, <1>13, <1>14, <1>15, <1>16, Zenon DEF CtxInv

\* The area a task's registers are saved to, and the registers its area gives.
LEMMA AreaOfBank ==
  ASSUME NEW t, NEW n
  PROVE  AreSaved(Bank(t, n), Area(t, n)) /\ AreGiven(Bank(t, n), Area(t, n))
<1>1. /\ \A r \in 0 .. 31 : RegOf[r] = r /\ Area(t, n)[PlaceOf[r]] = Bank(t, n)[r]
      /\ \A k \in 0 .. 7 : KRegOf[k] = 32 + k /\ Area(t, n)[KPlaceOf[k]] = Bank(t, n)[32 + k]
  BY PlacesOfRegisters
<1> QED BY <1>1, Zenon DEF AreSaved, AreGiven

\* Another task takes over.
LEMMA CtxSwitches == CtxInv /\ CtxSwitch => CtxInv'
<1> SUFFICES ASSUME CtxInv, CtxSwitch PROVE CtxInv'
  OBVIOUS
<1>1. PICK t, g, n, low : t = pc.task /\ g = job.gen /\ n = g[t] /\ low = job.low
  OBVIOUS
<1>2. PICK u, saved, loaded :
         /\ u \in Tasks \ {t}
         /\ saved = RunFrom([zmm |-> zmm, mem |-> mem], vpu_save(t))
         /\ loaded = RunFrom([zmm |-> Fxrstor(saved.zmm), mem |-> saved.mem], vpu_restore(u))
         /\ zmm' = loaded.zmm /\ mem' = loaded.mem /\ pc' = [pc EXCEPT !.task = u]
  BY <1>1, Zenon DEF CtxSwitch
<1>3. job' = job
  BY DEF CtxSwitch
<1>4. t \in Tasks /\ pc = [stage |-> "run", task |-> t] /\ zmm = Bank(t, n)
  BY <1>1, Zenon DEF CtxInv
<1>5. IsFun(mem) /\ DOMAIN mem = Tasks /\ (\A x \in Tasks : IsFun(mem[x]) /\ DOMAIN mem[x] = Offsets)
      /\ \A x \in Tasks \ {t} : AreaKept(mem, x, g[x])
  BY <1>1, Zenon DEF CtxInv
<1>6. PICK v : v = Area(t, n)
  OBVIOUS
<1>7. PICK m : m = Stored(mem, t, Offsets, v)
  OBVIOUS
<1>8. saved = Cpu(zmm, m)
  <2>1. AreSaved(zmm, v)
    BY <1>4, <1>6, AreaOfBank, Zenon
  <2>2. IsFun(mem[t]) /\ DOMAIN mem[t] = Offsets /\ t \in DOMAIN mem
    BY <1>4, <1>5
  <2>3. RunEnds(Cpu(zmm, mem), vpu_save(t), Cpu(zmm, Stored(mem, t, Offsets, v)))
    BY <1>5, <2>1, <2>2, SaveRuns
  <2> QED BY <1>2, <1>7, <2>3, Zenon DEF RunEnds, Cpu
<1>9. saved.zmm = zmm /\ saved.mem = m
  BY <1>8 DEF Cpu
<1>10. DOMAIN m = Tasks /\ IsFun(m) /\ m[t] = Loaded(mem[t], Offsets, v) /\ \A x \in Tasks \ {t} : m[x] = mem[x]
  BY <1>4, <1>5, <1>7 DEF Stored, IsFun
<1>11. m[t] = Area(t, n)
  <2>1. IsFun(v) /\ DOMAIN v = Offsets
    BY <1>6, Zenon DEF Area, IsFun
  <2>2. DOMAIN mem[t] = Offsets
    BY <1>4, <1>5
  <2>3. Loaded(mem[t], Offsets, v) = v
    BY <2>1, <2>2 DEF Loaded, IsFun
  <2> QED BY <1>6, <1>10, <2>3, Zenon
<1>12. PICK z : z = Fxrstor(zmm)
  OBVIOUS
<1>13. IsFun(z) /\ DOMAIN z = 0 .. 39
  <2>1. DOMAIN zmm = 0 .. 39
    BY <1>4 DEF Bank
  <2> QED BY <1>12, <2>1 DEF Fxrstor, IsFun
<1>14. PICK k, w : k = g[u] /\ w = Bank(u, k)
  OBVIOUS
<1>15. m[u] = Area(u, k)
  BY <1>2, <1>5, <1>10, <1>14, Zenon DEF AreaKept
<1>16. loaded = Cpu(Loaded(z, 0 .. 39, w), m)
  <2>1. AreGiven(w, m[u])
    BY <1>14, <1>15, AreaOfBank, Zenon
  <2>2. DOMAIN m[u] = Offsets
    BY <1>15, Zenon DEF Area
  <2>3. RunEnds(Cpu(z, m), vpu_restore(u), Cpu(Loaded(z, 0 .. 39, w), m))
    BY <1>13, <2>1, <2>2, RestoreRuns
  <2> QED BY <1>2, <1>9, <1>12, <2>3, Zenon DEF RunEnds, Cpu
<1>17. zmm' = w /\ mem' = m
  <2>1. Loaded(z, 0 .. 39, w) = w
    BY <1>13, <1>14 DEF Loaded, Bank
  <2>2. PICK y : y = Loaded(z, 0 .. 39, w)
    OBVIOUS
  <2>3. loaded = Cpu(y, m)
    BY <1>16, <2>2, Zenon
  <2>4. loaded.zmm = y /\ loaded.mem = m
    BY <2>3 DEF Cpu
  <2> QED BY <1>2, <2>1, <2>2, <2>4, Zenon
<1>18. pc' = [stage |-> "run", task |-> u] /\ pc'.task = u /\ u \in Tasks
  BY <1>2, <1>4
<1>19. \A x \in Tasks : IsFun(m[x]) /\ DOMAIN m[x] = Offsets
  <2>1. IsFun(m[t]) /\ DOMAIN m[t] = Offsets
    BY <1>11, Zenon DEF Area, IsFun
  <2>2. \A x \in Tasks \ {t} : IsFun(m[x]) /\ DOMAIN m[x] = Offsets
    BY <1>5, <1>10, Zenon
  <2> QED BY <2>1, <2>2, Zenon
<1>20. \A x \in Tasks \ {u} : AreaKept(m, x, g[x])
  <2>1. AreaKept(m, t, g[t])
    BY <1>1, <1>11, Zenon DEF AreaKept
  <2>2. \A x \in Tasks \ {t} : AreaKept(m, x, g[x])
    BY <1>5, <1>10, Zenon DEF AreaKept
  <2> QED BY <2>1, <2>2, Zenon
<1>21. job'.gen = g /\ job'.low = job.low /\ job'.kind = "ctx"
  BY <1>1, <1>3, Zenon DEF CtxInv
<1>22. /\ job' = [kind |-> "ctx", low |-> job'.low, gen |-> job'.gen]
       /\ job'.gen = [x \in Tasks |-> job'.gen[x]] /\ \A x \in Tasks : job'.gen[x] \in Nat
  BY <1>3, Zenon DEF CtxInv
<1>23. zmm' = Bank(pc'.task, job'.gen[pc'.task])
  BY <1>14, <1>17, <1>18, <1>21, Zenon
<1>24. IsFun(mem') /\ DOMAIN mem' = Tasks /\ \A x \in Tasks : IsFun(mem'[x]) /\ DOMAIN mem'[x] = Offsets
  BY <1>10, <1>17, <1>19, Zenon
<1>25. \A x \in Tasks \ {pc'.task} : AreaKept(mem', x, job'.gen[x])
  BY <1>17, <1>18, <1>20, <1>21, Zenon
<1>26. pc' = [stage |-> "run", task |-> pc'.task] /\ pc'.task \in Tasks
  BY <1>18, Zenon
<1> QED BY <1>21, <1>22, <1>23, <1>24, <1>25, <1>26, Zenon DEF CtxInv

\* Every place lies inside the state.
LEMMA PlacesFit ==
  \A o \in Offsets : o + (IF o < KNC_VPU_K_OFFSET THEN 64 ELSE 2) <= KNC_VPU_STATE_SIZE
<1>1. ASSUME NEW r \in 0 .. 31
      PROVE  64 * r + (IF 64 * r < KNC_VPU_K_OFFSET THEN 64 ELSE 2) <= KNC_VPU_STATE_SIZE
  BY DEF KNC_VPU_K_OFFSET, KNC_VPU_STATE_SIZE
<1>2. ASSUME NEW k \in 0 .. 7
      PROVE  (KNC_VPU_K_OFFSET + 2 * k) + (IF KNC_VPU_K_OFFSET + 2 * k < KNC_VPU_K_OFFSET THEN 64 ELSE 2) <= KNC_VPU_STATE_SIZE
  BY DEF KNC_VPU_K_OFFSET, KNC_VPU_STATE_SIZE
<1> QED BY <1>1, <1>2 DEF Offsets

(* TaskKeepsRegisters always holds: however often the tasks are switched and
   change their registers, knc_vpu_save and knc_vpu_restore give each task back
   all 32 vector and 8 mask registers, the low lanes that FXRSTOR clears
   included, and neither goes beyond the KNC_VPU_STATE_SIZE bytes. *)
THEOREM RegistersSurviveSwitches == CtxSpec => []TaskKeepsRegisters
<1>1. CtxInit => CtxInv
  BY CtxStarts
<1>2. CtxInv /\ [CtxNext]_laneVars => CtxInv'
  <2> SUFFICES ASSUME CtxInv, [CtxNext]_laneVars PROVE CtxInv'
    OBVIOUS
  <2>1. CASE CtxWork
    BY <2>1, CtxWorks
  <2>2. CASE CtxSwitch
    BY <2>2, CtxSwitches
  <2>3. CASE UNCHANGED laneVars
    BY <2>3, Zenon DEF laneVars, CtxInv
  <2> QED BY <2>1, <2>2, <2>3 DEF CtxNext
<1>3. CtxInv => TaskKeepsRegisters
  <2> SUFFICES ASSUME CtxInv PROVE TaskKeepsRegisters
    OBVIOUS
  <2>1. zmm = Bank(pc.task, job.gen[pc.task]) /\ \A t \in Tasks : DOMAIN mem[t] = Offsets
    BY Zenon DEF CtxInv
  <2>2. \A r \in 0 .. 39 : zmm[r] = TaskWord(pc.task, r, job.gen[pc.task])
    BY <2>1, Zenon DEF Bank
  <2> QED BY <2>1, <2>2, PlacesFit, Zenon DEF TaskKeepsRegisters
<1> QED BY <1>1, <1>2, <1>3, PTL DEF CtxSpec

-----------------------------------------------------------------------------

(* Programs with phases.                                                   *)

IsProgram(p) == \E T : p \in Seq(T)
\* p takes the state s to t.
Does(s, p, t) == IsProgram(p) /\ RunFrom(s, p) = t

\* An empty program, and one of a single instruction.
LEMMA RunShort ==
  ASSUME NEW s, NEW i
  PROVE  RunFrom(s, << >>) = s /\ RunFrom(s, <<i>>) = Exec(s, i)
<1>1. Len(<< >>) = 0 /\ Len(<<i>>) = 1 /\ <<i>>[1] = i /\ 0 \in Nat /\ 1 \in Nat
  OBVIOUS
<1>2. PICK p, q : p = << >> /\ q = <<i>>
  OBVIOUS
<1>3. Len(p) = 0 /\ Len(q) = 1 /\ q[1] = i /\ Len(p) \in Nat /\ Len(q) \in Nat
  BY <1>1, <1>2
<1>4. Ran(RunUpTo(s, p), s, p, Len(p)) /\ RunFrom(s, p) = RunUpTo(s, p)[Len(p)]
  BY <1>3, RunSteps
<1>5. Ran(RunUpTo(s, q), s, q, Len(q)) /\ RunFrom(s, q) = RunUpTo(s, q)[Len(q)]
  BY <1>3, RunSteps
<1>6. PICK f : f = RunUpTo(s, q)
  OBVIOUS
<1>7. 1 \in 1 .. 1 /\ 1 - 1 = 0
  OBVIOUS
<1>8. RunFrom(s, q) = f[1] /\ f[0] = s /\ f[1] = Exec(f[1 - 1], q[1])
  BY <1>3, <1>5, <1>6, <1>7, Zenon DEF Ran
<1>9. RunFrom(s, q) = Exec(s, i)
  BY <1>3, <1>7, <1>8, Zenon
<1>10. RunFrom(s, p) = s
  BY <1>3, <1>4, Zenon DEF Ran
<1> QED BY <1>2, <1>9, <1>10, Zenon

\* Two programs, one behind the other.
LEMMA DoesBoth ==
  ASSUME NEW s, NEW p, NEW t, NEW q, NEW x, Does(s, p, t), Does(t, q, x)
  PROVE  Does(s, p \o q, x)
<1>1. PICK A : p \in Seq(A)
  BY DEF Does, IsProgram
<1>2. PICK B : q \in Seq(B)
  BY DEF Does, IsProgram
<1>3. PICK T : T = A \cup B
  OBVIOUS
<1>4. p \in Seq(T) /\ q \in Seq(T)
  <2>1. p \in Seq(T)
    BY <1>1, <1>3
  <2>2. q \in Seq(T)
    BY <1>2, <1>3
  <2> QED BY <2>1, <2>2
<1>5. p \o q \in Seq(T)
  BY <1>4
<1>6. RunFrom(s, p \o q) = RunFrom(RunFrom(s, p), q)
  BY <1>4, RunJoin
<1>7. RunFrom(s, p \o q) = x
  BY <1>6, Zenon DEF Does
<1> QED BY <1>5, <1>7, Zenon DEF Does, IsProgram

\* An instruction that writes a register.
LEMMA ExecReg ==
  ASSUME NEW z, NEW m, NEW i, i.op # "store"
  PROVE  Exec(Cpu(z, m), i) = Cpu([z EXCEPT ![i.d] = Result(z, m, i)], m)
<1>1. PICK s, x : s = Cpu(z, m) /\ x = Result(z, m, i)
  OBVIOUS
<1>2. Exec(s, i) = [s EXCEPT !.zmm[i.d] = Result(s.zmm, s.mem, i)]
  BY DEF Exec
<1>3. s = [zmm |-> z, mem |-> m] /\ s.zmm = z /\ s.mem = m
  BY <1>1 DEF Cpu
<1>4. Exec(s, i) = [s EXCEPT !.zmm[i.d] = x]
  BY <1>1, <1>2, <1>3, Zenon
<1>5. Exec(s, i) = [zmm |-> [z EXCEPT ![i.d] = x], mem |-> m]
  BY <1>3, <1>4
<1> QED BY <1>1, <1>5 DEF Cpu

\* The turns K of a phase are done: turn k has left v[k] in register d[k], and
\* the other registers are those of z.
Phase(y, z, K, d, v) ==
  /\ IsFun(y) /\ DOMAIN y = DOMAIN z
  /\ \A k \in K : y[d[k]] = v[k]
  /\ \A r \in DOMAIN z : (\A k \in K : r # d[k]) => y[r] = z[r]
\* Turn k of the phase, if it is one of C, computes v[k] after the turns before
\* it.
Computes(n, z, m, C, i, d, v) ==
  \A k \in C : /\ i[k].op # "store" /\ i[k].d = d[k] /\ d[k] \in DOMAIN z
               /\ \A y : Phase(y, z, C \cap (0 .. k - 1), d, v) => Result(y, m, i[k]) = v[k]
Apart(C, d) == \A j, k \in C : j # k => d[j] # d[k]
PhaseOf(n, C, i) == Concat([k \in 1 .. n |-> When(k - 1 \in C, i[k - 1])])
\* The phase as a whole.
Phased(z, m, p, C, d, v) == \E y : Phase(y, z, C, d, v) /\ Does(Cpu(z, m), p, Cpu(y, m))

\* What a phase of a kernel does.
LEMMA PhaseRuns ==
  ASSUME NEW z, IsFun(z), NEW m, NEW n \in Nat, NEW C \in SUBSET (0 .. n - 1), NEW i, NEW d, NEW v,
         Apart(C, d), Computes(n, z, m, C, i, d, v)
  PROVE  Phased(z, m, PhaseOf(n, C, i), C, d, v)
<1>1. PICK l : l = [k \in 1 .. n |-> When(k - 1 \in C, i[k - 1])]
  OBVIOUS
<1>2. Len(l) = n
  BY <1>1
<1>3. \A k \in 1 .. n : l[k] = When(k - 1 \in C, i[k - 1])
  BY <1>1, Zenon
<1>4. PICK f : f = Joined(l)
  OBVIOUS
<1>5. f = [k \in 0 .. n |-> IF k = 0 THEN << >> ELSE f[k - 1] \o l[k]]
  BY <1>2, <1>4, JoinedDefined
<1>6. 0 \in 0 .. n /\ \A k \in 1 .. n : k \in 0 .. n /\ k # 0
  OBVIOUS
<1>7. f[0] = << >> /\ \A k \in 1 .. n : f[k] = f[k - 1] \o l[k]
  BY <1>5, <1>6, Zenon
<1>8. PICK s : s = Cpu(z, m)
  OBVIOUS
<1> DEFINE Part(k) == C \cap (0 .. k - 1)
           S == {k \in 0 .. n : \E y : Phase(y, z, Part(k), d, v) /\ Does(s, f[k], Cpu(y, m))}
<1>9. 0 \in S
  <2>1. Part(0) = {}
    OBVIOUS
  <2>2. Phase(z, z, {}, d, v)
    BY Zenon DEF Phase
  <2>3. << >> \in Seq({})
    OBVIOUS
  <2>4. IsProgram(<< >>)
    BY <2>3, Zenon DEF IsProgram
  <2>5. RunFrom(s, << >>) = s
    BY RunShort
  <2>6. Does(s, f[0], Cpu(z, m))
    BY <1>7, <1>8, <2>4, <2>5, Zenon DEF Does
  <2> QED BY <1>6, <2>1, <2>2, <2>6, Zenon
<1>10. ASSUME NEW k \in 0 .. n - 1, k \in S PROVE k + 1 \in S
  <2>1. PICK y : Phase(y, z, Part(k), d, v) /\ Does(s, f[k], Cpu(y, m))
    BY <1>10, Zenon
  <2>2. PICK j \in 1 .. n : j = k + 1 /\ j - 1 = k /\ j \in 0 .. n
    OBVIOUS
  <2>3. f[j] = f[k] \o l[j] /\ l[j] = When(k \in C, i[k])
    BY <1>3, <1>7, <2>2, Zenon
  <2>4. CASE k \in C
    <3>1. l[j] = <<i[k]>>
      BY <2>3, <2>4, Zenon DEF When
    <3>2. i[k].op # "store" /\ i[k].d = d[k] /\ d[k] \in DOMAIN z /\ Result(y, m, i[k]) = v[k]
      BY <2>1, <2>4, Zenon DEF Computes
    <3>3. PICK x : x = [y EXCEPT ![d[k]] = v[k]]
      OBVIOUS
    <3>4. PICK t : t = Cpu(y, m)
      OBVIOUS
    <3>5. Exec(t, i[k]) = Cpu(x, m)
      <4>1. PICK h : h = i[k]
        OBVIOUS
      <4>2. h.op # "store"
        BY <3>2, <4>1
      <4>3. Exec(Cpu(y, m), h) = Cpu([y EXCEPT ![h.d] = Result(y, m, h)], m)
        BY <4>2, ExecReg
      <4> QED BY <3>2, <3>3, <3>4, <4>1, <4>3, Zenon
    <3>6. Does(t, l[j], Cpu(x, m))
      <4>1. <<i[k]>> \in Seq({i[k]})
        OBVIOUS
      <4>2. RunFrom(t, <<i[k]>>) = Exec(t, i[k])
        BY RunShort
      <4> QED BY <3>1, <3>5, <4>1, <4>2, Zenon DEF Does, IsProgram
    <3>7. Does(s, f[j], Cpu(x, m))
      <4>1. Does(s, f[k], t)
        BY <2>1, <3>4, Zenon
      <4>2. Does(s, f[k] \o l[j], Cpu(x, m))
        BY <3>6, <4>1, DoesBoth
      <4> QED BY <2>3, <4>2, Zenon
    <3>8. Part(j) = Part(k) \cup {k}
      BY <2>2, <2>4
    <3>9. Phase(x, z, Part(k) \cup {k}, d, v)
      <4>0. PICK K : K = Part(k)
        OBVIOUS
      <4>1. \A h \in K : h \in C /\ h # k
        BY <4>0
      <4>2. \A h \in K : d[h] # d[k]
        BY <2>4, <4>1, Zenon DEF Apart
      <4>3. /\ IsFun(y) /\ DOMAIN y = DOMAIN z /\ (\A h \in K : y[d[h]] = v[h])
            /\ \A r \in DOMAIN z : (\A h \in K : r # d[h]) => y[r] = z[r]
        BY <2>1, <4>0 DEF Phase
      <4>4. PICK a, b : a = d[k] /\ b = v[k]
        OBVIOUS
      <4>5. IsFun(x) /\ DOMAIN x = DOMAIN z /\ x[a] = b /\ \A r \in DOMAIN z : r # a => x[r] = y[r]
        <5>1. x = [y EXCEPT ![a] = b] /\ a \in DOMAIN y
          BY <3>2, <3>3, <4>3, <4>4, Zenon
        <5> QED BY <4>3, <5>1 DEF IsFun
      <4>6. \A h \in K : d[h] \in DOMAIN z
        BY <4>1, Zenon DEF Computes
      <4>7. \A h \in K \cup {k} : x[d[h]] = v[h]
        BY <4>2, <4>3, <4>4, <4>5, <4>6, Zenon
      <4>8. \A r \in DOMAIN z : (\A h \in K \cup {k} : r # d[h]) => x[r] = z[r]
        BY <4>3, <4>4, <4>5, Zenon
      <4>9. Phase(x, z, K \cup {k}, d, v)
        BY <4>5, <4>7, <4>8, Zenon DEF Phase
      <4> QED BY <4>0, <4>9, Zenon
    <3> QED BY <2>2, <3>7, <3>8, <3>9, Zenon
  <2>5. CASE k \notin C
    <3>1. l[j] = << >>
      BY <2>3, <2>5, Zenon DEF When
    <3>2. PICK t : t = Cpu(y, m)
      OBVIOUS
    <3>3. Does(t, l[j], t)
      <4>1. << >> \in Seq({})
        OBVIOUS
      <4>2. RunFrom(t, << >>) = t
        BY RunShort
      <4> QED BY <3>1, <4>1, <4>2, Zenon DEF Does, IsProgram
    <3>4. Does(s, f[j], t)
      <4>1. Does(s, f[k], t)
        BY <2>1, <3>2, Zenon
      <4>2. Does(s, f[k] \o l[j], t)
        BY <3>3, <4>1, DoesBoth
      <4> QED BY <2>3, <4>2, Zenon
    <3>5. Part(j) = Part(k)
      BY <2>2, <2>5
    <3> QED BY <2>1, <2>2, <3>2, <3>4, <3>5, Zenon
  <2> QED BY <2>4, <2>5
<1> HIDE DEF S
<1>11. \A k \in 0 .. n : k \in S
  BY <1>9, <1>10, CountUp
<1>12. n \in S
  BY <1>11
<1>13. Part(n) = C
  OBVIOUS
<1>14. PhaseOf(n, C, i) = f[n]
  BY <1>1, <1>2, <1>4 DEF PhaseOf, Concat
<1>15. PICK y : Phase(y, z, C, d, v) /\ Does(s, f[n], Cpu(y, m))
  BY <1>12, <1>13, Zenon DEF S
<1> QED BY <1>8, <1>14, <1>15, Zenon DEF Phased

(* Extraction of the values of a group.                                    *)

IsWord(x) == x = [b \in BitsOfWord |-> x[b]]
\* What scalar_unpack reads from the words u at a position.
Scalar(u, bits, pos) ==
  LET w == place(bits, pos).w
      s == place(bits, pos).s
  IN  And(IF s + bits > 32 THEN Or(Shr(u[w], s), Shl(u[w + 1], 32 - s)) ELSE Shr(u[w], s), mask_constants(bits))

\* The registers of a group's words hold the words u.
HoldsWords(z, u, bits, start) ==
  \A j \in 0 .. n_words(bits, start) - 1 :
    z[j] = Plain(u[first_word(bits, start) + j]) /\ IsWord(u[first_word(bits, start) + j])

\* A word in a register is read back as it is.
LEMMA PlainWord ==
  ASSUME NEW x
  PROVE  AsWord(Plain(x)) = x
BY DEF AsWord, Plain

\* The instruction i leaves x in register r.
Gets(i, r, z, m, x) == i.op # "store" /\ i.d = r /\ Result(z, m, i) = x

\* A shift to the right.
LEMMA SrlGets ==
  ASSUME NEW z, NEW m, NEW r, NEW a, NEW n
  PROVE  Gets(Vpsrld(r, a, n), r, z, m, Plain(Shr(AsWord(z[a]), n)))
<1>1. PICK i : i = Vpsrld(r, a, n)
  OBVIOUS
<1>2. i.op = "srl" /\ i.d = r /\ i.a = a /\ i.n = n
  BY <1>1 DEF Vpsrld
<1>3. Result(z, m, i) = Plain(Shr(AsWord(z[i.a]), i.n))
  BY <1>2 DEF Result
<1>4. i.op # "store"
  BY <1>2
<1> QED BY <1>1, <1>2, <1>3, <1>4, Zenon DEF Gets

\* A shift to the left.
LEMMA SllGets ==
  ASSUME NEW z, NEW m, NEW r, NEW a, NEW n
  PROVE  Gets(Vpslld(r, a, n), r, z, m, Plain(Shl(AsWord(z[a]), n)))
<1>1. PICK i : i = Vpslld(r, a, n)
  OBVIOUS
<1>2. i.op = "sll" /\ i.d = r /\ i.a = a /\ i.n = n
  BY <1>1 DEF Vpslld
<1>3. Result(z, m, i) = Plain(Shl(AsWord(z[i.a]), i.n))
  BY <1>2 DEF Result
<1>4. i.op # "store"
  BY <1>2
<1> QED BY <1>1, <1>2, <1>3, <1>4, Zenon DEF Gets

\* A bitwise or.
LEMMA OrGets ==
  ASSUME NEW z, NEW m, NEW r, NEW a, NEW b
  PROVE  Gets(Vpord(r, a, b), r, z, m, Plain(Or(AsWord(z[a]), AsWord(z[b]))))
<1>1. PICK i : i = Vpord(r, a, b)
  OBVIOUS
<1>2. i.op = "or" /\ i.d = r /\ i.a = a /\ i.b = b
  BY <1>1 DEF Vpord
<1>3. Result(z, m, i) = Plain(Or(AsWord(z[i.a]), AsWord(z[i.b])))
  BY <1>2 DEF Result
<1>4. i.op # "store"
  BY <1>2
<1> QED BY <1>1, <1>2, <1>3, <1>4, Zenon DEF Gets

\* A bitwise and.
LEMMA AndGets ==
  ASSUME NEW z, NEW m, NEW r, NEW a, NEW b
  PROVE  Gets(Vpandd(r, a, b), r, z, m, Plain(And(AsWord(z[a]), AsWord(z[b]))))
<1>1. PICK i : i = Vpandd(r, a, b)
  OBVIOUS
<1>2. i.op = "and" /\ i.d = r /\ i.a = a /\ i.b = b
  BY <1>1 DEF Vpandd
<1>3. Result(z, m, i) = Plain(And(AsWord(z[i.a]), AsWord(z[i.b])))
  BY <1>2 DEF Result
<1>4. i.op # "store"
  BY <1>2
<1> QED BY <1>1, <1>2, <1>3, <1>4, Zenon DEF Gets

\* A sum.
LEMMA AddGets ==
  ASSUME NEW z, NEW m, NEW r, NEW a, NEW b
  PROVE  Gets(Vpaddd(r, a, b), r, z, m, [plus |-> z[a].plus \o z[b].plus, minus |-> z[a].minus \o z[b].minus])
<1>1. PICK i : i = Vpaddd(r, a, b)
  OBVIOUS
<1>2. i.op = "add" /\ i.d = r /\ i.a = a /\ i.b = b
  BY <1>1 DEF Vpaddd
<1>3. Result(z, m, i) = [plus |-> z[i.a].plus \o z[i.b].plus, minus |-> z[i.a].minus \o z[i.b].minus]
  BY <1>2 DEF Result
<1>4. i.op # "store"
  BY <1>2
<1> QED BY <1>1, <1>2, <1>3, <1>4, Zenon DEF Gets

\* Where the values of a group lie among its words.
LEMMA GroupPlaces ==
  ASSUME NEW bits \in 1 .. 32, NEW start \in Nat
  PROVE  /\ first_word(bits, start) \in Nat /\ n_words(bits, start) \in Nat
         /\ \A p \in 0 .. 7 :
              /\ place(bits, start + p).w \in Nat /\ place(bits, start + p).s \in 0 .. 31
              /\ place(bits, start + p).w - first_word(bits, start) \in 0 .. n_words(bits, start) - 1
              /\ Straddles(bits, start + p)
                   => (place(bits, start + p).w + 1) - first_word(bits, start) \in 0 .. n_words(bits, start) - 1
              /\ Straddles(bits, start + p) <=> place(bits, start + p).s + bits > 32
              /\ bits = 32 => place(bits, start + p).s = 0 /\ place(bits, start + p).w - first_word(bits, start) = p
<1>1. PICK A \in Nat, f \in Nat, C \in Nat, l \in Nat :
         /\ A = bits * start /\ f = A \div 32 /\ C = bits * (start + GROUP - 1) /\ l = (C + bits - 1) \div 32
  <2>1. bits * start \in Nat /\ bits * (start + GROUP - 1) \in Nat
    BY DEF GROUP
  <2>2. \A a \in Nat : a \div 32 \in Nat
    OBVIOUS
  <2>3. \A a \in Nat : (a + bits - 1) \in Nat
    OBVIOUS
  <2> QED BY <2>1, <2>2, <2>3
<1>2. first_word(bits, start) = f /\ n_words(bits, start) = l - f + 1
  <2>1. place(bits, start).w = (bits * start) \div 32
    BY DEF place
  <2> QED BY <1>1, <2>1 DEF first_word, n_words
<1>3. A <= C /\ 32 * f <= A /\ A < 32 * f + 32 /\ 32 * l <= C + bits - 1 /\ C + bits - 1 < 32 * l + 32
  <2>1. C = A + bits * 7
    BY <1>1 DEF GROUP
  <2> QED BY <1>1, <2>1
<1>4. f <= l
  BY <1>3
<1>5. ASSUME NEW p \in 0 .. 7
      PROVE  /\ place(bits, start + p).w \in Nat /\ place(bits, start + p).s \in 0 .. 31
             /\ place(bits, start + p).w - f \in 0 .. l - f
             /\ Straddles(bits, start + p) => (place(bits, start + p).w + 1) - f \in 0 .. l - f
             /\ Straddles(bits, start + p) <=> place(bits, start + p).s + bits > 32
             /\ bits = 32 => place(bits, start + p).s = 0 /\ place(bits, start + p).w - f = p
  <2>1. PICK B \in Nat : B = bits * (start + p)
    OBVIOUS
  <2>2. A <= B /\ B <= C
    <3>1. B = A + bits * p /\ C = A + bits * 7
      BY <1>1, <2>1 DEF GROUP
    <3>2. bits * p >= 0 /\ bits * p <= bits * 7
      OBVIOUS
    <3> QED BY <3>1, <3>2
  <2>3. PICK w \in Nat, s \in 0 .. 31 : w = B \div 32 /\ s = B % 32 /\ B = 32 * w + s
    OBVIOUS
  <2>4. place(bits, start + p).w = w /\ place(bits, start + p).s = s
    BY <2>1, <2>3 DEF place
  <2>5. Straddles(bits, start + p) <=> s + bits > 32
    BY <2>4 DEF Straddles
  <2>6. w - f \in 0 .. l - f
    BY <1>3, <2>2, <2>3
  <2>7. s + bits > 32 => (w + 1) - f \in 0 .. l - f
    BY <1>3, <2>2, <2>3
  <2>8. bits = 32 => s = 0 /\ w - f = p
    BY <1>1, <2>1, <2>3
  <2> QED BY <2>4, <2>5, <2>6, <2>7, <2>8
<1>6. f \in Nat /\ l - f + 1 \in Nat /\ (l - f + 1) - 1 = l - f
  BY <1>4
<1> QED BY <1>2, <1>5, <1>6

\* What the four phases of an extraction execute, turn by turn.
LowTurn(bits, start) ==
  [p \in 0 .. 7 |-> Vpsrld(temp(p, 0), place(bits, start + p).w - first_word(bits, start), place(bits, start + p).s)]
HighTurn(bits, start) ==
  [p \in 0 .. 7 |-> Vpslld(temp(p, 1), (place(bits, start + p).w + 1) - first_word(bits, start), 32 - place(bits, start + p).s)]
OrTurn == [p \in 0 .. 7 |-> Vpord(temp(p, 0), temp(p, 0), temp(p, 1))]
AndTurn(bits, start) ==
  [p \in 0 .. 7 |-> Vpandd(temp(p, 0),
                           IF place(bits, start + p).s = 0
                             THEN place(bits, start + p).w - first_word(bits, start) ELSE temp(p, 0), maskreg)]
LowTurns(bits, start) == {p \in 0 .. 7 : place(bits, start + p).s # 0}
HighTurns(bits, start) == {p \in 0 .. 7 : Straddles(bits, start + p)}
AndTurns(bits, start) == {p \in 0 .. 7 : place(bits, start + p).s + bits # 32}

\* The program of an extraction is these phases.
LEMMA ExtractPhases ==
  ASSUME NEW bits, NEW start
  PROVE  ExtractGroup(bits, start) =
           PhaseOf(8, LowTurns(bits, start), LowTurn(bits, start))
           \o PhaseOf(8, HighTurns(bits, start), HighTurn(bits, start))
           \o PhaseOf(8, HighTurns(bits, start), OrTurn)
           \o PhaseOf(8, AndTurns(bits, start), AndTurn(bits, start))
<1>1. \A k \in 1 .. 8 : k - 1 \in 0 .. 7
  OBVIOUS
<1>2. /\ \A p \in 0 .. 7 : p \in LowTurns(bits, start) <=> place(bits, start + p).s # 0
      /\ \A p \in 0 .. 7 : p \in HighTurns(bits, start) <=> Straddles(bits, start + p)
      /\ \A p \in 0 .. 7 : p \in AndTurns(bits, start) <=> place(bits, start + p).s + bits # 32
  BY Zenon DEF LowTurns, HighTurns, AndTurns
<1>3. \A p \in 0 .. 7 :
        /\ LowTurn(bits, start)[p] = Vpsrld(temp(p, 0), place(bits, start + p).w - first_word(bits, start), place(bits, start + p).s)
        /\ HighTurn(bits, start)[p] = Vpslld(temp(p, 1), (place(bits, start + p).w + 1) - first_word(bits, start), 32 - place(bits, start + p).s)
        /\ OrTurn[p] = Vpord(temp(p, 0), temp(p, 0), temp(p, 1))
        /\ AndTurn(bits, start)[p] = Vpandd(temp(p, 0),
                           IF place(bits, start + p).s = 0
                             THEN place(bits, start + p).w - first_word(bits, start) ELSE temp(p, 0), maskreg)
  BY Zenon DEF LowTurn, HighTurn, OrTurn, AndTurn
<1>5. [k \in 1 .. 8 |-> When(place(bits, start + (k - 1)).s # 0,
            Vpsrld(temp(k - 1, 0), place(bits, start + (k - 1)).w - first_word(bits, start), place(bits, start + (k - 1)).s))]
      = [k \in 1 .. 8 |-> When(k - 1 \in LowTurns(bits, start), LowTurn(bits, start)[k - 1])]
  <2>1. \A p \in 0 .. 7 : When(place(bits, start + p).s # 0,
            Vpsrld(temp(p, 0), place(bits, start + p).w - first_word(bits, start), place(bits, start + p).s))
          = When(p \in LowTurns(bits, start), LowTurn(bits, start)[p])
    BY <1>2, <1>3, Zenon DEF When
  <2> QED BY <1>1, <2>1, Zenon
<1>6. [k \in 1 .. 8 |-> When(Straddles(bits, start + (k - 1)),
            Vpslld(temp(k - 1, 1), (place(bits, start + (k - 1)).w + 1) - first_word(bits, start), 32 - place(bits, start + (k - 1)).s))]
      = [k \in 1 .. 8 |-> When(k - 1 \in HighTurns(bits, start), HighTurn(bits, start)[k - 1])]
  <2>1. \A p \in 0 .. 7 : When(Straddles(bits, start + p),
            Vpslld(temp(p, 1), (place(bits, start + p).w + 1) - first_word(bits, start), 32 - place(bits, start + p).s))
          = When(p \in HighTurns(bits, start), HighTurn(bits, start)[p])
    BY <1>2, <1>3, Zenon DEF When
  <2> QED BY <1>1, <2>1, Zenon
<1>7. [k \in 1 .. 8 |-> When(Straddles(bits, start + (k - 1)), Vpord(temp(k - 1, 0), temp(k - 1, 0), temp(k - 1, 1)))]
      = [k \in 1 .. 8 |-> When(k - 1 \in HighTurns(bits, start), OrTurn[k - 1])]
  <2>1. \A p \in 0 .. 7 : When(Straddles(bits, start + p), Vpord(temp(p, 0), temp(p, 0), temp(p, 1)))
          = When(p \in HighTurns(bits, start), OrTurn[p])
    BY <1>2, <1>3, Zenon DEF When
  <2> QED BY <1>1, <2>1, Zenon
<1>8. [k \in 1 .. 8 |-> When(place(bits, start + (k - 1)).s + bits # 32,
            Vpandd(temp(k - 1, 0), IF place(bits, start + (k - 1)).s = 0
                             THEN place(bits, start + (k - 1)).w - first_word(bits, start) ELSE temp(k - 1, 0), maskreg))]
      = [k \in 1 .. 8 |-> When(k - 1 \in AndTurns(bits, start), AndTurn(bits, start)[k - 1])]
  <2>1. \A p \in 0 .. 7 : When(place(bits, start + p).s + bits # 32,
            Vpandd(temp(p, 0), IF place(bits, start + p).s = 0
                             THEN place(bits, start + p).w - first_word(bits, start) ELSE temp(p, 0), maskreg))
          = When(p \in AndTurns(bits, start), AndTurn(bits, start)[p])
    BY <1>2, <1>3, Zenon DEF When
  <2> QED BY <1>1, <2>1, Zenon
<1> QED BY <1>5, <1>6, <1>7, <1>8, Zenon DEF ExtractGroup, Loop, PhaseOf, GROUP

\* The temporaries are registers of their own.
LEMMA Temps ==
  /\ \A p \in 0 .. 7 : temp(p, 0) \in 10 .. 24 /\ temp(p, 1) \in 11 .. 25
  /\ \A p, q \in 0 .. 7 : /\ p # q => temp(p, 0) # temp(q, 0) /\ temp(p, 1) # temp(q, 1)
                          /\ temp(p, 0) # temp(q, 1)
  /\ maskreg = 30 /\ base = 26 /\ acc = 27 /\ WORD_REGS = 10 /\ GROUP = 8
BY DEF temp, WORD_REGS, maskreg, base, acc, GROUP

\* The scalar value is unmasked where the mask would change nothing.
LEMMA MaskIdle ==
  ASSUME NEW x, IsWord(x)
  PROVE  /\ Shr(x, 0) = x
         /\ And(x, mask_constants(32)) = x
         /\ \A bits \in 1 .. 32 : And(Shr(x, 32 - bits), mask_constants(bits)) = Shr(x, 32 - bits)
<1>1. \A y : BitAnd(y, 1) = y /\ BitAnd(0, 0) = 0
  BY DEF BitAnd
<1>2. BitsOfWord = 0 .. 31
  BY DEF BitsOfWord
<1>3. Shr(x, 0) = x
  <2>1. \A b \in BitsOfWord : b + 0 = b /\ b + 0 < 32
    BY <1>2
  <2>2. Shr(x, 0) = [b \in BitsOfWord |-> x[b]]
    BY <2>1 DEF Shr
  <2> QED BY <2>2, Zenon DEF IsWord
<1>4. And(x, mask_constants(32)) = x
  <2>1. \A b \in BitsOfWord : mask_constants(32)[b] = 1
    BY <1>2 DEF mask_constants
  <2>2. And(x, mask_constants(32)) = [b \in BitsOfWord |-> x[b]]
    BY <1>1, <2>1, Zenon DEF And
  <2> QED BY <2>2, Zenon DEF IsWord
<1>5. ASSUME NEW bits \in 1 .. 32
      PROVE  And(Shr(x, 32 - bits), mask_constants(bits)) = Shr(x, 32 - bits)
  <2>1. PICK y, k : y = Shr(x, 32 - bits) /\ k = mask_constants(bits)
    OBVIOUS
  <2>2. \A b \in BitsOfWord : BitAnd(y[b], k[b]) = y[b]
    <3>1. TAKE b \in BitsOfWord
    <3>2. CASE b < bits
      <4>1. k[b] = 1
        BY <2>1, <3>2 DEF mask_constants
      <4> QED BY <1>1, <4>1
    <3>3. CASE ~(b < bits)
      <4>1. k[b] = 0
        BY <2>1, <3>3 DEF mask_constants
      <4>2. ~(b + (32 - bits) < 32)
        BY <1>2, <3>3
      <4>3. y[b] = 0
        BY <2>1, <4>2 DEF Shr
      <4> QED BY <1>1, <4>1, <4>3
    <3> QED BY <3>2, <3>3
  <2>3. y = [b \in BitsOfWord |-> y[b]]
    BY <2>1 DEF Shr
  <2>4. And(y, k) = [b \in BitsOfWord |-> y[b]]
    BY <2>2, Zenon DEF And
  <2> QED BY <2>1, <2>3, <2>4, Zenon
<1> QED BY <1>3, <1>4, <1>5

Outside == (0 .. 9) \cup (26 .. 31)
\* The values of a group are extracted: y is what z becomes.
Extracted(y, z, u, bits, start) ==
  /\ IsFun(y) /\ DOMAIN y = 0 .. 31
  /\ \A p \in 0 .. 7 : y[result(bits, start, p)] = Plain(Scalar(u, bits, start + p))
  /\ \A r \in Outside : y[r] = z[r]

\* d are temporaries; y is z but for what the turns C of a phase have left in
\* them.
InTemps(d) == \A p \in 0 .. 7 : d[p] \in 10 .. 25
PhaseKept(y, z, C, d, v) ==
  /\ IsFun(y) /\ DOMAIN y = 0 .. 31 /\ (\A r \in Outside : y[r] = z[r]) /\ (\A p \in C : y[d[p]] = v[p])
  /\ \A r \in 0 .. 31 : (\A k \in C : r # d[k]) => y[r] = z[r]

\* Registers outside the ones a phase writes.
LEMMA PhaseKeeps ==
  ASSUME NEW y, NEW z, DOMAIN z = 0 .. 31, NEW C \in SUBSET (0 .. 7), NEW d, NEW v, Phase(y, z, C, d, v), InTemps(d)
  PROVE  PhaseKept(y, z, C, d, v)
<1>1. IsFun(y) /\ DOMAIN y = 0 .. 31 /\ (\A p \in C : y[d[p]] = v[p])
      /\ \A r \in 0 .. 31 : (\A k \in C : r # d[k]) => y[r] = z[r]
  BY Zenon DEF Phase
<1>2. \A r \in Outside : r \in 0 .. 31 /\ r \notin 10 .. 25
  BY DEF Outside
<1>3. \A r \in Outside : \A k \in C : r # d[k]
  BY <1>2, Zenon DEF InTemps
<1> QED BY <1>1, <1>2, <1>3, Zenon DEF PhaseKept

\* The extraction of a group.
LEMMA ExtractRuns ==
  ASSUME NEW z, IsFun(z), DOMAIN z = 0 .. 31, NEW m, NEW u, NEW bits \in 1 .. 32, NEW start \in Nat,
         n_words(bits, start) <= WORD_REGS, HoldsWords(z, u, bits, start),
         bits < 32 => z[maskreg] = Plain(mask_constants(bits))
  PROVE  \E y : Extracted(y, z, u, bits, start) /\ Does(Cpu(z, m), ExtractGroup(bits, start), Cpu(y, m))
<1>1. PICK w, s, g, n : /\ w = [p \in 0 .. 7 |-> place(bits, start + p).w] /\ s = [p \in 0 .. 7 |-> place(bits, start + p).s]
                        /\ g = first_word(bits, start) /\ n = n_words(bits, start)
  OBVIOUS
<1>2. \A p \in 0 .. 7 : place(bits, start + p).w = w[p] /\ place(bits, start + p).s = s[p]
  BY <1>1, Zenon
<1>3. /\ g \in Nat /\ n \in Nat /\ n <= 10
      /\ \A p \in 0 .. 7 :
           /\ w[p] \in Nat /\ s[p] \in 0 .. 31 /\ w[p] - g \in 0 .. n - 1
           /\ s[p] + bits > 32 => (w[p] + 1) - g \in 0 .. n - 1
           /\ Straddles(bits, start + p) <=> s[p] + bits > 32
           /\ bits = 32 => s[p] = 0 /\ w[p] - g = p
  <2>1. /\ g \in Nat /\ n \in Nat
        /\ \A p \in 0 .. 7 :
           /\ place(bits, start + p).w \in Nat /\ place(bits, start + p).s \in 0 .. 31
           /\ place(bits, start + p).w - g \in 0 .. n - 1
           /\ Straddles(bits, start + p) => (place(bits, start + p).w + 1) - g \in 0 .. n - 1
           /\ Straddles(bits, start + p) <=> place(bits, start + p).s + bits > 32
           /\ bits = 32 => place(bits, start + p).s = 0 /\ place(bits, start + p).w - g = p
    BY <1>1, GroupPlaces, Zenon
  <2>2. n <= 10
    BY <1>1 DEF WORD_REGS
  <2> QED BY <1>2, <2>1, <2>2, Zenon
<1>4. /\ \A p \in 0 .. 7 : temp(p, 0) \in 10 .. 24 /\ temp(p, 1) \in 11 .. 25
      /\ \A p, q \in 0 .. 7 : /\ p # q => temp(p, 0) # temp(q, 0) /\ temp(p, 1) # temp(q, 1)
                              /\ temp(p, 0) # temp(q, 1)
      /\ maskreg = 30
  BY Temps
<1>5. PICK d, e : d = [p \in 0 .. 7 |-> temp(p, 0)] /\ e = [p \in 0 .. 7 |-> temp(p, 1)]
  OBVIOUS
<1>6. \A p \in 0 .. 7 : d[p] = temp(p, 0) /\ e[p] = temp(p, 1)
  BY <1>5, Zenon
<1>7. /\ \A p \in 0 .. 7 : d[p] \in 10 .. 25 /\ e[p] \in 10 .. 25 /\ d[p] \in 0 .. 31 /\ e[p] \in 0 .. 31
      /\ \A p, q \in 0 .. 7 : (p # q => d[p] # d[q] /\ e[p] # e[q]) /\ d[p] # e[q]
  BY <1>4, <1>6
<1>7a. InTemps(d) /\ InTemps(e)
  BY <1>7, Zenon DEF InTemps
<1>8. PICK L, H, A : L = LowTurns(bits, start) /\ H = HighTurns(bits, start) /\ A = AndTurns(bits, start)
  OBVIOUS
<1>9. /\ L \in SUBSET (0 .. 7) /\ H \in SUBSET (0 .. 7) /\ A \in SUBSET (0 .. 7)
      /\ \A p \in 0 .. 7 : (p \in L <=> s[p] # 0) /\ (p \in H <=> s[p] + bits > 32) /\ (p \in A <=> s[p] + bits # 32)
  BY <1>2, <1>3, <1>8, Zenon DEF LowTurns, HighTurns, AndTurns
<1>10. PICK i1, i2, i3, i4 : /\ i1 = LowTurn(bits, start) /\ i2 = HighTurn(bits, start)
                             /\ i3 = OrTurn /\ i4 = AndTurn(bits, start)
  OBVIOUS
<1>11. \A p \in 0 .. 7 : /\ i1[p] = Vpsrld(d[p], w[p] - g, s[p]) /\ i2[p] = Vpslld(e[p], (w[p] + 1) - g, 32 - s[p])
                         /\ i3[p] = Vpord(d[p], d[p], e[p])
                         /\ i4[p] = Vpandd(d[p], IF s[p] = 0 THEN w[p] - g ELSE d[p], 30)
  BY <1>1, <1>2, <1>4, <1>6, <1>10, Zenon DEF LowTurn, HighTurn, OrTurn, AndTurn
<1>12. \A C \in SUBSET (0 .. 7) : Apart(C, d) /\ Apart(C, e)
  BY <1>7 DEF Apart
<1>13. PICK lo, hi, both, val :
          /\ lo = [p \in 0 .. 7 |-> Shr(u[w[p]], s[p])] /\ hi = [p \in 0 .. 7 |-> Shl(u[w[p] + 1], 32 - s[p])]
          /\ both = [p \in 0 .. 7 |-> IF s[p] + bits > 32 THEN Or(lo[p], hi[p]) ELSE lo[p]]
          /\ val = [p \in 0 .. 7 |-> And(both[p], mask_constants(bits))]
  OBVIOUS
<1>14. \A p \in 0 .. 7 : /\ lo[p] = Shr(u[w[p]], s[p]) /\ hi[p] = Shl(u[w[p] + 1], 32 - s[p])
                         /\ both[p] = (IF s[p] + bits > 32 THEN Or(lo[p], hi[p]) ELSE lo[p])
                         /\ val[p] = And(both[p], mask_constants(bits))
  BY <1>13, Zenon
<1>15. PICK v1, v2, v3, v4 :
          /\ v1 = [p \in 0 .. 7 |-> Plain(lo[p])] /\ v2 = [p \in 0 .. 7 |-> Plain(hi[p])]
          /\ v3 = [p \in 0 .. 7 |-> Plain(Or(lo[p], hi[p]))] /\ v4 = [p \in 0 .. 7 |-> Plain(val[p])]
  OBVIOUS
<1>16. \A p \in 0 .. 7 : v1[p] = Plain(lo[p]) /\ v2[p] = Plain(hi[p]) /\ v3[p] = Plain(Or(lo[p], hi[p])) /\ v4[p] = Plain(val[p])
  BY <1>15, Zenon
<1>17. \A j \in 0 .. n - 1 : j \in Outside /\ z[j] = Plain(u[g + j]) /\ IsWord(u[g + j])
  <2>1. \A j \in 0 .. n - 1 : z[j] = Plain(u[g + j]) /\ IsWord(u[g + j])
    BY <1>1, Zenon DEF HoldsWords
  <2>2. \A j \in 0 .. n - 1 : j \in Outside
    BY <1>3 DEF Outside
  <2> QED BY <2>1, <2>2, Zenon
<1>18. \A p \in 0 .. 7 : /\ w[p] - g \in Outside /\ z[w[p] - g] = Plain(u[w[p]]) /\ IsWord(u[w[p]])
                         /\ s[p] + bits > 32 => (w[p] + 1) - g \in Outside /\ z[(w[p] + 1) - g] = Plain(u[w[p] + 1])
  <2>1. TAKE p \in 0 .. 7
  <2>2. PICK j \in 0 .. n - 1 : j = w[p] - g /\ g + j = w[p]
    BY <1>3
  <2>3. w[p] - g \in Outside /\ z[w[p] - g] = Plain(u[w[p]]) /\ IsWord(u[w[p]])
    BY <1>17, <2>2, Zenon
  <2>4. ASSUME s[p] + bits > 32 PROVE (w[p] + 1) - g \in Outside /\ z[(w[p] + 1) - g] = Plain(u[w[p] + 1])
    <3>1. PICK k \in 0 .. n - 1 : k = (w[p] + 1) - g /\ g + k = w[p] + 1
      BY <1>3, <2>4
    <3> QED BY <1>17, <3>1, Zenon
  <2> QED BY <2>3, <2>4
<1>19. 30 \in Outside /\ 8 \in Nat /\ 0 .. 8 - 1 = 0 .. 7
  BY DEF Outside
\* The low parts.
<1>20. PICK y1 : Phase(y1, z, L, d, v1) /\ Does(Cpu(z, m), PhaseOf(8, L, i1), Cpu(y1, m))
  <2>1. Computes(8, z, m, L, i1, d, v1)
    <3> SUFFICES ASSUME NEW p \in L
                 PROVE  /\ i1[p].op # "store" /\ i1[p].d = d[p] /\ d[p] \in DOMAIN z
                        /\ \A y : Phase(y, z, L \cap (0 .. p - 1), d, v1) => Result(y, m, i1[p]) = v1[p]
      BY Zenon DEF Computes
    <3>1. p \in 0 .. 7
      BY <1>9, Zenon
    <3>2. i1[p] = Vpsrld(d[p], w[p] - g, s[p])
      BY <1>11, <3>1, Zenon
    <3>3. i1[p].op # "store" /\ i1[p].d = d[p] /\ d[p] \in DOMAIN z
      <4>1. Gets(Vpsrld(d[p], w[p] - g, s[p]), d[p], z, m, Plain(Shr(AsWord(z[w[p] - g]), s[p])))
        BY SrlGets
      <4> QED BY <1>7, <3>1, <3>2, <4>1, Zenon DEF Gets
    <3>4. ASSUME NEW y, Phase(y, z, L \cap (0 .. p - 1), d, v1) PROVE Result(y, m, i1[p]) = v1[p]
      <4>1. L \cap (0 .. p - 1) \in SUBSET (0 .. 7)
        BY <1>9, Zenon
      <4>1a. PhaseKept(y, z, L \cap (0 .. p - 1), d, v1)
        BY <1>7a, <3>4, <4>1, PhaseKeeps
      <4>2. \A r \in Outside : y[r] = z[r]
        BY <4>1a, Zenon DEF PhaseKept
      <4>3. AsWord(y[w[p] - g]) = u[w[p]]
        <5>1. AsWord(Plain(u[w[p]])) = u[w[p]]
          BY PlainWord
        <5> QED BY <1>18, <3>1, <4>2, <5>1, Zenon
      <4>4. Gets(Vpsrld(d[p], w[p] - g, s[p]), d[p], y, m, Plain(Shr(AsWord(y[w[p] - g]), s[p])))
        BY SrlGets
      <4> QED BY <1>14, <1>16, <3>1, <3>2, <4>3, <4>4, Zenon DEF Gets
    <3> QED BY <3>3, <3>4
  <2>2. Phased(z, m, PhaseOf(8, L, i1), L, d, v1)
    BY <1>9, <1>12, <1>19, <2>1, PhaseRuns
  <2> QED BY <2>2, Zenon DEF Phased
<1>21. /\ IsFun(y1) /\ DOMAIN y1 = 0 .. 31 /\ (\A r \in Outside : y1[r] = z[r])
       /\ \A p \in L : y1[d[p]] = v1[p]
  <2>1. PhaseKept(y1, z, L, d, v1)
    BY <1>7a, <1>9, <1>20, PhaseKeeps
  <2> QED BY <2>1, Zenon DEF PhaseKept
\* The high parts.
<1>22. PICK y2 : Phase(y2, y1, H, e, v2) /\ Does(Cpu(y1, m), PhaseOf(8, H, i2), Cpu(y2, m))
  <2>1. Computes(8, y1, m, H, i2, e, v2)
    <3> SUFFICES ASSUME NEW p \in H
                 PROVE  /\ i2[p].op # "store" /\ i2[p].d = e[p] /\ e[p] \in DOMAIN y1
                        /\ \A y : Phase(y, y1, H \cap (0 .. p - 1), e, v2) => Result(y, m, i2[p]) = v2[p]
      BY Zenon DEF Computes
    <3>1. p \in 0 .. 7 /\ s[p] + bits > 32
      BY <1>9, Zenon
    <3>2. i2[p] = Vpslld(e[p], (w[p] + 1) - g, 32 - s[p])
      BY <1>11, <3>1, Zenon
    <3>3. i2[p].op # "store" /\ i2[p].d = e[p] /\ e[p] \in DOMAIN y1
      <4>1. Gets(Vpslld(e[p], (w[p] + 1) - g, 32 - s[p]), e[p], y1, m, Plain(Shl(AsWord(y1[(w[p] + 1) - g]), 32 - s[p])))
        BY SllGets
      <4> QED BY <1>7, <1>21, <3>1, <3>2, <4>1, Zenon DEF Gets
    <3>4. ASSUME NEW y, Phase(y, y1, H \cap (0 .. p - 1), e, v2) PROVE Result(y, m, i2[p]) = v2[p]
      <4>1. H \cap (0 .. p - 1) \in SUBSET (0 .. 7)
        BY <1>9, Zenon
      <4>1a. PhaseKept(y, y1, H \cap (0 .. p - 1), e, v2)
        BY <1>7a, <1>21, <3>4, <4>1, PhaseKeeps
      <4>2. \A r \in Outside : y[r] = y1[r]
        BY <4>1a, Zenon DEF PhaseKept
      <4>3. AsWord(y[(w[p] + 1) - g]) = u[w[p] + 1]
        <5>1. AsWord(Plain(u[w[p] + 1])) = u[w[p] + 1]
          BY PlainWord
        <5> QED BY <1>18, <1>21, <3>1, <4>2, <5>1, Zenon
      <4>4. Gets(Vpslld(e[p], (w[p] + 1) - g, 32 - s[p]), e[p], y, m, Plain(Shl(AsWord(y[(w[p] + 1) - g]), 32 - s[p])))
        BY SllGets
      <4> QED BY <1>14, <1>16, <3>1, <3>2, <4>3, <4>4, Zenon DEF Gets
    <3> QED BY <3>3, <3>4
  <2>2. Phased(y1, m, PhaseOf(8, H, i2), H, e, v2)
    BY <1>9, <1>12, <1>19, <1>21, <2>1, PhaseRuns
  <2> QED BY <2>2, Zenon DEF Phased
<1>23. /\ IsFun(y2) /\ DOMAIN y2 = 0 .. 31 /\ (\A r \in Outside : y2[r] = z[r])
       /\ (\A p \in H : y2[e[p]] = v2[p]) /\ (\A p \in L : y2[d[p]] = v1[p])
  <2>0. PhaseKept(y2, y1, H, e, v2)
    BY <1>7a, <1>9, <1>21, <1>22, PhaseKeeps
  <2>1. /\ IsFun(y2) /\ DOMAIN y2 = 0 .. 31 /\ (\A r \in Outside : y2[r] = y1[r])
        /\ (\A p \in H : y2[e[p]] = v2[p])
        /\ \A r \in 0 .. 31 : (\A k \in H : r # e[k]) => y2[r] = y1[r]
    BY <2>0, Zenon DEF PhaseKept
  <2>2. \A p \in L : d[p] \in 0 .. 31 /\ \A k \in H : d[p] # e[k]
    BY <1>7, <1>9, Zenon
  <2> QED BY <1>21, <2>1, <2>2, Zenon
\* Both parts together.
<1>24. PICK y3 : Phase(y3, y2, H, d, v3) /\ Does(Cpu(y2, m), PhaseOf(8, H, i3), Cpu(y3, m))
  <2>1. Computes(8, y2, m, H, i3, d, v3)
    <3> SUFFICES ASSUME NEW p \in H
                 PROVE  /\ i3[p].op # "store" /\ i3[p].d = d[p] /\ d[p] \in DOMAIN y2
                        /\ \A y : Phase(y, y2, H \cap (0 .. p - 1), d, v3) => Result(y, m, i3[p]) = v3[p]
      BY Zenon DEF Computes
    <3>1. p \in 0 .. 7 /\ s[p] + bits > 32
      BY <1>9, Zenon
    <3>2. i3[p] = Vpord(d[p], d[p], e[p])
      BY <1>11, <3>1, Zenon
    <3>3. i3[p].op # "store" /\ i3[p].d = d[p] /\ d[p] \in DOMAIN y2
      <4>1. Gets(Vpord(d[p], d[p], e[p]), d[p], y2, m, Plain(Or(AsWord(y2[d[p]]), AsWord(y2[e[p]]))))
        BY OrGets
      <4> QED BY <1>7, <1>23, <3>1, <3>2, <4>1, Zenon DEF Gets
    <3>4. ASSUME NEW y, Phase(y, y2, H \cap (0 .. p - 1), d, v3) PROVE Result(y, m, i3[p]) = v3[p]
      <4>1. H \cap (0 .. p - 1) \in SUBSET (0 .. 7)
        BY <1>9, Zenon
      <4>1a. PhaseKept(y, y2, H \cap (0 .. p - 1), d, v3)
        BY <1>7a, <1>23, <3>4, <4>1, PhaseKeeps
      <4>2. \A r \in 0 .. 31 : (\A k \in H \cap (0 .. p - 1) : r # d[k]) => y[r] = y2[r]
        BY <4>1a, Zenon DEF PhaseKept
      <4>3. \A k \in H \cap (0 .. p - 1) : k \in 0 .. 7 /\ k # p
        BY <1>9, <3>1
      <4>4. y[d[p]] = y2[d[p]] /\ y[e[p]] = y2[e[p]]
        <5>1. \A k \in H \cap (0 .. p - 1) : d[p] # d[k] /\ e[p] # d[k]
          BY <1>7, <3>1, <4>3
        <5> QED BY <1>7, <3>1, <4>2, <5>1, Zenon
      <4>5. p \in L
        BY <1>3, <1>9, <3>1
      <4>6. AsWord(y[d[p]]) = lo[p] /\ AsWord(y[e[p]]) = hi[p]
        <5>1. AsWord(Plain(lo[p])) = lo[p] /\ AsWord(Plain(hi[p])) = hi[p]
          BY PlainWord
        <5> QED BY <1>16, <1>23, <3>1, <4>4, <4>5, <5>1, Zenon
      <4>7. Gets(Vpord(d[p], d[p], e[p]), d[p], y, m, Plain(Or(AsWord(y[d[p]]), AsWord(y[e[p]]))))
        BY OrGets
      <4> QED BY <1>16, <3>1, <3>2, <4>6, <4>7, Zenon DEF Gets
    <3> QED BY <3>3, <3>4
  <2>2. Phased(y2, m, PhaseOf(8, H, i3), H, d, v3)
    BY <1>9, <1>12, <1>19, <1>23, <2>1, PhaseRuns
  <2> QED BY <2>2, Zenon DEF Phased
<1>25. /\ IsFun(y3) /\ DOMAIN y3 = 0 .. 31 /\ (\A r \in Outside : y3[r] = z[r])
       /\ \A p \in L : y3[d[p]] = Plain(both[p])
  <2>0. PhaseKept(y3, y2, H, d, v3)
    BY <1>7a, <1>9, <1>23, <1>24, PhaseKeeps
  <2>1. /\ IsFun(y3) /\ DOMAIN y3 = 0 .. 31 /\ (\A r \in Outside : y3[r] = y2[r])
        /\ (\A p \in H : y3[d[p]] = v3[p])
        /\ \A r \in 0 .. 31 : (\A k \in H : r # d[k]) => y3[r] = y2[r]
    BY <2>0, Zenon DEF PhaseKept
  <2>2. ASSUME NEW p \in L PROVE y3[d[p]] = Plain(both[p])
    <3>1. p \in 0 .. 7
      BY <1>9, Zenon
    <3>2. CASE p \in H
      BY <1>9, <1>14, <1>16, <2>1, <3>1, <3>2, Zenon
    <3>3. CASE p \notin H
      <4>1. \A k \in H : k \in 0 .. 7 /\ k # p
        BY <1>9, <3>3, Zenon
      <4>2. \A k \in H : d[p] # d[k]
        BY <1>7, <3>1, <4>1, Zenon
      <4>3. y3[d[p]] = v1[p]
        BY <1>7, <1>23, <2>1, <3>1, <4>2, Zenon
      <4> QED BY <1>9, <1>14, <1>16, <3>1, <3>3, <4>3, Zenon
    <3> QED BY <3>2, <3>3
  <2> QED BY <1>23, <2>1, <2>2, Zenon
\* The mask.
<1>26. bits < 32 => z[30] = Plain(mask_constants(bits))
  BY <1>4
<1>27. bits = 32 => A = {}
  BY <1>3, <1>9
<1>28. PICK y4 : Phase(y4, y3, A, d, v4) /\ Does(Cpu(y3, m), PhaseOf(8, A, i4), Cpu(y4, m))
  <2>1. Computes(8, y3, m, A, i4, d, v4)
    <3> SUFFICES ASSUME NEW p \in A
                 PROVE  /\ i4[p].op # "store" /\ i4[p].d = d[p] /\ d[p] \in DOMAIN y3
                        /\ \A y : Phase(y, y3, A \cap (0 .. p - 1), d, v4) => Result(y, m, i4[p]) = v4[p]
      BY Zenon DEF Computes
    <3>1. p \in 0 .. 7 /\ bits < 32
      BY <1>9, <1>27
    <3>2. PICK a : a = IF s[p] = 0 THEN w[p] - g ELSE d[p]
      OBVIOUS
    <3>3. i4[p] = Vpandd(d[p], a, 30)
      BY <1>11, <3>1, <3>2, Zenon
    <3>4. i4[p].op # "store" /\ i4[p].d = d[p] /\ d[p] \in DOMAIN y3
      <4>1. Gets(Vpandd(d[p], a, 30), d[p], y3, m, Plain(And(AsWord(y3[a]), AsWord(y3[30]))))
        BY AndGets
      <4> QED BY <1>7, <1>25, <3>1, <3>3, <4>1, Zenon DEF Gets
    <3>5. ASSUME NEW y, Phase(y, y3, A \cap (0 .. p - 1), d, v4) PROVE Result(y, m, i4[p]) = v4[p]
      <4>1. A \cap (0 .. p - 1) \in SUBSET (0 .. 7)
        BY <1>9, Zenon
      <4>1a. PhaseKept(y, y3, A \cap (0 .. p - 1), d, v4)
        BY <1>7a, <1>25, <3>5, <4>1, PhaseKeeps
      <4>2. /\ \A r \in Outside : y[r] = y3[r]
            /\ \A r \in 0 .. 31 : (\A k \in A \cap (0 .. p - 1) : r # d[k]) => y[r] = y3[r]
        BY <4>1a, Zenon DEF PhaseKept
      <4>3. \A k \in A \cap (0 .. p - 1) : k \in 0 .. 7 /\ k # p
        BY <1>9, <3>1
      <4>4. y[d[p]] = y3[d[p]]
        <5>1. \A k \in A \cap (0 .. p - 1) : d[p] # d[k]
          BY <1>7, <3>1, <4>3, Zenon
        <5> QED BY <1>7, <3>1, <4>2, <5>1, Zenon
      <4>5. AsWord(y[30]) = mask_constants(bits)
        <5>1. AsWord(Plain(mask_constants(bits))) = mask_constants(bits)
          BY PlainWord
        <5> QED BY <1>19, <1>25, <1>26, <3>1, <4>2, <5>1, Zenon
      <4>6. AsWord(y[a]) = both[p]
        <5>1. CASE s[p] = 0
          <6>1. a = w[p] - g
            BY <3>2, <5>1, Zenon
          <6>2. AsWord(y[a]) = u[w[p]] /\ IsWord(u[w[p]])
            <7>1. AsWord(Plain(u[w[p]])) = u[w[p]]
              BY PlainWord
            <7> QED BY <1>18, <1>25, <3>1, <4>2, <6>1, <7>1, Zenon
          <6>3. ~(s[p] + bits > 32)
            BY <3>1, <5>1
          <6>4. both[p] = Shr(u[w[p]], 0)
            BY <1>14, <3>1, <5>1, <6>3, Zenon
          <6>5. Shr(u[w[p]], 0) = u[w[p]]
            BY <6>2, MaskIdle, Zenon
          <6> QED BY <6>2, <6>4, <6>5, Zenon
        <5>2. CASE s[p] # 0
          <6>1. p \in L /\ a = d[p]
            BY <1>9, <3>1, <3>2, <5>2, Zenon
          <6>2. AsWord(Plain(both[p])) = both[p]
            BY PlainWord
          <6> QED BY <1>25, <4>4, <6>1, <6>2, Zenon
        <5> QED BY <5>1, <5>2
      <4>7. Gets(Vpandd(d[p], a, 30), d[p], y, m, Plain(And(AsWord(y[a]), AsWord(y[30]))))
        BY AndGets
      <4> QED BY <1>14, <1>16, <3>1, <3>3, <4>5, <4>6, <4>7, Zenon DEF Gets
    <3> QED BY <3>4, <3>5
  <2>2. Phased(y3, m, PhaseOf(8, A, i4), A, d, v4)
    BY <1>9, <1>12, <1>19, <1>25, <2>1, PhaseRuns
  <2> QED BY <2>2, Zenon DEF Phased
<1>29. /\ IsFun(y4) /\ DOMAIN y4 = 0 .. 31 /\ (\A r \in Outside : y4[r] = y3[r])
       /\ (\A p \in A : y4[d[p]] = v4[p])
       /\ \A r \in 0 .. 31 : (\A k \in A : r # d[k]) => y4[r] = y3[r]
  <2>1. PhaseKept(y4, y3, A, d, v4)
    BY <1>7a, <1>9, <1>25, <1>28, PhaseKeeps
  <2> QED BY <2>1, Zenon DEF PhaseKept
<1>30. \A p \in 0 .. 7 : Scalar(u, bits, start + p) = val[p]
  <2>1. TAKE p \in 0 .. 7
  <2>2. Scalar(u, bits, start + p) = And(IF s[p] + bits > 32 THEN Or(Shr(u[w[p]], s[p]), Shl(u[w[p] + 1], 32 - s[p])) ELSE Shr(u[w[p]], s[p]), mask_constants(bits))
    BY <1>2, Zenon DEF Scalar
  <2> QED BY <1>14, <2>2, Zenon
<1>31. ASSUME NEW p \in 0 .. 7 PROVE y4[result(bits, start, p)] = Plain(val[p])
  <2>1. CASE bits = 32
    <3>1. result(bits, start, p) = w[p] - g
      BY <1>1, <1>2, <2>1, Zenon DEF result
    <3>2. y4[w[p] - g] = Plain(u[w[p]]) /\ IsWord(u[w[p]])
      BY <1>18, <1>25, <1>29, Zenon
    <3>3. s[p] = 0 /\ ~(s[p] + bits > 32)
      BY <1>3, <2>1
    <3>4. val[p] = And(Shr(u[w[p]], 0), mask_constants(32))
      BY <1>14, <2>1, <3>3, Zenon
    <3>5. val[p] = u[w[p]]
      BY <3>2, <3>4, MaskIdle, Zenon
    <3> QED BY <3>1, <3>2, <3>5, Zenon
  <2>2. CASE bits # 32
    <3>1. result(bits, start, p) = d[p]
      BY <1>6, <2>2, Zenon DEF result
    <3>2. CASE p \in A
      BY <1>16, <1>29, <3>1, <3>2, Zenon
    <3>3. CASE p \notin A
      <4>1. s[p] + bits = 32
        BY <1>9, <3>3, Zenon
      <4>2. s[p] # 0 /\ ~(s[p] + bits > 32) /\ s[p] = 32 - bits
        BY <1>3, <2>2, <4>1
      <4>3. \A k \in A : k \in 0 .. 7 /\ k # p
        BY <1>9, <3>3, Zenon
      <4>4. \A k \in A : d[p] # d[k]
        BY <1>7, <4>3, Zenon
      <4>5. y4[d[p]] = y3[d[p]]
        BY <1>7, <1>29, <4>4, Zenon
      <4>6. p \in L
        BY <1>9, <4>2, Zenon
      <4>7. both[p] = Shr(u[w[p]], 32 - bits)
        BY <1>14, <4>2, Zenon
      <4>8. IsWord(u[w[p]])
        BY <1>18, Zenon
      <4>9. And(Shr(u[w[p]], 32 - bits), mask_constants(bits)) = Shr(u[w[p]], 32 - bits)
        BY <4>8, MaskIdle, Zenon
      <4>10. val[p] = both[p]
        BY <1>14, <4>7, <4>9, Zenon
      <4> QED BY <1>25, <3>1, <4>5, <4>6, <4>10, Zenon
    <3> QED BY <3>2, <3>3
  <2> QED BY <2>1, <2>2
<1>32. Extracted(y4, z, u, bits, start)
  BY <1>25, <1>29, <1>30, <1>31, Zenon DEF Extracted
<1>33. Does(Cpu(z, m), ExtractGroup(bits, start), Cpu(y4, m))
  <2>1. PICK a, b, c, f : a = PhaseOf(8, L, i1) /\ b = PhaseOf(8, H, i2) /\ c = PhaseOf(8, H, i3) /\ f = PhaseOf(8, A, i4)
    OBVIOUS
  <2>2. PICK s0, s1, s2, s3, s4 : /\ s0 = Cpu(z, m) /\ s1 = Cpu(y1, m) /\ s2 = Cpu(y2, m)
                                  /\ s3 = Cpu(y3, m) /\ s4 = Cpu(y4, m)
    OBVIOUS
  <2>3. Does(s0, a, s1) /\ Does(s1, b, s2) /\ Does(s2, c, s3) /\ Does(s3, f, s4)
    BY <1>20, <1>22, <1>24, <1>28, <2>1, <2>2, Zenon
  <2>4. Does(s0, a \o b, s2)
    BY <2>3, DoesBoth
  <2>5. Does(s0, (a \o b) \o c, s3)
    BY <2>3, <2>4, DoesBoth
  <2>6. Does(s0, ((a \o b) \o c) \o f, s4)
    BY <2>3, <2>5, DoesBoth
  <2>7. ExtractGroup(bits, start) = ((a \o b) \o c) \o f
    BY <1>8, <1>10, <2>1, ExtractPhases, Zenon
  <2> QED BY <2>2, <2>6, <2>7, Zenon
<1> QED BY <1>32, <1>33, Zenon

(* The FastLanes kernel.                                                   *)

\* Bit q of the words u.
BitOf(u, q) == u[q \div 32][q % 32]

\* What scalar_unpack reads is bits pos N to pos N + N - 1 of the words.
LEMMA ScalarBits ==
  ASSUME NEW bits \in 1 .. 32, NEW pos \in Nat, NEW u
  PROVE  Scalar(u, bits, pos) = [b \in BitsOfWord |-> IF b < bits THEN BitOf(u, pos * bits + b) ELSE 0]
<1>1. PICK B \in Nat : B = bits * pos /\ B = pos * bits
  OBVIOUS
<1>2. PICK w \in Nat, s \in 0 .. 31 : w = B \div 32 /\ s = B % 32 /\ B = 32 * w + s
  OBVIOUS
<1>3. place(bits, pos).w = w /\ place(bits, pos).s = s
  BY <1>1, <1>2 DEF place
<1>4. PICK lo, hi, mask : lo = Shr(u[w], s) /\ hi = Shl(u[w + 1], 32 - s) /\ mask = mask_constants(bits)
  OBVIOUS
<1>5. Scalar(u, bits, pos) = And(IF s + bits > 32 THEN Or(lo, hi) ELSE lo, mask)
  BY <1>3, <1>4, Zenon DEF Scalar
<1>6. PICK x : x = IF s + bits > 32 THEN Or(lo, hi) ELSE lo
  OBVIOUS
<1>7. BitsOfWord = 0 .. 31
  BY DEF BitsOfWord
<1>8. \A y : BitAnd(y, 1) = y /\ BitAnd(y, 0) = 0 /\ BitOr(y, 0) = y /\ BitOr(0, y) = y
  BY DEF BitAnd, BitOr
<1>9. ASSUME NEW b \in BitsOfWord PROVE BitAnd(x[b], mask[b]) = IF b < bits THEN BitOf(u, B + b) ELSE 0
  <2>1. b \in 0 .. 31
    BY <1>7
  <2>2. lo[b] = IF b + s < 32 THEN u[w][b + s] ELSE 0
    BY <1>4 DEF Shr
  <2>3. hi[b] = IF b < 32 - s THEN 0 ELSE u[w + 1][b - (32 - s)]
    BY <1>4 DEF Shl
  <2>4. Or(lo, hi)[b] = BitOr(lo[b], hi[b])
    BY DEF Or
  <2>5. mask[b] = IF b < bits THEN 1 ELSE 0
    BY <1>4 DEF mask_constants
  <2>6. CASE ~(b < bits)
    BY <1>8, <2>5, <2>6
  <2>7. CASE b < bits
    <3>1. BitAnd(x[b], mask[b]) = x[b]
      BY <1>8, <2>5, <2>7
    <3>2. PICK q \in Nat : q = B + b
      BY <2>1
    <3>3. CASE b + s < 32
      <4>1. q \div 32 = w /\ q % 32 = b + s
        BY <1>2, <2>1, <3>2, <3>3
      <4>2. lo[b] = BitOf(u, q)
        BY <2>2, <3>3, <4>1, Zenon DEF BitOf
      <4>3. b < 32 - s
        BY <2>1, <3>3
      <4>4. hi[b] = 0
        BY <2>3, <4>3, Zenon
      <4>5. Or(lo, hi)[b] = lo[b]
        BY <1>8, <2>4, <4>4
      <4>6. x[b] = lo[b]
        BY <1>6, <4>5, Zenon
      <4> QED BY <2>7, <3>1, <3>2, <4>2, <4>6, Zenon
    <3>4. CASE ~(b + s < 32)
      <4>1. q \div 32 = w + 1 /\ q % 32 = b - (32 - s)
        BY <1>2, <2>1, <3>2, <3>4
      <4>2. s + bits > 32 /\ ~(b < 32 - s)
        BY <2>1, <2>7, <3>4
      <4>3. hi[b] = BitOf(u, q)
        BY <2>3, <4>1, <4>2, Zenon DEF BitOf
      <4>4. lo[b] = 0
        BY <2>2, <3>4, Zenon
      <4>5. Or(lo, hi)[b] = hi[b]
        BY <1>8, <2>4, <4>4
      <4>6. x[b] = hi[b]
        BY <1>6, <4>2, <4>5, Zenon
      <4> QED BY <2>7, <3>1, <3>2, <4>3, <4>6, Zenon
    <3> QED BY <3>3, <3>4
  <2> QED BY <2>6, <2>7
<1>10. And(x, mask) = [b \in BitsOfWord |-> BitAnd(x[b], mask[b])]
  BY Zenon DEF And
<1>11. And(x, mask) = [b \in BitsOfWord |-> IF b < bits THEN BitOf(u, B + b) ELSE 0]
  BY <1>9, <1>10, Zenon
<1> QED BY <1>1, <1>5, <1>6, <1>11, Zenon

\* The words of one lane of half h, and what slot p of it is to hold.
FlsU(c, h) == [w \in Nat |-> Word(32 * w + 16 * h + c)]
FlsFinal(bits, c, p, h) ==
  [plus |-> IF bits = 0 THEN <<FlsBaseWord>> ELSE <<FlsBaseWord, Scalar(FlsU(c, h), bits, p)>>, minus |-> << >>]
FlsIn(bits) == [e \in 0 .. 32 * bits - 1 |-> Plain(Word(e))]
FlsMem(bits, out) ==
  [in |-> FlsIn(bits), out |-> out, base |-> [k \in {0} |-> Plain(FlsBaseWord)], mask |-> [k \in {0} |-> Plain(mask_constants(bits))]]
FlsJob(bits, c, res, lines) == [kind |-> "fls", bits |-> bits, col |-> c, res |-> res, lines |-> lines]
FlsStored(i, round, p, h) == h < round \/ (h = round /\ p < i)
FlsOut(out, bits, c, on, i, round) ==
  /\ IsFun(out) /\ DOMAIN out = 0 .. 63
  /\ \A p \in 0 .. 31, h \in 0 .. 1 :
       out[2 * p + h] = IF on /\ FlsStored(i, round, p, h) THEN FlsFinal(bits, c, p, h) ELSE Unwritten
FlsLines(bits, res) == {LineOf(res + e) : e \in 0 .. 32 * bits - 1}

(* The inductive invariant of the FastLanes kernel: the slots before its place
   hold their values, the others nothing, the registers of base and mask are
   loaded, and the lines read so far are lines of the input. *)
FlsInv ==
  /\ job.bits \in 0 .. 33 /\ job.col \in 0 .. 15 /\ job.res \in 0 .. 15
  /\ job = FlsJob(job.bits, job.col, job.res, job.lines)
  /\ job.lines \subseteq FlsLines(job.bits, job.res)
  /\ pc.round \in 0 .. 1 /\ pc.i \in {0, 8, 16, 24, 32} /\ pc.stage \in {"call", "refused", "unffor"}
  /\ pc = [stage |-> pc.stage, i |-> pc.i, round |-> pc.round]
  /\ pc.stage = "call" => pc.i = 0 /\ pc.round = 0
  /\ IsFun(zmm) /\ DOMAIN zmm = 0 .. 31
  /\ mem = FlsMem(job.bits, mem.out)
  /\ FlsOut(mem.out, job.bits, job.col, pc.stage = "unffor", pc.i, pc.round)
  /\ pc.stage = "unffor" =>
       /\ job.bits <= 32 /\ zmm[base] = Plain(FlsBaseWord)
       /\ job.bits \in 1 .. 31 => zmm[maskreg] = Plain(mask_constants(job.bits))
       /\ job.bits = 0 => pc.i = 32

\* It holds at the call.
LEMMA FlsStarts == FlsInit => FlsInv
<1> SUFFICES ASSUME FlsInit PROVE FlsInv
  OBVIOUS
<1>1. PICK bits \in 0 .. 33, c \in Columns, res \in Residues : job = FlsJob(bits, c, res, {})
  BY DEF FlsInit, FlsJobs, FlsJob
<1>2. /\ job.bits = bits /\ job.col = c /\ job.res = res /\ job.lines = {}
      /\ c \in 0 .. 15 /\ res \in 0 .. 15
  BY <1>1, ColumnsInVector DEF FlsJob
<1>3. pc = [stage |-> "call", i |-> 0, round |-> 0] /\ pc.stage = "call" /\ pc.i = 0 /\ pc.round = 0
  BY DEF FlsInit
<1>4. IsFun(zmm) /\ DOMAIN zmm = 0 .. 31
  BY DEF FlsInit, EntryRegisters, IsFun
<1>5. PICK out : out = Fresh(2 * FLS_POSITIONS)
  OBVIOUS
<1>6. mem = FlsMem(bits, out)
  <2>1. mem = [in   |-> [e \in 0..32 * job.bits - 1 |-> Plain(Word(e))], out  |-> Fresh(2 * FLS_POSITIONS),
               base |-> [k \in {0} |-> Plain(FlsBaseWord)], mask |-> [k \in {0} |-> Plain(mask_constants(job.bits))]]
    BY Zenon DEF FlsInit
  <2> QED BY <1>2, <1>5, <2>1, Zenon DEF FlsMem, FlsIn
<1>7. mem.out = out
  BY <1>6 DEF FlsMem
<1>8. 2 * FLS_POSITIONS - 1 = 63
  BY DEF FLS_POSITIONS
<1>9. out = [k \in 0 .. 63 |-> Unwritten]
  BY <1>5, <1>8, Zenon DEF Fresh
<1>10. IsFun(out) /\ DOMAIN out = 0 .. 63
  BY <1>9 DEF IsFun
<1>11. \A p \in 0 .. 31, h \in 0 .. 1 : 2 * p + h \in 0 .. 63
  OBVIOUS
<1>12. \A p \in 0 .. 31, h \in 0 .. 1 : out[2 * p + h] = Unwritten
  BY <1>9, <1>11, Zenon
<1>13. pc.stage # "unffor"
  BY <1>3
<1>14. FlsOut(out, bits, c, pc.stage = "unffor", pc.i, pc.round)
  BY <1>10, <1>12, <1>13, Zenon DEF FlsOut
<1>15. pc.round \in 0 .. 1 /\ pc.i \in {0, 8, 16, 24, 32} /\ pc.stage \in {"call", "refused", "unffor"}
  BY <1>3
<1>16. /\ job = FlsJob(job.bits, job.col, job.res, job.lines) /\ mem = FlsMem(job.bits, mem.out)
       /\ job.lines \subseteq FlsLines(job.bits, job.res) /\ pc = [stage |-> pc.stage, i |-> pc.i, round |-> pc.round]
  BY <1>1, <1>2, <1>3, <1>6, <1>7, Zenon
<1> QED BY <1>2, <1>3, <1>4, <1>7, <1>13, <1>14, <1>15, <1>16, Zenon DEF FlsInv

\* The last word of a group is a word of the lane.
LEMMA LastWord ==
  ASSUME NEW bits \in 1 .. 32, NEW i \in 0 .. 24
  PROVE  /\ first_word(bits, i) \in Nat /\ n_words(bits, i) \in Nat
         /\ \A j \in 0 .. n_words(bits, i) - 1 : first_word(bits, i) + j \in 0 .. bits - 1
<1>1. first_word(bits, i) \in Nat /\ n_words(bits, i) \in Nat
  <2>1. i \in Nat
    OBVIOUS
  <2> QED BY <2>1, GroupPlaces
<1>2. PICK C \in Nat : C = bits * (i + 8 - 1) + bits - 1
  <2>1. bits * (i + 8 - 1) \in Nat
    OBVIOUS
  <2> QED BY <2>1
<1>3. C < 32 * bits
  <2>1. C = bits * (i + 8) - 1
    BY <1>2
  <2>2. bits * (i + 8) <= bits * 32
    OBVIOUS
  <2> QED BY <2>1, <2>2
<1>4. C \div 32 <= bits - 1 /\ C \div 32 \in Nat
  BY <1>3
<1>5. n_words(bits, i) = C \div 32 - first_word(bits, i) + 1
  BY <1>2 DEF n_words, GROUP
<1> QED BY <1>1, <1>4, <1>5, SMTT(30)

\* The two halves of an unaligned load meet: together they read the whole word
\* the column needs, wherever the input starts.
LEMMA LoadPair ==
  ASSUME NEW c \in 0 .. 15, NEW res \in 0 .. 15, job.col = c, job.res = res, NEW bits \in 1 .. 32,
         mem["in"] = FlsIn(bits), NEW h \in 0 .. 1, NEW w \in 0 .. bits - 1, NEW old
  PROVE  vloadunpackhd(word_hi(h, w), vloadunpackld(word_at(h, w), old)) = Plain(FlsU(c, h)[w])
<1>1. PICK e \in Nat : e = 32 * w + 16 * h /\ e + 16 = word_hi(h, w) /\ e = word_at(h, w) /\ e + c = 32 * w + 16 * h + c
  BY DEF word_hi, word_at
<1>2. (res + e) % 16 = res /\ (res + (e + 16)) % 16 = res
  BY <1>1
<1>3. PICK k \in 0 .. 32 * bits - 1 : k = e + c
  BY <1>1
<1>4. Fetch(mem, <<"in", k>>) = Plain(FlsU(c, h)[w])
  <2>1. DOMAIN FlsIn(bits) = 0 .. 32 * bits - 1 /\ FlsIn(bits)[k] = Plain(Word(k))
    BY Zenon DEF FlsIn
  <2>2. Fetch(mem, <<"in", k>>) = IF k \in DOMAIN mem["in"] THEN mem["in"][k] ELSE Unwritten
    BY DEF Fetch
  <2>3. w \in Nat
    OBVIOUS
  <2>4. FlsU(c, h)[w] = Word(k)
    BY <1>1, <1>3, <2>3, Zenon DEF FlsU
  <2> QED BY <2>1, <2>2, <2>4, Zenon
<1>5. PICK lo : lo = vloadunpackld(e, old)
  OBVIOUS
<1>6. lo = IF c < 16 - res THEN Fetch(mem, <<"in", k>>) ELSE old
  BY <1>2, <1>3, <1>5, Zenon DEF vloadunpackld
<1>7. (e + 16) - res + (c - (16 - res)) = k
  BY <1>3
<1>8. vloadunpackhd(e + 16, lo) = IF c >= 16 - res THEN Fetch(mem, <<"in", k>>) ELSE lo
  BY <1>2, <1>7, Zenon DEF vloadunpackhd
<1>9. c < 16 - res \/ c >= 16 - res
  OBVIOUS
<1> QED BY <1>1, <1>4, <1>5, <1>6, <1>8, <1>9, Zenon

FlsLoaded(z, y, c, bits, h, i) ==
  /\ IsFun(z) /\ DOMAIN z = 0 .. 31 /\ HoldsWords(z, FlsU(c, h), bits, i)
  /\ \A r \in 26 .. 31 : z[r] = y[r]

\* The loads of a group bring the words of the group.
LEMMA FlsLoads ==
  ASSUME NEW c \in 0 .. 15, NEW res \in 0 .. 15, job.col = c, job.res = res, NEW bits \in 1 .. 32,
         mem["in"] = FlsIn(bits), NEW h \in 0 .. 1, NEW i \in 0 .. 24, n_words(bits, i) <= WORD_REGS,
         NEW z, z = fls_loads(h, bits, i)
  PROVE  FlsLoaded(z, zmm, c, bits, h, i)
<1>1. PICK n \in Nat, g \in Nat : n = n_words(bits, i) /\ g = first_word(bits, i)
  BY LastWord
<1>2. n <= 10 /\ \A j \in 0 .. n - 1 : g + j \in 0 .. bits - 1
  BY <1>1, LastWord DEF WORD_REGS
<1>3. PICK low : low = [d \in 0 .. 31 |-> IF d < n THEN vloadunpackld(word_at(h, g + d), zmm[d]) ELSE zmm[d]]
  OBVIOUS
<1>4. z = [d \in 0 .. 31 |-> IF d < n THEN vloadunpackhd(word_hi(h, g + d), low[d]) ELSE low[d]]
  BY <1>1, <1>3, Zenon DEF fls_loads
<1>5. IsFun(z) /\ DOMAIN z = 0 .. 31
  <2>1. PICK f : f = [d \in 0 .. 31 |-> IF d < n THEN vloadunpackhd(word_hi(h, g + d), low[d]) ELSE low[d]]
    OBVIOUS
  <2> QED BY <1>4, Zenon DEF IsFun
<1>6. \A r \in 26 .. 31 : z[r] = zmm[r]
  <2>1. TAKE r \in 26 .. 31
  <2>2. r \in 0 .. 31 /\ ~(r < n)
    BY <1>2
  <2> QED BY <1>3, <1>4, <2>2, Zenon
<1>7. ASSUME NEW j \in 0 .. n - 1
      PROVE  z[j] = Plain(FlsU(c, h)[g + j]) /\ IsWord(FlsU(c, h)[g + j])
  <2>1. j \in 0 .. 31 /\ j < n
    BY <1>2
  <2>2. PICK w \in 0 .. bits - 1 : w = g + j
    BY <1>2, Zenon
  <2>3. vloadunpackhd(word_hi(h, w), vloadunpackld(word_at(h, w), zmm[j])) = Plain(FlsU(c, h)[w])
    BY LoadPair, ZenonT(60)
  <2>4. z[j] = vloadunpackhd(word_hi(h, w), vloadunpackld(word_at(h, w), zmm[j]))
    BY <1>3, <1>4, <2>1, <2>2, Zenon
  <2>5. w \in Nat
    OBVIOUS
  <2>6. FlsU(c, h)[w] = Word(32 * w + 16 * h + c)
    BY <2>5, Zenon DEF FlsU
  <2>7. IsWord(Word(32 * w + 16 * h + c))
    BY Zenon DEF Word, IsWord
  <2> QED BY <2>2, <2>3, <2>4, <2>6, <2>7, Zenon
<1> QED BY <1>1, <1>5, <1>6, <1>7, Zenon DEF HoldsWords, FlsLoaded

\* They read lines of the input only.
LEMMA FlsReads ==
  ASSUME NEW res \in 0 .. 15, job.res = res, NEW bits \in 1 .. 32, NEW h \in 0 .. 1, NEW i \in 0 .. 24
  PROVE  fls_lines(h, bits, i) \subseteq FlsLines(bits, res)
<1>1. PICK n \in Nat, g \in Nat : n = n_words(bits, i) /\ g = first_word(bits, i)
  BY LastWord
<1>2. \A j \in 0 .. n - 1 : g + j \in 0 .. bits - 1
  BY <1>1, LastWord
<1>3. ASSUME NEW w \in g .. g + n - 1 PROVE w \in 0 .. bits - 1
  <2>1. PICK j \in 0 .. n - 1 : w = g + j
    <3>1. w - g \in 0 .. n - 1 /\ w = g + (w - g)
      OBVIOUS
    <3> QED BY <3>1
  <2> QED BY <1>2, <2>1
<1>4. \A e \in 0 .. 32 * bits - 1 : LineOf(res + e) \in FlsLines(bits, res)
  BY DEF FlsLines
<1>5. ASSUME NEW w \in g .. g + n - 1
      PROVE  /\ LineOf(res + word_at(h, w)) \in FlsLines(bits, res)
             /\ res # 0 => LineOf(res + word_hi(h, w)) \in FlsLines(bits, res)
  <2>1. w \in 0 .. bits - 1
    BY <1>3
  <2>2. word_at(h, w) \in 0 .. 32 * bits - 1
    BY <2>1 DEF word_at
  <2>3. ASSUME res # 0 PROVE LineOf(res + word_hi(h, w)) \in FlsLines(bits, res)
    <3>1. word_at(h, w) + 15 \in 0 .. 32 * bits - 1
      BY <2>1 DEF word_at
    <3>2. LineOf(res + word_hi(h, w)) = LineOf(res + (word_at(h, w) + 15))
      <4>1. PICK q \in Nat : q = 2 * w + h /\ word_hi(h, w) = 16 * q + 16 /\ word_at(h, w) = 16 * q
        BY <2>1 DEF word_hi, word_at
      <4>2. (res + (16 * q + 16)) \div 16 = q + 1 /\ (res + (16 * q + 15)) \div 16 = q + 1
        BY <2>3, <4>1
      <4> QED BY <4>1, <4>2 DEF LineOf
    <3> QED BY <1>4, <3>1, <3>2, Zenon
  <2> QED BY <1>4, <2>2, <2>3, Zenon
<1>6. fls_lines(h, bits, i) =
        {LineOf(res + word_at(h, w)) : w \in g .. g + n - 1}
        \cup IF res = 0 THEN {} ELSE {LineOf(res + word_hi(h, w)) : w \in g .. g + n - 1}
  BY <1>1, Zenon DEF fls_lines
<1> QED BY <1>5, <1>6, Zenon

\* What the last two phases of a group execute.
AddTurn(bits, start) == [p \in 0 .. 7 |-> Vpaddd(temp(p, 1), base, result(bits, start, p))]
PutTurn(o) == [p \in 0 .. 8 - 1 |-> Store(<<"out", o[p]>>, temp(p, 1))]
Slots(h, start) == [p \in 0 .. 7 |-> 2 * (start + p) + h]
WithBase(x) == [plus |-> <<FlsBaseWord, x>>, minus |-> << >>]

\* The program of a group is its extraction and these.
LEMMA FlsGroupPhases ==
  ASSUME NEW h, NEW bits, NEW start
  PROVE  fls_group(h, bits, start) =
           ExtractGroup(bits, start) \o PhaseOf(8, 0 .. 7, AddTurn(bits, start)) \o Turns(8, PutTurn(Slots(h, start)))
<1>1. (\A k \in 1 .. 8 : k - 1 \in 0 .. 7) /\ 8 - 1 = 7
  OBVIOUS
<1>2. \A p \in 0 .. 7 : /\ AddTurn(bits, start)[p] = Vpaddd(temp(p, 1), base, result(bits, start, p))
                        /\ PutTurn(Slots(h, start))[p] = Store(<<"out", 2 * (start + p) + h>>, temp(p, 1))
  BY <1>1, Zenon DEF AddTurn, PutTurn, Slots
<1>3. [k \in 1 .. 8 |-> <<Vpaddd(temp(k - 1, 1), base, result(bits, start, k - 1))>>]
      = [k \in 1 .. 8 |-> When(k - 1 \in 0 .. 7, AddTurn(bits, start)[k - 1])]
  <2>1. \A p \in 0 .. 7 : <<Vpaddd(temp(p, 1), base, result(bits, start, p))>> = When(p \in 0 .. 7, AddTurn(bits, start)[p])
    BY <1>2, Zenon DEF When
  <2> QED BY <1>1, <2>1, Zenon
<1>4. [k \in 1 .. 8 |-> <<Store(<<"out", 2 * (start + (k - 1)) + h>>, temp(k - 1, 1))>>]
      = [k \in 1 .. 8 |-> <<PutTurn(Slots(h, start))[k - 1]>>]
  BY <1>1, <1>2, Zenon
<1> QED BY <1>3, <1>4, Zenon DEF fls_group, Loop, PhaseOf, Turns, GROUP

\* The base is added.
LEMMA SumOf ==
  ASSUME NEW z, NEW a, NEW b, NEW x, z[a] = Plain(FlsBaseWord), z[b] = Plain(x)
  PROVE  [plus |-> z[a].plus \o z[b].plus, minus |-> z[a].minus \o z[b].minus] = WithBase(x)
<1>1. PICK w : w = FlsBaseWord
  OBVIOUS
<1>2. z[a].plus = <<w>> /\ z[a].minus = << >> /\ z[b].plus = <<x>> /\ z[b].minus = << >>
  BY <1>1 DEF Plain
<1>3. <<w>> \o <<x>> = <<w, x>>
  <2>1. PICK T : w \in T /\ x \in T
    <3>1. w \in {w, x} /\ x \in {w, x}
      OBVIOUS
    <3> QED BY <3>1
  <2>2. PICK f, g : f = <<w>> /\ g = <<w>> \o <<x>>
    OBVIOUS
  <2>3. f \in Seq(T) /\ Len(f) = 1 /\ f[1] = w
    BY <2>1, <2>2
  <2>4. g \in Seq(T) /\ Len(g) = 2 /\ g[2] = x /\ g[1] = w
    BY <2>1, <2>2, <2>3
  <2>5. g = <<g[1], g[2]>>
    BY <2>4
  <2> QED BY <2>2, <2>4, <2>5, Zenon
<1>4. << >> \o << >> = << >>
  OBVIOUS
<1> QED BY <1>1, <1>2, <1>3, <1>4, Zenon DEF WithBase

\* A loop of stores into the output.
LEMMA OutTurns ==
  ASSUME NEW y, NEW m, IsFun(m), "out" \in DOMAIN m, IsFun(m["out"]), NEW n \in Nat, NEW d, NEW o, NEW v,
         Saves(n, y, m["out"], d, o, v), NEW e, e = [k \in 0 .. n - 1 |-> Store(<<"out", o[k]>>, d[k])]
  PROVE  Does(Cpu(y, m), Turns(n, e), Cpu(y, Stored(m, "out", Cells(n, o), v)))
<1>1. PICK T : T = {e[k] : k \in 0 .. n - 1}
  OBVIOUS
<1>2. Emits(n, T, e)
  BY <1>1 DEF Emits
<1>3. PICK bank : bank = "out"
  OBVIOUS
<1>4. bank \in DOMAIN m /\ IsFun(m[bank]) /\ Saves(n, y, m[bank], d, o, v)
  BY <1>3, Zenon
<1>5. e = [k \in 0 .. n - 1 |-> Store(<<bank, o[k]>>, d[k])]
  BY <1>3, Zenon
<1>6. /\ Turns(n, e) \in Seq(T)
      /\ RunEnds(Cpu(y, m), Turns(n, e), Cpu(y, Stored(m, bank, Cells(n, o), v)))
  BY <1>2, <1>4, <1>5, StoreTurns
<1> QED BY <1>3, <1>6, Zenon DEF Does, IsProgram, RunEnds

Sums(v, u, bits, start, o) == \A p \in 0 .. 7 : v[o[p]] = WithBase(Scalar(u, bits, start + p))
OutFits(o) == \A p \in 0 .. 7 : o[p] \in 0 .. 63
\* A group is run: y is what z becomes, and the words o of the output hold v.
Grouped(y, z, m, p, o, v) ==
  /\ IsFun(y) /\ DOMAIN y = 0 .. 31 /\ (\A r \in 26 .. 31 : y[r] = z[r])
  /\ Does(Cpu(z, m), p, Cpu(y, Stored(m, "out", Cells(8, o), v)))

\* What a group does.
LEMMA FlsGroupRuns ==
  ASSUME NEW z, IsFun(z), DOMAIN z = 0 .. 31, NEW m, IsFun(m), "out" \in DOMAIN m, IsFun(m["out"]), DOMAIN m["out"] = 0 .. 63,
         NEW u, NEW bits \in 1 .. 32, NEW start \in Nat, NEW h,
         n_words(bits, start) <= WORD_REGS, HoldsWords(z, u, bits, start), z[base] = Plain(FlsBaseWord),
         bits < 32 => z[maskreg] = Plain(mask_constants(bits)),
         NEW o, o = Slots(h, start), OutFits(o), NEW v, Sums(v, u, bits, start, o)
  PROVE  \E y : Grouped(y, z, m, fls_group(h, bits, start), o, v)
<1>1. PICK y1 : Extracted(y1, z, u, bits, start) /\ Does(Cpu(z, m), ExtractGroup(bits, start), Cpu(y1, m))
  BY ExtractRuns
<1>2. /\ IsFun(y1) /\ DOMAIN y1 = 0 .. 31 /\ (\A r \in Outside : y1[r] = z[r])
      /\ \A p \in 0 .. 7 : y1[result(bits, start, p)] = Plain(Scalar(u, bits, start + p))
  BY <1>1, Zenon DEF Extracted
<1>3. PICK d, q, x : /\ d = [p \in 0 .. 7 |-> temp(p, 1)] /\ q = [p \in 0 .. 7 |-> result(bits, start, p)]
                     /\ x = [p \in 0 .. 7 |-> Scalar(u, bits, start + p)]
  OBVIOUS
<1>4. \A p \in 0 .. 7 : d[p] = temp(p, 1) /\ q[p] = result(bits, start, p) /\ x[p] = Scalar(u, bits, start + p)
  BY <1>3, Zenon
<1>5. /\ \A p \in 0 .. 7 : d[p] \in 11 .. 25 /\ d[p] \in 10 .. 25 /\ d[p] \in 0 .. 31
      /\ \A p, k \in 0 .. 7 : (p # k => d[p] # d[k]) /\ q[p] # d[k] /\ q[p] \in 0 .. 31 /\ 26 # d[k]
      /\ base = 26
  <2>1. /\ \A p \in 0 .. 7 : temp(p, 0) \in 10 .. 24 /\ temp(p, 1) \in 11 .. 25
        /\ \A p, k \in 0 .. 7 : (p # k => temp(p, 1) # temp(k, 1)) /\ temp(p, 0) # temp(k, 1)
        /\ base = 26
    BY Temps
  <2>2. ASSUME NEW p \in 0 .. 7 PROVE q[p] = temp(p, 0) \/ q[p] \in 0 .. 7
    <3>1. CASE bits = 32
      <4>1. q[p] = place(bits, start + p).w - first_word(bits, start)
        BY <1>4, <3>1, Zenon DEF result
      <4>2. place(bits, start + p).w - first_word(bits, start) = p
        BY <3>1, GroupPlaces, Zenon
      <4> QED BY <4>1, <4>2, Zenon
    <3>2. CASE bits # 32
      BY <1>4, <3>2, Zenon DEF result
    <3> QED BY <3>1, <3>2
  <2>3. \A p \in 0 .. 7 : d[p] \in 11 .. 25
    BY <1>4, <2>1, Zenon
  <2>4. ASSUME NEW p \in 0 .. 7, NEW k \in 0 .. 7, p # k PROVE d[p] # d[k]
    <3>1. temp(p, 1) # temp(k, 1) /\ d[p] = temp(p, 1) /\ d[k] = temp(k, 1)
      BY <1>4, <2>1, <2>4, Zenon
    <3> QED BY <3>1
  <2>5. \A p, k \in 0 .. 7 : temp(p, 0) # d[k] /\ temp(p, 0) \in 10 .. 24
    BY <1>4, <2>1, Zenon
  <2>6. \A p, k \in 0 .. 7 : q[p] # d[k] /\ q[p] \in 0 .. 31 /\ 26 # d[k]
    BY <2>2, <2>3, <2>5
  <2> QED BY <2>1, <2>3, <2>4, <2>6
<1>6. y1[26] = Plain(FlsBaseWord) /\ \A p \in 0 .. 7 : y1[q[p]] = Plain(x[p])
  <2>1. 26 \in Outside
    BY DEF Outside
  <2>2. y1[26] = z[26]
    BY <1>2, <2>1, Zenon
  <2>3. z[26] = Plain(FlsBaseWord)
    BY <1>5
  <2>4. ASSUME NEW p \in 0 .. 7 PROVE y1[q[p]] = Plain(x[p])
    <3>1. y1[result(bits, start, p)] = Plain(Scalar(u, bits, start + p))
      BY <1>2, Zenon
    <3>2. q[p] = result(bits, start, p) /\ x[p] = Scalar(u, bits, start + p)
      BY <1>4, Zenon
    <3> QED BY <3>1, <3>2, Zenon
  <2> QED BY <2>2, <2>3, <2>4
<1>7. PICK i, w : i = AddTurn(bits, start) /\ w = [p \in 0 .. 7 |-> WithBase(x[p])]
  OBVIOUS
<1>8. \A p \in 0 .. 7 : i[p] = Vpaddd(d[p], 26, q[p]) /\ w[p] = WithBase(x[p])
  BY <1>4, <1>5, <1>7, Zenon DEF AddTurn
<1>9. PICK y : Phase(y, y1, 0 .. 7, d, w) /\ Does(Cpu(y1, m), PhaseOf(8, 0 .. 7, i), Cpu(y, m))
  <2>1. Computes(8, y1, m, 0 .. 7, i, d, w)
    <3> SUFFICES ASSUME NEW p \in 0 .. 7
                 PROVE  /\ i[p].op # "store" /\ i[p].d = d[p] /\ d[p] \in DOMAIN y1
                        /\ \A y : Phase(y, y1, (0 .. 7) \cap (0 .. p - 1), d, w) => Result(y, m, i[p]) = w[p]
      BY Zenon DEF Computes
    <3>1. i[p] = Vpaddd(d[p], 26, q[p])
      BY <1>8, Zenon
    <3>2. i[p].op # "store" /\ i[p].d = d[p] /\ d[p] \in DOMAIN y1
      <4>1. Gets(Vpaddd(d[p], 26, q[p]), d[p], y1, m,
                 [plus |-> y1[26].plus \o y1[q[p]].plus, minus |-> y1[26].minus \o y1[q[p]].minus])
        BY AddGets
      <4> QED BY <1>2, <1>5, <3>1, <4>1, Zenon DEF Gets
    <3>3. ASSUME NEW y, Phase(y, y1, (0 .. 7) \cap (0 .. p - 1), d, w) PROVE Result(y, m, i[p]) = w[p]
      <4>1. \A r \in 0 .. 31 : (\A k \in (0 .. 7) \cap (0 .. p - 1) : r # d[k]) => y[r] = y1[r]
        BY <1>2, <3>3, Zenon DEF Phase
      <4>2. 26 \in 0 .. 31
        OBVIOUS
      <4>3. y[26] = y1[26] /\ y[q[p]] = y1[q[p]]
        BY <1>5, <4>1, <4>2, Zenon
      <4>4. y[26] = Plain(FlsBaseWord) /\ y[q[p]] = Plain(x[p])
        BY <1>6, <4>3, Zenon
      <4>5. [plus |-> y[26].plus \o y[q[p]].plus, minus |-> y[26].minus \o y[q[p]].minus] = WithBase(x[p])
        <5>1. PICK a, b, t : a = 26 /\ b = q[p] /\ t = x[p]
          OBVIOUS
        <5>2. y[a] = Plain(FlsBaseWord) /\ y[b] = Plain(t)
          BY <4>4, <5>1, Zenon
        <5>3. [plus |-> y[a].plus \o y[b].plus, minus |-> y[a].minus \o y[b].minus] = WithBase(t)
          BY <5>2, SumOf
        <5> QED BY <5>1, <5>3, Zenon
      <4>6. Gets(Vpaddd(d[p], 26, q[p]), d[p], y, m,
                 [plus |-> y[26].plus \o y[q[p]].plus, minus |-> y[26].minus \o y[q[p]].minus])
        BY AddGets
      <4> QED BY <1>8, <3>1, <4>5, <4>6, Zenon DEF Gets
    <3> QED BY <3>2, <3>3
  <2>2. Apart(0 .. 7, d)
    BY <1>5, Zenon DEF Apart
  <2>3. 8 \in Nat /\ 0 .. 7 \in SUBSET (0 .. 8 - 1)
    OBVIOUS
  <2>4. Phased(y1, m, PhaseOf(8, 0 .. 7, i), 0 .. 7, d, w)
    BY <1>2, <2>1, <2>2, <2>3, PhaseRuns
  <2> QED BY <2>4, Zenon DEF Phased
<1>10. /\ IsFun(y) /\ DOMAIN y = 0 .. 31 /\ (\A p \in 0 .. 7 : y[d[p]] = w[p]) /\ (\A r \in 26 .. 31 : y[r] = z[r])
  <2>1. /\ IsFun(y) /\ DOMAIN y = 0 .. 31 /\ (\A p \in 0 .. 7 : y[d[p]] = w[p])
        /\ \A r \in 0 .. 31 : (\A k \in 0 .. 7 : r # d[k]) => y[r] = y1[r]
    BY <1>2, <1>9, Zenon DEF Phase
  <2>2. \A r \in 26 .. 31 : r \in 0 .. 31 /\ r \in Outside /\ \A k \in 0 .. 7 : r # d[k]
    BY <1>5 DEF Outside
  <2> QED BY <1>2, <2>1, <2>2, Zenon
<1>11. PICK e : e = [k \in 0 .. 8 - 1 |-> Store(<<"out", o[k]>>, d[k])]
  OBVIOUS
<1>12. PutTurn(o) = e
  <2>1. 8 - 1 = 7
    OBVIOUS
  <2> QED BY <1>4, <1>11, <2>1, Zenon DEF PutTurn
<1>15. Saves(8, y, m["out"], d, o, v)
  <2>1. 8 - 1 = 7
    OBVIOUS
  <2>2. \A p \in 0 .. 7 : v[o[p]] = WithBase(x[p])
    BY <1>4, Zenon DEF Sums
  <2>3. \A p \in 0 .. 7 : o[p] \in DOMAIN m["out"]
    BY Zenon DEF OutFits
  <2>4. \A p \in 0 .. 7 : v[o[p]] = y[d[p]]
    BY <1>8, <1>10, <2>2, Zenon
  <2> QED BY <2>1, <2>3, <2>4, Zenon DEF Saves
<1>17. Does(Cpu(y, m), Turns(8, e), Cpu(y, Stored(m, "out", Cells(8, o), v)))
  <2>1. 8 \in Nat
    OBVIOUS
  <2> QED BY <1>11, <1>15, <2>1, OutTurns
<1>18. PICK a, b, c : a = ExtractGroup(bits, start) /\ b = PhaseOf(8, 0 .. 7, i) /\ c = Turns(8, e)
  OBVIOUS
<1>19. PICK s0, s1, s2, s3 : s0 = Cpu(z, m) /\ s1 = Cpu(y1, m) /\ s2 = Cpu(y, m) /\ s3 = Cpu(y, Stored(m, "out", Cells(8, o), v))
  OBVIOUS
<1>20. Does(s0, a, s1) /\ Does(s1, b, s2)
  BY <1>1, <1>9, <1>18, <1>19, Zenon
<1>21. Does(s2, c, s3)
  BY <1>17, <1>18, <1>19, Zenon
<1>22. Does(s0, a \o b, s2)
  BY <1>20, DoesBoth
<1>23. Does(s0, (a \o b) \o c, s3)
  BY <1>21, <1>22, DoesBoth
<1>24. fls_group(h, bits, start) = (a \o b) \o c
  <2>1. fls_group(h, bits, start) =
           ExtractGroup(bits, start) \o PhaseOf(8, 0 .. 7, AddTurn(bits, start)) \o Turns(8, PutTurn(Slots(h, start)))
    BY FlsGroupPhases
  <2> QED BY <1>7, <1>12, <1>18, <2>1, Zenon
<1> QED BY <1>10, <1>19, <1>23, <1>24, Zenon DEF Grouped

\* The memory of a call as a record.
LEMMA FlsMemory ==
  ASSUME NEW bits, NEW out, NEW m, m = FlsMem(bits, out), NEW W, NEW v
  PROVE  /\ IsFun(m) /\ "out" \in DOMAIN m /\ m["out"] = out /\ m.out = out /\ m["in"] = FlsIn(bits)
         /\ Fetch(m, <<"base", 0>>) = Plain(FlsBaseWord) /\ Fetch(m, <<"mask", 0>>) = Plain(mask_constants(bits))
         /\ Stored(m, "out", W, v) = FlsMem(bits, Loaded(out, W, v))
<1>1. PICK a, b, c : a = FlsIn(bits) /\ b = [k \in {0} |-> Plain(FlsBaseWord)] /\ c = [k \in {0} |-> Plain(mask_constants(bits))]
  OBVIOUS
<1>2. m = [in |-> a, out |-> out, base |-> b, mask |-> c]
  BY <1>1, Zenon DEF FlsMem
<1>3. /\ DOMAIN m = {"in", "out", "base", "mask"} /\ m["in"] = a /\ m["out"] = out /\ m["base"] = b /\ m["mask"] = c
      /\ m.out = out
  BY <1>2
<1>4. IsFun(m)
  BY <1>2 DEF IsFun
<1>5. Stored(m, "out", W, v) = [in |-> a, out |-> Loaded(out, W, v), base |-> b, mask |-> c]
  BY <1>3 DEF Stored
<1>6. DOMAIN b = {0} /\ DOMAIN c = {0} /\ b[0] = Plain(FlsBaseWord) /\ c[0] = Plain(mask_constants(bits))
  BY <1>1, Zenon
<1>7. Fetch(m, <<"base", 0>>) = b[0] /\ Fetch(m, <<"mask", 0>>) = c[0]
  BY <1>3, <1>6 DEF Fetch
<1>8. Stored(m, "out", W, v) = FlsMem(bits, Loaded(out, W, v))
  BY <1>1, <1>5, Zenon DEF FlsMem
<1> QED BY <1>1, <1>3, <1>4, <1>6, <1>7, <1>8, Zenon

FlsReady(bits, z, i) ==
  /\ bits <= 32 /\ z[base] = Plain(FlsBaseWord)
  /\ bits \in 1 .. 31 => z[maskreg] = Plain(mask_constants(bits))
  /\ bits = 0 => i = 32

\* The invariant from its parts.
LEMMA FlsKept ==
  ASSUME NEW bits \in 0 .. 33, NEW c \in 0 .. 15, NEW res \in 0 .. 15, NEW lines, lines \subseteq FlsLines(bits, res),
         NEW st \in {"call", "refused", "unffor"}, NEW i \in {0, 8, 16, 24, 32}, NEW h \in 0 .. 1, NEW z, NEW out,
         job' = FlsJob(bits, c, res, lines), pc' = [stage |-> st, i |-> i, round |-> h],
         zmm' = z, mem' = FlsMem(bits, out), st = "call" => i = 0 /\ h = 0, IsFun(z), DOMAIN z = 0 .. 31,
         st # "unffor" => FlsOut(out, bits, c, FALSE, i, h),
         st = "unffor" => FlsOut(out, bits, c, TRUE, i, h) /\ FlsReady(bits, z, i)
  PROVE  FlsInv'
<1>1. job'.bits = bits /\ job'.col = c /\ job'.res = res /\ job'.lines = lines
  BY DEF FlsJob
<1>2. pc'.stage = st /\ pc'.i = i /\ pc'.round = h
  OBVIOUS
<1>3. mem'.out = out
  BY FlsMemory
<1>4. FlsOut(mem.out, job.bits, job.col, pc.stage = "unffor", pc.i, pc.round)'
  <2>1. CASE st = "unffor"
    <3>1. /\ IsFun(out) /\ DOMAIN out = 0 .. 63
          /\ \A p \in 0 .. 31, r \in 0 .. 1 :
               out[2 * p + r] = IF FlsStored(i, h, p, r) THEN FlsFinal(bits, c, p, r) ELSE Unwritten
      BY <2>1, Zenon DEF FlsOut
    <3>2. pc'.stage = "unffor"
      BY <1>2, <2>1, Zenon
    <3> QED BY <1>1, <1>2, <1>3, <3>1, <3>2 DEF FlsOut
  <2>2. CASE st # "unffor"
    <3>1. /\ IsFun(out) /\ DOMAIN out = 0 .. 63
          /\ \A p \in 0 .. 31, r \in 0 .. 1 : out[2 * p + r] = Unwritten
      BY <2>2, Zenon DEF FlsOut
    <3>2. pc'.stage # "unffor"
      BY <1>2, <2>2, Zenon
    <3> QED BY <1>1, <1>2, <1>3, <3>1, <3>2 DEF FlsOut
  <2> QED BY <2>1, <2>2
<1>5. st = "unffor" => /\ bits <= 32 /\ z[base] = Plain(FlsBaseWord)
                       /\ bits \in 1 .. 31 => z[maskreg] = Plain(mask_constants(bits))
                       /\ bits = 0 => i = 32
  BY Zenon DEF FlsReady
<1> QED BY <1>1, <1>2, <1>3, <1>4, <1>5, Zenon DEF FlsInv

\* The slots as a whole.
FlsValues(bits, c) == [k \in 0 .. 63 |-> FlsFinal(bits, c, k \div 2, k % 2)]

\* Slot by slot.
LEMMA FlsValue ==
  ASSUME NEW bits, NEW c, NEW p \in 0 .. 31, NEW h \in 0 .. 1
  PROVE  2 * p + h \in 0 .. 63 /\ FlsValues(bits, c)[2 * p + h] = FlsFinal(bits, c, p, h)
<1>1. PICK k \in 0 .. 63 : k = 2 * p + h
  OBVIOUS
<1>2. k \div 2 = p /\ k % 2 = h
  BY <1>1
<1>3. FlsValues(bits, c)[k] = FlsFinal(bits, c, p, h)
  BY <1>2, Zenon DEF FlsValues
<1> QED BY <1>1, <1>3, Zenon

FlsNextI(i, h) == IF i + 8 = 32 /\ h = 0 THEN 0 ELSE i + 8
FlsNextRound(i, h) == IF i + 8 = 32 /\ h = 0 THEN 1 ELSE h

\* The slots of a group are the ones between two places of the kernel.
LEMMA FlsSlots ==
  ASSUME NEW i \in {0, 8, 16, 24}, NEW h \in 0 .. 1, NEW p \in 0 .. 31, NEW g \in 0 .. 1
  PROVE  /\ 2 * p + g \in Cells(8, Slots(h, i)) <=> (g = h /\ i <= p /\ p < i + 8)
         /\ FlsStored(FlsNextI(i, h), FlsNextRound(i, h), p, g)
              <=> FlsStored(i, h, p, g) \/ (g = h /\ i <= p /\ p < i + 8)
<1>1. 8 - 1 = 7
  OBVIOUS
<1>2. 2 * p + g \in Cells(8, Slots(h, i)) <=> \E k \in 0 .. 7 : 2 * p + g = Slots(h, i)[k]
  BY <1>1, Zenon DEF Cells
<1>3. \A k \in 0 .. 7 : Slots(h, i)[k] = 2 * (i + k) + h
  BY Zenon DEF Slots
<1>4. ASSUME NEW k \in 0 .. 7, 2 * p + g = 2 * (i + k) + h PROVE g = h /\ i <= p /\ p < i + 8
  <2>1. i \in Nat
    OBVIOUS
  <2> QED BY <1>4, <2>1
<1>5. ASSUME g = h, i <= p, p < i + 8 PROVE \E k \in 0 .. 7 : 2 * p + g = 2 * (i + k) + h
  <2>1. i \in Nat
    OBVIOUS
  <2>2. p - i \in 0 .. 7 /\ 2 * p + g = 2 * (i + (p - i)) + h
    BY <1>5, <2>1
  <2> QED BY <2>2
<1>6. 2 * p + g \in Cells(8, Slots(h, i)) <=> (g = h /\ i <= p /\ p < i + 8)
  BY <1>2, <1>3, <1>4, <1>5, Zenon
<1>7. FlsStored(FlsNextI(i, h), FlsNextRound(i, h), p, g)
              <=> FlsStored(i, h, p, g) \/ (g = h /\ i <= p /\ p < i + 8)
  BY DEF FlsStored, FlsNextI, FlsNextRound
<1> QED BY <1>6, <1>7

\* The output after a group.
LEMMA FlsGroupStored ==
  ASSUME NEW bits, NEW c, NEW i \in {0, 8, 16, 24}, NEW h \in 0 .. 1, NEW out, FlsOut(out, bits, c, TRUE, i, h),
         NEW g, g = Loaded(out, Cells(8, Slots(h, i)), FlsValues(bits, c))
  PROVE  FlsOut(g, bits, c, TRUE, FlsNextI(i, h), FlsNextRound(i, h))
<1>1. /\ IsFun(out) /\ DOMAIN out = 0 .. 63
      /\ \A p \in 0 .. 31, r \in 0 .. 1 :
           out[2 * p + r] = IF FlsStored(i, h, p, r) THEN FlsFinal(bits, c, p, r) ELSE Unwritten
  BY Zenon DEF FlsOut
<1>2. PICK W, v : W = Cells(8, Slots(h, i)) /\ v = FlsValues(bits, c)
  OBVIOUS
<1>3. g = [k \in 0 .. 63 |-> IF k \in W THEN v[k] ELSE out[k]]
  BY <1>1, <1>2, Zenon DEF Loaded
<1>4. IsFun(g) /\ DOMAIN g = 0 .. 63
  BY <1>3, Zenon DEF IsFun
<1>5. ASSUME NEW p \in 0 .. 31, NEW r \in 0 .. 1
      PROVE  g[2 * p + r] = IF FlsStored(FlsNextI(i, h), FlsNextRound(i, h), p, r) THEN FlsFinal(bits, c, p, r) ELSE Unwritten
  <2>1. 2 * p + r \in 0 .. 63 /\ FlsValues(bits, c)[2 * p + r] = FlsFinal(bits, c, p, r)
    BY FlsValue
  <2>2. /\ 2 * p + r \in Cells(8, Slots(h, i)) <=> (r = h /\ i <= p /\ p < i + 8)
        /\ FlsStored(FlsNextI(i, h), FlsNextRound(i, h), p, r)
              <=> FlsStored(i, h, p, r) \/ (r = h /\ i <= p /\ p < i + 8)
    BY FlsSlots
  <2>3. FlsStored(FlsNextI(i, h), FlsNextRound(i, h), p, r) <=> FlsStored(i, h, p, r) \/ 2 * p + r \in W
    BY <1>2, <2>2, Zenon
  <2>4. g[2 * p + r] = IF 2 * p + r \in W THEN FlsFinal(bits, c, p, r) ELSE out[2 * p + r]
    BY <1>2, <1>3, <2>1, Zenon
  <2> QED BY <1>1, <2>3, <2>4, Zenon
<1> QED BY <1>4, <1>5, Zenon DEF FlsOut

\* A step of the kernel keeps the invariant.
LEMMA FlsStepKeeps ==
  ASSUME FlsInv, FlsStep PROVE FlsInv'
<1>1. PICK bits, c, res, lines, i, h, out :
        /\ bits = job.bits /\ c = job.col /\ res = job.res /\ lines = job.lines /\ i = pc.i /\ h = pc.round /\ out = mem.out
  OBVIOUS
<1>2. /\ pc.stage = "unffor" /\ pc.i < 32 /\ n_words(bits, i) <= WORD_REGS
      /\ Execute(fls_loads(h, bits, i), fls_group(h, bits, i))
      /\ job' = [job EXCEPT !.lines = @ \cup fls_lines(h, bits, i)]
      /\ pc' = IF pc.i + 8 = 32 /\ pc.round = 0 THEN [pc EXCEPT !.i = 0, !.round = 1] ELSE [pc EXCEPT !.i = @ + 8]
  BY <1>1, Zenon DEF FlsStep, FLS_POSITIONS, GROUP
<1>3. /\ bits \in 0 .. 33 /\ c \in 0 .. 15 /\ res \in 0 .. 15 /\ job = FlsJob(bits, c, res, lines)
      /\ lines \subseteq FlsLines(bits, res) /\ h \in 0 .. 1 /\ i \in {0, 8, 16, 24, 32}
      /\ pc = [stage |-> pc.stage, i |-> i, round |-> h]
      /\ mem = FlsMem(bits, out) /\ FlsOut(out, bits, c, pc.stage = "unffor", i, h)
  BY <1>1, Zenon DEF FlsInv
<1>4. /\ bits <= 32 /\ zmm[base] = Plain(FlsBaseWord) /\ (bits \in 1 .. 31 => zmm[maskreg] = Plain(mask_constants(bits)))
      /\ (bits = 0 => i = 32)
  BY <1>1, <1>2, Zenon DEF FlsInv
<1>5. i \in {0, 8, 16, 24} /\ i \in 0 .. 24 /\ i \in Nat /\ bits \in 1 .. 32
  BY <1>1, <1>2, <1>3, <1>4
<1>6. FlsOut(out, bits, c, TRUE, i, h)
  BY <1>2, <1>3, Zenon DEF FlsOut
<1>7. PICK m, z : m = mem /\ z = fls_loads(h, bits, i)
  OBVIOUS
<1>8. PICK o, v : o = Slots(h, i) /\ v = FlsValues(bits, c)
  OBVIOUS
<1>9. /\ IsFun(m) /\ "out" \in DOMAIN m /\ m["out"] = out /\ m["in"] = FlsIn(bits)
      /\ Stored(m, "out", Cells(8, o), v) = FlsMem(bits, Loaded(out, Cells(8, o), v))
  BY <1>3, <1>7, FlsMemory
<1>10. IsFun(m["out"]) /\ DOMAIN m["out"] = 0 .. 63
  BY <1>6, <1>9, Zenon DEF FlsOut
<1>11. /\ IsFun(z) /\ DOMAIN z = 0 .. 31 /\ HoldsWords(z, FlsU(c, h), bits, i)
       /\ \A r \in 26 .. 31 : z[r] = zmm[r]
  <2>1. mem["in"] = FlsIn(bits)
    BY <1>7, <1>9, Zenon
  <2>2. job.col = c /\ job.res = res /\ n_words(bits, i) <= WORD_REGS /\ c \in 0 .. 15 /\ res \in 0 .. 15 /\ h \in 0 .. 1
    BY <1>1, <1>2, <1>3
  <2>3. FlsLoaded(z, zmm, c, bits, h, i)
    BY <1>5, <1>7, <2>1, <2>2, FlsLoads, Zenon
  <2> QED BY <2>3, Zenon DEF FlsLoaded
<1>12. base = 26 /\ maskreg = 30 /\ base \in 26 .. 31 /\ maskreg \in 26 .. 31
  BY DEF base, maskreg
<1>13. z[base] = Plain(FlsBaseWord) /\ (bits < 32 => z[maskreg] = Plain(mask_constants(bits)))
  <2>1. bits < 32 => bits \in 1 .. 31
    BY <1>5
  <2> QED BY <1>4, <1>11, <1>12, <2>1, Zenon
<1>14. \A p \in 0 .. 7 : i + p \in 0 .. 31 /\ o[p] = 2 * (i + p) + h
  <2>1. \A p \in 0 .. 7 : i + p \in 0 .. 31
    BY <1>5
  <2> QED BY <1>8, <2>1, Zenon DEF Slots
<1>15. \A p \in 0 .. 7 : o[p] \in 0 .. 63 /\ v[o[p]] = FlsFinal(bits, c, i + p, h)
  <2>1. \A q \in 0 .. 31 : 2 * q + h \in 0 .. 63 /\ v[2 * q + h] = FlsFinal(bits, c, q, h)
    BY <1>3, <1>8, FlsValue
  <2> QED BY <1>14, <2>1, Zenon
<1>16. OutFits(o)
  BY <1>15, Zenon DEF OutFits
<1>17. Sums(v, FlsU(c, h), bits, i, o)
  <2>1. bits # 0
    BY <1>5
  <2>2. \A p \in 0 .. 7 : FlsFinal(bits, c, i + p, h) = WithBase(Scalar(FlsU(c, h), bits, i + p))
    BY <2>1, Zenon DEF FlsFinal, WithBase
  <2> QED BY <1>15, <2>2, Zenon DEF Sums
<1>18. PICK y : Grouped(y, z, m, fls_group(h, bits, i), o, v)
  <2>1. PICK u : u = FlsU(c, h)
    OBVIOUS
  <2>2. HoldsWords(z, u, bits, i) /\ Sums(v, u, bits, i, o)
    BY <1>11, <1>17, <2>1, Zenon
  <2> QED BY <1>2, <1>5, <1>8, <1>9, <1>10, <1>11, <1>13, <1>16, <2>2, FlsGroupRuns
<1>19. PICK g : g = Loaded(out, Cells(8, o), v)
  OBVIOUS
<1>20. /\ IsFun(y) /\ DOMAIN y = 0 .. 31 /\ (\A r \in 26 .. 31 : y[r] = z[r])
       /\ RunFrom(Cpu(z, m), fls_group(h, bits, i)) = Cpu(y, FlsMem(bits, g))
  BY <1>9, <1>18, <1>19, Zenon DEF Grouped, Does
<1>21. zmm' = y /\ mem' = FlsMem(bits, g)
  <2>1. PICK s : s = RunFrom([zmm |-> z, mem |-> mem], fls_group(h, bits, i))
    OBVIOUS
  <2>2. zmm' = s.zmm /\ mem' = s.mem
    BY <1>2, <1>7, <2>1, Zenon DEF Execute
  <2>3. s = Cpu(y, FlsMem(bits, g))
    BY <1>7, <1>20, <2>1, Zenon DEF Cpu
  <2>4. s.zmm = y /\ s.mem = FlsMem(bits, g)
    BY <2>3 DEF Cpu
  <2> QED BY <2>2, <2>4, Zenon
<1>22. FlsOut(g, bits, c, TRUE, FlsNextI(i, h), FlsNextRound(i, h))
  BY <1>3, <1>5, <1>6, <1>8, <1>19, FlsGroupStored
<1>23. PICK i2, h2 : i2 = FlsNextI(i, h) /\ h2 = FlsNextRound(i, h)
  OBVIOUS
<1>24. i2 \in {0, 8, 16, 24, 32} /\ h2 \in 0 .. 1
  BY <1>3, <1>5, <1>23 DEF FlsNextI, FlsNextRound
<1>25. pc' = [stage |-> "unffor", i |-> i2, round |-> h2]
  <2>1. pc = [stage |-> "unffor", i |-> i, round |-> h]
    BY <1>2, <1>3
  <2>2. CASE i + 8 = 32 /\ h = 0
    <3>1. pc' = [pc EXCEPT !.i = 0, !.round = 1] /\ i2 = 0 /\ h2 = 1
      BY <1>1, <1>2, <1>23, <2>2, Zenon DEF FlsNextI, FlsNextRound
    <3> QED BY <2>1, <3>1
  <2>3. CASE ~(i + 8 = 32 /\ h = 0)
    <3>1. pc' = [pc EXCEPT !.i = @ + 8] /\ i2 = i + 8 /\ h2 = h
      BY <1>1, <1>2, <1>23, <2>3, Zenon DEF FlsNextI, FlsNextRound
    <3> QED BY <2>1, <3>1
  <2> QED BY <2>2, <2>3
<1>26. PICK lines2 : lines2 = lines \cup fls_lines(h, bits, i)
  OBVIOUS
<1>27. lines2 \subseteq FlsLines(bits, res)
  <2>1. fls_lines(h, bits, i) \subseteq FlsLines(bits, res)
    BY <1>1, <1>3, <1>5, FlsReads, Zenon
  <2> QED BY <1>3, <1>26, <2>1
<1>28. job' = FlsJob(bits, c, res, lines2)
  <2>1. PICK l : l = fls_lines(h, bits, i)
    OBVIOUS
  <2>2. job' = [job EXCEPT !.lines = @ \cup l] /\ lines2 = lines \cup l
    BY <1>2, <1>26, <2>1, Zenon
  <2> QED BY <1>3, <2>2 DEF FlsJob
<1>29. FlsReady(bits, y, i2)
  <2>1. y[base] = z[base] /\ y[maskreg] = z[maskreg]
    BY <1>12, <1>20, Zenon
  <2>2. bits # 0 /\ (bits \in 1 .. 31 => bits < 32)
    BY <1>5
  <2> QED BY <1>4, <1>13, <2>1, <2>2, Zenon DEF FlsReady
<1>30. FlsOut(g, bits, c, TRUE, i2, h2)
  BY <1>22, <1>23, Zenon
<1>31. PICK st : st = "unffor"
  OBVIOUS
<1>32. /\ st \in {"call", "refused", "unffor"} /\ (st = "call" => i2 = 0 /\ h2 = 0)
       /\ (st # "unffor" => FlsOut(g, bits, c, FALSE, i2, h2))
  BY <1>31
<1>33. pc' = [stage |-> st, i |-> i2, round |-> h2] /\ (st = "unffor" => FlsOut(g, bits, c, TRUE, i2, h2) /\ FlsReady(bits, y, i2))
  BY <1>25, <1>29, <1>30, <1>31, Zenon
<1>34. bits \in 0 .. 33 /\ c \in 0 .. 15 /\ res \in 0 .. 15 /\ IsFun(y) /\ DOMAIN y = 0 .. 31
  BY <1>3, <1>20
<1> QED BY <1>21, <1>24, <1>27, <1>28, <1>32, <1>33, <1>34, FlsKept, ZenonT(60)

\* A program of one load, and an empty one.
LEMMA LoadDoes ==
  ASSUME NEW z, NEW m, NEW d, NEW a, NEW x, x = Fetch(m, a)
  PROVE  /\ Does(Cpu(z, m), <<Load(d, a)>>, Cpu([z EXCEPT ![d] = x], m))
         /\ Does(Cpu(z, m), << >>, Cpu(z, m))
<1>1. PICK i, s : i = Load(d, a) /\ s = Cpu(z, m)
  OBVIOUS
<1>2. <<i>> \in Seq({i}) /\ << >> \in Seq({i})
  OBVIOUS
<1>3. RunFrom(s, << >>) = s /\ RunFrom(s, <<i>>) = Exec(s, i)
  BY RunShort
<1>4. Exec(Cpu(z, m), Load(d, a)) = Cpu([z EXCEPT ![d] = Fetch(m, a)], m)
  BY ExecLoad
<1>5. RunFrom(s, <<i>>) = Cpu([z EXCEPT ![d] = x], m)
  BY <1>1, <1>3, <1>4, Zenon
<1>6. IsProgram(<<i>>) /\ IsProgram(<< >>)
  BY <1>2, Zenon DEF IsProgram
<1> QED BY <1>1, <1>3, <1>5, <1>6, Zenon DEF Does

\* The zero-bit kernel stores the base in every slot.
LEMMA ZeroBitRuns ==
  ASSUME NEW z, NEW m, IsFun(m), "out" \in DOMAIN m, IsFun(m["out"]), DOMAIN m["out"] = 0 .. 63, NEW v,
         \A k \in 0 .. 63 : v[k] = z[base], NEW W, W = 0 .. 63
  PROVE  Does(Cpu(z, m), Loop(2 * FLS_POSITIONS, LAMBDA k : <<Store(<<"out", k>>, base)>>), Cpu(z, Stored(m, "out", W, v)))
<1>1. PICK d, o, r : d = [k \in 0 .. 63 |-> r] /\ o = [k \in 0 .. 63 |-> k] /\ r = base
  OBVIOUS
<1>2. \A k \in 0 .. 63 : d[k] = base /\ o[k] = k
  BY <1>1, Zenon
<1>3. 64 - 1 = 63 /\ 2 * FLS_POSITIONS = 64 /\ 64 \in Nat
  BY DEF FLS_POSITIONS
<1>4. PICK e : e = [k \in 0 .. 64 - 1 |-> Store(<<"out", o[k]>>, d[k])]
  OBVIOUS
<1>5. Saves(64, z, m["out"], d, o, v)
  BY <1>2, <1>3, ZenonT(60) DEF Saves
<1>6. Does(Cpu(z, m), Turns(64, e), Cpu(z, Stored(m, "out", Cells(64, o), v)))
  <2>1. PICK n \in Nat : n = 64
    OBVIOUS
  <2>2. e = [k \in 0 .. n - 1 |-> Store(<<"out", o[k]>>, d[k])] /\ Saves(n, z, m["out"], d, o, v)
    BY <1>4, <1>5, <2>1, Zenon
  <2>3. Does(Cpu(z, m), Turns(n, e), Cpu(z, Stored(m, "out", Cells(n, o), v)))
    BY <2>2, OutTurns
  <2> QED BY <2>1, <2>3, Zenon
<1>7. Cells(64, o) = W
  <2>1. Cells(64, o) = {o[k] : k \in 0 .. 63}
    BY <1>3, Zenon DEF Cells
  <2> QED BY <1>2, <2>1
<1>8. [k \in 1 .. 64 |-> <<Store(<<"out", k - 1>>, base)>>] = [k \in 1 .. 64 |-> <<e[k - 1]>>]
  <2>1. \A k \in 1 .. 64 : k - 1 \in 0 .. 63
    OBVIOUS
  <2>2. \A k \in 0 .. 63 : e[k] = Store(<<"out", k>>, base)
    BY <1>2, <1>3, <1>4, Zenon
  <2> QED BY <2>1, <2>2, Zenon
<1>9. Loop(2 * FLS_POSITIONS, LAMBDA k : <<Store(<<"out", k>>, base)>>) = Turns(64, e)
  BY <1>3, <1>8, Zenon DEF Loop, Turns
<1> QED BY <1>6, <1>7, <1>9, Zenon

\* The call keeps the invariant.
LEMMA FlsCallKeeps ==
  ASSUME FlsInv, FlsCall PROVE FlsInv'
<1>1. PICK bits, c, res, lines, out :
        /\ bits = job.bits /\ c = job.col /\ res = job.res /\ lines = job.lines /\ out = mem.out
  OBVIOUS
<1>2. pc.stage = "call" /\ job' = job
  BY Zenon DEF FlsCall
<1>3. /\ bits \in 0 .. 33 /\ c \in 0 .. 15 /\ res \in 0 .. 15 /\ job = FlsJob(bits, c, res, lines)
      /\ lines \subseteq FlsLines(bits, res) /\ pc = [stage |-> pc.stage, i |-> pc.i, round |-> pc.round]
      /\ pc.i = 0 /\ pc.round = 0 /\ IsFun(zmm) /\ DOMAIN zmm = 0 .. 31
      /\ mem = FlsMem(bits, out) /\ FlsOut(out, bits, c, pc.stage = "unffor", pc.i, pc.round)
  BY <1>1, <1>2, Zenon DEF FlsInv
<1>4. pc = [stage |-> "call", i |-> 0, round |-> 0]
  BY <1>2, <1>3, Zenon
<1>5. job' = FlsJob(bits, c, res, lines)
  BY <1>2, <1>3, Zenon
<1>6. IsFun(out) /\ DOMAIN out = 0 .. 63 /\ \A p \in 0 .. 31, r \in 0 .. 1 : out[2 * p + r] = Unwritten
  <2>1. pc.stage # "unffor"
    BY <1>2
  <2> QED BY <1>3, <2>1, Zenon DEF FlsOut
<1>7. PICK m, z, z1, z2 : /\ m = mem /\ z = zmm /\ z1 = [z EXCEPT ![base] = Plain(FlsBaseWord)]
                          /\ z2 = [z1 EXCEPT ![maskreg] = Plain(mask_constants(bits))]
  OBVIOUS
<1>8. /\ IsFun(m) /\ "out" \in DOMAIN m /\ m["out"] = out
      /\ Fetch(m, <<"base", 0>>) = Plain(FlsBaseWord) /\ Fetch(m, <<"mask", 0>>) = Plain(mask_constants(bits))
      /\ \A W, v : Stored(m, "out", W, v) = FlsMem(bits, Loaded(out, W, v))
  BY <1>3, <1>7, FlsMemory
<1>9. /\ IsFun(z1) /\ DOMAIN z1 = 0 .. 31 /\ z1[base] = Plain(FlsBaseWord)
      /\ IsFun(z2) /\ DOMAIN z2 = 0 .. 31 /\ z2[base] = Plain(FlsBaseWord) /\ z2[maskreg] = Plain(mask_constants(bits))
  <2>1. base \in 0 .. 31 /\ maskreg \in 0 .. 31 /\ base # maskreg
    BY DEF base, maskreg
  <2>2. PICK a, b, x, y : a = base /\ b = maskreg /\ x = Plain(FlsBaseWord) /\ y = Plain(mask_constants(bits))
    OBVIOUS
  <2>3. z = [r \in 0 .. 31 |-> z[r]]
    BY <1>3, <1>7 DEF IsFun
  <2>4. z1 = [z EXCEPT ![a] = x] /\ z2 = [z1 EXCEPT ![b] = y] /\ a \in 0 .. 31 /\ b \in 0 .. 31 /\ a # b
    BY <1>7, <2>1, <2>2
  <2>5. z1 = [r \in 0 .. 31 |-> IF r = a THEN x ELSE z[r]]
    BY <2>3, <2>4
  <2>6. z2 = [r \in 0 .. 31 |-> IF r = b THEN y ELSE z1[r]]
    BY <2>4, <2>5
  <2>7. IsFun(z1) /\ DOMAIN z1 = 0 .. 31 /\ z1[a] = x
    BY <2>4, <2>5, Zenon DEF IsFun
  <2>8. IsFun(z2) /\ DOMAIN z2 = 0 .. 31 /\ z2[a] = x /\ z2[b] = y
    BY <2>4, <2>6, <2>7, Zenon DEF IsFun
  <2> QED BY <2>2, <2>7, <2>8, Zenon
<1>10. PICK entry : entry = <<Load(base, <<"base", 0>>)>>
  OBVIOUS
<1>11. Does(Cpu(z, m), entry, Cpu(z1, m))
  <2>1. PICK a, x, d : a = <<"base", 0>> /\ x = Plain(FlsBaseWord) /\ d = base
    OBVIOUS
  <2>2. x = Fetch(m, a)
    BY <1>8, <2>1, Zenon
  <2>3. Does(Cpu(z, m), <<Load(d, a)>>, Cpu([z EXCEPT ![d] = x], m))
    BY <2>2, LoadDoes
  <2> QED BY <1>7, <1>10, <2>1, <2>3, Zenon
<1>12. Does(Cpu(z1, m), <<Load(maskreg, <<"mask", 0>>)>>, Cpu(z2, m)) /\ Does(Cpu(z1, m), << >>, Cpu(z1, m))
  <2>1. PICK a, x, d : a = <<"mask", 0>> /\ x = Plain(mask_constants(bits)) /\ d = maskreg
    OBVIOUS
  <2>2. x = Fetch(m, a)
    BY <1>8, <2>1, Zenon
  <2>3. Does(Cpu(z1, m), <<Load(d, a)>>, Cpu([z1 EXCEPT ![d] = x], m)) /\ Does(Cpu(z1, m), << >>, Cpu(z1, m))
    BY <2>2, LoadDoes
  <2> QED BY <1>7, <2>1, <2>3, Zenon
<1>13. \/ bits > 32 /\ pc' = [pc EXCEPT !.stage = "refused"] /\ zmm' = zmm /\ mem' = mem
       \/ /\ bits = 0 /\ pc' = [pc EXCEPT !.stage = "unffor", !.i = 32, !.round = 1]
          /\ Execute(zmm, entry \o Loop(2 * FLS_POSITIONS, LAMBDA k : <<Store(<<"out", k>>, base)>>))
       \/ /\ bits \in 1 .. 32 /\ pc' = [pc EXCEPT !.stage = "unffor"]
          /\ Execute(zmm, entry \o When(bits < 32, Load(maskreg, <<"mask", 0>>)))
  BY <1>1, <1>10, Zenon DEF FlsCall, FLS_POSITIONS
<1>14. ASSUME NEW p, Execute(zmm, p), NEW y, NEW g, Does(Cpu(z, m), p, Cpu(y, g)) PROVE zmm' = y /\ mem' = g
  <2>1. PICK s : s = RunFrom([zmm |-> zmm, mem |-> mem], p)
    OBVIOUS
  <2>2. zmm' = s.zmm /\ mem' = s.mem
    BY <1>14, <2>1, Zenon DEF Execute
  <2>3. s = Cpu(y, g)
    BY <1>7, <1>14, <2>1, Zenon DEF Does, Cpu
  <2>4. s.zmm = y /\ s.mem = g
    BY <2>3 DEF Cpu
  <2> QED BY <2>2, <2>4, Zenon
\* A width beyond 32.
<1>15. CASE bits > 32 /\ pc' = [pc EXCEPT !.stage = "refused"] /\ zmm' = zmm /\ mem' = mem
  <2>1. PICK st, i, h : st = "refused" /\ i = 0 /\ h = 0
    OBVIOUS
  <2>2. pc' = [stage |-> st, i |-> i, round |-> h] /\ zmm' = z /\ mem' = FlsMem(bits, out) /\ IsFun(z) /\ DOMAIN z = 0 .. 31
    BY <1>3, <1>4, <1>7, <1>15, <2>1
  <2>3. /\ st \in {"call", "refused", "unffor"} /\ i \in {0, 8, 16, 24, 32} /\ h \in 0 .. 1 /\ st # "call" /\ st # "unffor"
    BY <2>1
  <2>4. FlsOut(out, bits, c, FALSE, i, h)
    BY <1>6, Zenon DEF FlsOut
  <2>5. /\ (st = "call" => i = 0 /\ h = 0) /\ (st # "unffor" => FlsOut(out, bits, c, FALSE, i, h))
        /\ (st = "unffor" => FlsOut(out, bits, c, TRUE, i, h) /\ FlsReady(bits, z, i))
    BY <2>3, <2>4, Zenon
  <2>6. bits \in 0 .. 33 /\ c \in 0 .. 15 /\ res \in 0 .. 15 /\ lines \subseteq FlsLines(bits, res)
    BY <1>3
  <2> QED BY <1>5, <2>2, <2>3, <2>5, <2>6, FlsKept, Zenon
\* The zero-bit kernel.
<1>16. CASE /\ bits = 0 /\ pc' = [pc EXCEPT !.stage = "unffor", !.i = 32, !.round = 1]
            /\ Execute(zmm, entry \o Loop(2 * FLS_POSITIONS, LAMBDA k : <<Store(<<"out", k>>, base)>>))
  <2>0. PICK q : q = Loop(2 * FLS_POSITIONS, LAMBDA k : <<Store(<<"out", k>>, base)>>)
    OBVIOUS
  <2>1. PICK st, i, h : st = "unffor" /\ i = 32 /\ h = 1
    OBVIOUS
  <2>2. PICK v, W, g : v = [k \in 0 .. 63 |-> Plain(FlsBaseWord)] /\ W = 0 .. 63 /\ g = Loaded(out, W, v)
    OBVIOUS
  <2>3. Does(Cpu(z1, m), q, Cpu(z1, FlsMem(bits, g)))
    <3>1. \A k \in 0 .. 63 : v[k] = z1[base]
      BY <1>9, <2>2, Zenon
    <3>2. IsFun(m) /\ "out" \in DOMAIN m /\ IsFun(m["out"]) /\ DOMAIN m["out"] = 0 .. 63
      BY <1>6, <1>8, Zenon
    <3>3. Does(Cpu(z1, m), Loop(2 * FLS_POSITIONS, LAMBDA k : <<Store(<<"out", k>>, base)>>), Cpu(z1, Stored(m, "out", W, v)))
      BY <2>2, <3>1, <3>2, ZeroBitRuns, Zenon
    <3> QED BY <1>8, <2>0, <2>2, <3>3, Zenon
  <2>4. Does(Cpu(z, m), entry \o q, Cpu(z1, FlsMem(bits, g)))
    <3>1. PICK s0, s1, s2 : s0 = Cpu(z, m) /\ s1 = Cpu(z1, m) /\ s2 = Cpu(z1, FlsMem(bits, g))
      OBVIOUS
    <3>2. Does(s0, entry, s1) /\ Does(s1, q, s2)
      BY <1>11, <2>3, <3>1, Zenon
    <3>3. Does(s0, entry \o q, s2)
      BY <3>2, DoesBoth
    <3> QED BY <3>1, <3>3, Zenon
  <2>5. Execute(zmm, entry \o q)
    BY <1>16, <2>0, Zenon
  <2>6. zmm' = z1 /\ mem' = FlsMem(bits, g)
    BY <1>14, <2>4, <2>5
  <2>7. pc' = [stage |-> st, i |-> i, round |-> h]
    <3>1. pc' = [pc EXCEPT !.stage = "unffor", !.i = 32, !.round = 1]
      BY <1>16, Zenon
    <3> QED BY <1>4, <2>1, <3>1
  <2>8. st \in {"call", "refused", "unffor"} /\ i \in {0, 8, 16, 24, 32} /\ h \in 0 .. 1 /\ st # "call" /\ st = "unffor"
    BY <2>1
  <2>9. FlsOut(g, bits, c, TRUE, i, h)
    <3>1. g = [k \in 0 .. 63 |-> IF k \in W THEN v[k] ELSE out[k]]
      BY <1>6, <2>2, Zenon DEF Loaded
    <3>2. IsFun(g) /\ DOMAIN g = 0 .. 63
      BY <3>1, Zenon DEF IsFun
    <3>3. \A p \in 0 .. 31, r \in 0 .. 1 : 2 * p + r \in 0 .. 63 /\ FlsStored(i, h, p, r)
      BY <2>1 DEF FlsStored
    <3>4. \A k \in 0 .. 63 : g[k] = Plain(FlsBaseWord)
      BY <2>2, <3>1, Zenon
    <3>5. bits = 0
      BY <1>16, Zenon
    <3>6. \A p, r : FlsFinal(bits, c, p, r) = Plain(FlsBaseWord)
      BY <3>5, Zenon DEF FlsFinal, Plain
    <3> QED BY <3>2, <3>3, <3>4, <3>6, Zenon DEF FlsOut
  <2>10. FlsReady(bits, z1, i)
    <3>1. bits = 0
      BY <1>16, Zenon
    <3> QED BY <1>9, <2>1, <3>1 DEF FlsReady
  <2>11. /\ (st = "call" => i = 0 /\ h = 0) /\ (st # "unffor" => FlsOut(g, bits, c, FALSE, i, h))
         /\ (st = "unffor" => FlsOut(g, bits, c, TRUE, i, h) /\ FlsReady(bits, z1, i))
    BY <2>8, <2>9, <2>10, Zenon
  <2>12. /\ bits \in 0 .. 33 /\ c \in 0 .. 15 /\ res \in 0 .. 15 /\ lines \subseteq FlsLines(bits, res)
         /\ IsFun(z1) /\ DOMAIN z1 = 0 .. 31
    BY <1>3, <1>9
  <2> QED BY <1>5, <2>6, <2>7, <2>8, <2>11, <2>12, FlsKept, Zenon
\* The other widths.
<1>17. CASE /\ bits \in 1 .. 32 /\ pc' = [pc EXCEPT !.stage = "unffor"]
            /\ Execute(zmm, entry \o When(bits < 32, Load(maskreg, <<"mask", 0>>)))
  <2>1. PICK st, i, h : st = "unffor" /\ i = 0 /\ h = 0
    OBVIOUS
  <2>2. PICK q, y : q = When(bits < 32, Load(maskreg, <<"mask", 0>>)) /\ y = IF bits < 32 THEN z2 ELSE z1
    OBVIOUS
  <2>3. Does(Cpu(z1, m), q, Cpu(y, m))
    <3>1. CASE bits < 32
      BY <1>12, <2>2, <3>1, Zenon DEF When
    <3>2. CASE ~(bits < 32)
      BY <1>12, <2>2, <3>2, Zenon DEF When
    <3> QED BY <3>1, <3>2
  <2>4. Does(Cpu(z, m), entry \o q, Cpu(y, m))
    <3>1. PICK s0, s1, s2 : s0 = Cpu(z, m) /\ s1 = Cpu(z1, m) /\ s2 = Cpu(y, m)
      OBVIOUS
    <3>2. Does(s0, entry, s1) /\ Does(s1, q, s2)
      BY <1>11, <2>3, <3>1, Zenon
    <3>3. Does(s0, entry \o q, s2)
      BY <3>2, DoesBoth
    <3> QED BY <3>1, <3>3, Zenon
  <2>5. Execute(zmm, entry \o q)
    BY <1>17, <2>2, Zenon
  <2>6. zmm' = y /\ mem' = m
    BY <1>14, <2>4, <2>5
  <2>7. zmm' = y /\ mem' = FlsMem(bits, out)
    BY <1>3, <1>7, <2>6, Zenon
  <2>8. pc' = [stage |-> st, i |-> i, round |-> h]
    <3>1. pc' = [pc EXCEPT !.stage = "unffor"]
      BY <1>17, Zenon
    <3> QED BY <1>4, <2>1, <3>1
  <2>9. st \in {"call", "refused", "unffor"} /\ i \in {0, 8, 16, 24, 32} /\ h \in 0 .. 1 /\ st # "call" /\ st = "unffor"
    BY <2>1
  <2>10. FlsOut(out, bits, c, TRUE, i, h)
    <3>1. \A p \in 0 .. 31, r \in 0 .. 1 : ~FlsStored(i, h, p, r)
      BY <2>1 DEF FlsStored
    <3> QED BY <1>6, <3>1, Zenon DEF FlsOut
  <2>11. /\ IsFun(y) /\ DOMAIN y = 0 .. 31 /\ y[base] = Plain(FlsBaseWord)
         /\ (bits < 32 => y[maskreg] = Plain(mask_constants(bits)))
    BY <1>9, <2>2, Zenon
  <2>12. bits <= 32 /\ bits # 0 /\ (bits \in 1 .. 31 => bits < 32)
    <3>1. bits \in 1 .. 32
      BY <1>17, Zenon
    <3> QED BY <3>1
  <2>13. FlsReady(bits, y, i)
    BY <2>11, <2>12, Zenon DEF FlsReady
  <2>14. /\ (st = "call" => i = 0 /\ h = 0) /\ (st # "unffor" => FlsOut(out, bits, c, FALSE, i, h))
         /\ (st = "unffor" => FlsOut(out, bits, c, TRUE, i, h) /\ FlsReady(bits, y, i))
    BY <2>9, <2>10, <2>13, Zenon
  <2>15. /\ bits \in 0 .. 33 /\ c \in 0 .. 15 /\ res \in 0 .. 15 /\ lines \subseteq FlsLines(bits, res)
         /\ IsFun(y) /\ DOMAIN y = 0 .. 31
    BY <1>3, <2>11
  <2> QED BY <1>5, <2>7, <2>8, <2>9, <2>14, <2>15, FlsKept
<1> QED BY <1>13, <1>15, <1>16, <1>17, Zenon

\* Every step keeps the invariant.
LEMMA FlsSteps == FlsInv /\ [FlsNext]_laneVars => FlsInv'
<1> SUFFICES ASSUME FlsInv, [FlsNext]_laneVars PROVE FlsInv'
  OBVIOUS
<1>1. CASE FlsCall
  BY <1>1, FlsCallKeeps
<1>2. CASE FlsStep
  BY <1>2, FlsStepKeeps
<1>3. CASE UNCHANGED laneVars
  <2>1. job' = job /\ pc' = pc /\ zmm' = zmm /\ mem' = mem
    BY <1>3 DEF laneVars
  <2> QED BY <2>1, Zenon DEF FlsInv
<1> QED BY <1>1, <1>2, <1>3 DEF FlsNext

LayoutWord(bits, p, h, c) ==
  [b \in BitsOfWord |-> IF b < bits THEN SrcBit(32 * ((p * bits + b) \div 32) + 16 * h + c, (p * bits + b) % 32) ELSE 0]

\* The scalar value of a lane is the bits of the layout.
LEMMA LayoutBits ==
  ASSUME NEW bits \in 1 .. 32, NEW p \in 0 .. 31, NEW h \in 0 .. 1, NEW c \in 0 .. 15
  PROVE  Scalar(FlsU(c, h), bits, p) = LayoutWord(bits, p, h, c)
<1>1. PICK u : u = FlsU(c, h)
  OBVIOUS
<1>2. Scalar(u, bits, p) = [b \in BitsOfWord |-> IF b < bits THEN BitOf(u, p * bits + b) ELSE 0]
  <2>1. p \in Nat
    OBVIOUS
  <2> QED BY <2>1, ScalarBits, Zenon
<1>3. ASSUME NEW b \in BitsOfWord
      PROVE  BitOf(u, p * bits + b) = SrcBit(32 * ((p * bits + b) \div 32) + 16 * h + c, (p * bits + b) % 32)
  <2>1. PICK q \in Nat : q = p * bits + b
    BY DEF BitsOfWord
  <2>2. PICK w \in Nat, s \in 0 .. 31 : w = q \div 32 /\ s = q % 32
    OBVIOUS
  <2>3. u[w] = Word(32 * w + 16 * h + c)
    BY <1>1, Zenon DEF FlsU
  <2>4. s \in BitsOfWord
    BY DEF BitsOfWord
  <2>5. u[w][s] = SrcBit(32 * w + 16 * h + c, s)
    BY <2>3, <2>4, Zenon DEF Word
  <2> QED BY <2>1, <2>2, <2>5, Zenon DEF BitOf
<1> QED BY <1>1, <1>2, <1>3, Zenon DEF LayoutWord

(* FastLanes' unffor, for every column of the vector and every alignment of
   the input: each slot the kernel has stored holds the bits of the layout plus
   the base, no other slot is written, and the unaligned loads stay on lines
   the input has a word in (fls_unffor_kernel, fls_dispatch). *)
THEOREM UnfforIsLayout == FlsSpec => []UnfforMatchesLayout
<1>1. FlsInv => UnfforMatchesLayout
  <2> SUFFICES ASSUME FlsInv PROVE UnfforMatchesLayout
    OBVIOUS
  <2>1. PICK bits, c, res, out : bits = job.bits /\ c = job.col /\ res = job.res /\ out = mem.out
    OBVIOUS
  <2>2. /\ bits \in 0 .. 33 /\ c \in 0 .. 15 /\ res \in 0 .. 15 /\ job.lines \subseteq FlsLines(bits, res)
        /\ mem = FlsMem(bits, out) /\ FlsOut(out, bits, c, pc.stage = "unffor", pc.i, pc.round)
        /\ (pc.stage = "unffor" => bits <= 32)
    BY <2>1, Zenon DEF FlsInv
  <2>3. DOMAIN mem.in = 0 .. 32 * bits - 1
    <3>1. mem.in = FlsIn(bits)
      BY <2>2 DEF FlsMem
    <3> QED BY <3>1, Zenon DEF FlsIn
  <2>4. job.lines \subseteq {LineOf(job.res + e) : e \in DOMAIN mem.in}
    BY <2>1, <2>2, <2>3, Zenon DEF FlsLines
  <2>5. 2 * FLS_POSITIONS - 1 = 63 /\ FLS_POSITIONS - 1 = 31
    BY DEF FLS_POSITIONS
  <2>6. DOMAIN mem.out = 0 .. 2 * FLS_POSITIONS - 1
    BY <2>1, <2>2, <2>5, Zenon DEF FlsOut
  <2>7. ASSUME pc.stage = "unffor", NEW p \in 0 .. FLS_POSITIONS - 1, NEW h \in 0 .. 1
        PROVE  mem.out[2 * p + h] =
                 IF h < pc.round \/ (h = pc.round /\ p < pc.i)
                   THEN [plus |-> IF job.bits = 0 THEN <<FlsBaseWord>>
                                  ELSE <<FlsBaseWord, [b \in BitsOfWord |->
                                           IF b < job.bits
                                             THEN SrcBit(32 * ((p * job.bits + b) \div 32) + 16 * h + job.col, (p * job.bits + b) % 32)
                                             ELSE 0]>>,
                         minus |-> << >>]
                   ELSE Unwritten
    <3>1. p \in 0 .. 31
      BY <2>5
    <3>2. out[2 * p + h] = IF FlsStored(pc.i, pc.round, p, h) THEN FlsFinal(bits, c, p, h) ELSE Unwritten
      BY <2>2, <2>7, <3>1, Zenon DEF FlsOut
    <3>3. CASE bits = 0
      BY <2>1, <3>2, <3>3, Zenon DEF FlsFinal, FlsStored
    <3>4. CASE bits # 0
      <4>0. bits \in 0 .. 33 /\ bits <= 32
        BY <2>2, <2>7, Zenon
      <4>1. bits \in 1 .. 32
        BY <3>4, <4>0
      <4>2. Scalar(FlsU(c, h), bits, p) = LayoutWord(bits, p, h, c)
        <5>1. c \in 0 .. 15
          BY <2>2
        <5> QED BY <3>1, <4>1, <5>1, LayoutBits, Zenon
      <4>3. FlsFinal(bits, c, p, h) =
              [plus |-> IF bits = 0 THEN <<FlsBaseWord>>
                        ELSE <<FlsBaseWord, [b \in BitsOfWord |-> IF b < bits
                                 THEN SrcBit(32 * ((p * bits + b) \div 32) + 16 * h + c, (p * bits + b) % 32) ELSE 0]>>,
               minus |-> << >>]
        BY <3>4, <4>2, Zenon DEF FlsFinal, LayoutWord
      <4> QED BY <2>1, <3>2, <4>3, Zenon DEF FlsStored
    <3> QED BY <3>3, <3>4
  <2> QED BY <2>4, <2>6, <2>7, Zenon DEF UnfforMatchesLayout
<1>2. FlsInv /\ [FlsNext]_laneVars => FlsInv'
  BY FlsSteps
<1> QED BY <1>1, <1>2, FlsStarts, PTL DEF FlsSpec
=============================================================================
