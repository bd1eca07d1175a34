----------------------------- MODULE TcpProofs -----------------------------
(***************************************************************************)
(* Proofs about Tcp, for every size of the streams, the buffers and the    *)
(* sequence space.  What the local side receives needs nothing more; what  *)
(* the card receives is proved for initial sequence numbers that leave the *)
(* connection short of a wrap (the comparison FinCounted makes is why).    *)
(***************************************************************************)
EXTENDS Tcp, SequenceTheorems, ModArith

----------------------------------------------------------------------------
(* Numbers, pieces of a stream, rings.                                     *)

\* Each constant by itself.
LEMMA Caps ==
  /\ Mss \in Nat \ {0} /\ SndCap \in Nat \ {0} /\ RcvCap \in Nat \ {0} /\ CardCap \in Nat \ {0}
  /\ RingCap \in Nat \ {0} /\ SendQuota \in Nat \ {0}
  /\ HostBytes \in Nat /\ CardBytes \in Nat /\ MaxRetries \in Nat /\ MaxCardRetries \in Nat
  /\ SeqMod \in Nat \ {0} /\ SeqMod > 2 * (HostBytes + CardBytes + 2)
  /\ CardIsn \in 0 .. SeqMod - 1 /\ Isns \subseteq 0 .. SeqMod - 1
<1>1. /\ Mss \in Nat \ {0} /\ SndCap \in Nat \ {0} /\ RcvCap \in Nat \ {0} /\ CardCap \in Nat \ {0}
      /\ RingCap \in Nat \ {0} /\ SendQuota \in Nat \ {0}
      /\ HostBytes \in Nat /\ CardBytes \in Nat /\ MaxRetries \in Nat /\ MaxCardRetries \in Nat
  BY CapAssumption
<1>2. SeqMod \in Nat /\ SeqMod > 2 * (HostBytes + CardBytes + 2)
  BY SeqAssumption
<1>3. SeqMod # 0
  BY <1>1, <1>2
<1> QED BY <1>1, <1>2, <1>3, SeqAssumption

\* The smaller of two numbers.
LEMMA LeastFacts ==
  \A a, b \in Int : Least(a, b) \in Int /\ Least(a, b) =< a /\ Least(a, b) =< b /\ Least(a, b) \in {a, b}
BY DEF Least

\* A sequence number is in range, and a number in range is itself.
LEMMA ModFacts ==
  /\ \A n \in Int : Mod(n) \in 0 .. SeqMod - 1
  /\ \A n \in 0 .. SeqMod - 1 : Mod(n) = n
<1>1. SeqMod \in Nat \ {0}
  BY Caps
<1>2. ASSUME NEW n \in Int PROVE Mod(n) \in 0 .. SeqMod - 1
  BY <1>1, DivMod DEF Mod
<1>3. ASSUME NEW n \in 0 .. SeqMod - 1 PROVE Mod(n) = n
  <2>1. n \in Int /\ 0 \in Int /\ n = SeqMod * 0 + n
    BY <1>1
  <2> QED BY <1>1, <2>1, ModUnique DEF Mod
<1> QED BY <1>2, <1>3

\* The card's sequence numbers: the position comes back from the number, and
\* different positions have different numbers.
LEMMA CardSeqFacts ==
  /\ \A p \in -1 .. CardBytes + 1 : CardSeq(p) \in 0 .. SeqMod - 1
  /\ CardSeq(-1) = CardIsn
  /\ \A p \in 0 .. CardBytes + 1 : Mod(CardSeq(p) - CardIsn - 1) = p
  /\ \A p, k \in 0 .. CardBytes + 1 : Mod(CardSeq(p) + k) = CardSeq(p + k)
<1> DEFINE b == CardIsn + 1
<1>1. /\ SeqMod \in Nat \ {0} /\ CardIsn \in 0 .. SeqMod - 1 /\ CardBytes \in Nat
      /\ CardBytes + 1 < SeqMod /\ b \in Int
  BY Caps
<1>2. ASSUME NEW p \in -1 .. CardBytes + 1 PROVE CardSeq(p) \in 0 .. SeqMod - 1
  <2>1. b + p \in Int
    BY <1>1
  <2> QED BY <2>1, ModFacts DEF CardSeq
<1>3. CardSeq(-1) = CardIsn
  <2>1. CardIsn + 1 + (-1) = CardIsn
    BY <1>1
  <2> QED BY <1>1, <2>1, ModFacts DEF CardSeq
<1>4. ASSUME NEW p \in 0 .. CardBytes + 1 PROVE Mod(CardSeq(p) - CardIsn - 1) = p
  <2> DEFINE e == (b + p) % SeqMod
  <2>1. b + p \in Int /\ -b \in Int /\ (b + p) + (-b) = p /\ p \in 0 .. SeqMod - 1
    BY <1>1
  <2>2. e \in 0 .. SeqMod - 1
    BY <1>1, <2>1, DivMod
  <2>3. (e + (-b)) % SeqMod = ((b + p) + (-b)) % SeqMod
    BY <1>1, <2>1, ModAdd
  <2>4. p % SeqMod = p
    BY <2>1, ModFacts DEF Mod
  <2>5. CardSeq(p) = e
    BY DEF CardSeq, Mod
  <2> HIDE DEF e
  <2>6. CardSeq(p) - CardIsn - 1 = e + (-b)
    BY <1>1, <2>2, <2>5
  <2> QED BY <2>1, <2>3, <2>4, <2>6 DEF Mod
<1>5. ASSUME NEW p \in 0 .. CardBytes + 1, NEW k \in 0 .. CardBytes + 1
      PROVE  Mod(CardSeq(p) + k) = CardSeq(p + k)
  <2>1. b + p \in Int /\ k \in Int /\ (b + p) + k = b + (p + k)
    BY <1>1
  <2>2. (((b + p) % SeqMod) + k) % SeqMod = ((b + p) + k) % SeqMod
    BY <1>1, <2>1, ModAdd
  <2> QED BY <2>1, <2>2 DEF CardSeq, Mod
<1> QED BY <1>2, <1>3, <1>4, <1>5

\* A piece of a stream is a sequence.
LEMMA BytesFacts ==
  ASSUME NEW i \in Int, NEW n \in Nat
  PROVE  /\ Bytes(i, n) \in Seq(Int) /\ Len(Bytes(i, n)) = n
         /\ \A k \in 1 .. n : Bytes(i, n)[k] = i + k
         /\ n = 0 => Bytes(i, n) = <<>>
BY DEF Bytes

\* Its bytes lie between the start and the end of it.
LEMMA BytesRange ==
  ASSUME NEW i \in Nat, NEW n \in Nat, NEW m \in Nat, i + n =< m
  PROVE  Bytes(i, n) \in Seq(1 .. m)
BY DEF Bytes

\* A sequence with the right length and the right bytes is that piece.
LEMMA BytesIs ==
  ASSUME NEW i \in Int, NEW s \in Seq(Int), \A k \in 1 .. Len(s) : s[k] = i + k
  PROVE  s = Bytes(i, Len(s))
<1>1. Len(s) \in Nat
  OBVIOUS
<1>2. /\ Bytes(i, Len(s)) \in Seq(Int) /\ Len(Bytes(i, Len(s))) = Len(s)
      /\ \A k \in 1 .. Len(s) : Bytes(i, Len(s))[k] = i + k
  BY <1>1, BytesFacts
<1> QED BY <1>1, <1>2, SeqEqual

\* A piece of a piece.
LEMMA BytesPiece ==
  ASSUME NEW i \in Int, NEW n \in Nat, NEW a \in 1 .. n + 1, NEW b \in a - 1 .. n
  PROVE  /\ SubSeq(Bytes(i, n), a, b) = Bytes(i + a - 1, b - a + 1)
         /\ SubSeq(Bytes(i, n), a, b) \in Seq(Int)
         /\ Len(SubSeq(Bytes(i, n), a, b)) = b - a + 1
<1> DEFINE s == Bytes(i, n)
           t == SubSeq(s, a, b)
<1>1. /\ s \in Seq(Int) /\ Len(s) = n /\ \A k \in 1 .. n : s[k] = i + k
  BY BytesFacts
<1> HIDE DEF s
<1>2. \A k \in a .. b : s[k] \in Int
  BY <1>1
<1>3. /\ t \in Seq(Int) /\ Len(t) = b - a + 1
      /\ \A k \in 1 .. b - a + 1 : t[k] = s[a + k - 1]
  <2>1. a \in 1 .. Len(s) + 1 /\ b \in a - 1 .. Len(s)
    BY <1>1
  <2> QED BY <1>1, <1>2, <2>1, SubSeqProperties
<1> HIDE DEF t
<1>4. \A k \in 1 .. Len(t) : t[k] = (i + a - 1) + k
  BY <1>1, <1>3
<1>5. t = Bytes(i + a - 1, Len(t))
  BY <1>3, <1>4, BytesIs
<1> QED BY <1>3, <1>5 DEF s, t

\* One piece after another.
LEMMA BytesJoin ==
  ASSUME NEW i \in Int, NEW m \in Nat, NEW n \in Nat
  PROVE  Bytes(i, m) \o Bytes(i + m, n) = Bytes(i, m + n)
<1> DEFINE s == Bytes(i, m)
           t == Bytes(i + m, n)
           u == s \o t
<1>1. /\ s \in Seq(Int) /\ Len(s) = m /\ (\A k \in 1 .. m : s[k] = i + k)
      /\ t \in Seq(Int) /\ Len(t) = n /\ (\A k \in 1 .. n : t[k] = i + m + k)
  BY BytesFacts
<1> HIDE DEF s, t
<1>2. /\ u \in Seq(Int) /\ Len(u) = m + n
      /\ \A k \in 1 .. m + n : u[k] = IF k =< m THEN s[k] ELSE t[k - m]
  BY <1>1, ConcatProperties
<1> HIDE DEF u
<1>3. \A k \in 1 .. Len(u) : u[k] = i + k
  BY <1>1, <1>2, SMTT(30)
<1>4. u = Bytes(i, Len(u))
  BY <1>2, <1>3, BytesIs
<1> QED BY <1>2, <1>4 DEF s, t, u

\* A stream goes on where it ended.
LEMMA BytesOnto ==
  ASSUME NEW m \in Nat, NEW n \in Nat
  PROVE  Bytes(0, m) \o Bytes(m, n) = Bytes(0, m + n) /\ Len(Bytes(0, m + n)) = m + n
<1>1. 0 \in Int /\ 0 + m = m /\ m + n \in Nat
  OBVIOUS
<1>2. Bytes(0, m) \o Bytes(0 + m, n) = Bytes(0, m + n)
  BY <1>1, BytesJoin
<1>3. Len(Bytes(0, m + n)) = m + n
  BY <1>1, BytesFacts
<1> QED BY <1>1, <1>2, <1>3

\* What is on a ring is a segment.
LEMMA OnRing ==
  ASSUME NEW q \in Seq(Seg)
  PROVE  On(q) \subseteq Seg
BY ElementOfSeq DEF On

\* A frame goes on a ring, or is dropped.
LEMMA FitFacts ==
  ASSUME NEW q \in Seq(Seg), Len(q) =< RingCap, NEW f \in Seg
  PROVE  /\ Fit(q, f) \in Seq(Seg) /\ Len(Fit(q, f)) =< RingCap
         /\ On(Fit(q, f)) \subseteq On(q) \cup {f}
<1>1. Len(q) \in Nat /\ RingCap \in Nat
  BY Caps
<1>2. /\ Append(q, f) \in Seq(Seg) /\ Len(Append(q, f)) = Len(q) + 1
      /\ \A i \in 1 .. Len(q) + 1 : Append(q, f)[i] = IF i =< Len(q) THEN q[i] ELSE f
  BY AppendProperties
<1>3. On(Append(q, f)) \subseteq On(q) \cup {f}
  BY <1>1, <1>2 DEF On
<1> QED BY <1>1, <1>2, <1>3 DEF Fit

\* A frame is taken off a ring.
LEMMA TakeFacts ==
  ASSUME NEW q \in Seq(Seg), q # <<>>, Len(q) =< RingCap
  PROVE  /\ Tail(q) \in Seq(Seg) /\ Len(Tail(q)) =< RingCap
         /\ On(Tail(q)) \subseteq On(q) /\ Head(q) \in On(q) /\ Head(q) \in Seg
<1>1. Len(q) \in Nat /\ RingCap \in Nat /\ Len(q) > 0
  BY Caps, EmptySeq
<1>2. /\ Head(q) \in Seg /\ Tail(q) \in Seq(Seg) /\ Len(Tail(q)) = Len(q) - 1
      /\ \A i \in 1 .. Len(Tail(q)) : Tail(q)[i] = q[i + 1]
  BY HeadTailProperties
<1>3. Head(q) = q[1]
  OBVIOUS
<1>4. On(Tail(q)) \subseteq On(q) /\ Head(q) \in On(q)
  BY <1>1, <1>2, <1>3 DEF On
<1> QED BY <1>1, <1>2, <1>4

\* A piece of any length, one below zero being empty.
LEMMA BytesSeq ==
  ASSUME NEW i \in Int, NEW n \in Int
  PROVE  Bytes(i, n) \in Seq(Int)
<1>1. CASE n >= 0
  BY <1>1, BytesFacts
<1>2. CASE n < 0
  <2>1. 1 .. n = 1 .. 0
    BY <1>2
  <2>2. Bytes(i, n) = Bytes(i, 0)
    BY <2>1 DEF Bytes
  <2> QED BY <2>2, BytesFacts
<1> QED BY <1>1, <1>2

----------------------------------------------------------------------------
(* What the local side receives.                                           *)

\* The inductive invariant of the receiving half.
RecvInv == TypeOK /\ PassAgrees /\ RecvAgrees /\ HostInOrder /\ HalfShut

\* The numbers the actions compute.
LEMMA Numbers ==
  ASSUME TypeOK
  PROVE  /\ Len(up) \in Nat /\ Len(rb) \in Nat /\ Len(got) \in Nat
         /\ una \in 0 .. SeqMod - 1 /\ nxt \in 0 .. SeqMod - 1 /\ rcvNxt \in 0 .. SeqMod - 1
         /\ finSeq \in 0 .. SeqMod - 1 /\ isn \in 0 .. SeqMod - 1
         /\ sbHead \in Nat /\ sbTail \in Nat /\ wnd \in Nat
         /\ InFlight \in 0 .. SeqMod - 1 /\ Unsent \in Nat
         /\ ToEnd(Unsent) \in 1 .. SndCap /\ ToEnd(sbHead) \in 1 .. SndCap
<1>1. /\ Len(up) \in Nat /\ Len(rb) \in Nat /\ Len(got) \in Nat
  BY LenProperties DEF TypeOK
<1>2. /\ una \in 0 .. SeqMod - 1 /\ nxt \in 0 .. SeqMod - 1 /\ rcvNxt \in 0 .. SeqMod - 1
      /\ finSeq \in 0 .. SeqMod - 1 /\ isn \in 0 .. SeqMod - 1
      /\ sbHead \in Nat /\ sbTail \in Nat /\ wnd \in Nat
  BY Caps DEF TypeOK
<1>3. InFlight \in 0 .. SeqMod - 1
  <2>1. nxt - una \in Int
    BY <1>2, Caps
  <2> QED BY <2>1, ModFacts DEF InFlight
<1>4. Unsent \in Nat
  BY <1>2, <1>3, Caps DEF Unsent
<1>5. ASSUME NEW i \in Nat PROVE ToEnd(i) \in 1 .. SndCap
  <2>1. i % SndCap \in 0 .. SndCap - 1
    BY Caps, DivMod
  <2> QED BY <2>1, Caps DEF ToEnd
<1> QED BY <1>1, <1>2, <1>3, <1>4, <1>5

\* tcp_send_segment: at most the one segment is new on the ring.
LEMMA SendFacts ==
  ASSUME TypeOK, NEW kind \in Kind, NEW seq \in 0 .. SeqMod - 1, NEW data \in Seq(Int),
         Send(kind, seq, data), rb' \in Seq(1 .. CardBytes), Len(rb') =< RcvCap,
         rcvNxt' \in 0 .. SeqMod - 1
  PROVE  /\ advWnd' \in 0 .. RcvCap /\ h2c' \in Seq(Seg) /\ Len(h2c') =< RingCap
         /\ \A f \in On(h2c') : f \in On(h2c) \/ (f.kind = kind /\ f.seq = seq /\ f.data = data)
<1>1. h2c \in Seq(Seg) /\ Len(h2c) =< RingCap /\ advWnd \in 0 .. RcvCap
  BY DEF TypeOK
<1>2. CASE mac
  <2> DEFINE g == Segment(kind, seq, rcvNxt', advWnd', data)
  <2>1. advWnd' = RcvCap - Len(rb') /\ h2c' = Fit(h2c, g)
    BY <1>2 DEF Send
  <2>2. advWnd' \in 0 .. RcvCap
    <3>1. Len(rb') \in Nat
      BY LenProperties
    <3> QED BY <2>1, <3>1, Caps
  <2>3. g \in Seg /\ g.kind = kind /\ g.seq = seq /\ g.data = data
    BY <2>2, Caps DEF Segment, Seg
  <2> HIDE DEF g
  <2>4. /\ Fit(h2c, g) \in Seq(Seg) /\ Len(Fit(h2c, g)) =< RingCap
        /\ On(Fit(h2c, g)) \subseteq On(h2c) \cup {g}
    BY <1>1, <2>3, FitFacts
  <2> QED BY <2>1, <2>2, <2>3, <2>4
<1>3. CASE ~mac
  BY <1>1, <1>3 DEF Send
<1> QED BY <1>2, <1>3

\* The two frames of ARP are frames, and carry nothing of the stream.
LEMMA ArpFacts ==
  /\ Who \in Seg /\ FromCard(Who) /\ Who.kind = "WHO" /\ Who.data = <<>>
  /\ Arp \in Seg /\ FromCard(Arp) /\ Arp.kind = "ARP" /\ Arp.data = <<>>
<1>1. ASSUME NEW kind \in {"WHO", "ARP"}, NEW g, g = Segment(kind, 0, 0, 0, <<>>)
      PROVE  g \in Seg /\ FromCard(g) /\ g.kind = kind /\ g.data = <<>>
  <2>1. /\ g.kind = kind /\ g.seq = 0 /\ g.wnd = 0 /\ g.data = <<>> /\ Len(<<>>) = 0
        /\ g \in Seg
    BY <1>1, Caps DEF Segment, Seg, Kind
  <2>2. CardPos(g) \in Int
    <3>1. 0 - CardIsn - 1 \in Int
      BY Caps
    <3> QED BY <2>1, <3>1, ModFacts, Caps DEF CardPos
  <2>3. Bytes(CardPos(g), 0) = <<>>
    BY <2>2, BytesFacts
  <2>4. kind # "SYN" /\ kind # "SYNACK" /\ kind # "FIN" /\ 0 =< CardCap
    BY Caps
  <2> QED BY <2>1, <2>3, <2>4 DEF FromCard
<1>2. Who \in Seg /\ FromCard(Who) /\ Who.kind = "WHO" /\ Who.data = <<>>
  BY <1>1 DEF Who
<1>3. Arp \in Seg /\ FromCard(Arp) /\ Arp.kind = "ARP" /\ Arp.data = <<>>
  BY <1>1 DEF Arp
<1> QED BY <1>2, <1>3

\* A step that takes nothing in and moves nothing to the local socket.
LEMMA SameRecv ==
  ASSUME RecvInv, UNCHANGED <<rb, got, cardEof, hostShut, rcvNxt>>,
         st' \in Open => st \in Open,
         st' = "synSent" \/ Fresh' => st = "synSent" \/ Fresh,
         \A f \in On(c2h') : FromCard(f)
  PROVE  RecvAgrees' /\ HostInOrder' /\ HalfShut'
<1>1. HostInOrder' /\ HalfShut'
  BY DEF RecvInv, HostInOrder, HalfShut
<1>2. Received' = Received
  BY DEF Received
<1>3. RecvAgrees'
  BY <1>2 DEF RecvInv, RecvAgrees, RecvSync
<1> QED BY <1>1, <1>3

\* tcp_connect.
LEMMA ConnectRecv == ASSUME RecvInv, Connect PROVE RecvInv'
<1>1. /\ UNCHANGED <<finSeq, retries, sbHead, sbTail, hostEof, rcvNxt, rb, cardEof, hostShut, pc, quota, mac,
                     c2h, cst, up, unread, cFin, cSent, cAcked, cWnd, cTries, got, ended>>
      /\ Fresh /\ pc = "recv" /\ st' = "synSent" /\ wnd' = Mss /\ Send("SYN", una', <<>>)
  BY DEF Connect, Fresh, passVars, recvVars, cardVars
<1>2. TypeOK
  BY DEF RecvInv
<1>3. isn' \in 0 .. SeqMod - 1 /\ una' \in 0 .. SeqMod - 1 /\ nxt' \in 0 .. SeqMod - 1
  <2>1. PICK i \in Isns : isn' = i /\ una' = i /\ nxt' = Mod(i + 1)
    BY DEF Connect
  <2>2. i \in 0 .. SeqMod - 1
    BY Caps
  <2>3. i + 1 \in Int
    BY <2>2, Caps
  <2> QED BY <2>1, <2>2, <2>3, ModFacts
<1>4. rb' \in Seq(1 .. CardBytes) /\ Len(rb') =< RcvCap /\ rcvNxt' \in 0 .. SeqMod - 1
  BY <1>1, <1>2, Numbers DEF TypeOK
<1>5. "SYN" \in Kind /\ <<>> \in Seq(Int)
  BY DEF Kind
<1>6. advWnd' \in 0 .. RcvCap /\ h2c' \in Seq(Seg) /\ Len(h2c') =< RingCap
  <2>1. ASSUME NEW u, u = una' PROVE advWnd' \in 0 .. RcvCap /\ h2c' \in Seq(Seg) /\ Len(h2c') =< RingCap
    <3>1. Send("SYN", u, <<>>) /\ u \in 0 .. SeqMod - 1
      BY <1>1, <1>3, <2>1
    <3> QED BY <1>2, <1>4, <1>5, <3>1, SendFacts
  <2> QED BY <2>1
<1>7. TypeOK'
  BY <1>1, <1>2, <1>3, <1>6, Caps DEF TypeOK
<1>8. PassAgrees'
  <2>1. retries =< MaxRetries
    BY <1>1 DEF RecvInv, PassAgrees
  <2> QED BY <1>1, <2>1 DEF PassAgrees
<1>9. RecvAgrees' /\ HostInOrder' /\ HalfShut'
  <2>1. \A f \in On(c2h') : FromCard(f)
    BY <1>1 DEF RecvInv, RecvAgrees, RecvSync
  <2> QED BY <1>1, <2>1, SameRecv DEF Open
<1> QED BY <1>7, <1>8, <1>9 DEF RecvInv

\* The first frames of conn_step's pass: perhaps an ARP request.
LEMMA HostArpRecv == ASSUME RecvInv, HostArp PROVE RecvInv'
<1>1. /\ UNCHANGED <<quota, mac, st, advWnd, una, nxt, wnd, finSeq, retries, sbHead, sbTail, hostEof,
                     rcvNxt, rb, cardEof, hostShut, c2h, cst, up, unread, cFin, cSent, cAcked, cWnd,
                     cTries, isn, got, ended>>
      /\ st # "free" /\ pc' = "deliver" /\ (h2c' = h2c \/ h2c' = Fit(h2c, Who))
  BY DEF HostArp, sendVars, recvVars, cardVars, history
<1>2. h2c' \in Seq(Seg) /\ Len(h2c') =< RingCap
  <2>1. Who \in Seg
    BY ArpFacts
  <2>2. h2c \in Seq(Seg) /\ Len(h2c) =< RingCap
    BY DEF RecvInv, TypeOK
  <2>3. Fit(h2c, Who) \in Seq(Seg) /\ Len(Fit(h2c, Who)) =< RingCap
    BY <2>1, <2>2, FitFacts
  <2> QED BY <1>1, <2>2, <2>3
<1>3. TypeOK'
  BY <1>1, <1>2 DEF RecvInv, TypeOK
<1>4. PassAgrees'
  BY <1>1 DEF RecvInv, PassAgrees, Fresh
<1>5. RecvAgrees' /\ HostInOrder' /\ HalfShut'
  <2>1. \A f \in On(c2h') : FromCard(f)
    BY <1>1 DEF RecvInv, RecvAgrees, RecvSync
  <2> QED BY <1>1, <2>1, SameRecv DEF Fresh
<1> QED BY <1>3, <1>4, <1>5 DEF RecvInv

\* 2. The local socket's bytes into the send buffer.
LEMMA HostReadRecv == ASSUME RecvInv, HostRead PROVE RecvInv'
<1>1. /\ UNCHANGED <<quota, mac, st, advWnd, una, nxt, wnd, finSeq, retries, sbHead, h2c,
                     rcvNxt, rb, cardEof, hostShut, c2h, cst, up, unread, cFin, cSent, cAcked, cWnd,
                     cTries, isn, got, ended>>
      /\ pc = "read" /\ pc' = "send"
  BY DEF HostRead, recvVars, cardVars, history
<1>2. /\ sbTail \in 0 .. HostBytes /\ sbHead \in Nat /\ sbTail - sbHead =< SndCap /\ hostEof \in BOOLEAN
  BY DEF RecvInv, TypeOK
<1>3. sbTail' \in 0 .. HostBytes /\ sbTail' - sbHead =< SndCap /\ hostEof' \in BOOLEAN
  <2>1. CASE UNCHANGED <<sbTail, hostEof>>
    BY <1>2, <2>1
  <2>2. CASE /\ \E n \in 1 .. HostBytes - sbTail : /\ n =< Free /\ n =< ToEnd(sbTail)
                                                 /\ sbTail' = sbTail + n
             /\ hostEof' = hostEof
    <3>1. PICK n \in 1 .. HostBytes - sbTail : n =< SndCap - (sbTail - sbHead) /\ sbTail' = sbTail + n
      BY <2>2 DEF Free
    <3>2. sbTail' \in 0 .. HostBytes /\ sbTail' - sbHead =< SndCap
      BY <1>2, <3>1, Caps
    <3> QED BY <1>2, <2>2, <3>2
  <2>3. CASE hostEof' = TRUE /\ sbTail' = sbTail
    BY <1>2, <2>3
  <2> QED BY <2>1, <2>2, <2>3 DEF HostRead
<1>4. TypeOK'
  BY <1>1, <1>3 DEF RecvInv, TypeOK
<1>5. PassAgrees'
  BY <1>1 DEF RecvInv, PassAgrees, Fresh
<1>6. RecvAgrees' /\ HostInOrder' /\ HalfShut'
  <2>1. \A f \in On(c2h') : FromCard(f)
    BY <1>1 DEF RecvInv, RecvAgrees, RecvSync
  <2> QED BY <1>1, <2>1, SameRecv DEF Fresh
<1> QED BY <1>4, <1>5, <1>6 DEF RecvInv

\* 3. One segment of unsent bytes.
LEMMA HostSendRecv == ASSUME RecvInv, HostSend PROVE RecvInv'
<1> DEFINE n == Least(Least(sbTail - Unsent, wnd - InFlight), Least(Mss, ToEnd(Unsent)))
<1>1. /\ UNCHANGED <<mac, st, una, wnd, finSeq, retries, sbHead, sbTail, hostEof,
                     rcvNxt, rb, cardEof, hostShut, c2h, cst, up, unread, cFin, cSent, cAcked, cWnd,
                     cTries, isn, got, ended>>
      /\ pc = "send"
      /\ \/ /\ quota > 0 /\ quota' = quota - 1 /\ nxt' = Mod(nxt + n) /\ pc' = pc
            /\ Send("ACK", nxt, Bytes(Unsent, n))
         \/ pc' = "fin" /\ quota' = SendQuota /\ nxt' = nxt /\ UNCHANGED <<advWnd, h2c>>
  BY DEF HostSend, recvVars, cardVars, history, Quiet
<1>2. TypeOK
  BY DEF RecvInv
<1>3. n \in Int /\ nxt + n \in Int
  <2>1. /\ sbTail - Unsent \in Int /\ wnd - InFlight \in Int /\ Mss \in Int /\ ToEnd(Unsent) \in Int
        /\ nxt \in Int
    BY <1>2, Numbers, Caps
  <2>2. n \in Int
    BY <2>1, LeastFacts
  <2> QED BY <2>1, <2>2
<1> HIDE DEF n
<1>4. "ACK" \in Kind /\ Bytes(Unsent, n) \in Seq(Int) /\ nxt \in 0 .. SeqMod - 1
  BY <1>2, <1>3, Numbers, BytesSeq DEF Kind
<1>5. rb' \in Seq(1 .. CardBytes) /\ Len(rb') =< RcvCap /\ rcvNxt' \in 0 .. SeqMod - 1
  BY <1>1, <1>2, Numbers DEF TypeOK
<1>6. /\ advWnd' \in 0 .. RcvCap /\ h2c' \in Seq(Seg) /\ Len(h2c') =< RingCap
      /\ nxt' \in 0 .. SeqMod - 1 /\ quota' \in 0 .. SendQuota /\ pc' \in {"send", "fin"}
  <2>1. CASE /\ quota > 0 /\ quota' = quota - 1 /\ nxt' = Mod(nxt + n) /\ pc' = pc
             /\ Send("ACK", nxt, Bytes(Unsent, n))
    <3>1. advWnd' \in 0 .. RcvCap /\ h2c' \in Seq(Seg) /\ Len(h2c') =< RingCap
      BY <1>2, <1>4, <1>5, <2>1, SendFacts
    <3>2. nxt' \in 0 .. SeqMod - 1
      BY <1>3, <2>1, ModFacts
    <3>3. quota' \in 0 .. SendQuota
      BY <1>2, <2>1, Caps DEF TypeOK
    <3> QED BY <1>1, <2>1, <3>1, <3>2, <3>3
  <2>2. CASE pc' = "fin" /\ quota' = SendQuota /\ nxt' = nxt /\ UNCHANGED <<advWnd, h2c>>
    BY <1>2, <1>4, <2>2, Caps DEF TypeOK
  <2> QED BY <1>1, <2>1, <2>2
<1>7. TypeOK'
  <2>1. UNCHANGED <<mac, st, una, wnd, finSeq, retries, sbHead, sbTail, hostEof, rcvNxt, rb, cardEof,
                    hostShut, c2h, cst, up, unread, cFin, cSent, cAcked, cWnd, cTries, isn, got, ended>>
    BY <1>1
  <2> QED BY <1>2, <1>6, <2>1 DEF TypeOK
<1>8. PassAgrees'
  BY <1>1, <1>6 DEF RecvInv, PassAgrees, Fresh
<1>9. RecvAgrees' /\ HostInOrder' /\ HalfShut'
  <2>1. \A f \in On(c2h') : FromCard(f)
    BY <1>1 DEF RecvInv, RecvAgrees, RecvSync
  <2> QED BY <1>1, <2>1, SameRecv DEF Fresh
<1> QED BY <1>7, <1>8, <1>9 DEF RecvInv

\* 4. The FIN.
LEMMA HostFinRecv == ASSUME RecvInv, HostFin PROVE RecvInv'
<1>1. /\ UNCHANGED <<quota, mac, una, wnd, retries, sbHead, sbTail, hostEof,
                     rcvNxt, rb, cardEof, hostShut, c2h, cst, up, unread, cFin, cSent, cAcked, cWnd,
                     cTries, isn, got, ended>>
      /\ pc = "fin" /\ pc' = "timer"
      /\ \/ /\ st \in Sending /\ st' \in {"finWait1", "lastAck"}
            /\ finSeq' = nxt /\ nxt' = Mod(nxt + 1) /\ Send("FIN", nxt, <<>>)
         \/ UNCHANGED <<st, finSeq, nxt, advWnd, h2c>>
  BY DEF HostFin, recvVars, cardVars, history, Quiet
<1>2. TypeOK
  BY DEF RecvInv
<1>3. "FIN" \in Kind /\ <<>> \in Seq(Int) /\ nxt \in 0 .. SeqMod - 1 /\ finSeq \in 0 .. SeqMod - 1
  BY <1>2, Numbers DEF Kind
<1>4. rb' \in Seq(1 .. CardBytes) /\ Len(rb') =< RcvCap /\ rcvNxt' \in 0 .. SeqMod - 1
  BY <1>1, <1>2, Numbers DEF TypeOK
<1>5. /\ advWnd' \in 0 .. RcvCap /\ h2c' \in Seq(Seg) /\ Len(h2c') =< RingCap
      /\ nxt' \in 0 .. SeqMod - 1 /\ finSeq' \in 0 .. SeqMod - 1
      /\ st' = st \/ (st \in Open /\ st' \in Open)
  <2>1. CASE /\ st \in Sending /\ st' \in {"finWait1", "lastAck"}
             /\ finSeq' = nxt /\ nxt' = Mod(nxt + 1) /\ Send("FIN", nxt, <<>>)
    <3>1. advWnd' \in 0 .. RcvCap /\ h2c' \in Seq(Seg) /\ Len(h2c') =< RingCap
      BY <1>2, <1>3, <1>4, <2>1, SendFacts
    <3>2. nxt' \in 0 .. SeqMod - 1
      <4>1. nxt + 1 \in Int
        BY <1>3, Caps
      <4> QED BY <2>1, <4>1, ModFacts
    <3> QED BY <1>3, <2>1, <3>1, <3>2 DEF Sending, Open
  <2>2. CASE UNCHANGED <<st, finSeq, nxt, advWnd, h2c>>
    BY <1>2, <1>3, <2>2 DEF TypeOK
  <2> QED BY <1>1, <2>1, <2>2
<1>6. TypeOK'
  <2>1. UNCHANGED <<quota, mac, una, wnd, retries, sbHead, sbTail, hostEof, rcvNxt, rb, cardEof,
                    hostShut, c2h, cst, up, unread, cFin, cSent, cAcked, cWnd, cTries, isn, got, ended>>
    BY <1>1
  <2>2. pc' = "timer" /\ st' \in Open \cup {"free", "synSent", "closed"}
    BY <1>1, <1>2, <1>5 DEF TypeOK
  <2> QED BY <1>2, <1>5, <2>1, <2>2 DEF TypeOK
<1>7. PassAgrees'
  <2>1. retries' = retries /\ ended' = ended /\ pc = "fin" /\ pc' = "timer"
    BY <1>1
  <2> QED BY <1>5, <2>1 DEF RecvInv, PassAgrees, Fresh, Open
<1>8. RecvAgrees' /\ HostInOrder' /\ HalfShut'
  <2>1. \A f \in On(c2h') : FromCard(f)
    BY <1>1 DEF RecvInv, RecvAgrees, RecvSync
  <2>2. (st' \in Open => st \in Open) /\ (st' = "synSent" \/ Fresh' => st = "synSent" \/ Fresh)
    BY <1>1, <1>5 DEF Fresh, Open
  <2>3. UNCHANGED <<rb, got, cardEof, hostShut, rcvNxt>>
    BY <1>1
  <2> QED BY <2>1, <2>2, <2>3, SameRecv
<1> QED BY <1>6, <1>7, <1>8 DEF RecvInv

\* What the timer sends again is one segment at most.
LEMMA ResendFacts ==
  ASSUME TypeOK, Resend, UNCHANGED <<rb, rcvNxt>>
  PROVE  advWnd' \in 0 .. RcvCap /\ h2c' \in Seq(Seg) /\ Len(h2c') =< RingCap
<1> DEFINE n == Least(Least(sbTail - sbHead, Mss), ToEnd(sbHead))
<1>1. rb' \in Seq(1 .. CardBytes) /\ Len(rb') =< RcvCap /\ rcvNxt' \in 0 .. SeqMod - 1
  BY Numbers DEF TypeOK
<1>2. /\ una \in 0 .. SeqMod - 1 /\ finSeq \in 0 .. SeqMod - 1 /\ <<>> \in Seq(Int)
      /\ "SYN" \in Kind /\ "ACK" \in Kind /\ "FIN" \in Kind
  BY Numbers DEF Kind
<1>3. Bytes(sbHead, n) \in Seq(Int)
  <2>1. sbTail - sbHead \in Int /\ Mss \in Int /\ ToEnd(sbHead) \in Int /\ sbHead \in Int
    BY Numbers, Caps
  <2>2. n \in Int
    BY <2>1, LeastFacts
  <2> QED BY <2>1, <2>2, BytesSeq
<1>4. \/ Send("SYN", una, <<>>) \/ Send("ACK", una, Bytes(sbHead, n))
      \/ Send("FIN", finSeq, <<>>) \/ UNCHANGED <<advWnd, h2c>>
  BY DEF Resend, Quiet
<1> HIDE DEF n
<1>5. CASE Send("SYN", una, <<>>)
  BY <1>1, <1>2, <1>5, SendFacts
<1>6. CASE Send("ACK", una, Bytes(sbHead, n))
  BY <1>1, <1>2, <1>3, <1>6, SendFacts
<1>7. CASE Send("FIN", finSeq, <<>>)
  BY <1>1, <1>2, <1>7, SendFacts
<1>8. CASE UNCHANGED <<advWnd, h2c>>
  BY <1>8 DEF TypeOK
<1> QED BY <1>4, <1>5, <1>6, <1>7, <1>8

\* 5. The timer is not due ...
LEMMA HostTimerWaitsRecv == ASSUME RecvInv, HostTimerWaits PROVE RecvInv'
<1>1. /\ UNCHANGED <<quota, mac, st, advWnd, una, nxt, wnd, finSeq, retries, sbHead, sbTail, hostEof,
                     rcvNxt, rb, cardEof, hostShut, h2c, c2h, cst, up, unread, cFin, cSent, cAcked, cWnd,
                     cTries, isn, got, ended>>
      /\ pc = "timer" /\ pc' = "close"
  BY DEF HostTimerWaits, sendVars, recvVars, cardVars, history
<1>2. TypeOK'
  BY <1>1 DEF RecvInv, TypeOK
<1>3. PassAgrees'
  BY <1>1 DEF RecvInv, PassAgrees, Fresh
<1>4. RecvAgrees' /\ HostInOrder' /\ HalfShut'
  <2>1. \A f \in On(c2h') : FromCard(f)
    BY <1>1 DEF RecvInv, RecvAgrees, RecvSync
  <2> QED BY <1>1, <2>1, SameRecv DEF Fresh
<1> QED BY <1>2, <1>3, <1>4 DEF RecvInv

\* ... or due: one more segment, or the end.
LEMMA HostTimerFiresRecv == ASSUME RecvInv, HostTimerFires PROVE RecvInv'
<1>1. /\ UNCHANGED <<quota, mac, una, nxt, wnd, finSeq, sbHead, sbTail, hostEof,
                     rcvNxt, rb, cardEof, hostShut, c2h, cst, up, unread, cFin, cSent, cAcked, cWnd,
                     cTries, isn, got>>
      /\ pc = "timer" /\ pc' = "close" /\ retries' = retries + 1
      /\ \/ retries < MaxRetries /\ Resend /\ UNCHANGED <<st, ended>>
         \/ st' = "closed" /\ ended' = "gaveUp" /\ UNCHANGED <<advWnd, h2c>>
  BY DEF HostTimerFires, recvVars, cardVars, Quiet
<1>2. TypeOK
  BY DEF RecvInv
<1>3. st \notin {"free", "closed"} /\ retries =< MaxRetries /\ retries \in Nat
  BY <1>1, Caps DEF RecvInv, PassAgrees, TypeOK
<1>4. /\ advWnd' \in 0 .. RcvCap /\ h2c' \in Seq(Seg) /\ Len(h2c') =< RingCap
      /\ st' \in Open \cup {"free", "synSent", "closed"}
      /\ ended' \in {"none", "orderly", "reset", "hostGone", "gaveUp"}
  <2>1. CASE Resend /\ UNCHANGED <<st, ended>>
    <3>1. UNCHANGED <<rb, rcvNxt>>
      BY <1>1
    <3>2. advWnd' \in 0 .. RcvCap /\ h2c' \in Seq(Seg) /\ Len(h2c') =< RingCap
      BY <1>2, <2>1, <3>1, ResendFacts
    <3> QED BY <1>2, <2>1, <3>2 DEF TypeOK
  <2>2. CASE st' = "closed" /\ ended' = "gaveUp" /\ UNCHANGED <<advWnd, h2c>>
    BY <1>2, <2>2 DEF TypeOK
  <2> QED BY <1>1, <2>1, <2>2
<1>5. retries' \in 0 .. MaxRetries + 1
  BY <1>1, <1>3, Caps
<1>6. TypeOK'
  <2>1. /\ UNCHANGED <<quota, mac, una, nxt, wnd, finSeq, sbHead, sbTail, hostEof,
                     rcvNxt, rb, cardEof, hostShut, c2h, cst, up, unread, cFin, cSent, cAcked, cWnd,
                     cTries, isn, got>>
        /\ pc' = "close"
    BY <1>1
  <2> QED BY <1>2, <1>4, <1>5, <2>1 DEF TypeOK
<1>7. st' = "closed" \/ (UNCHANGED <<st, ended>> /\ retries' =< MaxRetries)
  BY <1>1, <1>3, Caps
<1>8. PassAgrees'
  BY <1>1, <1>3, <1>7 DEF PassAgrees, Fresh
<1>9. RecvAgrees' /\ HostInOrder' /\ HalfShut'
  <2>1. \A f \in On(c2h') : FromCard(f)
    BY <1>1 DEF RecvInv, RecvAgrees, RecvSync
  <2>2. (st' \in Open => st \in Open) /\ (st' = "synSent" \/ Fresh' => st = "synSent" \/ Fresh)
    BY <1>7 DEF Fresh, Open
  <2>3. UNCHANGED <<rb, got, cardEof, hostShut, rcvNxt>>
    BY <1>1
  <2> QED BY <2>1, <2>2, <2>3, SameRecv
<1> QED BY <1>6, <1>8, <1>9 DEF RecvInv

\* 6. The slot of a closed connection is free.
LEMMA HostCloseRecv == ASSUME RecvInv, HostClose PROVE RecvInv'
<1>1. /\ UNCHANGED <<quota, mac, advWnd, una, nxt, wnd, finSeq, retries, sbHead, sbTail, hostEof,
                     rcvNxt, rb, cardEof, h2c, c2h, cst, up, unread, cFin, cSent, cAcked, cWnd,
                     cTries, isn, got>>
      /\ pc = "close" /\ pc' = "recv"
      /\ \/ /\ st = "closed" /\ st' = "free" /\ ended' # "none" /\ hostShut' = "both"
            /\ ended' \in {ended, "orderly"}
         \/ UNCHANGED <<st, hostShut, ended>>
  BY DEF HostClose, sendVars, cardVars
<1>2. TypeOK'
  BY <1>1 DEF RecvInv, TypeOK
<1>3. PassAgrees'
  BY <1>1 DEF RecvInv, PassAgrees, Fresh
<1>4. HostInOrder' /\ HalfShut'
  BY <1>1 DEF RecvInv, HostInOrder, HalfShut
<1>5. RecvAgrees'
  <2>1. \A f \in On(c2h') : FromCard(f)
    BY <1>1 DEF RecvInv, RecvAgrees
  <2>2. CASE st' = "free" /\ ended' # "none"
    BY <2>1, <2>2 DEF RecvAgrees, Fresh, Open
  <2>3. CASE UNCHANGED <<st, hostShut, ended>>
    <3>1. (st' \in Open => st \in Open) /\ (st' = "synSent" \/ Fresh' => st = "synSent" \/ Fresh)
      BY <2>3 DEF Fresh
    <3> QED BY <1>1, <2>1, <2>3, <3>1, SameRecv
  <2> QED BY <1>1, <2>2, <2>3
<1> QED BY <1>2, <1>3, <1>4, <1>5 DEF RecvInv

\* 1. Received bytes move from the buffer to the local socket: the two stay
\* one stream.
LEMMA Delivered ==
  ASSUME RecvInv, st \in Open, NEW k \in 1 .. Len(rb),
         got' = got \o SubSeq(rb, 1, k), rb' = SubSeq(rb, k + 1, Len(rb))
  PROVE  /\ got' = Bytes(0, Len(got) + k) /\ Len(got') = Len(got) + k
         /\ rb' = Bytes(Len(got'), Len(rb')) /\ Len(rb') = Len(rb) - k
         /\ got' \in Seq(1 .. CardBytes) /\ rb' \in Seq(1 .. CardBytes)
<1> DEFINE g == Len(got)
           r == Len(rb)
<1>1. /\ g \in Nat /\ r \in Nat /\ got = Bytes(0, g) /\ rb = Bytes(g, r) /\ g + r =< CardBytes
  BY Numbers DEF RecvInv, RecvAgrees, RecvSync, HostInOrder, Received
<1>2. k \in 1 .. r /\ got' = got \o SubSeq(rb, 1, k) /\ rb' = SubSeq(rb, k + 1, r)
  OBVIOUS
<1> HIDE DEF g, r
<1>3. SubSeq(rb, 1, k) = Bytes(g, k)
  <2>1. 1 \in 1 .. r + 1 /\ k \in 1 - 1 .. r /\ g + 1 - 1 = g /\ k - 1 + 1 = k /\ g \in Int
    BY <1>1, <1>2
  <2>2. SubSeq(Bytes(g, r), 1, k) = Bytes(g + 1 - 1, k - 1 + 1)
    BY <1>1, <2>1, BytesPiece
  <2> QED BY <1>1, <2>1, <2>2
<1>4. rb' = Bytes(g + k, r - k) /\ Len(rb') = r - k
  <2>1. k + 1 \in 1 .. r + 1 /\ r \in (k + 1) - 1 .. r /\ g + (k + 1) - 1 = g + k /\ r - (k + 1) + 1 = r - k
        /\ g \in Int
    BY <1>1, <1>2
  <2>2. /\ SubSeq(Bytes(g, r), k + 1, r) = Bytes(g + (k + 1) - 1, r - (k + 1) + 1)
        /\ Len(SubSeq(Bytes(g, r), k + 1, r)) = r - (k + 1) + 1
    BY <1>1, <2>1, BytesPiece
  <2> QED BY <1>1, <1>2, <2>1, <2>2
<1>5. got' = Bytes(0, g + k) /\ Len(got') = g + k
  <2>1. k \in Nat /\ g \in Nat
    BY <1>1, <1>2
  <2>2. got' = Bytes(0, g) \o Bytes(g, k)
    BY <1>1, <1>2, <1>3
  <2> QED BY <2>1, <2>2, BytesOnto
<1>6. got' \in Seq(1 .. CardBytes)
  <2>1. 0 \in Nat /\ g + k \in Nat /\ 0 + (g + k) =< CardBytes
    BY <1>1, <1>2, Caps
  <2> QED BY <1>5, <2>1, BytesRange, Caps
<1>7. rb' \in Seq(1 .. CardBytes)
  <2>1. g + k \in Nat /\ r - k \in Nat /\ (g + k) + (r - k) =< CardBytes
    BY <1>1, <1>2, Caps
  <2> QED BY <1>4, <2>1, BytesRange, Caps
<1> QED BY <1>4, <1>5, <1>6, <1>7 DEF g, r

\* conn_step's first part.
LEMMA HostDeliverRecv == ASSUME RecvInv, HostDeliver PROVE RecvInv'
<1>1. /\ UNCHANGED <<quota, mac, una, nxt, wnd, finSeq, retries, sbHead, sbTail, hostEof,
                     rcvNxt, cardEof, c2h, cst, up, unread, cFin, cSent, cAcked, cWnd, cTries, isn>>
      /\ pc = "deliver"
  BY DEF HostDeliver, sendVars, cardVars
<1>2. TypeOK
  BY DEF RecvInv
<1>3. /\ "ACK" \in Kind /\ "RST" \in Kind /\ <<>> \in Seq(Int) /\ nxt \in 0 .. SeqMod - 1
      /\ rcvNxt' \in 0 .. SeqMod - 1 /\ Len(rb) \in Nat /\ Len(got) \in Nat
  BY <1>1, <1>2, Numbers DEF Kind
<1>4. st # "free"
  BY <1>1 DEF RecvInv, PassAgrees
<1>5. \A f \in On(c2h') : FromCard(f)
  BY <1>1 DEF RecvInv, RecvAgrees, RecvSync
<1>6. CASE /\ st = "closed" /\ pc' = "close"
           /\ UNCHANGED <<st, rb, hostShut, got, ended, advWnd, h2c>>
  <2>1. TypeOK'
    BY <1>1, <1>2, <1>6 DEF TypeOK
  <2>2. PassAgrees'
    BY <1>1, <1>6 DEF RecvInv, PassAgrees, Fresh
  <2>3. RecvAgrees' /\ HostInOrder' /\ HalfShut'
    BY <1>1, <1>5, <1>6, SameRecv DEF Fresh
  <2> QED BY <2>1, <2>2, <2>3 DEF RecvInv
<1>7. CASE /\ st # "closed" /\ pc' = "read"
           /\ hostShut' = IF hostShut = "no" /\ ShutReady THEN "write" ELSE hostShut
           /\ UNCHANGED <<st, ended>> /\ rb' = rb /\ got' = got /\ UNCHANGED <<advWnd, h2c>>
  <2>1. /\ hostShut' \in {"no", "write", "both"}
        /\ hostShut' = "write" => hostShut = "write" \/ (cardEof /\ rb = <<>>)
        /\ hostShut' # "no" => hostShut # "no" \/ (cardEof /\ rb = <<>>)
    <3>1. hostShut \in {"no", "write", "both"}
      BY <1>2 DEF TypeOK
    <3>2. ShutReady => cardEof /\ rb = <<>>
      BY <1>7 DEF ShutReady
    <3> QED BY <1>7, <3>1, <3>2
  <2>2. TypeOK'
    BY <1>1, <1>2, <1>7, <2>1 DEF TypeOK
  <2>3. PassAgrees'
    BY <1>1, <1>4, <1>7 DEF RecvInv, PassAgrees, Fresh
  <2>4. st \in Open \/ st = "synSent"
    BY <1>2, <1>4, <1>7 DEF TypeOK
  <2>5. st = "synSent" => hostShut' = "no"
    BY <2>1 DEF RecvInv, RecvAgrees, RecvSync
  <2>6. hostShut' = "write" => Len(got) = CardBytes
    <3>1. CASE hostShut = "write"
      BY <3>1 DEF RecvInv, HalfShut
    <3>2. CASE cardEof /\ rb = <<>> /\ st \in Open
      <4>1. Len(got) + Len(rb) = CardBytes /\ Len(rb) = 0
        BY <3>2 DEF RecvInv, RecvAgrees, RecvSync, Received
      <4> QED BY <1>3, <4>1
    <3> QED BY <2>1, <2>4, <2>5, <3>1, <3>2
  <2>7. HostInOrder' /\ HalfShut'
    BY <1>7, <2>6 DEF RecvInv, HostInOrder, HalfShut
  <2>8. RecvAgrees'
    <3>1. Received' = Received
      BY <1>7 DEF Received
    <3>2. UNCHANGED <<st, ended, rb, got, cardEof, rcvNxt>>
      BY <1>1, <1>7
    <3> QED BY <1>4, <1>5, <2>5, <3>1, <3>2 DEF RecvInv, RecvAgrees, RecvSync, Fresh
  <2> QED BY <2>2, <2>3, <2>7, <2>8 DEF RecvInv
<1>8. ASSUME NEW k \in 1 .. Len(rb), st # "closed", pc' = "read",
             hostShut' = IF hostShut = "no" /\ ShutReady THEN "write" ELSE hostShut,
             UNCHANGED <<st, ended>>, got' = got \o SubSeq(rb, 1, k), rb' = SubSeq(rb, k + 1, Len(rb)),
             Send("ACK", nxt, <<>>) \/ UNCHANGED <<advWnd, h2c>>
      PROVE  RecvInv'
  <2>1. st \in Open
    <3>1. rb # <<>>
      BY <1>8
    <3>2. st \in Open \/ st = "synSent"
      BY <1>2, <1>4, <1>8 DEF TypeOK
    <3> QED BY <3>1, <3>2 DEF RecvInv, RecvAgrees, RecvSync
  <2>2. /\ got' = Bytes(0, Len(got')) /\ Len(got') = Len(got) + k
        /\ rb' = Bytes(Len(got'), Len(rb')) /\ Len(rb') = Len(rb) - k
        /\ got' \in Seq(1 .. CardBytes) /\ rb' \in Seq(1 .. CardBytes)
    BY <1>8, <2>1, Delivered
  <2>3. /\ Received' = Received /\ Received =< CardBytes /\ (cardEof => Received = CardBytes)
        /\ rcvNxt = CardSeq(Received + One(cardEof))
    <3>1. Received' = Len(got') + Len(rb') /\ Received = Len(got) + Len(rb)
      BY DEF Received
    <3>2. Len(got') = Len(got) + k /\ Len(rb') = Len(rb) - k
      BY <2>2
    <3>3. Received' = Received
      BY <1>3, <3>1, <3>2
    <3> QED BY <2>1, <3>3 DEF RecvInv, RecvAgrees, RecvSync
  <2>4. Len(rb') =< RcvCap
    <3>1. Len(rb) =< RcvCap /\ Len(rb') = Len(rb) - k
      BY <1>2, <2>2 DEF TypeOK
    <3> QED BY <1>3, <3>1, Caps
  <2>5. advWnd' \in 0 .. RcvCap /\ h2c' \in Seq(Seg) /\ Len(h2c') =< RingCap
    <3>1. CASE Send("ACK", nxt, <<>>)
      BY <1>2, <1>3, <2>2, <2>4, <3>1, SendFacts
    <3>2. CASE UNCHANGED <<advWnd, h2c>>
      BY <1>2, <3>2 DEF TypeOK
    <3> QED BY <1>8, <3>1, <3>2
  <2>6. /\ hostShut' \in {"no", "write", "both"}
        /\ hostShut' = "write" => hostShut = "write" \/ (cardEof /\ rb' = <<>>)
        /\ hostShut' # "no" => hostShut # "no" \/ (cardEof /\ rb' = <<>>)
    <3>1. hostShut \in {"no", "write", "both"}
      BY <1>2 DEF TypeOK
    <3>2. ShutReady => cardEof /\ rb' = <<>>
      BY DEF ShutReady
    <3> QED BY <1>8, <3>1, <3>2
  <2>7. TypeOK'
    <3>1. got' \in Seq(1 .. CardBytes) /\ rb' \in Seq(1 .. CardBytes)
      BY <2>2
    <3>2. UNCHANGED <<st, ended>> /\ pc' = "read"
      BY <1>8
    <3> QED BY <1>1, <1>2, <2>4, <2>5, <2>6, <3>1, <3>2 DEF TypeOK
  <2>8. PassAgrees'
    BY <1>1, <1>8, <2>1 DEF RecvInv, PassAgrees, Fresh, Open
  <2>9. hostShut # "write"
    <3>1. hostShut = "write" => Len(got) = CardBytes
      BY DEF RecvInv, HalfShut
    <3>2. Len(got) + Len(rb) =< CardBytes /\ Len(rb) > 0
      BY <1>3, <1>8, <2>3 DEF Received
    <3> QED BY <1>3, <3>1, <3>2, Caps
  <2>10. HalfShut'
    <3>1. ASSUME hostShut' = "write" PROVE Len(got') = CardBytes
      <4>1. cardEof /\ Len(rb') = 0
        BY <2>6, <2>9, <3>1
      <4>2. Len(got') + Len(rb') = CardBytes
        BY <2>3, <4>1 DEF Received
      <4>3. Len(got') \in Nat
        BY <2>2, LenProperties
      <4> QED BY <4>1, <4>2, <4>3
    <3> QED BY <3>1 DEF HalfShut
  <2>11. HostInOrder'
    BY <2>2 DEF HostInOrder
  <2>12. RecvAgrees'
    <3>1. UNCHANGED <<st, ended, cardEof, rcvNxt>> /\ rb' = Bytes(Len(got'), Len(rb'))
      BY <1>1, <1>8, <2>2
    <3> QED BY <1>5, <2>1, <2>3, <3>1 DEF RecvAgrees, RecvSync, Fresh, Open
  <2> QED BY <2>7, <2>8, <2>10, <2>11, <2>12 DEF RecvInv
<1>9. CASE /\ st # "closed" /\ pc' = "close" /\ st' = "closed" /\ ended' = "hostGone"
           /\ rb' = rb /\ Send("RST", nxt, <<>>) /\ UNCHANGED <<hostShut, got>>
  <2>1. rb' \in Seq(1 .. CardBytes) /\ Len(rb') =< RcvCap
    BY <1>2, <1>9 DEF TypeOK
  <2>2. advWnd' \in 0 .. RcvCap /\ h2c' \in Seq(Seg) /\ Len(h2c') =< RingCap
    BY <1>2, <1>3, <1>9, <2>1, SendFacts
  <2>3. /\ pc' = "close" /\ st' = "closed" /\ ended' = "hostGone" /\ UNCHANGED <<rb, hostShut, got>>
    BY <1>9
  <2>4. TypeOK'
    BY <1>1, <1>2, <2>2, <2>3 DEF TypeOK
  <2>5. PassAgrees'
    BY <2>3 DEF PassAgrees, Fresh
  <2>6. RecvAgrees' /\ HostInOrder' /\ HalfShut'
    <3>1. (st' \in Open => st \in Open) /\ (st' = "synSent" \/ Fresh' => st = "synSent" \/ Fresh)
      BY <2>3 DEF Open, Fresh
    <3>2. UNCHANGED <<rb, got, cardEof, hostShut, rcvNxt>>
      BY <1>1, <2>3
    <3> QED BY <1>5, <3>1, <3>2, SameRecv
  <2> QED BY <2>4, <2>5, <2>6 DEF RecvInv
<1> QED BY <1>6, <1>7, <1>8, <1>9 DEF HostDeliver, Quiet

----------------------------------------------------------------------------
(* tcp_in.                                                                 *)

\* The frame at the head of the card's ring, and the ring without it.
LEMMA CardFrame ==
  ASSUME RecvInv, c2h # <<>>, c2h' = Tail(c2h)
  PROVE  /\ Head(c2h) \in Seg /\ FromCard(Head(c2h)) /\ Head(c2h) \in On(c2h)
         /\ c2h' \in Seq(Seg) /\ Len(c2h') =< RingCap /\ On(c2h') \subseteq On(c2h)
         /\ \A f \in On(c2h') : FromCard(f)
<1>1. c2h \in Seq(Seg) /\ Len(c2h) =< RingCap /\ \A f \in On(c2h) : FromCard(f)
  BY DEF RecvInv, TypeOK, RecvAgrees, RecvSync
<1>2. /\ Tail(c2h) \in Seq(Seg) /\ Len(Tail(c2h)) =< RingCap
      /\ On(Tail(c2h)) \subseteq On(c2h) /\ Head(c2h) \in On(c2h) /\ Head(c2h) \in Seg
  BY <1>1, TakeFacts
<1> QED BY <1>1, <1>2

\* What is taken of a segment is a piece of the card's stream that fits the
\* receive buffer.
LEMMA TakenPiece ==
  ASSUME TypeOK, NEW f \in Seg, FromCard(f)
  PROVE  /\ Taken(f) \in 0 .. Len(f.data) /\ Taken(f) =< Room /\ Len(f.data) \in Nat
         /\ CardPos(f) \in 0 .. SeqMod - 1
         /\ SubSeq(f.data, 1, Taken(f)) = Bytes(CardPos(f), Taken(f))
         /\ SubSeq(f.data, 1, Taken(f)) \in Seq(1 .. CardBytes)
         /\ Len(SubSeq(f.data, 1, Taken(f))) = Taken(f)
         /\ Taken(f) > 0 => InOrder(f) /\ CardPos(f) + Len(f.data) =< CardBytes
<1> DEFINE n == Len(f.data)
           p == CardPos(f)
           k == Taken(f)
<1>1. n \in Nat /\ f.seq \in 0 .. SeqMod - 1
  BY LenProperties DEF Seg
<1>2. p \in 0 .. SeqMod - 1
  <2>1. f.seq - CardIsn - 1 \in Int
    BY <1>1, Caps
  <2> QED BY <2>1, ModFacts DEF CardPos
<1>3. Room \in Nat
  <2>1. Len(rb) \in Nat /\ Len(rb) =< RcvCap
    <3>1. rb \in Seq(1 .. CardBytes) /\ Len(rb) =< RcvCap
      BY Zenon DEF TypeOK
    <3> QED BY <3>1, LenProperties
  <2> HIDE DEF TypeOK
  <2>2. \A a, b \in Nat : a =< b => b - a \in Nat
    OBVIOUS
  <2> QED BY <2>1, <2>2, Caps DEF Room
<1>4. k \in 0 .. n /\ k =< Room /\ (k > 0 => InOrder(f))
  BY <1>1, <1>3 DEF Taken, Least
<1>5. f.data = Bytes(p, n) /\ (n > 0 => p + n =< CardBytes)
  BY <1>1 DEF FromCard
<1> HIDE DEF n, p, k
<1>6. SubSeq(f.data, 1, k) = Bytes(p, k) /\ Len(SubSeq(f.data, 1, k)) = k
  <2>1. 1 \in 1 .. n + 1 /\ k \in 1 - 1 .. n /\ p + 1 - 1 = p /\ k - 1 + 1 = k /\ p \in Int
    BY <1>1, <1>2, <1>4, Caps
  <2>2. /\ SubSeq(Bytes(p, n), 1, k) = Bytes(p + 1 - 1, k - 1 + 1)
        /\ Len(SubSeq(Bytes(p, n), 1, k)) = k - 1 + 1
    BY <1>1, <2>1, BytesPiece
  <2> QED BY <1>5, <2>1, <2>2
<1>7. Bytes(p, k) \in Seq(1 .. CardBytes)
  <2>1. p \in Nat /\ k \in Nat /\ CardBytes \in Nat
    BY <1>1, <1>2, <1>4, Caps
  <2>2. CASE k = 0
    <3>1. Bytes(p, k) = <<>>
      BY <2>1, <2>2, BytesFacts
    <3> QED BY <3>1
  <2>3. CASE k # 0
    <3>1. p + k =< CardBytes
      BY <1>1, <1>4, <1>5, <2>1, <2>3
    <3> QED BY <2>1, <3>1, BytesRange
  <2> QED BY <2>2, <2>3
<1>8. k > 0 => p + n =< CardBytes
  BY <1>1, <1>4, <1>5
<1> QED BY <1>1, <1>2, <1>4, <1>6, <1>7, <1>8 DEF n, p, k

\* The types of what a segment changes.
LEMMA AppliesTypes ==
  ASSUME TypeOK, NEW f \in Seg, FromCard(f), st \notin {"free", "synSent"}, Applies(f),
         mac' = mac
  PROVE  /\ wnd' \in 0 .. CardCap + Mss /\ una' \in 0 .. SeqMod - 1 /\ retries' \in {0, retries}
         /\ sbHead' \in Nat /\ sbTail - sbHead' =< SndCap
         /\ rb' \in Seq(1 .. CardBytes) /\ Len(rb') = Len(rb) + Taken(f) /\ Len(rb') =< RcvCap
         /\ rcvNxt' \in 0 .. SeqMod - 1 /\ cardEof' \in BOOLEAN
         /\ st' \in Open \cup {"closed"} /\ (st = "closed" => st' = "closed")
         /\ advWnd' \in 0 .. RcvCap /\ h2c' \in Seq(Seg) /\ Len(h2c') =< RingCap
         /\ \A g \in On(h2c') : g \in On(h2c) \/ (g.kind = "ACK" /\ g.seq = nxt /\ g.data = <<>>)
<1> DEFINE k == Taken(f)
           piece == SubSeq(f.data, 1, k)
<1>1. /\ k \in Nat /\ k =< Room /\ piece \in Seq(1 .. CardBytes) /\ Len(piece) = k
  BY TakenPiece
<1>2. /\ wnd' = f.wnd /\ rb' = rb \o piece
      /\ rcvNxt' = Mod(rcvNxt + k + (IF FinIn(f) THEN 1 ELSE 0))
      /\ cardEof' = (cardEof \/ FinIn(f))
      /\ \E rest \in Rests : st' = AfterFin(f, AfterAck(f, rest))
      /\ Send("ACK", nxt, <<>>) \/ UNCHANGED <<advWnd, h2c>>
  BY DEF Applies, Quiet
<1>3. \/ /\ NewAck(f) /\ una' = f.ack /\ retries' = 0
         /\ sbHead' = sbHead + Acked(f) - (IF FinCounted(f) THEN 1 ELSE 0)
      \/ UNCHANGED <<una, retries, sbHead>>
  BY DEF Applies
<1> HIDE DEF k, piece
<1>4. /\ una \in 0 .. SeqMod - 1 /\ nxt \in 0 .. SeqMod - 1 /\ rcvNxt \in 0 .. SeqMod - 1
      /\ sbHead \in Nat /\ sbTail \in Nat /\ sbTail - sbHead =< SndCap /\ Len(rb) \in Nat
      /\ rb \in Seq(1 .. CardBytes)
  BY Numbers DEF TypeOK
<1>5. wnd' \in 0 .. CardCap + Mss
  <2>1. f.wnd \in Nat /\ f.wnd =< CardCap
    BY DEF FromCard, Seg
  <2> QED BY <1>2, <2>1, Caps
<1>6. una' \in 0 .. SeqMod - 1 /\ retries' \in {0, retries}
  <2>1. f.ack \in 0 .. SeqMod - 1
    BY DEF Seg
  <2> QED BY <1>3, <1>4, <2>1
<1>7. sbHead' \in Nat /\ sbTail - sbHead' =< SndCap
  <2>1. CASE NewAck(f) /\ sbHead' = sbHead + Acked(f) - (IF FinCounted(f) THEN 1 ELSE 0)
    <3>1. Acked(f) \in Nat
      <4>1. f.ack - una \in Int
        BY <1>4, Caps DEF Seg
      <4> QED BY <4>1, ModFacts DEF Acked
    <3>2. Acked(f) > 0
      BY <2>1 DEF NewAck
    <3> HIDE DEF Acked, FinCounted
    <3>3. sbHead' = sbHead + Acked(f) \/ sbHead' = sbHead + Acked(f) - 1
      BY <1>4, <2>1, <3>1
    <3> QED BY <1>4, <3>1, <3>2, <3>3, Caps
  <2>2. CASE sbHead' = sbHead
    BY <1>4, <2>2
  <2> QED BY <1>3, <2>1, <2>2
<1>8. rb' \in Seq(1 .. CardBytes) /\ Len(rb') = Len(rb) + k
  BY <1>1, <1>2, <1>4, ConcatProperties
<1>9. Len(rb') =< RcvCap
  BY <1>1, <1>4, <1>8, Caps DEF Room
<1>10. rcvNxt' \in 0 .. SeqMod - 1
  <2>1. rcvNxt + k + 0 \in Int /\ rcvNxt + k + 1 \in Int
    BY <1>1, <1>4, Caps
  <2>2. rcvNxt' = Mod(rcvNxt + k + 0) \/ rcvNxt' = Mod(rcvNxt + k + 1)
    BY <1>2
  <2> QED BY <2>1, <2>2, ModFacts
<1>11. cardEof' \in BOOLEAN
  <2>1. (cardEof \/ FinIn(f)) \in BOOLEAN
    OBVIOUS
  <2> QED BY <1>2, <2>1, Zenon
<1>12. st' \in Open \cup {"closed"} /\ (st = "closed" => st' = "closed")
  <2>1. st \in Open \cup {"closed"}
    BY DEF TypeOK
  <2>2. PICK rest \in Rests : st' = AfterFin(f, AfterAck(f, rest))
    BY <1>2
  <2>3. AfterAck(f, rest) \in Open \cup {"closed"} /\ (st = "closed" => AfterAck(f, rest) = "closed")
    BY <2>1 DEF AfterAck, Open
  <2> HIDE DEF AfterAck
  <2> QED BY <2>2, <2>3 DEF AfterFin, Open
<1>13. /\ advWnd' \in 0 .. RcvCap /\ h2c' \in Seq(Seg) /\ Len(h2c') =< RingCap
       /\ \A g \in On(h2c') : g \in On(h2c) \/ (g.kind = "ACK" /\ g.seq = nxt /\ g.data = <<>>)
  <2>1. "ACK" \in Kind /\ <<>> \in Seq(Int)
    BY DEF Kind
  <2>2. CASE Send("ACK", nxt, <<>>)
    BY <1>4, <1>8, <1>9, <1>10, <2>1, <2>2, SendFacts
  <2>3. CASE UNCHANGED <<advWnd, h2c>>
    BY <2>3 DEF TypeOK
  <2> QED BY <1>2, <2>2, <2>3
<1> QED BY <1>5, <1>6, <1>7, <1>8, <1>9, <1>10, <1>11, <1>12, <1>13 DEF k

\* How far the next segment in order takes the stream: a byte only where the
\* stream ends, nothing after the FIN, the FIN after the last byte.
LEMMA AppliesCounts ==
  ASSUME RecvInv, NEW f \in Seg, FromCard(f), RecvSync
  PROVE  /\ Received + Taken(f) =< CardBytes
         /\ Taken(f) > 0 => CardPos(f) = Received /\ ~cardEof
         /\ FinIn(f) => ~cardEof /\ Received + Taken(f) = CardBytes
<1> DEFINE n == Len(f.data)
           p == CardPos(f)
           k == Taken(f)
           r == Received
           e == One(cardEof)
<1>1. /\ k \in 0 .. n /\ n \in Nat /\ p \in 0 .. SeqMod - 1
      /\ k > 0 => InOrder(f) /\ p + n =< CardBytes
  BY TakenPiece DEF RecvInv
<1>2. /\ r \in Nat /\ r =< CardBytes /\ rcvNxt = CardSeq(r + e) /\ (cardEof => r = CardBytes)
  BY Numbers DEF RecvInv, RecvAgrees, RecvSync, Received
<1>3. e \in {0, 1} /\ (cardEof => e = 1) /\ (~cardEof => e = 0)
  BY DEF One
<1>4. FinIn(f) => InOrder(f) /\ k = n /\ p + n = CardBytes
  BY DEF FinIn, FromCard
<1>5. InOrder(f) => p = r + e
  <2>1. r + e \in 0 .. CardBytes + 1
    BY <1>2, <1>3, Caps
  <2>2. Mod(CardSeq(r + e) - CardIsn - 1) = r + e
    BY <2>1, CardSeqFacts
  <2> QED BY <1>2, <2>2 DEF InOrder, CardPos
<1> HIDE DEF n, p, k, r, e
<1>6. k > 0 => p = r /\ ~cardEof
  BY <1>1, <1>2, <1>3, <1>5, Caps
<1>7. r + k =< CardBytes
  BY <1>1, <1>2, <1>6, Caps
<1>8. FinIn(f) => ~cardEof /\ r + k = CardBytes
  BY <1>1, <1>2, <1>3, <1>4, <1>5, Caps
<1> QED BY <1>6, <1>7, <1>8 DEF n, p, k, r, e

\* A segment of an open connection: the receive buffer and rcv_nxt agree
\* again.
LEMMA AppliesRecv ==
  ASSUME RecvInv, NEW f \in Seg, FromCard(f), RecvSync, Applies(f), got' = got
  PROVE  RecvSync'
<1> DEFINE p == CardPos(f)
           k == Taken(f)
           r == Received
           e == One(cardEof)
           d == IF FinIn(f) THEN 1 ELSE 0
           g == Len(got)
           piece == SubSeq(f.data, 1, k)
<1>1. /\ rb' = rb \o piece /\ rcvNxt' = Mod(rcvNxt + k + d) /\ cardEof' = (cardEof \/ FinIn(f))
  BY DEF Applies
<1>2. /\ k \in Nat /\ piece = Bytes(p, k) /\ p \in Nat
  BY TakenPiece, Caps DEF RecvInv
<1>3. /\ r + k =< CardBytes /\ (k > 0 => p = r /\ ~cardEof)
      /\ (FinIn(f) => ~cardEof /\ r + k = CardBytes)
  BY AppliesCounts
<1>4. /\ r = g + Len(rb) /\ r =< CardBytes /\ rcvNxt = CardSeq(r + e) /\ (cardEof => r = CardBytes)
      /\ rb = Bytes(g, Len(rb)) /\ g \in Nat /\ Len(rb) \in Nat
  BY Numbers DEF RecvInv, RecvAgrees, RecvSync, Received
<1>5. /\ e \in {0, 1} /\ d \in {0, 1} /\ (cardEof => e = 1) /\ (~cardEof => e = 0)
      /\ (FinIn(f) => d = 1) /\ (~FinIn(f) => d = 0)
  BY DEF One
<1> HIDE DEF p, k, r, e, d, g, piece
<1>6. rb' = Bytes(g, Len(rb) + k)
  <2>1. ASSUME NEW b \in Nat, b = Len(rb) PROVE Bytes(g, b) \o Bytes(p, k) = Bytes(g, b + k)
    <3>1. CASE k = 0
      <4>1. Bytes(p, k) = <<>> /\ Bytes(g, b) \in Seq(Int)
        BY <1>2, <1>4, <3>1, BytesFacts
      <4>2. Bytes(g, b) \o <<>> = Bytes(g, b)
        BY <4>1, ConcatEmptySeq
      <4>3. b + k = b
        BY <3>1
      <4> QED BY <4>1, <4>2, <4>3
    <3>2. CASE k # 0
      <4>1. p = g + b /\ g \in Int
        BY <1>2, <1>3, <1>4, <2>1, <3>2
      <4> QED BY <1>2, <4>1, BytesJoin
    <3> QED BY <3>1, <3>2
  <2> QED BY <1>1, <1>2, <1>4, <2>1
<1>7. Len(rb') = Len(rb) + k
  <2>1. Len(rb) + k \in Nat /\ g \in Int
    BY <1>2, <1>4
  <2> QED BY <1>6, <2>1, BytesFacts
<1>8. Received' = r + k
  <2>1. Received' = g + Len(rb')
    BY DEF Received, g
  <2> QED BY <1>2, <1>4, <1>7, <2>1
<1>9. cardEof' <=> (cardEof \/ FinIn(f))
  BY <1>1
<1>10. One(cardEof') = e + d
  <2>1. ~(cardEof /\ FinIn(f))
    BY <1>3
  <2>2. CASE cardEof \/ FinIn(f)
    <3>1. One(cardEof') = 1
      BY <1>9, <2>2 DEF One
    <3> QED BY <1>5, <2>1, <2>2, <3>1
  <2>3. CASE ~(cardEof \/ FinIn(f))
    <3>1. One(cardEof') = 0
      BY <1>9, <2>3 DEF One
    <3> QED BY <1>5, <2>3, <3>1
  <2> QED BY <2>2, <2>3
<1>11. rcvNxt' = CardSeq((r + k) + (e + d))
  <2>1. r + e \in 0 .. CardBytes + 1 /\ k + d \in 0 .. CardBytes + 1
    BY <1>2, <1>3, <1>4, <1>5, Caps
  <2>2. Mod(CardSeq(r + e) + (k + d)) = CardSeq((r + e) + (k + d))
    BY <2>1, CardSeqFacts
  <2>3. CardSeq(r + e) \in Int
    BY <2>1, CardSeqFacts, Caps
  <2>4. CardSeq(r + e) + k + d = CardSeq(r + e) + (k + d) /\ (r + e) + (k + d) = (r + k) + (e + d)
    BY <1>2, <1>4, <1>5, <2>3
  <2> QED BY <1>1, <1>4, <2>2, <2>4
<1>12. cardEof' => r + k = CardBytes
  BY <1>2, <1>3, <1>4, <1>9
<1> QED BY <1>3, <1>6, <1>7, <1>8, <1>10, <1>11, <1>12 DEF g, RecvSync

\* tcp_in, whatever the frame.
LEMMA HostRecvRecv == ASSUME RecvInv, HostRecv PROVE RecvInv'
<1> DEFINE f == Head(c2h)
<1>1. /\ pc = "recv" /\ c2h # <<>> /\ c2h' = Tail(c2h)
      /\ UNCHANGED <<pc, quota, cst, up, unread, cFin, cSent, cAcked, cWnd, cTries, isn, got>>
      /\ \/ /\ mac' = (mac \/ IsArp(f)) /\ h2c' \in {h2c, Fit(h2c, Arp)}
            /\ UNCHANGED <<st, advWnd, sendVars, recvVars, ended>>
         \/ /\ st # "free" /\ mac' = mac
            /\ \/ Resets
               \/ st = "synSent" /\ Opens(f)
               \/ st # "synSent" /\ Applies(f)
  BY DEF HostRecv, cardVars
<1>2. /\ f \in Seg /\ FromCard(f) /\ c2h' \in Seq(Seg) /\ Len(c2h') =< RingCap
      /\ \A g \in On(c2h') : FromCard(g)
  BY <1>1, CardFrame
<1>3. TypeOK
  BY DEF RecvInv
<1> HIDE DEF f
<1>4. /\ UNCHANGED <<pc, quota, cst, up, unread, cFin, cSent, cAcked, cWnd, cTries, isn, got>>
      /\ pc = "recv"
  BY <1>1
<1>5. CASE /\ mac' = (mac \/ IsArp(f)) /\ h2c' \in {h2c, Fit(h2c, Arp)}
           /\ UNCHANGED <<st, advWnd, sendVars, recvVars, ended>>
  <2>1. mac' \in BOOLEAN
    <3>1. (mac \/ IsArp(f)) \in BOOLEAN
      OBVIOUS
    <3> QED BY <1>5, <3>1, Zenon
  <2>2. UNCHANGED <<st, advWnd, una, nxt, wnd, finSeq, retries, sbHead, sbTail, hostEof,
                    rcvNxt, rb, cardEof, hostShut, ended>>
    BY <1>5 DEF sendVars, recvVars
  <2>6. h2c' \in Seq(Seg) /\ Len(h2c') =< RingCap
    <3>1. h2c \in Seq(Seg) /\ Len(h2c) =< RingCap
      BY <1>3 DEF TypeOK
    <3>2. Fit(h2c, Arp) \in Seq(Seg) /\ Len(Fit(h2c, Arp)) =< RingCap
      BY <3>1, ArpFacts, FitFacts
    <3> QED BY <1>5, <3>1, <3>2
  <2>3. TypeOK'
    BY <1>2, <1>3, <1>4, <2>1, <2>2, <2>6 DEF TypeOK
  <2>4. PassAgrees'
    BY <1>4, <2>2 DEF RecvInv, PassAgrees, Fresh
  <2>5. RecvAgrees' /\ HostInOrder' /\ HalfShut'
    <3>1. (st' \in Open => st \in Open) /\ (st' = "synSent" \/ Fresh' => st = "synSent" \/ Fresh)
      BY <2>2 DEF Fresh
    <3> QED BY <1>2, <1>4, <2>2, <3>1, SameRecv
  <2> QED BY <2>3, <2>4, <2>5 DEF RecvInv
<1>6. CASE Resets /\ mac' = mac
  <2>1. /\ UNCHANGED <<mac, advWnd, una, nxt, wnd, finSeq, retries, sbHead, sbTail, hostEof,
                       rcvNxt, rb, hostShut, h2c>>
        /\ st' = "closed" /\ cardEof' = TRUE /\ ended' = "reset"
    BY <1>6 DEF Resets, sendVars
  <2>2. TypeOK'
    BY <1>2, <1>3, <1>4, <2>1 DEF TypeOK
  <2>3. PassAgrees'
    BY <1>4, <2>1 DEF RecvInv, PassAgrees, Fresh
  <2>4. HostInOrder' /\ HalfShut'
    BY <1>4, <2>1 DEF RecvInv, HostInOrder, HalfShut
  <2>5. RecvAgrees'
    BY <1>2, <2>1 DEF RecvAgrees, RecvSync, Fresh, Open
  <2> QED BY <2>2, <2>3, <2>4, <2>5 DEF RecvInv
<1>7. CASE st = "synSent" /\ Opens(f) /\ mac' = mac
  <2>1. UNCHANGED <<mac, nxt, finSeq, sbHead, sbTail, hostEof, cardEof, hostShut, ended>>
    BY <1>7 DEF Opens
  <2>2. /\ nxt \in 0 .. SeqMod - 1 /\ una \in 0 .. SeqMod - 1 /\ rcvNxt \in 0 .. SeqMod - 1
        /\ "ACK" \in Kind /\ <<>> \in Seq(Int)
        /\ rb \in Seq(1 .. CardBytes) /\ Len(rb) =< RcvCap
        /\ rb = <<>> /\ got = <<>> /\ ~cardEof /\ hostShut = "no"
    <3>1. rb = <<>> /\ got = <<>> /\ ~cardEof /\ hostShut = "no"
      BY <1>7 DEF RecvInv, RecvAgrees, RecvSync
    <3> QED BY <1>3, <3>1, Numbers DEF TypeOK, Kind
  <2>3. CASE /\ f.kind = "SYNACK" /\ rcvNxt' = Mod(f.seq + 1) /\ una' = nxt /\ wnd' = f.wnd
             /\ st' = "established" /\ retries' = 0 /\ rb' = rb /\ Send("ACK", nxt, <<>>)
    <3>1. rcvNxt' = CardSeq(0) /\ rcvNxt' \in 0 .. SeqMod - 1
      <4>1. f.seq = CardIsn /\ CardIsn + 1 = CardIsn + 1 + 0 /\ 0 \in -1 .. CardBytes + 1
        BY <1>2, <2>3, Caps DEF FromCard
      <4>2. rcvNxt' = CardSeq(0)
        BY <2>3, <4>1 DEF CardSeq
      <4> QED BY <4>1, <4>2, CardSeqFacts
    <3>2. wnd' \in 0 .. CardCap + Mss
      <4>1. f.wnd \in Nat /\ f.wnd =< CardCap
        BY <1>2, <2>3 DEF FromCard, Seg
      <4> QED BY <2>3, <4>1, Caps
    <3>3. rb' \in Seq(1 .. CardBytes) /\ Len(rb') =< RcvCap
      BY <2>2, <2>3
    <3>4. advWnd' \in 0 .. RcvCap /\ h2c' \in Seq(Seg) /\ Len(h2c') =< RingCap
      BY <1>3, <2>2, <2>3, <3>1, <3>3, SendFacts
    <3>5. una' \in 0 .. SeqMod - 1 /\ st' = "established" /\ retries' = 0 /\ rb' = rb
      BY <2>2, <2>3
    <3>6. TypeOK'
      <4>1. 0 \in 0 .. MaxRetries + 1 /\ st' \in Open
        BY <3>5, Caps DEF Open
      <4> QED BY <1>2, <1>3, <1>4, <2>1, <3>1, <3>2, <3>4, <3>5, <4>1 DEF TypeOK
    <3>7. PassAgrees'
      BY <1>4, <3>5, Caps DEF PassAgrees
    <3>8. HostInOrder' /\ HalfShut'
      BY <1>4, <2>1 DEF RecvInv, HostInOrder, HalfShut
    <3>9. RecvAgrees'
      <4>1. Len(got') = 0 /\ Len(rb') = 0 /\ rb' = <<>> /\ One(cardEof') = 0 /\ ~cardEof'
        BY <1>4, <2>1, <2>2, <3>5 DEF One
      <4>2. Received' = 0 /\ Received' + One(cardEof') = 0 /\ Received' =< CardBytes
        BY <4>1, Caps DEF Received
      <4>3. rb' = Bytes(Len(got'), Len(rb'))
        <5>1. Bytes(0, 0) = <<>>
          BY BytesFacts
        <5> QED BY <4>1, <5>1
      <4>4. rcvNxt' = CardSeq(Received' + One(cardEof'))
        BY <3>1, <4>2
      <4> QED BY <1>2, <3>5, <4>1, <4>2, <4>3, <4>4 DEF RecvAgrees, RecvSync, Fresh, Open
    <3> QED BY <3>6, <3>7, <3>8, <3>9 DEF RecvInv
  <2>4. CASE UNCHANGED <<rcvNxt, una, wnd, st, retries, rb>> /\ UNCHANGED <<advWnd, h2c>>
    <3>1. TypeOK'
      BY <1>2, <1>3, <1>4, <2>1, <2>4 DEF TypeOK
    <3>2. PassAgrees'
      BY <1>4, <2>1, <2>4 DEF RecvInv, PassAgrees, Fresh
    <3>3. RecvAgrees' /\ HostInOrder' /\ HalfShut'
      <4>1. (st' \in Open => st \in Open) /\ (st' = "synSent" \/ Fresh' => st = "synSent" \/ Fresh)
        BY <2>1, <2>4 DEF Fresh
      <4> QED BY <1>2, <1>4, <2>1, <2>4, <4>1, SameRecv
    <3> QED BY <3>1, <3>2, <3>3 DEF RecvInv
  <2> QED BY <1>7, <2>3, <2>4 DEF Opens, Quiet
<1>8. CASE /\ st \notin {"free", "synSent"} /\ Applies(f) /\ mac' = mac
  <2>1. UNCHANGED <<mac, nxt, finSeq, sbTail, hostEof, hostShut, ended>>
    BY <1>8 DEF Applies
  <2>2. /\ wnd' \in 0 .. CardCap + Mss /\ una' \in 0 .. SeqMod - 1 /\ retries' \in {0, retries}
        /\ sbHead' \in Nat /\ sbTail - sbHead' =< SndCap
        /\ rb' \in Seq(1 .. CardBytes) /\ Len(rb') =< RcvCap
        /\ rcvNxt' \in 0 .. SeqMod - 1 /\ cardEof' \in BOOLEAN
        /\ st' \in Open \cup {"closed"} /\ (st = "closed" => st' = "closed")
        /\ advWnd' \in 0 .. RcvCap /\ h2c' \in Seq(Seg) /\ Len(h2c') =< RingCap
    BY <1>2, <1>3, <1>8, AppliesTypes
  <2>3. TypeOK'
    <3>1. retries' \in 0 .. MaxRetries + 1
      <4>1. retries \in 0 .. MaxRetries + 1
        BY <1>3 DEF TypeOK
      <4> QED BY <2>2, <4>1, Caps
    <3> QED BY <1>2, <1>3, <1>4, <2>1, <2>2, <3>1 DEF TypeOK
  <2>4. PassAgrees'
    <3>1. st' # "closed" => retries =< MaxRetries
      BY <1>8, <2>2 DEF RecvInv, PassAgrees
    <3>2. st' # "free" /\ 0 =< MaxRetries
      BY <2>2, Caps DEF Open
    <3> QED BY <1>4, <2>2, <3>1, <3>2 DEF PassAgrees, Fresh
  <2>5. HostInOrder' /\ HalfShut'
    BY <1>4, <2>1 DEF RecvInv, HostInOrder, HalfShut
  <2>6. st' \in Open => RecvSync'
    <3>1. ASSUME st' \in Open PROVE st \in Open
      BY <1>3, <1>8, <2>2, <3>1 DEF TypeOK, Open
    <3>2. st \in Open => RecvSync
      BY DEF RecvInv, RecvAgrees
    <3> QED BY <1>2, <1>4, <1>8, <3>1, <3>2, AppliesRecv
  <2>7. RecvAgrees'
    BY <1>2, <2>2, <2>6 DEF RecvAgrees, Fresh, Open
  <2> QED BY <2>3, <2>4, <2>5, <2>7 DEF RecvInv
<1> QED BY <1>1, <1>5, <1>6, <1>7, <1>8

----------------------------------------------------------------------------
(* The card.                                                               *)

\* The card's segment is a piece of its stream, and acknowledges what the
\* card has.
LEMMA CardOutFacts ==
  ASSUME TypeOK, NEW kind \in {"SYNACK", "ACK", "FIN", "RST"}, NEW pos \in -1 .. CardBytes + 1,
         NEW data \in Seq(Int), CardOut(kind, pos, data), up' \in Seq(Int), unread' \in 0 .. CardCap,
         pos = -1 => data = <<>> /\ kind # "FIN", kind = "SYNACK" => pos = -1,
         data = Bytes(pos, Len(data)), data # <<>> => pos + Len(data) =< CardBytes,
         kind = "FIN" => pos + Len(data) = CardBytes
  PROVE  /\ c2h' \in Seq(Seg) /\ Len(c2h') =< RingCap
         /\ \A f \in On(c2h') : \/ f \in On(c2h)
                                \/ /\ FromCard(f) /\ f.kind = kind
                                   /\ f.ack = Mod(isn + 1 + Len(up') + One(cFin'))
<1> DEFINE a == Mod(isn + 1 + Len(up') + One(cFin'))
           w == CardCap - unread'
           g == Segment(kind, CardSeq(pos), a, w, data)
<1>1. c2h \in Seq(Seg) /\ Len(c2h) =< RingCap
  BY DEF TypeOK
<1>2. c2h' = Fit(c2h, g)
  BY DEF CardOut, One
<1>3. a \in 0 .. SeqMod - 1
  <2>1. Len(up') \in Nat /\ isn \in 0 .. SeqMod - 1 /\ One(cFin') \in {0, 1}
    BY LenProperties, Numbers DEF One
  <2>2. isn + 1 + Len(up') + One(cFin') \in Int
    BY <2>1, Caps
  <2> QED BY <2>2, ModFacts
<1>4. w \in Nat /\ w =< CardCap
  <2>1. \A u \in 0 .. CardCap : CardCap - u \in Nat /\ CardCap - u =< CardCap
    BY Caps
  <2> QED BY <2>1
<1>5. CardSeq(pos) \in 0 .. SeqMod - 1
  BY CardSeqFacts
<1> HIDE DEF a, w
<1>6. /\ g \in Seg /\ g.kind = kind /\ g.seq = CardSeq(pos) /\ g.ack = a /\ g.wnd = w /\ g.data = data
  BY <1>3, <1>4, <1>5 DEF Seg, Segment, Kind
<1> HIDE DEF g
<1>7. FromCard(g)
  <2>1. CASE pos = -1
    <3>1. data = <<>> /\ kind # "FIN" /\ g.seq = CardIsn
      BY <1>6, <2>1, CardSeqFacts
    <3>2. Mod(g.seq - CardIsn - 1) \in Int
      <4>1. g.seq - CardIsn - 1 \in Int
        BY <3>1, Caps
      <4> QED BY <4>1, ModFacts, Caps
    <3>3. Bytes(CardPos(g), 0) = <<>>
      BY <3>2, BytesFacts DEF CardPos
    <3> QED BY <1>4, <1>6, <3>1, <3>3 DEF FromCard
  <2>2. CASE pos # -1
    <3>1. pos \in 0 .. CardBytes + 1
      BY <2>2, Caps
    <3>2. CardPos(g) = pos
      BY <1>6, <3>1, CardSeqFacts DEF CardPos
    <3> QED BY <1>4, <1>6, <2>2, <3>2 DEF FromCard
  <2> QED BY <2>1, <2>2
<1>8. /\ Fit(c2h, g) \in Seq(Seg) /\ Len(Fit(c2h, g)) =< RingCap
      /\ On(Fit(c2h, g)) \subseteq On(c2h) \cup {g}
  BY <1>1, <1>6, FitFacts
<1> QED BY <1>2, <1>6, <1>7, <1>8 DEF a

\* The bare acknowledgement, reset or SYN-ACK.
LEMMA CardOutEmpty ==
  ASSUME TypeOK, NEW kind \in {"SYNACK", "ACK", "RST"}, NEW pos \in -1 .. CardBytes + 1,
         CardOut(kind, pos, <<>>), up' \in Seq(Int), unread' \in 0 .. CardCap,
         kind = "SYNACK" => pos = -1
  PROVE  /\ c2h' \in Seq(Seg) /\ Len(c2h') =< RingCap
         /\ \A f \in On(c2h') : \/ f \in On(c2h)
                                \/ /\ FromCard(f) /\ f.kind = kind
                                   /\ f.ack = Mod(isn + 1 + Len(up') + One(cFin'))
<1>1. <<>> \in Seq(Int) /\ Len(<<>>) = 0 /\ kind # "FIN" /\ pos \in Int
  BY Caps
<1>2. Bytes(pos, 0) = <<>>
  BY <1>1, BytesFacts
<1>3. <<>> = Bytes(pos, Len(<<>>))
  BY <1>1, <1>2
<1> QED BY <1>1, <1>3, CardOutFacts

\* The steps of the card leave what the local side has alone.
LEMMA CardStep ==
  ASSUME RecvInv, UNCHANGED hostVars,
         h2c' \in Seq(Seg), Len(h2c') =< RingCap, c2h' \in Seq(Seg), Len(c2h') =< RingCap,
         \A f \in On(c2h') : FromCard(f),
         up' \in Seq(Int), cFin' \in BOOLEAN, cst' \in {"listen", "synRcvd", "open", "gone"},
         unread' \in 0 .. CardCap, cSent' \in 0 .. CardBytes + 1, cAcked' \in 0 .. cSent'
  PROVE  RecvInv'
<1>1. UNCHANGED <<pc, quota, mac, st, advWnd, una, nxt, wnd, finSeq, retries, sbHead, sbTail, hostEof,
                  rcvNxt, rb, cardEof, hostShut, isn, got, ended>>
  BY DEF hostVars, passVars, sendVars, recvVars, history
<1>2. TypeOK'
  BY <1>1 DEF RecvInv, TypeOK
<1>3. PassAgrees'
  BY <1>1 DEF RecvInv, PassAgrees, Fresh
<1>4. RecvAgrees' /\ HostInOrder' /\ HalfShut'
  <2>1. (st' \in Open => st \in Open) /\ (st' = "synSent" \/ Fresh' => st = "synSent" \/ Fresh)
    BY <1>1 DEF Fresh
  <2> QED BY <1>1, <2>1, SameRecv
<1> QED BY <1>2, <1>3, <1>4 DEF RecvInv

\* What the card takes of a segment fits its buffer.
LEMMA CardTakeFacts ==
  ASSUME TypeOK, NEW f \in Seg
  PROVE  CardTake(f) \in Seq(Int) /\ Len(CardTake(f)) =< CardCap - unread /\ Len(CardTake(f)) \in Nat
<1> DEFINE off == Mod(isn + 1 + Len(up) - f.seq)
           n == Len(f.data)
           m == Least(n, off + CardCap - unread)
<1>1. CASE CardTake(f) = <<>>
  <2>1. CardCap - unread >= 0 /\ Len(<<>>) = 0
    BY Caps DEF TypeOK
  <2> QED BY <1>1, <2>1
<1>2. CASE ~(off > n) /\ CardTake(f) = SubSeq(f.data, off + 1, m)
  <2>1. off \in Nat
    <3>1. isn + 1 + Len(up) - f.seq \in Int
      <4>1. isn \in 0 .. SeqMod - 1 /\ Len(up) \in Nat /\ f.seq \in 0 .. SeqMod - 1
        BY Numbers DEF Seg
      <4> QED BY <4>1, Caps
    <3> QED BY <3>1, ModFacts
  <2>2. n \in Nat /\ f.data \in Seq(Int) /\ unread \in 0 .. CardCap
    BY LenProperties DEF Seg, TypeOK
  <2> HIDE DEF off
  <2>3. m \in off .. n /\ m - off =< CardCap - unread
    BY <1>2, <2>1, <2>2, Caps DEF Least
  <2> HIDE DEF m
  <2>4. off + 1 \in 1 .. n + 1 /\ m \in (off + 1) - 1 .. n
    BY <1>2, <2>1, <2>2, <2>3
  <2>5. \A i \in off + 1 .. m : f.data[i] \in Int
    <3>1. \A i \in 1 .. n : f.data[i] \in Int
      BY <2>2, ElementOfSeq
    <3> QED BY <2>1, <2>2, <2>3, <3>1
  <2>6. SubSeq(f.data, off + 1, m) \in Seq(Int) /\ Len(SubSeq(f.data, off + 1, m)) = m - (off + 1) + 1
    BY <2>2, <2>4, <2>5, SubSeqProperties
  <2>7. m - (off + 1) + 1 = m - off /\ m - off \in Nat
    BY <2>1, <2>2, <2>3
  <2> QED BY <1>2, <2>3, <2>6, <2>7
<1> QED BY <1>1, <1>2 DEF CardTake

\* The card's variables, each by itself.
LEMMA CardTypes ==
  ASSUME RecvInv
  PROVE  /\ up \in Seq(Int) /\ cFin \in BOOLEAN /\ cst \in {"listen", "synRcvd", "open", "gone"}
         /\ unread \in 0 .. CardCap /\ cSent \in 0 .. CardBytes + 1 /\ cAcked \in 0 .. cSent
         /\ h2c \in Seq(Seg) /\ Len(h2c) =< RingCap /\ c2h \in Seq(Seg) /\ Len(c2h) =< RingCap
         /\ \A f \in On(c2h) : FromCard(f)
BY DEF RecvInv, TypeOK, RecvAgrees, RecvSync

\* A segment of the connection reaches the card.
LEMMA CardSegmentRecv ==
  ASSUME RecvInv, NEW f \in Seg, CardSegment(f)
  PROVE  /\ c2h' \in Seq(Seg) /\ Len(c2h') =< RingCap /\ (\A g \in On(c2h') : FromCard(g))
         /\ up' \in Seq(Int) /\ Len(up') = Len(up) + Len(CardTake(f)) /\ cFin' \in BOOLEAN
         /\ cst' = "open" /\ unread' \in 0 .. CardCap /\ cSent' = cSent /\ cAcked' \in 0 .. cSent
<1>1. TypeOK
  BY DEF RecvInv
<1>2. /\ up \in Seq(Int) /\ unread \in 0 .. CardCap /\ cSent \in 0 .. CardBytes + 1
      /\ cAcked \in 0 .. cSent /\ c2h \in Seq(Seg) /\ Len(c2h) =< RingCap
      /\ \A g \in On(c2h) : FromCard(g)
  BY CardTypes
<1>3. CardTake(f) \in Seq(Int) /\ Len(CardTake(f)) =< CardCap - unread /\ Len(CardTake(f)) \in Nat
  BY <1>1, CardTakeFacts
<1>4. /\ cst' = "open" /\ up' = up \o CardTake(f) /\ unread' = unread + Len(CardTake(f))
      /\ cFin' = (cFin \/ (f.kind = "FIN" /\ f.seq = Mod(isn + 1 + Len(up'))))
      /\ cSent' = cSent /\ (CardOut("ACK", cSent, <<>>) \/ c2h' = c2h)
  BY DEF CardSegment
<1>5. cAcked' \in 0 .. cSent
  <2> DEFINE k == Mod(f.ack - CardSeq(cAcked))
  <2>1. cAcked' = IF k =< cSent - cAcked THEN cAcked + k ELSE cAcked
    BY DEF CardSegment
  <2>2. k \in Nat
    <3>1. cAcked \in -1 .. CardBytes + 1
      BY <1>2, Caps
    <3>2. CardSeq(cAcked) \in 0 .. SeqMod - 1 /\ f.ack \in 0 .. SeqMod - 1
      BY <3>1, CardSeqFacts DEF Seg
    <3>3. f.ack - CardSeq(cAcked) \in Int
      BY <3>2, Caps
    <3> QED BY <3>3, ModFacts
  <2> HIDE DEF k
  <2> QED BY <1>2, <2>1, <2>2, Caps
<1> HIDE DEF CardTake
<1>6. up' \in Seq(Int) /\ Len(up') = Len(up) + Len(CardTake(f))
  BY <1>2, <1>3, <1>4, ConcatProperties
<1>7. unread' \in 0 .. CardCap
  <2>1. \A u \in 0 .. CardCap, n \in Nat : n =< CardCap - u => u + n \in 0 .. CardCap
    BY Caps
  <2> QED BY <1>2, <1>3, <1>4, <2>1
<1>8. cFin' \in BOOLEAN
  <2>1. (cFin \/ (f.kind = "FIN" /\ f.seq = Mod(isn + 1 + Len(up')))) \in BOOLEAN
    OBVIOUS
  <2> QED BY <1>4, <2>1, Zenon
<1>9. c2h' \in Seq(Seg) /\ Len(c2h') =< RingCap /\ (\A g \in On(c2h') : FromCard(g))
  <2>1. CASE CardOut("ACK", cSent, <<>>)
    <3>1. cSent \in -1 .. CardBytes + 1
      BY <1>2, Caps
    <3> QED BY <1>1, <1>2, <1>6, <1>7, <2>1, <3>1, CardOutEmpty
  <2>2. CASE c2h' = c2h
    BY <1>2, <2>2
  <2> QED BY <1>4, <2>1, <2>2
<1> QED BY <1>4, <1>5, <1>6, <1>7, <1>8, <1>9

\* The card's driver takes a frame off the ring.
LEMMA CardInRecv == ASSUME RecvInv, CardIn PROVE RecvInv'
<1> DEFINE f == Head(h2c)
<1>1. h2c # <<>> /\ h2c' = Tail(h2c) /\ UNCHANGED hostVars
  BY DEF CardIn
<1>2. TypeOK
  BY DEF RecvInv
<1>3. /\ up \in Seq(Int) /\ cFin \in BOOLEAN /\ cst \in {"listen", "synRcvd", "open", "gone"}
      /\ unread \in 0 .. CardCap /\ cSent \in 0 .. CardBytes + 1 /\ cAcked \in 0 .. cSent
      /\ h2c \in Seq(Seg) /\ Len(h2c) =< RingCap /\ c2h \in Seq(Seg) /\ Len(c2h) =< RingCap
      /\ \A g \in On(c2h) : FromCard(g)
  BY CardTypes
<1>4. f \in Seg /\ h2c' \in Seq(Seg) /\ Len(h2c') =< RingCap
  BY <1>1, <1>3, TakeFacts
<1>5. \/ UNCHANGED <<cardVars, c2h>>
      \/ f.kind = "WHO" /\ c2h' = Fit(c2h, Arp) /\ UNCHANGED cardVars
      \/ /\ cst' = IF cst = "listen" THEN "synRcvd" ELSE cst
         /\ UNCHANGED <<up, unread, cFin, cSent, cAcked, cWnd, cTries>>
         /\ CardOut("SYNACK", -1, <<>>) \/ CardOut("ACK", cSent, <<>>)
      \/ CardGone /\ c2h' = c2h
      \/ CardSegment(f)
      \/ UNCHANGED cardVars /\ CardOut("RST", cSent, <<>>)
  BY DEF CardIn
<1> HIDE DEF f
<1>6. cSent \in -1 .. CardBytes + 1 /\ -1 \in -1 .. CardBytes + 1
  BY <1>3, Caps
<1>7. CASE UNCHANGED <<cardVars, c2h>>
  <2>1. UNCHANGED <<cst, up, unread, cFin, cSent, cAcked, c2h>>
    BY <1>7 DEF cardVars
  <2> QED BY <1>1, <1>3, <1>4, <2>1, CardStep
<1>8. CASE c2h' = Fit(c2h, Arp) /\ UNCHANGED cardVars
  <2>1. UNCHANGED <<cst, up, unread, cFin, cSent, cAcked>>
    BY <1>8 DEF cardVars
  <2>2. Arp \in Seg /\ FromCard(Arp)
    BY ArpFacts
  <2>4. /\ Fit(c2h, Arp) \in Seq(Seg) /\ Len(Fit(c2h, Arp)) =< RingCap
        /\ On(Fit(c2h, Arp)) \subseteq On(c2h) \cup {Arp}
    BY <1>3, <2>2, FitFacts
  <2>5. c2h' \in Seq(Seg) /\ Len(c2h') =< RingCap /\ (\A g \in On(c2h') : FromCard(g))
    BY <1>3, <1>8, <2>2, <2>4
  <2> QED BY <1>1, <1>3, <1>4, <2>1, <2>5, CardStep
<1>9. CASE /\ cst' = IF cst = "listen" THEN "synRcvd" ELSE cst
           /\ UNCHANGED <<up, unread, cFin, cSent, cAcked, cWnd, cTries>>
           /\ CardOut("SYNACK", -1, <<>>) \/ CardOut("ACK", cSent, <<>>)
  <2>1. up' \in Seq(Int) /\ unread' \in 0 .. CardCap /\ UNCHANGED <<up, unread, cFin, cSent, cAcked>>
    BY <1>3, <1>9
  <2>2. c2h' \in Seq(Seg) /\ Len(c2h') =< RingCap /\ (\A g \in On(c2h') : FromCard(g))
    <3>1. CASE CardOut("SYNACK", -1, <<>>)
      BY <1>2, <1>3, <1>6, <2>1, <3>1, CardOutEmpty
    <3>2. CASE CardOut("ACK", cSent, <<>>)
      BY <1>2, <1>3, <1>6, <2>1, <3>2, CardOutEmpty
    <3> QED BY <1>9, <3>1, <3>2
  <2>3. cst' \in {"listen", "synRcvd", "open", "gone"}
    BY <1>3, <1>9
  <2> QED BY <1>1, <1>3, <1>4, <2>1, <2>2, <2>3, CardStep
<1>10. CASE CardGone /\ c2h' = c2h
  <2>1. cst' = "gone" /\ unread' = 0 /\ cAcked' = cSent /\ UNCHANGED <<up, cFin, cSent, c2h>>
    BY <1>10 DEF CardGone
  <2>2. 0 \in 0 .. CardCap /\ cSent \in 0 .. cSent
    BY <1>3, Caps
  <2> QED BY <1>1, <1>3, <1>4, <2>1, <2>2, CardStep
<1>11. CASE CardSegment(f)
  <2>1. /\ c2h' \in Seq(Seg) /\ Len(c2h') =< RingCap /\ (\A g \in On(c2h') : FromCard(g))
        /\ up' \in Seq(Int) /\ cFin' \in BOOLEAN
        /\ cst' = "open" /\ unread' \in 0 .. CardCap /\ cSent' = cSent /\ cAcked' \in 0 .. cSent
    BY <1>4, <1>11, CardSegmentRecv
  <2> QED BY <1>1, <1>3, <1>4, <2>1, CardStep
<1>12. CASE UNCHANGED cardVars /\ CardOut("RST", cSent, <<>>)
  <2>1. up' \in Seq(Int) /\ unread' \in 0 .. CardCap /\ UNCHANGED <<cst, up, unread, cFin, cSent, cAcked>>
    BY <1>3, <1>12 DEF cardVars
  <2>2. c2h' \in Seq(Seg) /\ Len(c2h') =< RingCap /\ (\A g \in On(c2h') : FromCard(g))
    BY <1>2, <1>3, <1>6, <1>12, <2>1, CardOutEmpty
  <2> QED BY <1>1, <1>3, <1>4, <2>1, <2>2, CardStep
<1> QED BY <1>5, <1>7, <1>8, <1>9, <1>10, <1>11, <1>12

\* The card's application reads.
LEMMA CardReadRecv == ASSUME RecvInv, CardRead PROVE RecvInv'
<1>1. /\ unread > 0 /\ unread' \in 0 .. unread - 1 /\ UNCHANGED <<cst, up, cFin, cSent, cAcked, h2c>>
      /\ UNCHANGED hostVars /\ (CardOut("ACK", cSent, <<>>) \/ c2h' = c2h)
  BY DEF CardRead
<1>2. TypeOK
  BY DEF RecvInv
<1>3. /\ up \in Seq(Int) /\ cFin \in BOOLEAN /\ cst \in {"listen", "synRcvd", "open", "gone"}
      /\ unread \in 0 .. CardCap /\ cSent \in 0 .. CardBytes + 1 /\ cAcked \in 0 .. cSent
      /\ h2c \in Seq(Seg) /\ Len(h2c) =< RingCap /\ c2h \in Seq(Seg) /\ Len(c2h) =< RingCap
      /\ \A g \in On(c2h) : FromCard(g)
  BY CardTypes
<1>4. unread' \in 0 .. CardCap /\ cSent \in -1 .. CardBytes + 1
  <2>1. \A u \in 0 .. CardCap : 0 .. u - 1 \subseteq 0 .. CardCap
    BY Caps
  <2>2. cSent \in -1 .. CardBytes + 1
    BY <1>3, Caps
  <2> QED BY <1>1, <1>3, <2>1, <2>2
<1>5. up' \in Seq(Int)
  BY <1>1, <1>3
<1>6. c2h' \in Seq(Seg) /\ Len(c2h') =< RingCap /\ (\A g \in On(c2h') : FromCard(g))
  <2>1. CASE CardOut("ACK", cSent, <<>>)
    BY <1>2, <1>3, <1>4, <1>5, <2>1, CardOutEmpty
  <2>2. CASE c2h' = c2h
    BY <1>3, <2>2
  <2> QED BY <1>1, <2>1, <2>2
<1> QED BY <1>1, <1>3, <1>4, <1>6, CardStep

\* A piece of the card's stream, with or without the FIN.
LEMMA CardOutPiece ==
  ASSUME TypeOK, NEW kind \in {"ACK", "FIN"}, NEW pos \in 0 .. CardBytes + 1, NEW n \in Nat,
         CardOut(kind, pos, Bytes(pos, n)), up' \in Seq(Int), unread' \in 0 .. CardCap,
         n > 0 => pos + n =< CardBytes, kind = "FIN" => pos + n = CardBytes
  PROVE  /\ c2h' \in Seq(Seg) /\ Len(c2h') =< RingCap
         /\ \A f \in On(c2h') : \/ f \in On(c2h)
                                \/ /\ FromCard(f) /\ f.kind = kind
                                   /\ f.ack = Mod(isn + 1 + Len(up') + One(cFin'))
<1>1. pos \in Int /\ pos # -1 /\ pos \in -1 .. CardBytes + 1
  BY Caps
<1>2. /\ Bytes(pos, n) \in Seq(Int) /\ Len(Bytes(pos, n)) = n /\ (n = 0 => Bytes(pos, n) = <<>>)
  BY <1>1, BytesFacts
<1>3. ASSUME NEW data, data = Bytes(pos, n)
      PROVE  /\ c2h' \in Seq(Seg) /\ Len(c2h') =< RingCap
             /\ \A f \in On(c2h') : \/ f \in On(c2h)
                                    \/ /\ FromCard(f) /\ f.kind = kind
                                       /\ f.ack = Mod(isn + 1 + Len(up') + One(cFin'))
  <2>1. data \in Seq(Int) /\ Len(data) = n /\ data = Bytes(pos, Len(data)) /\ CardOut(kind, pos, data)
    BY <1>2, <1>3
  <2>2. data # <<>> => pos + Len(data) =< CardBytes
    BY <1>2, <1>3, <2>1
  <2>3. kind = "FIN" => pos + Len(data) = CardBytes
    BY <2>1
  <2> QED BY <1>1, <2>1, <2>2, <2>3, CardOutFacts
<1> QED BY <1>3

\* The card's application sends.
LEMMA CardSendRecv == ASSUME RecvInv, CardSend PROVE RecvInv'
<1>1. PICK n \in 0 .. Least(Mss, CardBytes - cSent), fin \in {0, 1} :
        /\ fin = 1 => cSent + n = CardBytes
        /\ cSent' = cSent + n + fin
        /\ UNCHANGED <<cst, up, unread, cFin, cAcked, cWnd, cTries>>
        /\ CardOut(IF fin = 1 THEN "FIN" ELSE "ACK", cSent, Bytes(cSent, n))
  BY DEF CardSend
<1>2. UNCHANGED hostVars /\ h2c' = h2c /\ cSent =< CardBytes
  BY DEF CardSend
<1>3. TypeOK
  BY DEF RecvInv
<1>4. /\ up \in Seq(Int) /\ cFin \in BOOLEAN /\ cst \in {"listen", "synRcvd", "open", "gone"}
      /\ unread \in 0 .. CardCap /\ cSent \in 0 .. CardBytes + 1 /\ cAcked \in 0 .. cSent
      /\ h2c \in Seq(Seg) /\ Len(h2c) =< RingCap /\ c2h \in Seq(Seg) /\ Len(c2h) =< RingCap
      /\ \A g \in On(c2h) : FromCard(g)
  BY CardTypes
<1>5. n \in Nat /\ cSent + n =< CardBytes
  <2>1. CardBytes - cSent \in Int /\ Mss \in Int /\ CardBytes \in Int /\ cSent \in Int
    BY <1>4, Caps
  <2>2. Least(Mss, CardBytes - cSent) \in Int /\ Least(Mss, CardBytes - cSent) =< CardBytes - cSent
    BY <2>1, LeastFacts
  <2> QED BY <1>1, <2>1, <2>2
<1>6. cSent' \in 0 .. CardBytes + 1 /\ cAcked \in 0 .. cSent'
  <2>1. cSent' = cSent + n + fin /\ fin \in {0, 1} /\ cSent \in Nat /\ cAcked \in 0 .. cSent
    BY <1>1, <1>4
  <2> QED BY <1>5, <2>1, Caps
<1>7. UNCHANGED <<cst, up, unread, cFin, cAcked>> /\ up' \in Seq(Int) /\ unread' \in 0 .. CardCap
  BY <1>1, <1>4
<1>8. c2h' \in Seq(Seg) /\ Len(c2h') =< RingCap /\ (\A g \in On(c2h') : FromCard(g))
  <2>1. ASSUME NEW kind, kind = IF fin = 1 THEN "FIN" ELSE "ACK"
        PROVE  c2h' \in Seq(Seg) /\ Len(c2h') =< RingCap /\ (\A g \in On(c2h') : FromCard(g))
    <3>1. kind \in {"ACK", "FIN"} /\ (kind = "FIN" => cSent + n = CardBytes)
      BY <1>1, <2>1
    <3>2. CardOut(kind, cSent, Bytes(cSent, n))
      BY <1>1, <2>1
    <3> QED BY <1>3, <1>4, <1>5, <1>7, <3>1, <3>2, CardOutPiece
  <2> QED BY <2>1
<1> QED BY <1>2, <1>4, <1>6, <1>7, <1>8, CardStep

\* The card's timer.
LEMMA CardTimerRecv == ASSUME RecvInv, CardTimer PROVE RecvInv'
<1> DEFINE n == Least(Mss, Least(cSent, CardBytes) - cAcked)
           kind == IF cAcked + n + 1 = cSent /\ cSent > CardBytes THEN "FIN" ELSE "ACK"
<1>1. /\ UNCHANGED hostVars /\ UNCHANGED <<cst, up, unread, cFin, cSent, cAcked, h2c>>
      /\ \/ CardOut("SYNACK", -1, <<>>)
         \/ cAcked < cSent /\ CardOut(kind, cAcked, Bytes(cAcked, n))
         \/ CardOut("ACK", cSent - 1, <<>>)
  BY DEF CardTimer
<1>2. TypeOK
  BY DEF RecvInv
<1>3. /\ up \in Seq(Int) /\ cFin \in BOOLEAN /\ cst \in {"listen", "synRcvd", "open", "gone"}
      /\ unread \in 0 .. CardCap /\ cSent \in 0 .. CardBytes + 1 /\ cAcked \in 0 .. cSent
      /\ h2c \in Seq(Seg) /\ Len(h2c) =< RingCap /\ c2h \in Seq(Seg) /\ Len(c2h) =< RingCap
      /\ \A g \in On(c2h) : FromCard(g)
  BY CardTypes
<1>4. up' \in Seq(Int) /\ unread' \in 0 .. CardCap
  BY <1>1, <1>3
<1>5. /\ cAcked < cSent => n \in Nat /\ cAcked + n =< CardBytes /\ (kind = "FIN" => cAcked + n = CardBytes)
      /\ kind \in {"ACK", "FIN"}
  <2>1. cAcked < cSent => n \in Nat /\ cAcked + n =< CardBytes
    BY <1>3, Caps DEF Least
  <2> HIDE DEF n
  <2>2. cAcked < cSent => (kind = "FIN" => cAcked + n = CardBytes)
    <3>1. ASSUME cAcked < cSent, kind = "FIN" PROVE cAcked + n = CardBytes
      <4>1. cAcked + n + 1 = cSent /\ cSent > CardBytes
        BY <3>1
      <4>2. cAcked \in Int /\ n \in Int /\ cSent \in Int /\ cSent =< CardBytes + 1 /\ CardBytes \in Int
        BY <1>3, <2>1, <3>1, Caps
      <4> QED BY <4>1, <4>2
    <3> QED BY <3>1
  <2> QED BY <2>1, <2>2
<1> HIDE DEF n, kind
<1>6. -1 \in -1 .. CardBytes + 1 /\ cSent - 1 \in -1 .. CardBytes + 1 /\ cAcked \in 0 .. CardBytes + 1
  BY <1>3, Caps
<1>7. c2h' \in Seq(Seg) /\ Len(c2h') =< RingCap /\ (\A g \in On(c2h') : FromCard(g))
  <2>1. CASE CardOut("SYNACK", -1, <<>>)
    BY <1>2, <1>3, <1>4, <1>6, <2>1, CardOutEmpty
  <2>2. CASE cAcked < cSent /\ CardOut(kind, cAcked, Bytes(cAcked, n))
    BY <1>2, <1>3, <1>4, <1>5, <1>6, <2>2, CardOutPiece
  <2>3. CASE CardOut("ACK", cSent - 1, <<>>)
    BY <1>2, <1>3, <1>4, <1>6, <2>3, CardOutEmpty
  <2> QED BY <1>1, <2>1, <2>2, <2>3
<1> QED BY <1>1, <1>3, <1>7, CardStep

\* The card's question for the daemon's address.
LEMMA CardAsksRecv == ASSUME RecvInv, CardAsks PROVE RecvInv'
<1>1. /\ UNCHANGED hostVars /\ h2c' = h2c /\ c2h' = Fit(c2h, Who)
      /\ UNCHANGED <<cst, up, unread, cFin, cSent, cAcked>>
  BY DEF CardAsks
<1>2. /\ up \in Seq(Int) /\ cFin \in BOOLEAN /\ cst \in {"listen", "synRcvd", "open", "gone"}
      /\ unread \in 0 .. CardCap /\ cSent \in 0 .. CardBytes + 1 /\ cAcked \in 0 .. cSent
      /\ h2c \in Seq(Seg) /\ Len(h2c) =< RingCap /\ c2h \in Seq(Seg) /\ Len(c2h) =< RingCap
      /\ \A g \in On(c2h) : FromCard(g)
  BY CardTypes
<1>3. /\ Fit(c2h, Who) \in Seq(Seg) /\ Len(Fit(c2h, Who)) =< RingCap
      /\ On(Fit(c2h, Who)) \subseteq On(c2h) \cup {Who}
  BY <1>2, ArpFacts, FitFacts
<1>4. c2h' \in Seq(Seg) /\ Len(c2h') =< RingCap /\ (\A g \in On(c2h') : FromCard(g))
  BY <1>1, <1>2, <1>3, ArpFacts
<1> QED BY <1>1, <1>2, <1>4, CardStep

\* The card resets the connection.
LEMMA CardAbortRecv == ASSUME RecvInv, CardAbort PROVE RecvInv'
<1>1. /\ UNCHANGED hostVars /\ h2c' = h2c /\ CardOut("RST", cSent, <<>>)
      /\ cst' = "gone" /\ unread' = 0 /\ cAcked' = cSent /\ UNCHANGED <<up, cFin, cSent>>
  BY DEF CardAbort, CardGone
<1>2. TypeOK
  BY DEF RecvInv
<1>3. /\ up \in Seq(Int) /\ cFin \in BOOLEAN /\ cSent \in 0 .. CardBytes + 1
      /\ h2c \in Seq(Seg) /\ Len(h2c) =< RingCap /\ \A g \in On(c2h) : FromCard(g)
  BY CardTypes
<1>4. unread' \in 0 .. CardCap /\ cAcked' \in 0 .. cSent' /\ cSent \in -1 .. CardBytes + 1
  <2>1. 0 \in 0 .. CardCap /\ cSent \in 0 .. cSent /\ cSent \in -1 .. CardBytes + 1
    BY <1>3, Caps
  <2> QED BY <1>1, <2>1
<1>5. up' \in Seq(Int)
  BY <1>1, <1>3
<1>6. c2h' \in Seq(Seg) /\ Len(c2h') =< RingCap /\ (\A g \in On(c2h') : FromCard(g))
  BY <1>1, <1>2, <1>3, <1>4, <1>5, CardOutEmpty
<1> QED BY <1>1, <1>3, <1>4, <1>6, CardStep

----------------------------------------------------------------------------
(* What the local side gets.                                               *)

\* The receiving half holds at first.
LEMMA InitRecv == ASSUME Init PROVE RecvInv
<1>1. TypeOK
  <2>1. /\ 0 \in 0 .. SeqMod - 1 /\ 0 \in 0 .. CardCap + Mss /\ 0 \in 0 .. RcvCap /\ 0 \in 0 .. MaxRetries + 1
        /\ 0 \in 0 .. HostBytes /\ 0 - 0 =< SndCap /\ 0 =< RcvCap /\ 0 =< RingCap /\ 0 \in 0 .. CardCap
        /\ 0 \in 0 .. CardBytes + 1 /\ 0 \in 0 .. 0 /\ SendQuota \in 0 .. SendQuota
    BY Caps
  <2>2. <<>> \in Seq(1 .. CardBytes) /\ <<>> \in Seq(Int) /\ <<>> \in Seq(Seg) /\ Len(<<>>) = 0
    OBVIOUS
  <2>3. /\ pc = "recv" /\ quota = SendQuota /\ st = "free" /\ una = 0 /\ nxt = 0 /\ rcvNxt = 0
        /\ wnd = 0 /\ advWnd = 0 /\ finSeq = 0 /\ retries = 0 /\ sbHead = 0 /\ sbTail = 0 /\ rb = <<>>
        /\ h2c = <<>> /\ c2h = <<>> /\ cst = "listen" /\ up = <<>> /\ unread = 0 /\ cSent = 0
        /\ cAcked = 0 /\ isn = 0 /\ got = <<>> /\ ended = "none"
    BY DEF Init
  <2>4. /\ mac \in BOOLEAN /\ hostEof \in BOOLEAN /\ cardEof \in BOOLEAN /\ hostShut \in {"no", "write", "both"}
        /\ cFin \in BOOLEAN
    BY DEF Init
  <2>5. {una, nxt, rcvNxt, finSeq, isn} \subseteq 0 .. SeqMod - 1
    BY <2>1, <2>3
  <2>6. sbHead \in Nat /\ sbTail \in 0 .. HostBytes /\ sbTail - sbHead =< SndCap
    BY <2>1, <2>3
  <2>7. /\ rb \in Seq(1 .. CardBytes) /\ Len(rb) =< RcvCap /\ got \in Seq(1 .. CardBytes) /\ up \in Seq(Int)
        /\ h2c \in Seq(Seg) /\ Len(h2c) =< RingCap /\ c2h \in Seq(Seg) /\ Len(c2h) =< RingCap
    BY <2>1, <2>2, <2>3
  <2>8. cSent \in 0 .. CardBytes + 1 /\ cAcked \in 0 .. cSent /\ unread \in 0 .. CardCap
    BY <2>1, <2>3
  <2> QED BY <2>1, <2>3, <2>4, <2>5, <2>6, <2>7, <2>8 DEF TypeOK
<1>2. PassAgrees
  BY Caps DEF Init, PassAgrees
<1>3. On(c2h) = {}
  BY DEF Init, On
<1>4. RecvAgrees
  BY <1>3 DEF Init, RecvAgrees, RecvSync, Open
<1>5. HostInOrder /\ HalfShut
  <2>1. Bytes(0, 0) = <<>> /\ Len(<<>>) = 0
    BY BytesFacts
  <2> QED BY <2>1 DEF Init, HostInOrder, HalfShut
<1> QED BY <1>1, <1>2, <1>4, <1>5 DEF RecvInv

\* Every step keeps it.
LEMMA NextRecv == ASSUME RecvInv, [Next]_vars PROVE RecvInv'
<1>1. CASE UNCHANGED vars
  <2>1. /\ UNCHANGED <<pc, quota, mac, st, una, nxt, rcvNxt, wnd, advWnd, finSeq, retries, sbHead, sbTail,
                       rb, hostEof, cardEof, hostShut, h2c, c2h, cst, up, unread, cFin, cSent, cAcked,
                       isn, got, ended>>
    BY <1>1 DEF vars, passVars, sendVars, recvVars, cardVars, history
  <2>2. TypeOK'
    BY <2>1 DEF RecvInv, TypeOK
  <2>3. PassAgrees' /\ RecvAgrees' /\ HostInOrder' /\ HalfShut'
    BY <2>1 DEF RecvInv, PassAgrees, RecvAgrees, RecvSync, HostInOrder, HalfShut, Fresh, Received
  <2> QED BY <2>2, <2>3 DEF RecvInv
<1> QED BY <1>1, ConnectRecv, HostRecvRecv, HostArpRecv, HostDeliverRecv, HostReadRecv, HostSendRecv,
           HostFinRecv, HostTimerWaitsRecv, HostTimerFiresRecv, HostCloseRecv, CardInRecv, CardReadRecv,
           CardSendRecv, CardTimerRecv, CardAsksRecv, CardAbortRecv
        DEF Next, HostNext, CardNext

\* The receiving half's invariant always holds.
LEMMA RecvAlways == Spec => []RecvInv
<1>1. Init => RecvInv
  BY InitRecv
<1>2. RecvInv /\ [Next]_vars => RecvInv'
  BY NextRecv
<1> QED BY <1>1, <1>2, PTL DEF Spec

\* What conn_step delivers to the local socket is the card's stream, in
\* order, no byte twice and none left out: for every size of buffers, rings
\* and sequence space, and with initial sequence numbers that wrap.
THEOREM DeliversInOrder == Spec => []HostInOrder
<1>1. RecvInv => HostInOrder
  BY DEF RecvInv
<1> QED BY <1>1, RecvAlways, PTL

\* A step that leaves the receive buffer and the end of the connection alone.
LEMMA SameClose ==
  ASSUME CloseAgrees, UNCHANGED <<rb, got, cardEof, rcvNxt>>, ended' = ended,
         st' = st \/ (ended # "orderly" /\ st' \notin {"closeWait", "closing", "closed"}
                       /\ (st' = "lastAck" => cardEof))
  PROVE  CloseAgrees'
<1>1. Received' = Received /\ (RecvSync' <=> RecvSync)
  BY DEF Received, RecvSync
<1> HIDE DEF RecvSync, Received
<1> QED BY <1>1 DEF CloseAgrees

\* tcp_in: a connection closes by itself only on or after the card's FIN, and
\* what comes then finds nothing to take.
LEMMA AppliesClose ==
  ASSUME RecvInv, CloseAgrees, NEW f \in Seg, FromCard(f), st \notin {"free", "synSent"}, Applies(f),
         got' = got
  PROVE  CloseAgrees'
<1>1. PICK rest \in Rests : st' = AfterFin(f, AfterAck(f, rest))
  BY DEF Applies
<1>2. cardEof' = (cardEof \/ FinIn(f)) /\ ended' = ended
  BY DEF Applies
<1>3. cardEof \in BOOLEAN /\ st \in Open \cup {"closed"}
  BY DEF RecvInv, TypeOK
<1>4. ended # "orderly"
  BY DEF CloseAgrees
<1>5. CASE st \in Open \/ (st = "closed" /\ ended = "none")
  <2>1. RecvSync
    BY <1>5 DEF RecvInv, RecvAgrees, CloseAgrees
  <2>2. RecvSync'
    BY <2>1, AppliesRecv
  <2>3. st' \in {"closeWait", "lastAck", "closing", "closed"} => cardEof'
    <3>1. CASE FinIn(f)
      BY <1>2, <3>1
    <3>2. CASE ~FinIn(f)
      <4>1. st' = AfterAck(f, rest)
        BY <1>1, <3>2 DEF AfterFin
      <4>2. st' = st \/ st' = "finWait2" \/ st \in {"closing", "lastAck"}
        BY <4>1 DEF AfterAck
      <4>3. st \in {"closeWait", "lastAck", "closing"} => cardEof
        BY DEF CloseAgrees
      <4>4. st = "closed" => cardEof
        BY <1>5 DEF CloseAgrees, Open
      <4> QED BY <1>2, <4>2, <4>3, <4>4
    <3> QED BY <3>1, <3>2
  <2> QED BY <1>2, <1>4, <2>2, <2>3 DEF CloseAgrees
<1>6. CASE st = "closed" /\ ended # "none"
  <2>1. st' = "closed"
    BY <1>1, <1>6 DEF AfterFin, AfterAck
  <2> QED BY <1>2, <1>4, <1>6, <2>1 DEF CloseAgrees
<1> QED BY <1>3, <1>5, <1>6

\* tcp_in, whatever the frame.
LEMMA HostRecvClose == ASSUME RecvInv, CloseAgrees, HostRecv PROVE CloseAgrees'
<1> DEFINE f == Head(c2h)
<1>1. /\ c2h # <<>> /\ c2h' = Tail(c2h) /\ got' = got
      /\ \/ UNCHANGED <<st, recvVars, ended>>
         \/ /\ st # "free"
            /\ \/ Resets
               \/ st = "synSent" /\ Opens(f)
               \/ st # "synSent" /\ Applies(f)
  BY DEF HostRecv
<1>2. f \in Seg /\ FromCard(f)
  BY <1>1, CardFrame
<1> HIDE DEF f
<1>3. CASE UNCHANGED <<st, recvVars, ended>>
  BY <1>1, <1>3, SameClose DEF recvVars
<1>4. CASE Resets
  BY <1>4 DEF Resets, CloseAgrees
<1>5. CASE st = "synSent" /\ Opens(f)
  <2>1. ended' = ended /\ st' \in {"synSent", "established"}
    BY <1>5 DEF Opens
  <2>2. ended # "orderly"
    BY <1>5 DEF CloseAgrees
  <2> QED BY <2>1, <2>2 DEF CloseAgrees
<1>6. CASE st \notin {"free", "synSent"} /\ Applies(f)
  BY <1>1, <1>2, <1>6, AppliesClose
<1> QED BY <1>1, <1>3, <1>4, <1>5, <1>6

\* Every step keeps what is known of a close.
LEMMA NextClose == ASSUME RecvInv, CloseAgrees, [Next]_vars PROVE CloseAgrees'
<1>1. pc # "recv" => st # "free" /\ ended # "orderly"
  BY DEF RecvInv, PassAgrees, CloseAgrees
<1>2. CASE Connect
  BY <1>2 DEF Connect, CloseAgrees
<1>3. CASE HostArp \/ HostRead \/ HostSend \/ HostTimerWaits \/ CardNext \/ UNCHANGED vars
  <2>1. UNCHANGED <<rb, got, cardEof, rcvNxt, st, ended>>
    <3>1. CASE HostArp
      BY <3>1 DEF HostArp, recvVars, history
    <3>2. CASE HostRead
      BY <3>2 DEF HostRead, recvVars, history
    <3>3. CASE HostSend
      BY <3>3 DEF HostSend, recvVars, history
    <3>4. CASE HostTimerWaits
      BY <3>4 DEF HostTimerWaits, recvVars, history
    <3>5. CASE CardNext
      <4>1. UNCHANGED hostVars
        BY <3>5 DEF CardNext, CardIn, CardRead, CardSend, CardTimer, CardAsks, CardAbort
      <4> QED BY <4>1 DEF hostVars, recvVars, history
    <3>6. CASE UNCHANGED vars
      BY <3>6 DEF vars, recvVars, history
    <3> QED BY <1>3, <3>1, <3>2, <3>3, <3>4, <3>5, <3>6
  <2> QED BY <2>1, SameClose
<1>4. CASE HostRecv
  BY <1>4, HostRecvClose
<1>5. CASE HostDeliver
  <2>1. pc = "deliver" /\ UNCHANGED <<cardEof, rcvNxt>>
    BY <1>5 DEF HostDeliver
  <2>2. CASE st = "closed" /\ UNCHANGED <<st, rb, got, ended>>
    BY <2>1, <2>2, SameClose
  <2>3. CASE st # "closed" /\ UNCHANGED <<st, ended>>
    BY <1>1, <2>1, <2>3 DEF CloseAgrees
  <2>4. CASE st' = "closed" /\ ended' = "hostGone"
    BY <2>4 DEF CloseAgrees
  <2> QED BY <1>5, <2>2, <2>3, <2>4 DEF HostDeliver
<1>6. CASE HostFin
  <2>1. pc = "fin" /\ UNCHANGED <<rb, got, cardEof, rcvNxt, ended>>
    BY <1>6 DEF HostFin, recvVars, history
  <2>2. st' = st \/ st' = "finWait1" \/ (st = "closeWait" /\ st' = "lastAck")
    BY <1>6 DEF HostFin, Sending
  <2>3. st = "closeWait" => cardEof
    BY DEF CloseAgrees
  <2> QED BY <1>1, <2>1, <2>2, <2>3, SameClose
<1>7. CASE HostTimerFires
  <2>1. UNCHANGED <<rb, got, cardEof, rcvNxt>>
    BY <1>7 DEF HostTimerFires, recvVars
  <2>2. UNCHANGED <<st, ended>> \/ (st' = "closed" /\ ended' = "gaveUp")
    BY <1>7 DEF HostTimerFires
  <2>3. CASE UNCHANGED <<st, ended>>
    BY <2>1, <2>3, SameClose
  <2>4. CASE st' = "closed" /\ ended' = "gaveUp"
    BY <2>4 DEF CloseAgrees
  <2> QED BY <2>2, <2>3, <2>4
<1>8. CASE HostClose
  <2>1. UNCHANGED <<rb, got, cardEof, rcvNxt>> /\ pc = "close"
    BY <1>8 DEF HostClose
  <2>2. \/ UNCHANGED <<st, ended>>
        \/ st = "closed" /\ st' = "free" /\ ended' = IF ended = "none" THEN "orderly" ELSE ended
    BY <1>8 DEF HostClose
  <2>3. CASE UNCHANGED <<st, ended>>
    BY <2>1, <2>3, SameClose
  <2>4. CASE /\ st = "closed" /\ st' = "free"
             /\ ended' = IF ended = "none" THEN "orderly" ELSE ended
    <3>1. Received' = Received
      BY <2>1 DEF Received
    <3>2. ended = "none" => Received = CardBytes
      BY <2>4 DEF CloseAgrees, RecvSync
    <3>3. ended # "orderly"
      BY <1>1, <2>1
    <3> QED BY <2>4, <3>1, <3>2, <3>3 DEF CloseAgrees
  <2> QED BY <2>2, <2>3, <2>4
<1> QED BY <1>2, <1>3, <1>4, <1>5, <1>6, <1>7, <1>8 DEF Next, HostNext

\* Both always hold.
LEMMA CloseAlways == Spec => [](RecvInv /\ CloseAgrees)
<1>1. Init => RecvInv /\ CloseAgrees
  BY InitRecv DEF Init, CloseAgrees
<1>2. RecvInv /\ CloseAgrees /\ [Next]_vars => (RecvInv /\ CloseAgrees)'
  BY NextRecv, NextClose
<1> QED BY <1>1, <1>2, PTL DEF Spec

\* conn_step shuts the local socket's write side only after every byte the
\* card sent is delivered; a connection that ends by itself and is shut both
\* ways has received all of them, and lacks at most the ones its receive
\* buffer still holds.  For the same sizes.
THEOREM ShutsAfterAll == Spec => []ShutComplete
<1>1. RecvInv /\ CloseAgrees => ShutComplete
  BY DEF RecvInv, CloseAgrees, ShutComplete, FullShut
<1> QED BY <1>1, CloseAlways, PTL

----------------------------------------------------------------------------
(* What the card receives.                                                 *)

\* No connection reaches the end of the sequence space.
NoWrap == \A i \in Isns : i + HostBytes + 2 < SeqMod

\* The inductive invariant of the sending half.
SendInv == BufferAgrees /\ SendAgrees /\ CardInOrder /\ CardEofComplete

\* A ring gains at most the frame.
LEMMA OnFit ==
  ASSUME NEW q \in Seq(Seg), NEW f
  PROVE  On(Fit(q, f)) \subseteq On(q) \cup {f}
<1> DEFINE S == Seg \cup {f}
<1>1. q \in Seq(S) /\ f \in S /\ Len(q) \in Nat
  OBVIOUS
<1>2. /\ Len(Append(q, f)) = Len(q) + 1
      /\ \A i \in 1 .. Len(q) + 1 : Append(q, f)[i] = IF i =< Len(q) THEN q[i] ELSE f
  BY <1>1, AppendProperties
<1>3. On(Append(q, f)) \subseteq On(q) \cup {f}
  BY <1>1, <1>2 DEF On
<1> QED BY <1>3 DEF Fit

\* What a sent segment adds to the ring.
LEMMA SendNew ==
  ASSUME TypeOK, NEW kind, NEW seq, NEW data, Send(kind, seq, data)
  PROVE  \A f \in On(h2c') : f \in On(h2c) \/ (f.kind = kind /\ f.seq = seq /\ f.data = data)
<1>1. h2c \in Seq(Seg)
  BY DEF TypeOK
<1>2. CASE mac
  <2> DEFINE g == Segment(kind, seq, rcvNxt', advWnd', data)
  <2>1. h2c' = Fit(h2c, g)
    BY <1>2 DEF Send
  <2>2. g.kind = kind /\ g.seq = seq /\ g.data = data
    BY DEF Segment
  <2> HIDE DEF g
  <2>3. On(Fit(h2c, g)) \subseteq On(h2c) \cup {g}
    BY <1>1, OnFit
  <2> QED BY <2>1, <2>2, <2>3
<1>3. CASE ~mac
  BY <1>3 DEF Send
<1> QED BY <1>2, <1>3

\* What a segment of the card adds to its ring.
LEMMA CardOutNew ==
  ASSUME TypeOK, NEW kind, NEW pos, NEW data, CardOut(kind, pos, data)
  PROVE  \A f \in On(c2h') : f \in On(c2h) \/ f.ack = Mod(isn + 1 + Len(up') + One(cFin'))
<1> DEFINE g == Segment(kind, CardSeq(pos), Mod(isn + 1 + Len(up') + One(cFin')), CardCap - unread', data)
<1>1. c2h' = Fit(c2h, g) /\ g.ack = Mod(isn + 1 + Len(up') + One(cFin'))
  BY DEF CardOut, One, Segment
<1> HIDE DEF g
<1>2. c2h \in Seq(Seg)
  BY DEF TypeOK
<1>3. On(Fit(c2h, g)) \subseteq On(c2h) \cup {g}
  BY <1>2, OnFit
<1> QED BY <1>1, <1>3

\* A step that leaves the send buffer and the card alone.
LEMMA SameSend ==
  ASSUME SendInv, UNCHANGED <<isn, finSeq, sbTail, sbHead, una, nxt, up, cFin>>,
         st' \in Open \cup {"synSent"} => st' = st, ~Fresh',
         On(c2h') \subseteq On(c2h),
         \A f \in On(h2c') : f \in On(h2c) \/ (f.data = <<>> /\ f.kind # "FIN")
  PROVE  SendInv'
<1>1. BufferAgrees'
  <2>1. BufferAgrees
    BY DEF SendInv
  <2> QED BY <2>1 DEF BufferAgrees
<1>2. SendAgrees'
  <2>1. SendAgrees
    BY DEF SendInv
  <2>2. \A f \in On(h2c') : FromHost(f)'
    BY <2>1 DEF SendAgrees, FromHost
  <2>3. \A f \in On(c2h') : AcksWhatItHas(f)'
    BY <2>1 DEF SendAgrees, AcksWhatItHas
  <2> QED BY <2>1, <2>2, <2>3 DEF SendAgrees
<1>3. CardInOrder' /\ CardEofComplete'
  BY DEF SendInv, CardInOrder, CardEofComplete
<1> QED BY <1>1, <1>2, <1>3 DEF SendInv

\* The numbers of an open connection: nothing wraps.
LEMMA OpenNumbers ==
  ASSUME RecvInv, SendInv
  PROVE  /\ isn \in Nat /\ una \in Nat /\ nxt \in Nat /\ finSeq \in Nat /\ sbHead \in Nat
         /\ sbTail \in 0 .. HostBytes /\ Len(up) \in Nat /\ Len(up) =< sbTail
         /\ isn + HostBytes + 2 < SeqMod
         /\ \A n \in 0 .. HostBytes + 1 : Mod(isn + 1 + n) = isn + 1 + n
         /\ st \in Open => /\ InFlight = nxt - una /\ una =< nxt /\ una > isn
                           /\ nxt =< isn + 2 + sbTail
<1>1. /\ isn \in 0 .. SeqMod - 1 /\ una \in 0 .. SeqMod - 1 /\ nxt \in 0 .. SeqMod - 1
      /\ finSeq \in 0 .. SeqMod - 1 /\ sbHead \in Nat /\ Len(up) \in Nat
  BY Numbers DEF RecvInv
<1>2. sbTail \in 0 .. HostBytes
  BY DEF RecvInv, TypeOK
<1>3. Len(up) =< sbTail /\ isn + HostBytes + 2 < SeqMod
  BY DEF SendInv, SendAgrees
<1>4. ASSUME NEW n \in 0 .. HostBytes + 1 PROVE Mod(isn + 1 + n) = isn + 1 + n
  <2>1. isn + 1 + n \in 0 .. SeqMod - 1
    BY <1>1, <1>3, Caps
  <2> QED BY <2>1, ModFacts
<1>5. ASSUME st \in Open
      PROVE  InFlight = nxt - una /\ una =< nxt /\ una > isn /\ nxt =< isn + 2 + sbTail
  <2>1. /\ una =< nxt /\ una = isn + 1 + sbHead + One(finSeq # 0 /\ una = finSeq + 1)
        /\ (finSeq # 0 => finSeq = isn + 1 + sbTail)
        /\ IF finSeq = 0 THEN nxt =< isn + 1 + sbTail ELSE nxt = finSeq + 1
    BY <1>5 DEF SendInv, BufferAgrees
  <2>2. One(finSeq # 0 /\ una = finSeq + 1) \in {0, 1}
    BY DEF One
  <2>3. una =< nxt /\ una > isn /\ nxt =< isn + 2 + sbTail
    BY <1>1, <1>2, <2>1, <2>2, Caps
  <2>4. nxt - una \in 0 .. SeqMod - 1
    BY <1>1, <2>1, Caps
  <2> QED BY <2>3, <2>4, ModFacts DEF InFlight
<1>6. isn \in Nat /\ una \in Nat /\ nxt \in Nat /\ finSeq \in Nat
  BY <1>1, Caps
<1> QED BY <1>1, <1>2, <1>3, <1>4, <1>5, <1>6

\* While more may be sent, the send buffer's index of the next byte is its
\* place in the stream.
LEMMA UnsentIs ==
  ASSUME RecvInv, SendInv, st \in Sending
  PROVE  /\ finSeq = 0 /\ una = isn + 1 + sbHead /\ Unsent = nxt - isn - 1
         /\ nxt > isn /\ Unsent \in 0 .. sbTail
<1>1. st \in Open
  BY DEF Sending, Open
<1>2. /\ finSeq = 0 /\ nxt =< isn + 1 + sbTail
      /\ una = isn + 1 + sbHead + One(finSeq # 0 /\ una = finSeq + 1)
  BY <1>1 DEF SendInv, BufferAgrees
<1>3. /\ isn \in Nat /\ una \in Nat /\ nxt \in Nat /\ sbHead \in Nat /\ sbTail \in Nat
      /\ InFlight = nxt - una /\ una =< nxt /\ una > isn
  BY <1>1, OpenNumbers, Caps
<1>4. una = isn + 1 + sbHead
  <2>1. One(finSeq # 0 /\ una = finSeq + 1) = 0
    BY <1>2 DEF One
  <2> QED BY <1>2, <1>3, <2>1
<1> QED BY <1>2, <1>3, <1>4 DEF Unsent

\* tcp_connect: the first sequence number leaves room for the stream.
LEMMA ConnectSends == ASSUME NoWrap, RecvInv, SendInv, Connect PROVE SendInv'
<1>1. /\ UNCHANGED <<finSeq, sbHead, sbTail, c2h, cst, up, cFin>>
      /\ Fresh /\ st' = "synSent" /\ Send("SYN", una', <<>>)
  BY DEF Connect, Fresh, cardVars
<1>2. PICK i \in Isns : isn' = i /\ una' = i /\ nxt' = Mod(i + 1)
  BY DEF Connect
<1>3. i \in Nat /\ i + HostBytes + 2 < SeqMod /\ nxt' = i + 1
  <2>1. i \in 0 .. SeqMod - 1 /\ i + HostBytes + 2 < SeqMod
    BY Caps DEF NoWrap
  <2>2. i + 1 \in 0 .. SeqMod - 1 /\ i \in Nat
    BY <2>1, Caps
  <2> QED BY <1>2, <2>1, <2>2, ModFacts
<1>4. sbHead = 0 /\ sbTail = 0 /\ finSeq = 0
  BY <1>1 DEF SendInv, BufferAgrees
<1>5. h2c = <<>> /\ c2h = <<>> /\ Len(up) =< sbTail /\ (cFin => finSeq # 0)
  BY <1>1 DEF SendInv, SendAgrees
<1>6. BufferAgrees'
  BY <1>1, <1>2, <1>3, <1>4 DEF BufferAgrees, Open
<1>7. On(h2c) = {} /\ On(c2h) = {}
  BY <1>5 DEF On
<1>8. ASSUME NEW f \in On(h2c') PROVE FromHost(f)'
  <2>1. ASSUME NEW u, u = una' PROVE f.kind = "SYN" /\ f.data = <<>>
    <3>1. TypeOK /\ Send("SYN", u, <<>>)
      BY <1>1, <2>1 DEF RecvInv
    <3>2. \A g \in On(h2c') : g \in On(h2c) \/ (g.kind = "SYN" /\ g.seq = u /\ g.data = <<>>)
      BY <3>1, SendNew
    <3> QED BY <1>7, <1>8, <3>2
  <2>2. f.kind = "SYN" /\ f.data = <<>>
    BY <2>1
  <2> QED BY <2>2 DEF FromHost
<1>9. SendAgrees'
  <2>1. On(c2h') = {} /\ Len(up') =< sbTail' /\ (cFin' => finSeq' # 0) /\ ~Fresh'
    BY <1>1, <1>5, <1>7 DEF Fresh
  <2>2. isn' + HostBytes + 2 < SeqMod
    BY <1>2, <1>3
  <2> QED BY <1>8, <2>1, <2>2 DEF SendAgrees
<1>10. CardInOrder' /\ CardEofComplete'
  BY <1>1 DEF SendInv, CardInOrder, CardEofComplete
<1> QED BY <1>6, <1>9, <1>10 DEF SendInv

\* The ARP request is no part of the stream.
LEMMA HostArpSends == ASSUME RecvInv, SendInv, HostArp PROVE SendInv'
<1>1. /\ UNCHANGED <<isn, finSeq, sbTail, sbHead, una, nxt, up, cFin, st, ended, c2h>>
      /\ st # "free" /\ (h2c' = h2c \/ h2c' = Fit(h2c, Who))
  BY DEF HostArp, sendVars, cardVars, history
<1>2. \A f \in On(h2c') : f \in On(h2c) \/ (f.data = <<>> /\ f.kind # "FIN")
  <2>1. Who.data = <<>> /\ Who.kind # "FIN"
    BY DEF Who, Segment
  <2>2. On(Fit(h2c, Who)) \subseteq On(h2c) \cup {Who}
    BY OnFit DEF RecvInv, TypeOK
  <2> QED BY <1>1, <2>1, <2>2
<1> QED BY <1>1, <1>2, SameSend DEF Fresh

\* The segments of conn_step's first part carry no bytes.
LEMMA HostDeliverSends == ASSUME RecvInv, SendInv, HostDeliver PROVE SendInv'
<1>1. /\ UNCHANGED <<isn, finSeq, sbTail, sbHead, una, nxt, up, cFin, c2h>>
      /\ pc = "deliver" /\ (st' = "closed" \/ UNCHANGED <<st, ended>>)
      /\ \/ UNCHANGED <<advWnd, h2c>> \/ Send("ACK", nxt, <<>>) \/ Send("RST", nxt, <<>>)
  BY DEF HostDeliver, sendVars, cardVars, Quiet
<1>2. \A f \in On(h2c') : f \in On(h2c) \/ (f.data = <<>> /\ f.kind # "FIN")
  <2>1. TypeOK
    BY DEF RecvInv
  <2>2. CASE Send("ACK", nxt, <<>>)
    BY <2>1, <2>2, SendNew
  <2>3. CASE Send("RST", nxt, <<>>)
    BY <2>1, <2>3, SendNew
  <2> QED BY <1>1, <2>2, <2>3
<1>3. st # "free"
  BY <1>1 DEF RecvInv, PassAgrees
<1>4. (st' \in Open \cup {"synSent"} => st' = st) /\ ~Fresh'
  BY <1>1, <1>3 DEF Open, Fresh
<1>5. UNCHANGED <<isn, finSeq, sbTail, sbHead, una, nxt, up, cFin>> /\ On(c2h') \subseteq On(c2h)
  BY <1>1
<1> QED BY <1>2, <1>4, <1>5, SameSend

\* 2. Nothing on its way is taken back, and nothing is read after the FIN.
LEMMA HostReadSends == ASSUME RecvInv, SendInv, HostRead PROVE SendInv'
<1>1. UNCHANGED <<isn, finSeq, sbHead, una, nxt, up, cFin, st, ended, h2c, c2h, cst>> /\ pc = "read"
  BY DEF HostRead, cardVars, history
<1>2. sbTail' = sbTail \/ (st \in Sending /\ sbTail' \in Nat /\ sbTail' > sbTail)
  <2>1. sbTail \in 0 .. HostBytes
    BY DEF RecvInv, TypeOK
  <2>2. sbTail' = sbTail \/ (st \in Sending /\ \E n \in 1 .. HostBytes - sbTail : sbTail' = sbTail + n)
    BY DEF HostRead
  <2> QED BY <2>1, <2>2, Caps
<1>3. st # "free"
  BY <1>1 DEF RecvInv, PassAgrees
<1>4. CASE sbTail' = sbTail
  <2>1. ~Fresh'
    BY <1>1, <1>3 DEF Fresh
  <2> QED BY <1>1, <1>4, <2>1, SameSend
<1>5. CASE st \in Sending /\ sbTail' \in Nat /\ sbTail' > sbTail
  <2>1. finSeq = 0 /\ st \in Open
    BY <1>5, UnsentIs DEF Sending, Open
  <2>2. /\ isn \in Nat /\ una \in Nat /\ nxt \in Nat /\ sbHead \in Nat /\ sbTail \in Nat /\ Len(up) \in Nat
    BY OpenNumbers, Caps
  <2>3. BufferAgrees'
    <3>1. /\ sbHead =< sbTail /\ una =< nxt
          /\ una = isn + 1 + sbHead + One(finSeq # 0 /\ una = finSeq + 1)
          /\ nxt =< isn + 1 + sbTail
      BY <2>1 DEF SendInv, BufferAgrees
    <3>2. sbHead =< sbTail' /\ nxt =< isn + 1 + sbTail'
      <4>1. sbHead =< sbTail /\ nxt =< isn + 1 + sbTail
        BY <3>1
      <4>2. sbTail' \in Nat /\ sbTail' > sbTail
        BY <1>5
      <4>3. \A a, b, c, h, i \in Nat : b > a /\ h =< a /\ c =< i + 1 + a => h =< b /\ c =< i + 1 + b
        OBVIOUS
      <4> QED BY <2>2, <4>1, <4>2, <4>3
    <3>3. UNCHANGED <<isn, finSeq, sbHead, una, nxt, st, ended>>
      BY <1>1
    <3> QED BY <1>5, <2>1, <3>1, <3>2, <3>3 DEF BufferAgrees, Sending, Open, Fresh
  <2>4. ~cFin
    BY <2>1 DEF SendInv, SendAgrees
  <2>5. ASSUME NEW f \in On(h2c) PROVE FromHost(f)'
    <3>1. FromHost(f) /\ f \in Seg
      <4>1. FromHost(f)
        BY <2>5 DEF SendInv, SendAgrees
      <4>2. h2c \in Seq(Seg)
        BY DEF RecvInv, TypeOK
      <4> QED BY <2>5, <4>1, <4>2, OnRing
    <3>2. f.seq \in 0 .. SeqMod - 1 /\ Len(f.data) \in Nat
      BY <3>1, LenProperties DEF Seg
    <3>3. f.seq - isn - 1 + Len(f.data) =< sbTail => f.seq - isn - 1 + Len(f.data) =< sbTail'
      BY <1>5, <2>2, <3>2, Caps
    <3>4. UNCHANGED <<isn, finSeq>>
      BY <1>1
    <3> QED BY <3>1, <3>3, <3>4 DEF FromHost
  <2>6. SendAgrees'
    <3>1. SendAgrees
      BY DEF SendInv
    <3>2. Len(up') =< sbTail'
      <4>1. Len(up) =< sbTail
        BY <3>1 DEF SendAgrees
      <4> QED BY <1>1, <1>5, <2>2, <4>1
    <3>3. UNCHANGED <<isn, finSeq, up, cFin, st, ended, h2c, c2h, cst>>
      BY <1>1
    <3> QED BY <1>3, <2>5, <3>1, <3>2, <3>3 DEF SendAgrees, AcksWhatItHas, Fresh
  <2>7. CardInOrder' /\ CardEofComplete'
    BY <1>1, <2>4 DEF SendInv, CardInOrder, CardEofComplete
  <2> QED BY <2>3, <2>6, <2>7 DEF SendInv
<1> QED BY <1>2, <1>4, <1>5

\* 3. A segment of unsent bytes is the next piece of the stream.
LEMMA HostSendSends == ASSUME RecvInv, SendInv, HostSend PROVE SendInv'
<1> DEFINE n == Least(Least(sbTail - Unsent, wnd - InFlight), Least(Mss, ToEnd(Unsent)))
<1>1. /\ UNCHANGED <<st, una, finSeq, sbHead, sbTail, c2h, cst, up, cFin, isn, ended>>
      /\ pc = "send"
      /\ \/ /\ st \in Sending /\ sbTail # Unsent /\ wnd > InFlight
            /\ nxt' = Mod(nxt + n) /\ Send("ACK", nxt, Bytes(Unsent, n))
         \/ nxt' = nxt /\ UNCHANGED <<advWnd, h2c>>
  BY DEF HostSend, cardVars, history, Quiet
<1>2. TypeOK
  BY DEF RecvInv
<1>3. st # "free" /\ ~Fresh'
  BY <1>1 DEF RecvInv, PassAgrees, Fresh
<1>4. CASE nxt' = nxt /\ UNCHANGED <<advWnd, h2c>>
  BY <1>1, <1>3, <1>4, SameSend
<1>5. CASE /\ st \in Sending /\ sbTail # Unsent /\ wnd > InFlight
           /\ nxt' = Mod(nxt + n) /\ Send("ACK", nxt, Bytes(Unsent, n))
  <2>1. /\ finSeq = 0 /\ Unsent = nxt - isn - 1 /\ nxt > isn /\ Unsent \in 0 .. sbTail
    BY <1>5, UnsentIs
  <2>2. /\ isn \in Nat /\ una \in Nat /\ nxt \in Nat /\ sbHead \in Nat /\ sbTail \in 0 .. HostBytes
        /\ isn + HostBytes + 2 < SeqMod /\ HostBytes \in Nat
    BY OpenNumbers, Caps
  <2>3. n \in Nat /\ n =< sbTail - Unsent
    <3>1. wnd \in Nat /\ InFlight \in Nat /\ ToEnd(Unsent) \in Nat /\ Mss \in Nat
      BY <1>2, Numbers, Caps
    <3>2. sbTail - Unsent \in Nat /\ wnd - InFlight \in Nat
      BY <1>5, <2>1, <2>2, <3>1
    <3>3. \A a, b \in Nat : Least(a, b) \in Nat /\ Least(a, b) =< a
      BY DEF Least
    <3>4. ASSUME NEW a \in Nat, NEW b \in Nat, NEW c \in Nat, NEW d \in Nat
          PROVE  Least(Least(a, b), Least(c, d)) \in Nat /\ Least(Least(a, b), Least(c, d)) =< a
      <4>1. Least(a, b) \in Nat /\ Least(c, d) \in Nat /\ Least(a, b) =< a
        BY <3>3
      <4>2. Least(Least(a, b), Least(c, d)) \in Nat /\ Least(Least(a, b), Least(c, d)) =< Least(a, b)
        BY <3>3, <4>1
      <4> QED BY <4>1, <4>2
    <3> QED BY <3>1, <3>2, <3>4
  <2> HIDE DEF n
  <2>4. nxt' = nxt + n /\ nxt' =< isn + 1 + sbTail /\ nxt' >= nxt /\ nxt' \in Nat
    <3>1. nxt + n \in 0 .. SeqMod - 1 /\ nxt + n =< isn + 1 + sbTail /\ nxt + n >= nxt
      BY <2>1, <2>2, <2>3, Caps
    <3> QED BY <1>5, <2>2, <2>3, <3>1, ModFacts
  <2>5. BufferAgrees'
    <3>1. st \in Open /\ st # "synSent"
      BY <1>5 DEF Sending, Open
    <3>2. /\ sbHead =< sbTail /\ una =< nxt
          /\ una = isn + 1 + sbHead + One(finSeq # 0 /\ una = finSeq + 1)
      BY <3>1 DEF SendInv, BufferAgrees
    <3>3. una =< nxt'
      BY <2>2, <2>4, <3>2
    <3>4. UNCHANGED <<st, una, finSeq, sbHead, sbTail, isn, ended>>
      BY <1>1
    <3> QED BY <1>3, <1>5, <2>1, <2>4, <3>1, <3>2, <3>3, <3>4 DEF BufferAgrees
  <2>6. ASSUME NEW f \in On(h2c') PROVE FromHost(f)'
    <3>1. f \in On(h2c) \/ (f.kind = "ACK" /\ f.seq = nxt /\ f.data = Bytes(Unsent, n))
      BY <1>2, <1>5, <2>6, SendNew
    <3>2. UNCHANGED <<isn, sbTail, finSeq>>
      BY <1>1
    <3>3. CASE f \in On(h2c)
      BY <3>2, <3>3 DEF SendInv, SendAgrees, FromHost
    <3>4. CASE f.kind = "ACK" /\ f.seq = nxt /\ f.data = Bytes(Unsent, n)
      <4>1. Unsent \in Int /\ Unsent = nxt - isn - 1 /\ Unsent + n =< sbTail
        BY <2>1, <2>2, <2>3
      <4>2. Len(Bytes(Unsent, n)) = n
        BY <2>3, <4>1, BytesFacts
      <4> QED BY <2>1, <3>2, <3>4, <4>1, <4>2 DEF FromHost
    <3> QED BY <3>1, <3>3, <3>4
  <2>7. SendAgrees'
    <3>1. UNCHANGED <<isn, sbTail, finSeq, up, cFin, c2h>>
      BY <1>1
    <3> QED BY <1>3, <2>6, <3>1 DEF SendInv, SendAgrees, AcksWhatItHas
  <2>8. CardInOrder' /\ CardEofComplete'
    BY <1>1 DEF SendInv, CardInOrder, CardEofComplete
  <2> QED BY <2>5, <2>7, <2>8 DEF SendInv
<1> QED BY <1>1, <1>4, <1>5

\* 4. The FIN goes out behind the last byte.
LEMMA HostFinSends == ASSUME RecvInv, SendInv, HostFin PROVE SendInv'
<1>1. /\ UNCHANGED <<una, sbHead, sbTail, c2h, cst, up, cFin, isn, ended>>
      /\ pc = "fin"
      /\ \/ /\ finSeq = 0 /\ AllSent /\ st \in Sending /\ st' \in {"finWait1", "lastAck"}
            /\ finSeq' = nxt /\ nxt' = Mod(nxt + 1) /\ Send("FIN", nxt, <<>>)
         \/ UNCHANGED <<st, finSeq, nxt, advWnd, h2c>>
  BY DEF HostFin, cardVars, history, Quiet
<1>2. TypeOK
  BY DEF RecvInv
<1>3. st # "free"
  BY <1>1 DEF RecvInv, PassAgrees
<1>4. CASE UNCHANGED <<st, finSeq, nxt, advWnd, h2c>>
  <2>1. ~Fresh'
    BY <1>3, <1>4 DEF Fresh
  <2> QED BY <1>1, <1>4, <2>1, SameSend
<1>5. CASE /\ finSeq = 0 /\ AllSent /\ st \in Sending /\ st' \in {"finWait1", "lastAck"}
           /\ finSeq' = nxt /\ nxt' = Mod(nxt + 1) /\ Send("FIN", nxt, <<>>)
  <2>1. /\ una = isn + 1 + sbHead /\ nxt = isn + 1 + sbTail
    <3>1. /\ una = isn + 1 + sbHead /\ Unsent = nxt - isn - 1 /\ Unsent = sbTail
      BY <1>5, UnsentIs DEF AllSent
    <3>2. isn \in Nat /\ nxt \in Nat /\ sbTail \in Nat
      BY OpenNumbers, Caps
    <3> QED BY <3>1, <3>2
  <2>2. /\ isn \in Nat /\ una \in Nat /\ nxt \in Nat /\ sbHead \in Nat /\ sbTail \in 0 .. HostBytes
        /\ isn + HostBytes + 2 < SeqMod
    BY OpenNumbers
  <2>3. nxt' = nxt + 1 /\ finSeq' # 0 /\ finSeq' = isn + 1 + sbTail /\ nxt' = finSeq' + 1
    <3>1. nxt + 1 \in 0 .. SeqMod - 1 /\ nxt # 0
      BY <2>1, <2>2, Caps
    <3> QED BY <1>5, <2>1, <3>1, ModFacts
  <2>4. sbHead =< sbTail /\ una =< nxt
    <3>1. st \in Open
      BY <1>5 DEF Sending, Open
    <3> QED BY <3>1 DEF SendInv, BufferAgrees
  <2>5. una =< nxt' /\ una # finSeq' + 1
    BY <2>2, <2>3, <2>4
  <2>6. One(finSeq' # 0 /\ una = finSeq' + 1) = 0 /\ isn + 1 + sbHead + 0 = isn + 1 + sbHead
    BY <2>2, <2>5 DEF One
  <2>7. BufferAgrees'
    <3>1. st' \notin Sending /\ st' # "synSent" /\ st' # "free"
      BY <1>5 DEF Sending
    <3>2. UNCHANGED <<una, sbHead, sbTail, isn>>
      BY <1>1
    <3> QED BY <2>1, <2>3, <2>4, <2>5, <2>6, <3>1, <3>2 DEF BufferAgrees, Fresh
  <2>8. ASSUME NEW f \in On(h2c') PROVE FromHost(f)'
    <3>1. f \in On(h2c) \/ (f.kind = "FIN" /\ f.seq = nxt /\ f.data = <<>>)
      BY <1>2, <1>5, <2>8, SendNew
    <3>2. UNCHANGED <<isn, sbTail>> /\ finSeq = 0 /\ finSeq' = nxt
      BY <1>1, <1>5
    <3>3. CASE f \in On(h2c)
      <4>1. FromHost(f)
        BY <3>3 DEF SendInv, SendAgrees
      <4>2. f.kind # "FIN"
        BY <3>2, <4>1 DEF FromHost
      <4> QED BY <3>2, <4>1, <4>2 DEF FromHost
    <3>4. CASE f.kind = "FIN" /\ f.seq = nxt /\ f.data = <<>>
      BY <2>3, <3>2, <3>4 DEF FromHost
    <3> QED BY <3>1, <3>3, <3>4
  <2>9. SendAgrees'
    <3>1. UNCHANGED <<isn, sbTail, up, cFin, c2h>>
      BY <1>1
    <3>2. ~Fresh'
      BY <1>5 DEF Fresh
    <3> QED BY <2>3, <2>8, <3>1, <3>2 DEF SendInv, SendAgrees, AcksWhatItHas
  <2>10. CardInOrder' /\ CardEofComplete'
    BY <1>1 DEF SendInv, CardInOrder, CardEofComplete
  <2> QED BY <2>7, <2>9, <2>10 DEF SendInv
<1> QED BY <1>1, <1>4, <1>5

\* What the timer sends again is a piece of the stream, from the first
\* unacknowledged byte on, or the FIN.
LEMMA ResendSends ==
  ASSUME RecvInv, SendInv, Resend, st \notin {"free", "closed"}
  PROVE  \A f \in On(h2c') : FromHost(f)
<1> DEFINE n == Least(Least(sbTail - sbHead, Mss), ToEnd(sbHead))
<1>1. TypeOK /\ \A f \in On(h2c) : FromHost(f)
  BY DEF RecvInv, SendInv, SendAgrees
<1>2. \/ Send("SYN", una, <<>>)
      \/ st # "synSent" /\ n # 0 /\ Send("ACK", una, Bytes(sbHead, n))
      \/ finSeq # 0 /\ Send("FIN", finSeq, <<>>)
      \/ UNCHANGED <<advWnd, h2c>>
  BY DEF Resend, Quiet
<1>3. CASE Send("SYN", una, <<>>)
  <2>1. \A f \in On(h2c') : f \in On(h2c) \/ (f.kind = "SYN" /\ f.seq = una /\ f.data = <<>>)
    BY <1>1, <1>3, SendNew
  <2> QED BY <1>1, <2>1 DEF FromHost
<1>4. CASE st # "synSent" /\ n # 0 /\ Send("ACK", una, Bytes(sbHead, n))
  <2>1. st \in Open
    BY <1>1, <1>4 DEF TypeOK
  <2>2. /\ sbHead =< sbTail /\ una = isn + 1 + sbHead + One(finSeq # 0 /\ una = finSeq + 1)
        /\ (finSeq # 0 => finSeq = isn + 1 + sbTail)
    BY <2>1 DEF SendInv, BufferAgrees
  <2>3. isn \in Nat /\ una \in Nat /\ finSeq \in Nat /\ sbHead \in Nat /\ sbTail \in Nat
    BY OpenNumbers, Caps
  <2>4. n \in Nat /\ n =< sbTail - sbHead
    <3>1. ToEnd(sbHead) \in Nat /\ Mss \in Nat /\ sbTail - sbHead \in Nat
      <4>1. sbHead =< sbTail
        BY <2>2
      <4>2. ToEnd(sbHead) \in Nat /\ Mss \in Nat
        BY <1>1, Numbers, Caps
      <4> QED BY <2>3, <4>1, <4>2
    <3>2. \A a, b, c \in Nat : Least(Least(a, b), c) \in Nat /\ Least(Least(a, b), c) =< a
      BY DEF Least
    <3> QED BY <3>1, <3>2
  <2> HIDE DEF n
  <2>5. una = isn + 1 + sbHead
    <3>1. CASE finSeq # 0 /\ una = finSeq + 1
      <4>1. una = isn + 1 + sbHead + 1 /\ una = isn + 1 + sbTail + 1
        BY <2>2, <2>3, <3>1 DEF One
      <4> QED BY <1>4, <2>3, <2>4, <4>1
    <3>2. CASE ~(finSeq # 0 /\ una = finSeq + 1)
      <4>1. One(finSeq # 0 /\ una = finSeq + 1) = 0
        BY <3>2 DEF One
      <4> QED BY <2>2, <2>3, <4>1
    <3> QED BY <3>1, <3>2
  <2>6. \A f \in On(h2c') : f \in On(h2c) \/ (f.kind = "ACK" /\ f.seq = una /\ f.data = Bytes(sbHead, n))
    BY <1>1, <1>4, SendNew
  <2>7. ASSUME NEW f, f.kind = "ACK", f.seq = una, f.data = Bytes(sbHead, n) PROVE FromHost(f)
    <3>1. una > isn /\ una - isn - 1 = sbHead /\ sbHead + n =< sbTail /\ sbHead \in Int
      BY <2>3, <2>4, <2>5
    <3>2. Len(Bytes(sbHead, n)) = n
      BY <2>4, <3>1, BytesFacts
    <3> QED BY <2>7, <3>1, <3>2 DEF FromHost
  <2> QED BY <1>1, <2>6, <2>7
<1>5. CASE finSeq # 0 /\ Send("FIN", finSeq, <<>>)
  <2>1. \A f \in On(h2c') : f \in On(h2c) \/ (f.kind = "FIN" /\ f.seq = finSeq /\ f.data = <<>>)
    BY <1>1, <1>5, SendNew
  <2> QED BY <1>1, <1>5, <2>1 DEF FromHost
<1> QED BY <1>1, <1>2, <1>3, <1>4, <1>5

\* 5. The timer.
LEMMA HostTimerSends == ASSUME RecvInv, SendInv, HostTimerWaits \/ HostTimerFires PROVE SendInv'
<1>1. /\ UNCHANGED <<isn, finSeq, sbTail, sbHead, una, nxt, up, cFin, c2h>> /\ pc = "timer"
      /\ \/ UNCHANGED <<st, ended, h2c>>
         \/ Resend /\ UNCHANGED <<st, ended>>
         \/ st' = "closed" /\ h2c' = h2c
  BY DEF HostTimerWaits, HostTimerFires, sendVars, cardVars, history, Quiet
<1>2. st \notin {"free", "closed"}
  BY <1>1 DEF RecvInv, PassAgrees
<1>3. ~Fresh'
  BY <1>1, <1>2 DEF Fresh
<1>4. CASE UNCHANGED <<st, ended, h2c>>
  BY <1>1, <1>3, <1>4, SameSend
<1>5. CASE st' = "closed" /\ h2c' = h2c
  BY <1>1, <1>3, <1>5, SameSend DEF Open
<1>6. CASE Resend /\ UNCHANGED <<st, ended>>
  <2>1. \A f \in On(h2c') : FromHost(f)
    BY <1>2, <1>6, ResendSends
  <2>2. UNCHANGED <<isn, finSeq, sbTail, sbHead, una, nxt, up, cFin, c2h, st, ended>>
    BY <1>1, <1>6
  <2>3. BufferAgrees'
    BY <2>2 DEF SendInv, BufferAgrees, Fresh
  <2>4. SendAgrees'
    BY <1>3, <2>1, <2>2 DEF SendInv, SendAgrees, FromHost, AcksWhatItHas
  <2>5. CardInOrder' /\ CardEofComplete'
    BY <2>2 DEF SendInv, CardInOrder, CardEofComplete
  <2> QED BY <2>3, <2>4, <2>5 DEF SendInv
<1> QED BY <1>1, <1>4, <1>5, <1>6

\* 6. The close.
LEMMA HostCloseSends == ASSUME RecvInv, SendInv, HostClose PROVE SendInv'
<1>1. /\ UNCHANGED <<isn, finSeq, sbTail, sbHead, una, nxt, up, cFin, h2c, c2h>> /\ pc = "close"
      /\ \/ st' = "free" /\ ended' # "none"
         \/ UNCHANGED <<st, ended>>
  BY DEF HostClose, sendVars, cardVars
<1>2. st # "free"
  BY <1>1 DEF RecvInv, PassAgrees
<1>3. ~Fresh' /\ (st' \in Open \cup {"synSent"} => st' = st)
  BY <1>1, <1>2 DEF Fresh, Open
<1> QED BY <1>1, <1>3, SameSend

\* An acknowledgement counts only when it is newer than snd_una and of what
\* was sent: an old one is a long way ahead modulo the sequence space.
LEMMA AckFacts ==
  ASSUME RecvInv, SendInv, NEW f \in Seg, AcksWhatItHas(f), f.kind \in {"SYNACK", "ACK", "FIN"},
         st \in Open, NewAck(f)
  PROVE  f.ack > una /\ f.ack =< nxt /\ Acked(f) = f.ack - una /\ f.ack \in Nat
<1>1. /\ isn \in Nat /\ una \in Nat /\ nxt \in Nat /\ sbTail \in 0 .. HostBytes /\ Len(up) \in Nat
      /\ Len(up) =< sbTail /\ isn + HostBytes + 2 < SeqMod
      /\ InFlight = nxt - una /\ una =< nxt /\ una > isn /\ nxt =< isn + 2 + sbTail
  BY OpenNumbers
<1>2. /\ f.ack \in 0 .. SeqMod - 1 /\ f.ack \in isn + 1 .. isn + 1 + Len(up) + One(cFin)
  BY DEF Seg, AcksWhatItHas
<1>3. One(cFin) \in {0, 1}
  BY DEF One
<1>4. Acked(f) > 0 /\ Acked(f) =< nxt - una
  BY <1>1 DEF NewAck
<1>5. ASSUME NEW a, a = f.ack, NEW e \in {0, 1}, e = One(cFin), NEW l, l = Len(up)
      PROVE  a > una /\ a =< nxt /\ Mod(a - una) = a - una /\ a \in Nat
  <2>1. a \in Nat /\ a >= isn + 1 /\ a =< isn + 1 + l + e /\ l \in Nat /\ l =< sbTail
    BY <1>1, <1>2, <1>5, Caps
  <2>2. Mod(a - una) > 0 /\ Mod(a - una) =< nxt - una
    BY <1>4, <1>5 DEF Acked
  <2>3. CASE a >= una
    <3>1. a - una \in 0 .. SeqMod - 1
      BY <1>1, <2>1, <2>3, Caps
    <3>2. Mod(a - una) = a - una
      BY <3>1, ModFacts
    <3> QED BY <1>1, <2>1, <2>2, <3>2
  <2>4. CASE a < una
    <3> DEFINE r == a - una + SeqMod
               d == a - una
    <3>1. /\ r \in 0 .. SeqMod - 1 /\ d \in Int /\ d = SeqMod * (-1) + r /\ r > nxt - una
          /\ SeqMod \in Nat \ {0} /\ -1 \in Int
      BY <1>1, <2>1, <2>4, Caps
    <3> HIDE DEF r, d
    <3>2. d % SeqMod = r
      BY <3>1, ModUnique
    <3>3. Mod(a - una) = r
      BY <3>2 DEF Mod, d
    <3> QED BY <1>1, <2>2, <3>1, <3>3, Caps
  <2> QED BY <1>1, <2>1, <2>3, <2>4
<1> QED BY <1>3, <1>5 DEF Acked

\* tcp_in: an acknowledgement frees the bytes it covers and no others, the
\* FIN's number not being one of them.
LEMMA AppliesBuffer ==
  ASSUME RecvInv, SendInv, NEW f \in Seg, AcksWhatItHas(f), f.kind \in {"SYNACK", "ACK", "FIN"},
         st \in Open, Applies(f), isn' = isn
  PROVE  BufferAgrees'
<1>1. /\ UNCHANGED <<nxt, finSeq, sbTail, isn>>
      /\ \E rest \in Rests : st' = AfterFin(f, AfterAck(f, rest))
      /\ \/ /\ NewAck(f) /\ una' = f.ack
            /\ sbHead' = sbHead + Acked(f) - (IF FinCounted(f) THEN 1 ELSE 0)
         \/ UNCHANGED <<una, sbHead>>
  BY DEF Applies
<1>2. /\ sbHead =< sbTail /\ una =< nxt
      /\ una = isn + 1 + sbHead + One(finSeq # 0 /\ una = finSeq + 1)
      /\ (finSeq # 0 => finSeq = isn + 1 + sbTail)
      /\ IF finSeq = 0 THEN st \in Sending /\ nxt =< isn + 1 + sbTail
                       ELSE st \notin Sending /\ nxt = finSeq + 1
  BY DEF SendInv, BufferAgrees
<1>3. /\ isn \in Nat /\ una \in Nat /\ nxt \in Nat /\ finSeq \in Nat /\ sbHead \in Nat /\ sbTail \in Nat
  BY OpenNumbers, Caps
<1>4. /\ st' \in Open \cup {"closed"}
      /\ st' \in Open => IF finSeq = 0 THEN st' \in Sending ELSE st' \notin Sending
  <2>3. PICK rest \in Rests : st' = AfterFin(f, AfterAck(f, rest))
    BY <1>1
  <2>1. CASE finSeq = 0
    <3>1. st \in Sending
      BY <1>2, <2>1
    <3>2. AfterAck(f, rest) = st
      BY <2>1, <3>1 DEF AfterAck, Sending, FinAcked
    <3>3. AfterFin(f, st) \in Sending
      BY <3>1 DEF AfterFin, Sending
    <3> QED BY <2>1, <2>3, <3>2, <3>3 DEF Sending, Open
  <2>2. CASE finSeq # 0
    <3>1. st \notin Sending
      BY <1>2, <2>2
    <3>2. AfterAck(f, rest) \in (Open \cup {"closed"}) \ Sending
      BY <3>1 DEF AfterAck, Sending, Open
    <3> HIDE DEF AfterAck
    <3>3. AfterFin(f, AfterAck(f, rest)) \in (Open \cup {"closed"}) \ Sending
      BY <3>2 DEF AfterFin, Sending, Open
    <3> QED BY <2>2, <2>3, <3>3
  <2> QED BY <2>1, <2>2
<1>5. /\ sbHead' =< sbTail /\ una' =< nxt
      /\ una' = isn + 1 + sbHead' + One(finSeq # 0 /\ una' = finSeq + 1)
  <2>1. CASE UNCHANGED <<una, sbHead>>
    BY <1>2, <2>1
  <2>2. CASE /\ NewAck(f) /\ una' = f.ack
             /\ sbHead' = sbHead + Acked(f) - (IF FinCounted(f) THEN 1 ELSE 0)
    <3>1. f.ack > una /\ f.ack =< nxt /\ Acked(f) = f.ack - una /\ f.ack \in Nat
      BY <2>2, AckFacts
    <3>2. finSeq # 0 => una # finSeq + 1
      BY <1>2, <1>3, <3>1
    <3>3. una = isn + 1 + sbHead
      <4>1. One(finSeq # 0 /\ una = finSeq + 1) = 0
        BY <3>2 DEF One
      <4> QED BY <1>2, <1>3, <4>1
    <3>4. CASE FinCounted(f)
      <4>1. finSeq # 0 /\ finSeq < f.ack
        BY <3>4 DEF FinCounted
      <4>2. nxt = finSeq + 1 /\ finSeq = isn + 1 + sbTail
        BY <1>2, <4>1
      <4>3. sbHead' = sbHead + (f.ack - una) - 1
        BY <2>2, <3>1, <3>4
      <4>4. una' = finSeq + 1 /\ una' = isn + 1 + sbTail + 1 /\ sbHead' = sbTail
        BY <1>3, <2>2, <3>1, <3>3, <4>1, <4>2, <4>3
      <4>5. One(finSeq # 0 /\ una' = finSeq + 1) = 1
        BY <4>1, <4>4 DEF One
      <4> QED BY <1>3, <2>2, <3>1, <4>4, <4>5
    <3>5. CASE ~FinCounted(f)
      <4>1. finSeq = 0 \/ f.ack =< finSeq
        BY <1>3, <3>1, <3>5 DEF FinCounted
      <4>2. finSeq # 0 => una' # finSeq + 1
        BY <1>3, <2>2, <3>1, <4>1
      <4>3. One(finSeq # 0 /\ una' = finSeq + 1) = 0
        BY <4>2 DEF One
      <4>4. sbHead' = sbHead + (f.ack - una) - 0
        BY <2>2, <3>1, <3>5
      <4>5. f.ack =< isn + 1 + sbTail
        <5>1. CASE finSeq = 0
          <6>1. nxt =< isn + 1 + sbTail
            BY <1>2, <5>1
          <6> QED BY <1>3, <3>1, <6>1
        <5>2. CASE finSeq # 0
          BY <1>2, <4>1, <5>2
        <5> QED BY <5>1, <5>2
      <4>6. una' = isn + 1 + sbHead' + 0 /\ sbHead' =< sbTail /\ una' =< nxt
        BY <1>3, <2>2, <3>1, <3>3, <4>4, <4>5
      <4> QED BY <4>3, <4>6
    <3> QED BY <3>4, <3>5
  <2> QED BY <1>1, <2>1, <2>2
<1>6. st' \notin {"synSent", "free"}
  BY <1>4 DEF Open
<1>7. /\ (finSeq # 0 => finSeq = isn + 1 + sbTail)
      /\ st' \in Open => IF finSeq = 0 THEN st' \in Sending /\ nxt =< isn + 1 + sbTail
                                     ELSE st' \notin Sending /\ nxt = finSeq + 1
  BY <1>2, <1>4
<1>8. UNCHANGED <<nxt, finSeq, sbTail, isn>>
  BY <1>1
<1> QED BY <1>5, <1>6, <1>7, <1>8 DEF BufferAgrees, Fresh

\* tcp_in, whatever the frame.
LEMMA HostRecvSends == ASSUME RecvInv, SendInv, HostRecv PROVE SendInv'
<1> DEFINE f == Head(c2h)
<1>1. /\ c2h # <<>> /\ c2h' = Tail(c2h) /\ UNCHANGED <<up, cFin, isn>>
      /\ \/ /\ UNCHANGED <<st, una, nxt, finSeq, sbHead, sbTail, ended>>
            /\ h2c' \in {h2c, Fit(h2c, Arp)}
         \/ /\ f.kind \notin {"WHO", "ARP", "RST"} /\ st # "free"
            /\ \/ st = "synSent" /\ Opens(f)
               \/ st # "synSent" /\ Applies(f)
         \/ Resets
  BY DEF HostRecv, IsArp, cardVars, sendVars
<1>2. f \in Seg /\ FromCard(f) /\ f \in On(c2h) /\ On(c2h') \subseteq On(c2h)
  BY <1>1, CardFrame
<1>3. AcksWhatItHas(f)
  BY <1>2 DEF SendInv, SendAgrees
<1>4. TypeOK /\ ~Fresh
  BY <1>1 DEF RecvInv, SendInv, SendAgrees
<1> HIDE DEF f
<1>5. f.kind \notin {"WHO", "ARP", "RST"} => f.kind \in {"SYNACK", "ACK", "FIN"}
  BY <1>2 DEF FromCard, Seg, Kind
<1>6. CASE /\ UNCHANGED <<st, una, nxt, finSeq, sbHead, sbTail, ended>>
           /\ h2c' \in {h2c, Fit(h2c, Arp)}
  <2>1. ~Fresh'
    BY <1>4, <1>6 DEF Fresh
  <2>2. On(Fit(h2c, Arp)) \subseteq On(h2c) \cup {Arp}
    BY <1>4, OnFit DEF TypeOK
  <2>3. \A g \in On(h2c') : g \in On(h2c) \/ (g.data = <<>> /\ g.kind # "FIN")
    BY <1>6, <2>2, ArpFacts
  <2> QED BY <1>1, <1>2, <1>6, <2>1, <2>3, SameSend
<1>7. CASE Resets
  <2>1. st' = "closed" /\ UNCHANGED <<una, nxt, finSeq, sbHead, sbTail, h2c>>
    BY <1>7 DEF Resets, sendVars
  <2>2. ~Fresh' /\ (st' \in Open \cup {"synSent"} => st' = st)
    BY <2>1 DEF Fresh, Open
  <2> QED BY <1>1, <1>2, <2>1, <2>2, SameSend
<1>8. CASE st = "synSent" /\ Opens(f)
  <2>1. UNCHANGED <<nxt, finSeq, sbHead, sbTail, ended>>
    BY <1>8 DEF Opens
  <2>2. CASE st' = st /\ una' = una /\ h2c' = h2c
    <3>1. ~Fresh'
      BY <1>8, <2>2 DEF Fresh
    <3> QED BY <1>1, <1>2, <2>1, <2>2, <3>1, SameSend
  <2>3. CASE st' = "established" /\ una' = nxt /\ Send("ACK", nxt, <<>>)
    <3>1. sbHead = 0 /\ sbTail = 0 /\ finSeq = 0 /\ nxt = isn + 1 /\ isn \in Nat
      <4>1. sbHead = 0 /\ sbTail = 0 /\ finSeq = 0 /\ nxt = isn + 1
        BY <1>8 DEF SendInv, BufferAgrees
      <4> QED BY <4>1, OpenNumbers
    <3>2. BufferAgrees'
      <4>1. /\ sbHead' = 0 /\ sbTail' = 0 /\ finSeq' = 0 /\ nxt' = isn' + 1 /\ una' = isn' + 1 /\ isn' \in Nat
            /\ st' = "established"
        BY <1>1, <2>1, <2>3, <3>1
      <4>2. One(finSeq' # 0 /\ una' = finSeq' + 1) = 0
        BY <4>1 DEF One
      <4>3. /\ una' = isn' + 1 + sbHead' + 0 /\ nxt' =< isn' + 1 + sbTail' /\ una' =< nxt' /\ sbHead' =< sbTail'
        <5>1. \A i \in Nat : i + 1 = i + 1 + 0 + 0 /\ i + 1 =< i + 1 + 0 /\ i + 1 =< i + 1
          OBVIOUS
        <5>2. 0 =< 0
          OBVIOUS
        <5> QED BY <4>1, <5>1, <5>2, Zenon
      <4> QED BY <4>1, <4>2, <4>3 DEF BufferAgrees, Sending, Fresh
    <3>3. \A g \in On(h2c') : g \in On(h2c) \/ (g.kind = "ACK" /\ g.seq = nxt /\ g.data = <<>>)
      BY <1>4, <2>3, SendNew
    <3>4. SendAgrees'
      <4>1. UNCHANGED <<isn, finSeq, sbTail, up, cFin>> /\ ~Fresh'
        BY <1>1, <2>1, <2>3 DEF Fresh
      <4>2. \A g \in On(h2c') : FromHost(g)'
        BY <3>3, <4>1 DEF SendInv, SendAgrees, FromHost
      <4> QED BY <1>2, <4>1, <4>2 DEF SendInv, SendAgrees, AcksWhatItHas
    <3>5. CardInOrder' /\ CardEofComplete'
      BY <1>1, <2>1 DEF SendInv, CardInOrder, CardEofComplete
    <3> QED BY <3>2, <3>4, <3>5 DEF SendInv
  <2> QED BY <1>8, <2>2, <2>3 DEF Opens, Quiet
<1>9. CASE f.kind \in {"SYNACK", "ACK", "FIN"} /\ st \notin {"free", "synSent"} /\ Applies(f)
  <2>1. /\ UNCHANGED <<nxt, finSeq, sbTail, ended>>
        /\ \E rest \in Rests : st' = AfterFin(f, AfterAck(f, rest))
        /\ Send("ACK", nxt, <<>>) \/ UNCHANGED <<advWnd, h2c>>
    BY <1>9 DEF Applies, Quiet
  <2>2. BufferAgrees' /\ st' # "free"
    <3>3. PICK rest \in Rests : st' = AfterFin(f, AfterAck(f, rest))
      BY <2>1
    <3>1. CASE st \in Open
      <4>1. BufferAgrees'
        BY <1>1, <1>2, <1>3, <1>9, <3>1, AppliesBuffer
      <4>2. AfterFin(f, AfterAck(f, rest)) # "free"
        BY <3>1 DEF AfterFin, AfterAck, Open
      <4> QED BY <3>3, <4>1, <4>2
    <3>2. CASE st = "closed"
      <4>1. AfterFin(f, AfterAck(f, rest)) = "closed"
        BY <3>2 DEF AfterFin, AfterAck
      <4>2. st' = "closed"
        BY <3>3, <4>1
      <4>3. UNCHANGED <<finSeq, isn, sbTail>>
        BY <1>1, <2>1
      <4> QED BY <4>2, <4>3 DEF SendInv, BufferAgrees, Open, Fresh
    <3> QED BY <1>4, <1>9, <3>1, <3>2 DEF TypeOK
  <2>3. \A g \in On(h2c') : g \in On(h2c) \/ (g.kind = "ACK" /\ g.data = <<>>)
    <3>1. CASE Send("ACK", nxt, <<>>)
      BY <1>4, <3>1, SendNew
    <3> QED BY <2>1, <3>1
  <2>4. SendAgrees'
    <3>1. UNCHANGED <<isn, finSeq, sbTail, up, cFin>> /\ ~Fresh'
      BY <1>1, <2>1, <2>2 DEF Fresh
    <3>2. \A g \in On(h2c') : FromHost(g)'
      BY <2>3, <3>1 DEF SendInv, SendAgrees, FromHost
    <3> QED BY <1>2, <3>1, <3>2 DEF SendInv, SendAgrees, AcksWhatItHas
  <2>5. CardInOrder' /\ CardEofComplete'
    BY <1>1, <2>1 DEF SendInv, CardInOrder, CardEofComplete
  <2> QED BY <2>2, <2>4, <2>5 DEF SendInv
<1> QED BY <1>1, <1>5, <1>6, <1>7, <1>8, <1>9

\* What the card takes of a segment is what follows the bytes it has.
LEMMA CardTakeIs ==
  ASSUME RecvInv, SendInv, NEW f \in Seg, FromHost(f)
  PROVE  /\ CardTake(f) = Bytes(Len(up), Len(CardTake(f))) /\ Len(CardTake(f)) \in Nat
         /\ Len(up) + Len(CardTake(f)) =< sbTail
         /\ cFin => Len(CardTake(f)) = 0
<1> DEFINE u == Len(up)
           n == Len(f.data)
           s == f.seq - isn - 1
           off == Mod(isn + 1 + Len(up) - f.seq)
           m == Least(n, off + CardCap - unread)
<1>1. /\ isn \in Nat /\ sbTail \in 0 .. HostBytes /\ u \in Nat /\ u =< sbTail /\ isn + HostBytes + 2 < SeqMod
  BY OpenNumbers
<1>2. n \in Nat /\ f.data \in Seq(Int) /\ f.seq \in 0 .. SeqMod - 1 /\ unread \in 0 .. CardCap
  BY LenProperties DEF Seg, RecvInv, TypeOK
<1>3. CASE CardTake(f) = <<>>
  <2>1. Bytes(u, 0) = <<>> /\ Len(<<>>) = 0
    BY <1>1, BytesFacts
  <2> QED BY <1>1, <1>3, <2>1
<1>4. CASE CardTake(f) # <<>>
  <2>1. ~cFin /\ off =< n /\ CardTake(f) = SubSeq(f.data, off + 1, m)
    <3>1. ~(cFin \/ off > n) /\ CardTake(f) = SubSeq(f.data, off + 1, m)
      BY <1>4 DEF CardTake
    <3>2. off \in Int
      <4>1. isn + 1 + Len(up) - f.seq \in Int
        BY <1>1, <1>2, Caps
      <4> QED BY <4>1, ModFacts, Caps
    <3> HIDE DEF off
    <3> QED BY <1>2, <3>1, <3>2
  <2>2. n > 0
    <3>1. CardTake(f) \in Seq(Int) /\ off \in Nat
      <4>1. TypeOK
        BY DEF RecvInv
      <4>2. isn + 1 + Len(up) - f.seq \in Int
        BY <1>1, <1>2, Caps
      <4> QED BY <4>1, <4>2, CardTakeFacts, ModFacts
    <3>2. ASSUME n = 0 PROVE FALSE
      <4>1. f.data = <<>> /\ off = 0
        BY <1>2, <2>1, <3>1, <3>2, EmptySeq
      <4>2. m =< 0 /\ m \in Int
        BY <1>2, <3>2, <4>1, Caps DEF Least
      <4> HIDE DEF m, off
      <4>3. CardTake(f) = SubSeq(<<>>, 1, m)
        BY <2>1, <4>1
      <4>4. SubSeq(<<>>, 1, m) = <<>>
        BY <4>2
      <4> QED BY <1>4, <4>3, <4>4
    <3> QED BY <1>2, <3>2
  <2>3. f.seq > isn /\ f.data = Bytes(s, n) /\ s + n =< sbTail
    BY <1>2, <2>2 DEF FromHost
  <2>4. s \in Nat /\ s + n =< HostBytes
    BY <1>1, <1>2, <2>3, Caps
  <2>5. off = u - s /\ u >= s
    <3> DEFINE d == isn + 1 + Len(up) - f.seq
               r == d + SeqMod
    <3>1. d = u - s /\ d \in Int
      BY <1>1, <1>2, Caps
    <3>2. CASE u >= s
      <4>1. d \in 0 .. SeqMod - 1
        BY <1>1, <1>2, <2>4, <3>1, <3>2, Caps, SMTT(30)
      <4> HIDE DEF d, s, u
      <4>2. Mod(d) = d
        BY <4>1, ModFacts
      <4> QED BY <3>1, <3>2, <4>2 DEF d
    <3>3. CASE ~(u >= s)
      <4>1. s + n =< HostBytes /\ s \in Nat /\ u \in Nat /\ n \in Nat /\ d = u - s
        BY <1>1, <1>2, <2>4, <3>1
      <4> HIDE DEF s, u, n, d
      <4>2. /\ r \in 0 .. SeqMod - 1 /\ d = SeqMod * (-1) + r /\ r > n
            /\ SeqMod \in Nat \ {0} /\ -1 \in Int
        BY <3>3, <4>1, Caps
      <4> HIDE DEF r
      <4>3. d % SeqMod = r
        BY <3>1, <4>2, ModUnique
      <4>4. off = r
        BY <4>3 DEF Mod, d
      <4> HIDE DEF off
      <4> QED BY <2>1, <4>1, <4>2, <4>4, Caps
    <3> QED BY <3>2, <3>3
  <2> HIDE DEF off, s, u, n
  <2>6. off \in Nat /\ off =< n
    BY <1>1, <2>1, <2>4, <2>5
  <2>7. m \in off .. n
    BY <1>2, <2>6, Caps DEF Least
  <2> HIDE DEF m
  <2>8. /\ off + 1 \in 1 .. n + 1 /\ m \in (off + 1) - 1 .. n /\ m - (off + 1) + 1 = m - off
        /\ s + (off + 1) - 1 = u /\ s \in Int /\ m - off \in Nat
    BY <1>1, <1>2, <2>4, <2>5, <2>6, <2>7
  <2>9. /\ SubSeq(Bytes(s, n), off + 1, m) = Bytes(s + (off + 1) - 1, m - (off + 1) + 1)
        /\ Len(SubSeq(Bytes(s, n), off + 1, m)) = m - (off + 1) + 1
    BY <1>2, <2>8, BytesPiece
  <2>10. CardTake(f) = Bytes(u, m - off) /\ Len(CardTake(f)) = m - off
    BY <2>1, <2>3, <2>8, <2>9
  <2>11. u + (m - off) =< sbTail
    BY <1>1, <1>2, <2>3, <2>4, <2>5, <2>6, <2>7, Caps
  <2> QED BY <2>1, <2>8, <2>10, <2>11 DEF u
<1> QED BY <1>3, <1>4

\* The steps of the card: it takes what follows, sees the FIN behind the
\* last byte and acknowledges what it has.
LEMMA CardSends ==
  ASSUME RecvInv, SendInv, UNCHANGED hostVars, ~Fresh, On(h2c') \subseteq On(h2c),
         up' = Bytes(0, Len(up')), Len(up') \in Len(up) .. sbTail, cFin' \in BOOLEAN, cFin => cFin',
         cFin' => finSeq # 0 /\ Len(up') = sbTail,
         \A f \in On(c2h') : \/ f \in On(c2h) \/ f.kind \in {"WHO", "ARP"}
                             \/ f.ack = Mod(isn + 1 + Len(up') + One(cFin'))
  PROVE  SendInv'
<1>1. UNCHANGED <<isn, st, una, nxt, finSeq, sbHead, sbTail, ended>>
  BY DEF hostVars, passVars, sendVars, history
<1>2. /\ isn \in Nat /\ sbTail \in 0 .. HostBytes /\ Len(up) \in Nat
      /\ \A n \in 0 .. HostBytes + 1 : Mod(isn + 1 + n) = isn + 1 + n
  BY OpenNumbers
<1>3. BufferAgrees'
  BY <1>1 DEF SendInv, BufferAgrees, Fresh
<1>4. ~Fresh'
  BY <1>1 DEF Fresh
<1>5. \A f \in On(h2c') : FromHost(f)'
  BY <1>1 DEF SendInv, SendAgrees, FromHost
<1>6. ASSUME NEW f \in On(c2h') PROVE AcksWhatItHas(f)'
  <2>1. /\ One(cFin) \in {0, 1} /\ One(cFin') \in {0, 1} /\ One(cFin) =< One(cFin')
    BY DEF One
  <2>2. ASSUME NEW v, v = Len(up'), NEW e, e = One(cFin'), NEW a, a = Len(up), NEW c, c = One(cFin)
        PROVE  /\ Mod(isn + 1 + v + e) = isn + 1 + v + e
               /\ isn + 1 + v + e \in isn + 1 .. isn + 1 + v + e
               /\ isn + 1 .. isn + 1 + a + c \subseteq isn + 1 .. isn + 1 + v + e
    <3>1. v \in a .. sbTail /\ a \in Nat /\ e \in {0, 1} /\ c \in {0, 1} /\ c =< e
      BY <1>2, <2>1, <2>2
    <3>2. v + e \in 0 .. HostBytes + 1 /\ isn + 1 + v + e = isn + 1 + (v + e)
      BY <1>2, <3>1, Caps
    <3>3. Mod(isn + 1 + v + e) = isn + 1 + v + e
      BY <1>2, <3>2
    <3> QED BY <1>2, <3>1, <3>2, <3>3
  <2>3. CASE f \in On(c2h)
    <3>1. AcksWhatItHas(f)
      BY <2>3 DEF SendInv, SendAgrees
    <3>2. f.ack \in isn + 1 .. isn + 1 + Len(up) + One(cFin)
            => f.ack \in isn + 1 .. isn + 1 + Len(up') + One(cFin')
      BY <2>2
    <3> QED BY <1>1, <3>1, <3>2 DEF AcksWhatItHas
  <2>4. CASE f.ack = Mod(isn + 1 + Len(up') + One(cFin'))
    <3>1. f.ack \in isn + 1 .. isn + 1 + Len(up') + One(cFin')
      BY <2>2, <2>4
    <3> QED BY <1>1, <3>1 DEF AcksWhatItHas
  <2>5. CASE f.kind \in {"WHO", "ARP"}
    BY <2>5 DEF AcksWhatItHas
  <2> QED BY <2>3, <2>4, <2>5
<1>7. SendAgrees'
  <2>1. Len(up') =< sbTail
    BY <1>2
  <2> QED BY <1>1, <1>4, <1>5, <1>6, <2>1 DEF SendInv, SendAgrees
<1>8. CardInOrder' /\ CardEofComplete'
  BY <1>1 DEF CardInOrder, CardEofComplete
<1> QED BY <1>3, <1>7, <1>8 DEF SendInv

\* ... those that take nothing in.
LEMMA CardKeeps ==
  ASSUME RecvInv, SendInv, UNCHANGED hostVars, ~Fresh, On(h2c') \subseteq On(h2c), UNCHANGED <<up, cFin>>,
         \/ c2h' = c2h \/ c2h' \in {Fit(c2h, Who), Fit(c2h, Arp)}
         \/ \E kind, pos, data : CardOut(kind, pos, data)
  PROVE  SendInv'
<1>1. TypeOK
  BY DEF RecvInv
<1>2. \A f \in On(c2h') : \/ f \in On(c2h) \/ f.kind \in {"WHO", "ARP"}
                          \/ f.ack = Mod(isn + 1 + Len(up') + One(cFin'))
  <2>1. CASE c2h' = c2h
    BY <2>1
  <2>2. CASE c2h' \in {Fit(c2h, Who), Fit(c2h, Arp)}
    <3>1. /\ On(Fit(c2h, Arp)) \subseteq On(c2h) \cup {Arp}
          /\ On(Fit(c2h, Who)) \subseteq On(c2h) \cup {Who}
      BY <1>1, OnFit DEF TypeOK
    <3> QED BY <2>2, <3>1, ArpFacts
  <2>3. CASE \E kind, pos, data : CardOut(kind, pos, data)
    <3>1. PICK kind, pos, data : CardOut(kind, pos, data)
      BY <2>3
    <3> QED BY <1>1, <3>1, CardOutNew
  <2> QED BY <2>1, <2>2, <2>3
<1>3. /\ up = Bytes(0, Len(up)) /\ Len(up) =< sbTail /\ (cFin => finSeq # 0 /\ Len(up) = sbTail)
  BY DEF SendInv, CardInOrder, SendAgrees, CardEofComplete
<1>4. Len(up) \in Nat /\ sbTail \in Nat /\ cFin \in BOOLEAN
  <2>1. Len(up) \in Nat /\ sbTail \in 0 .. HostBytes
    BY OpenNumbers
  <2>2. cFin \in BOOLEAN
    BY <1>1 DEF TypeOK
  <2> QED BY <2>1, <2>2, Caps
<1>5. Len(up') \in Len(up) .. sbTail
  <2>1. Len(up) \in Len(up) .. sbTail
    BY <1>3, <1>4
  <2> QED BY <2>1
<1>6. /\ up' = Bytes(0, Len(up')) /\ cFin' \in BOOLEAN /\ (cFin => cFin')
      /\ (cFin' => finSeq # 0 /\ Len(up') = sbTail)
  BY <1>3, <1>4
<1> QED BY <1>2, <1>5, <1>6, CardSends

\* A segment of the connection reaches the card.
LEMMA CardSegmentSends ==
  ASSUME RecvInv, SendInv, UNCHANGED hostVars, ~Fresh, On(h2c') \subseteq On(h2c),
         NEW f \in Seg, FromHost(f), CardSegment(f)
  PROVE  SendInv'
<1>1. TypeOK
  BY DEF RecvInv
<1>2. /\ up' = up \o CardTake(f)
      /\ cFin' = (cFin \/ (f.kind = "FIN" /\ f.seq = Mod(isn + 1 + Len(up'))))
      /\ (c2h' = c2h \/ CardOut("ACK", cSent, <<>>))
  BY DEF CardSegment
<1>3. /\ CardTake(f) = Bytes(Len(up), Len(CardTake(f))) /\ Len(CardTake(f)) \in Nat
      /\ Len(up) + Len(CardTake(f)) =< sbTail /\ (cFin => Len(CardTake(f)) = 0)
  BY CardTakeIs
<1>4. /\ up = Bytes(0, Len(up)) /\ (cFin => finSeq # 0 /\ Len(up) = sbTail)
  BY DEF SendInv, CardInOrder, SendAgrees, CardEofComplete
<1>5. Len(up) \in Nat /\ sbTail \in 0 .. HostBytes /\ isn \in Nat /\ finSeq \in Nat
  BY OpenNumbers
<1> HIDE DEF CardTake
<1>6. up' = Bytes(0, Len(up')) /\ Len(up') = Len(up) + Len(CardTake(f))
  <2>1. up' = Bytes(0, Len(up)) \o Bytes(Len(up), Len(CardTake(f)))
    BY <1>2, <1>3, <1>4
  <2>2. ASSUME NEW a \in Nat, a = Len(up), NEW b \in Nat, b = Len(CardTake(f))
        PROVE  up' = Bytes(0, a + b) /\ Len(up') = a + b
    <3>1. Bytes(0, a) \o Bytes(a, b) = Bytes(0, a + b) /\ Len(Bytes(0, a + b)) = a + b
      BY BytesOnto
    <3>2. up' = Bytes(0, a) \o Bytes(a, b)
      BY <2>1, <2>2
    <3> QED BY <3>1, <3>2
  <2>3. up' = Bytes(0, Len(up) + Len(CardTake(f))) /\ Len(up') = Len(up) + Len(CardTake(f))
    BY <1>3, <1>5, <2>2
  <2> QED BY <2>3
<1>7. Len(up') \in Len(up) .. sbTail /\ (cFin => Len(up') = sbTail)
  <2>1. ASSUME NEW v, v = Len(up'), NEW a, a = Len(up), NEW k, k = Len(CardTake(f))
        PROVE  v \in a .. sbTail /\ (cFin => v = sbTail)
    <3>1. a \in Nat /\ k \in Nat /\ v = a + k /\ a + k =< sbTail /\ (cFin => k = 0 /\ a = sbTail)
      BY <1>3, <1>4, <1>5, <1>6, <2>1
    <3> QED BY <1>5, <3>1, Caps
  <2> QED BY <2>1
<1>8. cFin' <=> (cFin \/ (f.kind = "FIN" /\ f.seq = Mod(isn + 1 + Len(up'))))
  BY <1>2
<1>9. cFin' \in BOOLEAN
  <2>1. (cFin \/ (f.kind = "FIN" /\ f.seq = Mod(isn + 1 + Len(up')))) \in BOOLEAN
    OBVIOUS
  <2> QED BY <1>2, <2>1, Zenon
<1>10. cFin' => finSeq # 0 /\ Len(up') = sbTail
  <2>1. CASE cFin
    BY <1>4, <1>7, <2>1
  <2>2. CASE f.kind = "FIN" /\ f.seq = Mod(isn + 1 + Len(up'))
    <3>1. finSeq # 0 /\ f.seq = isn + 1 + sbTail
      BY <2>2 DEF FromHost, SendInv, BufferAgrees
    <3>2. ASSUME NEW v \in Nat, v = Len(up') PROVE v = sbTail
      <4>1. v \in 0 .. HostBytes + 1
        BY <1>5, <1>7, <3>2, Caps
      <4>2. Mod(isn + 1 + v) = isn + 1 + v
        BY <4>1, OpenNumbers
      <4>3. isn + 1 + v = isn + 1 + sbTail
        BY <2>2, <3>1, <3>2, <4>2
      <4> QED BY <1>5, <4>3, Caps
    <3>3. Len(up') \in Nat
      BY <1>3, <1>5, <1>6
    <3> QED BY <3>1, <3>2, <3>3
  <2> QED BY <1>8, <2>1, <2>2
<1>11. \A g \in On(c2h') : \/ g \in On(c2h) \/ g.kind \in {"WHO", "ARP"}
                           \/ g.ack = Mod(isn + 1 + Len(up') + One(cFin'))
  <2>1. CASE c2h' = c2h
    BY <2>1
  <2>2. CASE CardOut("ACK", cSent, <<>>)
    BY <1>1, <2>2, CardOutNew
  <2> QED BY <1>2, <2>1, <2>2
<1> QED BY <1>6, <1>7, <1>8, <1>9, <1>10, <1>11, CardSends

\* The card's driver takes a frame off the ring.
LEMMA CardInSends == ASSUME RecvInv, SendInv, CardIn PROVE SendInv'
<1> DEFINE f == Head(h2c)
<1>1. h2c # <<>> /\ h2c' = Tail(h2c) /\ UNCHANGED hostVars
  BY DEF CardIn
<1>2. h2c \in Seq(Seg) /\ Len(h2c) =< RingCap
  BY DEF RecvInv, TypeOK
<1>3. f \in Seg /\ f \in On(h2c) /\ On(h2c') \subseteq On(h2c)
  BY <1>1, <1>2, TakeFacts
<1>4. ~Fresh /\ FromHost(f)
  BY <1>1, <1>3 DEF SendInv, SendAgrees
<1>5. \/ CardSegment(f)
      \/ /\ UNCHANGED <<up, cFin>>
         /\ \/ c2h' = c2h \/ c2h' = Fit(c2h, Arp) \/ CardOut("SYNACK", -1, <<>>)
            \/ CardOut("ACK", cSent, <<>>) \/ CardOut("RST", cSent, <<>>)
  BY DEF CardIn, CardGone, cardVars
<1> HIDE DEF f
<1>6. CASE CardSegment(f)
  BY <1>1, <1>3, <1>4, <1>6, CardSegmentSends
<1>7. CASE UNCHANGED <<up, cFin>> /\ (c2h' = c2h \/ c2h' = Fit(c2h, Arp))
  BY <1>1, <1>3, <1>4, <1>7, CardKeeps
<1>8. CASE UNCHANGED <<up, cFin>> /\ (CardOut("SYNACK", -1, <<>>) \/ CardOut("ACK", cSent, <<>>)
                                        \/ CardOut("RST", cSent, <<>>))
  <2>1. \E kind, pos, data : CardOut(kind, pos, data)
    BY <1>8, Zenon
  <2> QED BY <1>1, <1>3, <1>4, <1>8, <2>1, CardKeeps
<1> QED BY <1>5, <1>6, <1>7, <1>8

\* The steps the card takes by itself.
LEMMA CardAloneSends ==
  ASSUME RecvInv, SendInv, CardRead \/ CardSend \/ CardTimer \/ CardAsks \/ CardAbort
  PROVE  SendInv'
<1>1. UNCHANGED hostVars /\ h2c' = h2c /\ UNCHANGED <<up, cFin>> /\ cst # "listen"
  BY DEF CardRead, CardSend, CardTimer, CardAsks, CardAbort, CardGone
<1>2. \/ c2h' = c2h \/ c2h' = Fit(c2h, Who)
      \/ \E kind, pos, data : CardOut(kind, pos, data)
  <2>1. CASE CardRead
    BY <2>1 DEF CardRead
  <2>2. CASE CardSend
    <3>1. PICK n \in 0 .. Least(Mss, CardBytes - cSent), fin \in {0, 1} :
            CardOut(IF fin = 1 THEN "FIN" ELSE "ACK", cSent, Bytes(cSent, n))
      BY <2>2 DEF CardSend
    <3> QED BY <3>1, Zenon
  <2>3. CASE CardTimer
    <3> DEFINE n == Least(Mss, Least(cSent, CardBytes) - cAcked)
               kind == IF cAcked + n + 1 = cSent /\ cSent > CardBytes THEN "FIN" ELSE "ACK"
    <3>1. \/ CardOut("SYNACK", -1, <<>>) \/ CardOut(kind, cAcked, Bytes(cAcked, n))
          \/ CardOut("ACK", cSent - 1, <<>>)
      BY <2>3 DEF CardTimer
    <3> HIDE DEF n, kind
    <3> QED BY <3>1, Zenon
  <2>4. CASE CardAbort
    BY <2>4 DEF CardAbort
  <2>5. CASE CardAsks
    BY <2>5 DEF CardAsks
  <2> QED BY <2>1, <2>2, <2>3, <2>4, <2>5
<1>3. ~Fresh
  BY <1>1 DEF SendInv, SendAgrees
<1> QED BY <1>1, <1>2, <1>3, CardKeeps

\* The sending half holds at first.
LEMMA InitSends == ASSUME Init PROVE SendInv
<1>1. /\ st = "free" /\ una = 0 /\ nxt = 0 /\ finSeq = 0 /\ sbHead = 0 /\ sbTail = 0 /\ h2c = <<>>
      /\ c2h = <<>> /\ cst = "listen" /\ up = <<>> /\ cFin = FALSE /\ isn = 0
  BY DEF Init
<1>2. On(h2c) = {} /\ On(c2h) = {} /\ Len(up) = 0
  BY <1>1 DEF On
<1>3. BufferAgrees
  BY <1>1 DEF BufferAgrees, Open
<1>4. SendAgrees
  <2>1. 0 + HostBytes + 2 < SeqMod
    BY Caps
  <2> QED BY <1>1, <1>2, <2>1 DEF SendAgrees
<1>5. CardInOrder /\ CardEofComplete
  <2>1. Bytes(0, 0) = <<>>
    BY BytesFacts
  <2> QED BY <1>1, <1>2, <2>1 DEF CardInOrder, CardEofComplete
<1> QED BY <1>3, <1>4, <1>5 DEF SendInv

\* Every step keeps it.
LEMMA NextSends == ASSUME NoWrap, RecvInv, SendInv, [Next]_vars PROVE SendInv'
<1>1. CASE UNCHANGED vars
  <2>1. /\ UNCHANGED <<st, una, nxt, finSeq, sbHead, sbTail, h2c, c2h, cst, up, cFin, isn, ended>>
    BY <1>1 DEF vars, sendVars, cardVars, history
  <2> QED BY <2>1 DEF SendInv, BufferAgrees, SendAgrees, FromHost, AcksWhatItHas, Fresh, CardInOrder,
                      CardEofComplete
<1> QED BY <1>1, ConnectSends, HostRecvSends, HostArpSends, HostDeliverSends, HostReadSends, HostSendSends,
           HostFinSends, HostTimerSends, HostCloseSends, CardInSends, CardAloneSends
        DEF Next, HostNext, CardNext

\* Both halves' invariants always hold.
LEMMA BothAlways == ASSUME NoWrap PROVE Spec => [](RecvInv /\ SendInv)
<1>1. Init => RecvInv /\ SendInv
  BY InitRecv, InitSends
<1>2. RecvInv /\ SendInv /\ [Next]_vars => (RecvInv /\ SendInv)'
  BY NextRecv, NextSends
<1> QED BY <1>1, <1>2, PTL DEF Spec

\* The connection's fields agree with the two streams, for every size, when
\* no initial sequence number is so near the end of the sequence space that
\* the connection's numbers wrap: the send buffer's head is the byte snd_una
\* stands for, so no acknowledgement frees a byte the card has not got.
THEOREM ConnectionAgrees == ASSUME NoWrap PROVE Spec => []TcpInv
<1>1. RecvInv /\ CloseAgrees /\ SendInv => TcpInv
  BY DEF RecvInv, SendInv, TcpInv
<1> QED BY <1>1, BothAlways, CloseAlways, PTL

\* The card gets the local side's bytes in order, none twice and none left
\* out, whatever the rings drop and the timers repeat.
THEOREM CardGetsStream == ASSUME NoWrap PROVE Spec => []CardInOrder
<1>1. RecvInv /\ SendInv => CardInOrder
  BY DEF SendInv
<1> QED BY <1>1, BothAlways, PTL

\* The card sees the end of the stream behind its last byte: conn_step's FIN
\* overtakes nothing, sent again or not.
THEOREM CardEndIsLast == ASSUME NoWrap PROVE Spec => []CardEofComplete
<1>1. RecvInv /\ SendInv => CardEofComplete
  BY DEF SendInv
<1> QED BY <1>1, BothAlways, PTL
=============================================================================
