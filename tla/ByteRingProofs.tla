-------------------------- MODULE ByteRingProofs --------------------------
(***************************************************************************)
(* Proofs about ByteRing, for every ring size, index width, payload and    *)
(* bound: the inductive invariant, the safety properties that follow from  *)
(* it, and the refinement of the FIFO stream.                              *)
(***************************************************************************)
EXTENDS ByteRing, ModArith

----------------------------------------------------------------------------
(* What the index arithmetic of ring.S computes on stream positions.       *)

\* An index is a 32-bit number.
LEMMA IndexType ==
  ASSUME NEW p \in Nat PROVE Index(p) \in 0 .. IdxMod - 1
BY IdxAssumption, DivMod DEF Index

\* A slot lies in the data area.
LEMMA SlotType ==
  ASSUME NEW p \in Int PROVE Slot(p) \in 0 .. Size - 1
BY SizeAssumption, DivMod DEF Slot

\* Advancing an index is advancing the position it stands for.
LEMMA AdvanceIndex ==
  ASSUME NEW p \in Nat, NEW n \in Nat
  PROVE  Advance(Index(p), n) = Index(p + n)
<1>1. IdxMod \in Nat \ {0} /\ p \in Int /\ n \in Int
  BY IdxAssumption
<1>2. ((p % IdxMod) + n) % IdxMod = (p + n) % IdxMod
  BY <1>1, ModAdd
<1> QED BY <1>2, Zenon DEF Advance, Index

\* The wrapped difference of two indices is the distance of the positions.
LEMMA UsedIndex ==
  ASSUME NEW h \in Nat, NEW t \in Nat, t =< h, h =< t + Size
  PROVE  Used(Index(h), Index(t)) = h - t
<1>1. /\ IdxMod \in Nat \ {0} /\ h \in Int /\ t \in Int
      /\ 0 =< h - t /\ h - t < IdxMod
  BY IdxAssumption, SizeAssumption
<1>2. ((h % IdxMod) - (t % IdxMod)) % IdxMod = h - t
  BY <1>1, ModSub
<1> QED BY <1>2, Zenon DEF Used, Index

\* Masking an index gives the slot of its position: Size divides 2^32.
LEMMA SlotIndex ==
  ASSUME NEW p \in Nat PROVE Slot(Index(p)) = Slot(p)
<1>1. IdxMod \in Nat \ {0} /\ Size \in Nat \ {0} /\ IdxMod % Size = 0 /\ p \in Int
  BY IdxAssumption, SizeAssumption
<1>2. (p % IdxMod) % Size = p % Size
  BY <1>1, ModMod
<1> QED BY <1>2, Zenon DEF Slot, Index

\* Positions less than a ring apart have different slots.
LEMMA SlotInjective ==
  ASSUME NEW p \in Int, NEW q \in Int, p - q < Size, q - p < Size,
         Slot(p) = Slot(q)
  PROVE  p = q
BY SizeAssumption, ModInjective DEF Slot

\* The two pieces of a copy of n bytes at position p cover the slots of the
\* positions p .. p + n - 1, in order: the first piece from Slot(p) on, the
\* second from slot 0 on.
LEMMA Pieces ==
  ASSUME NEW p \in Nat, NEW n \in 1 .. Size
  PROVE  LET f == First(Index(p), n)
         IN /\ f \in 1 .. n /\ f =< Size - Slot(p)
            /\ \A i \in 1 .. f : Slot(p + i - 1) = Slot(p) + i - 1
            /\ \A i \in f + 1 .. n : Slot(p + i - 1) = i - f - 1
<1> DEFINE f == First(Index(p), n)
<1>1. Slot(Index(p)) = Slot(p) /\ Slot(p) \in 0 .. Size - 1 /\ Size \in Nat \ {0}
  BY SlotIndex, SlotType, SizeAssumption
<1>2. /\ f \in 1 .. n /\ f =< Size - Slot(p)
      /\ f = n \/ f = Size - Slot(p)
  BY <1>1 DEF First, AtMost
<1> HIDE DEF f
<1>3. ASSUME NEW i \in 1 .. n
      PROVE  Slot(p + i - 1) = IF Slot(p) + i - 1 < Size
                               THEN Slot(p) + i - 1 ELSE Slot(p) + i - 1 - Size
  <2> DEFINE j == i - 1
  <2>1. p \in Int /\ j \in 0 .. Size /\ p + i - 1 = p + j /\ Slot(p) + i - 1 = Slot(p) + j
    BY <1>1
  <2> HIDE DEF j
  <2>2. (p + j) % Size = IF (p % Size) + j < Size
                         THEN (p % Size) + j ELSE (p % Size) + j - Size
    BY <2>1, SizeAssumption, ModStep
  <2>3. Slot(p + j) = IF Slot(p) + j < Size
                      THEN Slot(p) + j ELSE Slot(p) + j - Size
    BY <2>2 DEF Slot
  <2> QED BY <2>1, <2>3
<1>4. ASSUME NEW i \in 1 .. f PROVE Slot(p + i - 1) = Slot(p) + i - 1
  <2>1. i \in 1 .. n /\ Slot(p) + i - 1 < Size
    BY <1>1, <1>2
  <2> QED BY <1>3, <2>1
<1>5. ASSUME NEW i \in f + 1 .. n PROVE Slot(p + i - 1) = i - f - 1
  <2>1. i \in 1 .. n /\ ~(Slot(p) + i - 1 < Size) /\ Slot(p) + i - 1 - Size = i - f - 1
    BY <1>1, <1>2
  <2> QED BY <1>3, <2>1
<1> QED BY <1>2, <1>4, <1>5 DEF f

----------------------------------------------------------------------------
(* The inductive invariant IInv of ByteRing, action by action.             *)

\* The arithmetic every step uses: the bytes in flight and the end's own
\* index, in terms of stream positions.
LEMMA InFlight ==
  ASSUME IInv
  PROVE  /\ Len(sent) \in Nat /\ Len(rcvd) \in Nat /\ Len(pbuf) \in Nat
         /\ Used(head, tail) = Len(sent) - Len(rcvd)
         /\ ProducerLive => OwnHead = head
         /\ ConsumerLive => OwnTail = tail
<1>1. Len(sent) \in Nat /\ Len(rcvd) \in Nat /\ Len(pbuf) \in Nat
  BY DEF IInv, TypeOK
<1>2. Used(head, tail) = Len(sent) - Len(rcvd)
  BY <1>1, UsedIndex DEF IInv, RingInv, IndexInv
<1>3. ProducerLive => OwnHead = head
  BY DEF IInv, RingInv, IndexInv, TypeOK, ProducerLive, OwnHead
<1>4. ConsumerLive => OwnTail = tail
  BY DEF IInv, RingInv, IndexInv, TypeOK, ConsumerLive, OwnTail
<1> QED BY <1>1, <1>2, <1>3, <1>4

\* A freshly formatted ring satisfies the invariant: nothing is in flight.
LEMMA InitInv == Init => IInv
<1> SUFFICES ASSUME Init PROVE IInv
  OBVIOUS
<1>1. Index(0) = 0
  <2>1. IdxMod \in Nat \ {0} /\ 0 \in 0 .. IdxMod - 1 /\ 0 = IdxMod * 0 + 0
    BY IdxAssumption
  <2>2. 0 % IdxMod = 0
    BY <2>1, ModUnique
  <2> QED BY <2>2 DEF Index
<1>2. TypeOK
  BY IdxAssumption, SizeAssumption DEF Init, TypeOK
<1>3. IndexInv
  BY <1>1, SizeAssumption DEF Init, IndexInv
<1>4. ContentInv /\ PrefixInv /\ ProducerInv /\ ConsumerInv /\ DetachedInv
  BY DEF Init, ContentInv, PrefixInv, ProducerInv, ConsumerInv, DetachedInv
<1> QED BY <1>2, <1>3, <1>4 DEF IInv, RingInv

\* Starting a push reserves room that stays free until it is published.
LEMMA PushBeginInv ==
  ASSUME IInv, NEW s \in Payload, PushBegin(s) PROVE IInv'
<1> DEFINE n == AtMost(Len(s), Room(Used(OwnHead, tail)))
<1>1. s \in Seq(Byte) /\ Len(s) \in Nat
  BY PayloadAssumption
<1>2. OwnHead = head /\ Used(OwnHead, tail) = Len(sent) - Len(rcvd)
  BY InFlight DEF PushBegin
<1>3. n \in Nat /\ 0 < n /\ n =< Len(s) /\ n =< Size - (Len(sent) - Len(rcvd))
  BY <1>1, <1>2, InFlight, SizeAssumption DEF AtMost, PushBegin, Room
<1>4. pbuf' = SubSeq(s, 1, n) /\ pbuf' \in Seq(Byte) /\ Len(pbuf') = n
  BY <1>1, <1>3 DEF PushBegin
<1> HIDE DEF n
<1>5. ppc' = "piece1" /\ ph' = head
  BY <1>2 DEF PushBegin
<1>6. UNCHANGED <<head, tail, data, cardEnd, cardUp, cached, boots, cpc, ct, cn, cbuf, sent, rcvd>>
  BY DEF PushBegin, ringVars, cardVars, consVars
<1>7. TypeOK'
  BY <1>4, <1>5, <1>6 DEF IInv, TypeOK
<1>8. ProducerInv'
  <2>1. PushCopied' = 0
    BY <1>5 DEF PushCopied
  <2>2. ph' = head' /\ 0 < Len(pbuf') /\ Len(sent') + Len(pbuf') =< Len(rcvd') + Size
    BY <1>3, <1>4, <1>5, <1>6, InFlight, SizeAssumption
  <2> QED BY <1>5, <2>1, <2>2 DEF ProducerInv
<1>9. IndexInv' /\ ContentInv' /\ PrefixInv'
  BY <1>6 DEF IInv, RingInv, IndexInv, ContentInv, PrefixInv
<1>10. ConsumerInv'
  <2>1. PopCopied' = PopCopied
    BY <1>6 DEF PopCopied
  <2> QED BY <1>6, <2>1 DEF IInv, RingInv, ConsumerInv
<1>11. DetachedInv'
  BY <1>5, <1>6 DEF IInv, RingInv, DetachedInv, PushBegin, ProducerLive
<1> QED BY <1>7, <1>8, <1>9, <1>10, <1>11 DEF IInv, RingInv

\* Copying a piece changes only slots in front of head: what is in flight,
\* and what the consumer is reading, stays as it was.
LEMMA CopyKeepsContent ==
  ASSUME IInv, ppc # "idle",
         NEW d \in [0 .. Size - 1 -> Byte],
         \A k \in 0 .. Size - 1 : d[k] # data[k] =>
            \E i \in 1 .. Len(pbuf) : k = Slot(Len(sent) + i - 1)
  PROVE  \A i \in Len(rcvd) + 1 .. Len(sent) : d[Slot(i - 1)] = sent[i]
<1> SUFFICES ASSUME NEW i \in Len(rcvd) + 1 .. Len(sent), d[Slot(i - 1)] # sent[i]
             PROVE  FALSE
  OBVIOUS
<1>1. Len(sent) \in Nat /\ Len(rcvd) \in Nat /\ Len(pbuf) \in Nat /\ Size \in Nat
  BY InFlight, SizeAssumption
<1>2. data[Slot(i - 1)] = sent[i]
  BY DEF IInv, RingInv, ContentInv
<1>3. i - 1 \in Int /\ Slot(i - 1) \in 0 .. Size - 1
  BY <1>1, SlotType
<1>4. PICK j \in 1 .. Len(pbuf) : Slot(i - 1) = Slot(Len(sent) + j - 1)
  BY <1>2, <1>3
<1>5. Len(sent) + Len(pbuf) =< Len(rcvd) + Size
  BY DEF IInv, RingInv, ProducerInv
<1> DEFINE p == i - 1
           q == Len(sent) + j - 1
<1>6. p \in Int /\ q \in Int /\ p < q /\ q - p < Size /\ p - q < Size
  BY <1>1, <1>5
<1> HIDE DEF p, q
<1>7. Slot(p) = Slot(q)
  BY <1>4 DEF p, q
<1>8. p = q
  BY <1>6, <1>7, SlotInjective
<1> QED BY <1>6, <1>8

\* The first piece: slots Slot(head) .. of the bytes up to the end.
LEMMA PushFirstInv ==
  ASSUME IInv, PushFirst PROVE IInv'
<1> DEFINE n == Len(pbuf)
           f == First(ph, n)
           P == Len(sent)
<1>1. P \in Nat /\ Len(rcvd) \in Nat /\ n \in 1 .. Size /\ ph = Index(P) /\ Size \in Nat
  BY InFlight, SizeAssumption
     DEF PushFirst, IInv, RingInv, ProducerInv, IndexInv
<1>2. /\ f \in 1 .. n /\ f =< Size - Slot(P) /\ Slot(ph) = Slot(P)
      /\ Slot(P) \in 0 .. Size - 1
      /\ \A i \in 1 .. f : Slot(P + i - 1) = Slot(P) + i - 1
  BY <1>1, Pieces, SlotIndex, SlotType
<1>3. data' = [k \in 0 .. Size - 1 |->
                 IF Slot(P) =< k /\ k < Slot(P) + f THEN pbuf[k - Slot(P) + 1]
                                                    ELSE data[k]]
  BY <1>2 DEF PushFirst
<1>4. ppc' = (IF f < n THEN "piece2" ELSE "publish") /\ ppc # "idle"
  BY DEF PushFirst
<1>5. UNCHANGED <<head, tail, cardEnd, cardUp, cached, boots, ph, pbuf, cpc, ct, cn, cbuf, sent, rcvd>>
  BY DEF PushFirst, cardVars, consVars
<1>6. pbuf \in Seq(Byte) /\ data \in [0 .. Size - 1 -> Byte]
  BY DEF IInv, TypeOK
<1> HIDE DEF n, f, P
<1>7. data' \in [0 .. Size - 1 -> Byte]
  <2> SUFFICES ASSUME NEW k \in 0 .. Size - 1,
                      Slot(P) =< k, k < Slot(P) + f
               PROVE  pbuf[k - Slot(P) + 1] \in Byte
    BY <1>3, <1>6
  <2>1. k - Slot(P) + 1 \in 1 .. Len(pbuf)
    BY <1>1, <1>2 DEF n
  <2> QED BY <1>6, <2>1
<1>8. TypeOK'
  BY <1>4, <1>5, <1>7 DEF IInv, TypeOK
<1>9. \A k \in 0 .. Size - 1 : data'[k] # data[k] =>
         \E i \in 1 .. Len(pbuf) : k = Slot(Len(sent) + i - 1)
  <2> SUFFICES ASSUME NEW k \in 0 .. Size - 1, data'[k] # data[k]
               PROVE  \E i \in 1 .. n : k = Slot(P + i - 1)
    BY DEF n, P
  <2>1. Slot(P) =< k /\ k < Slot(P) + f
    BY <1>3
  <2> DEFINE i == k - Slot(P) + 1
  <2>2. i \in 1 .. f /\ i \in 1 .. n /\ Slot(P) + i - 1 = k
    BY <1>1, <1>2, <2>1
  <2> HIDE DEF i
  <2>3. k = Slot(P + i - 1)
    BY <1>2, <2>2
  <2> QED BY <2>2, <2>3
<1>10. ContentInv'
  <2>1. \A i \in Len(rcvd) + 1 .. Len(sent) : data'[Slot(i - 1)] = sent[i]
    BY <1>4, <1>7, <1>9, CopyKeepsContent
  <2> QED BY <1>5, <2>1 DEF ContentInv, Slot
<1>11. ProducerInv'
  <2>1. PushCopied' = f
    BY <1>1, <1>2, <1>4, <1>5 DEF PushCopied, n, f, First, Slot, AtMost
  <2>2. ASSUME NEW i \in 1 .. f PROVE data'[Slot(P + i - 1)] = pbuf[i]
    <3>1. Slot(P + i - 1) = Slot(P) + i - 1
      BY <1>2
    <3> DEFINE k == Slot(P) + i - 1
    <3>2. k \in 0 .. Size - 1 /\ Slot(P) =< k /\ k < Slot(P) + f /\ k - Slot(P) + 1 = i
      BY <1>1, <1>2
    <3> HIDE DEF k
    <3>3. data'[k] = pbuf[i]
      BY <1>3, <3>2
    <3> QED BY <3>1, <3>3 DEF k
  <2>3. \A i \in 1 .. f : data'[Slot(Len(sent)' + i - 1)] = pbuf'[i]
    BY <1>5, <2>2 DEF P, Slot
  <2>4. ph = head /\ 0 < Len(pbuf) /\ Len(sent) + Len(pbuf) =< Len(rcvd) + Size
    BY <1>4 DEF IInv, RingInv, ProducerInv
  <2>5. ppc' # "idle"
    BY <1>4
  <2> QED BY <1>5, <2>1, <2>3, <2>4, <2>5 DEF ProducerInv, Slot
<1>12. IndexInv' /\ PrefixInv'
  BY <1>5 DEF IInv, RingInv, IndexInv, PrefixInv, Index
<1>13. ConsumerInv'
  <2>1. PopCopied' = PopCopied
    BY <1>5 DEF PopCopied, First, Slot, AtMost
  <2> QED BY <1>5, <2>1 DEF IInv, RingInv, ConsumerInv
<1>14. DetachedInv'
  BY <1>4, <1>5 DEF IInv, RingInv, DetachedInv, PushFirst, ProducerLive
<1> QED BY <1>8, <1>10, <1>11, <1>12, <1>13, <1>14 DEF IInv, RingInv

\* The second piece: slots 0 .. of the bytes that wrapped.
LEMMA PushSecondInv ==
  ASSUME IInv, PushSecond PROVE IInv'
<1> DEFINE n == Len(pbuf)
           f == First(ph, n)
           P == Len(sent)
<1>1. P \in Nat /\ Len(rcvd) \in Nat /\ n \in 1 .. Size /\ ph = Index(P) /\ Size \in Nat
  BY InFlight, SizeAssumption
     DEF PushSecond, IInv, RingInv, ProducerInv, IndexInv
<1>2. /\ f \in 1 .. n
      /\ \A i \in f + 1 .. n : Slot(P + i - 1) = i - f - 1
  BY <1>1, Pieces
<1>3. data' = [k \in 0 .. Size - 1 |->
                 IF k < n - f THEN pbuf[f + k + 1] ELSE data[k]]
  BY DEF PushSecond
<1>4. ppc' = "publish" /\ ppc = "piece2"
  BY DEF PushSecond
<1>5. UNCHANGED <<head, tail, cardEnd, cardUp, cached, boots, ph, pbuf, cpc, ct, cn, cbuf, sent, rcvd>>
  BY DEF PushSecond, cardVars, consVars
<1>6. pbuf \in Seq(Byte) /\ data \in [0 .. Size - 1 -> Byte]
  BY DEF IInv, TypeOK
<1>7. \A i \in 1 .. f : data[Slot(P + i - 1)] = pbuf[i]
  BY <1>4 DEF IInv, RingInv, ProducerInv, PushCopied
<1> HIDE DEF n, f, P
<1>8. data' \in [0 .. Size - 1 -> Byte]
  <2> SUFFICES ASSUME NEW k \in 0 .. Size - 1, k < n - f
               PROVE  pbuf[f + k + 1] \in Byte
    BY <1>3, <1>6
  <2>1. f + k + 1 \in 1 .. Len(pbuf)
    BY <1>1, <1>2 DEF n
  <2> QED BY <1>6, <2>1
<1>9. TypeOK'
  BY <1>4, <1>5, <1>8 DEF IInv, TypeOK
<1>10. \A k \in 0 .. Size - 1 : data'[k] # data[k] =>
         \E i \in 1 .. Len(pbuf) : k = Slot(Len(sent) + i - 1)
  <2> SUFFICES ASSUME NEW k \in 0 .. Size - 1, data'[k] # data[k]
               PROVE  \E i \in 1 .. n : k = Slot(P + i - 1)
    BY DEF n, P
  <2>1. k < n - f
    BY <1>3
  <2> DEFINE i == f + k + 1
  <2>2. i \in f + 1 .. n /\ i \in 1 .. n /\ i - f - 1 = k
    BY <1>1, <1>2, <2>1
  <2> HIDE DEF i
  <2>3. k = Slot(P + i - 1)
    BY <1>2, <2>2
  <2> QED BY <2>2, <2>3
<1>11. ContentInv'
  <2>1. \A i \in Len(rcvd) + 1 .. Len(sent) : data'[Slot(i - 1)] = sent[i]
    BY <1>4, <1>8, <1>10, CopyKeepsContent
  <2> QED BY <1>5, <2>1 DEF ContentInv, Slot
<1>12. ProducerInv'
  <2>1. PushCopied' = n
    BY <1>4, <1>5 DEF PushCopied, n
  <2>2. ASSUME NEW i \in 1 .. n PROVE data'[Slot(P + i - 1)] = pbuf[i]
    <3>1. CASE i \in f + 1 .. n
      <4>1. Slot(P + i - 1) = i - f - 1
        BY <1>2, <3>1
      <4> DEFINE k == i - f - 1
      <4>2. k \in 0 .. Size - 1 /\ k < n - f /\ f + k + 1 = i
        BY <1>1, <1>2, <3>1
      <4> HIDE DEF k
      <4>3. data'[k] = pbuf[i]
        BY <1>3, <4>2
      <4> QED BY <4>1, <4>3 DEF k
    <3>2. CASE i \in 1 .. f
      <4> DEFINE k == Slot(P + i - 1)
      <4>1. P + i - 1 \in Int
        BY <1>1
      <4>2. k \in 0 .. Size - 1 /\ data[k] = pbuf[i]
        BY <1>7, <3>2, <4>1, SlotType
      <4>3. ASSUME k < n - f PROVE FALSE
        \* then k is also the slot of a wrapped position
        <5> DEFINE j == f + k + 1
                   p == P + i - 1
                   q == P + j - 1
        <5>1. j \in f + 1 .. n /\ j - f - 1 = k
          BY <1>1, <1>2, <4>2, <4>3
        <5> HIDE DEF j
        <5>2. Slot(P + j - 1) = k
          BY <1>2, <5>1
        <5>3. p \in Int /\ q \in Int /\ p < q /\ q - p < Size /\ p - q < Size
          BY <1>1, <1>2, <3>2, <5>1
        <5>4. Slot(p) = Slot(q)
          BY <5>2
        <5> HIDE DEF p, q
        <5>5. p = q
          BY <5>3, <5>4, SlotInjective
        <5> QED BY <5>3, <5>5
      <4>4. data'[k] = data[k]
        BY <1>3, <4>2, <4>3
      <4> QED BY <4>2, <4>4
    <3> QED BY <1>1, <1>2, <3>1, <3>2
  <2>3. \A i \in 1 .. n : data'[Slot(Len(sent)' + i - 1)] = pbuf'[i]
    BY <1>5, <2>2 DEF P, Slot
  <2>4. ph = head /\ 0 < Len(pbuf) /\ Len(sent) + Len(pbuf) =< Len(rcvd) + Size
    BY <1>4 DEF IInv, RingInv, ProducerInv
  <2>5. ppc' # "idle"
    BY <1>4
  <2> QED BY <1>5, <2>1, <2>3, <2>4, <2>5 DEF ProducerInv, Slot
<1>13. IndexInv' /\ PrefixInv'
  BY <1>5 DEF IInv, RingInv, IndexInv, PrefixInv, Index
<1>14. ConsumerInv'
  <2>1. PopCopied' = PopCopied
    BY <1>5 DEF PopCopied, First, Slot, AtMost
  <2> QED BY <1>5, <2>1 DEF IInv, RingInv, ConsumerInv
<1>15. DetachedInv'
  BY <1>4, <1>5 DEF IInv, RingInv, DetachedInv, PushSecond, ProducerLive
<1> QED BY <1>9, <1>11, <1>12, <1>13, <1>14, <1>15 DEF IInv, RingInv

\* Publishing hands the copied bytes to the consumer.
LEMMA PushPublishInv ==
  ASSUME IInv, PushPublish PROVE IInv'
<1> DEFINE n == Len(pbuf)
           P == Len(sent)
           R == Len(rcvd)
<1>1. /\ P \in Nat /\ R \in Nat /\ n \in Nat /\ 0 < n /\ ph = Index(P)
      /\ Size \in Nat /\ R =< P /\ P + n =< R + Size
  BY InFlight, SizeAssumption
     DEF PushPublish, IInv, RingInv, ProducerInv, IndexInv
<1>2. head' = Index(P + n)
  BY <1>1, AdvanceIndex DEF PushPublish
<1>3. sent \in Seq(Byte) /\ pbuf \in Seq(Byte) /\ sent' = sent \o pbuf
  BY DEF IInv, TypeOK, PushPublish
<1>4. sent' \in Seq(Byte) /\ Len(sent') = P + n
  BY <1>3
<1>5. \A i \in 1 .. P : sent'[i] = sent[i]
  BY <1>3
<1>6. \A i \in P + 1 .. P + n : sent'[i] = pbuf[i - P]
  BY <1>3
<1>7. ppc = "publish" /\ ppc' = "idle" /\ ph' = 0 /\ pbuf' = <<>> /\ ProducerLive
  BY DEF PushPublish
<1>8. UNCHANGED <<tail, data, cardEnd, cardUp, boots, cpc, ct, cn, cbuf, rcvd>>
  BY DEF PushPublish, consVars
<1>9. \A i \in 1 .. n : data[Slot(P + i - 1)] = pbuf[i]
  BY <1>7 DEF IInv, RingInv, ProducerInv, PushCopied
<1>10. cached' = IF cardEnd = "producer" THEN head' ELSE cached
  BY DEF PushPublish, Keep
<1> HIDE DEF n, P, R
<1>11. head' \in 0 .. IdxMod - 1
  BY <1>1, <1>2, IndexType
<1>12. TypeOK'
  BY <1>4, <1>7, <1>8, <1>10, <1>11, IdxAssumption DEF IInv, TypeOK
<1>13. IndexInv'
  <2>1. /\ tail = Index(R)
        /\ cardUp => cached = IF cardEnd = "producer" THEN head ELSE tail
    BY DEF IInv, RingInv, IndexInv, R
  <2>2. head' = Index(Len(sent')) /\ tail' = Index(Len(rcvd'))
    BY <1>2, <1>4, <1>8, <2>1 DEF R
  <2>3. Len(rcvd') =< Len(sent') /\ Len(sent') =< Len(rcvd') + Size
    BY <1>1, <1>4, <1>8 DEF R
  <2>4. cardUp' => cached' = IF cardEnd' = "producer" THEN head' ELSE tail'
    BY <1>8, <1>10, <2>1
  <2> QED BY <2>2, <2>3, <2>4 DEF IndexInv, Index
<1>14. ContentInv'
  <2> SUFFICES ASSUME NEW i \in R + 1 .. P + n
               PROVE  data[Slot(i - 1)] = sent'[i]
    BY <1>4, <1>8 DEF ContentInv, R, Slot
  <2>1. CASE i \in R + 1 .. P
    <3>1. data[Slot(i - 1)] = sent[i]
      BY <2>1 DEF IInv, RingInv, ContentInv, R, P
    <3>2. i \in 1 .. P
      BY <1>1, <2>1
    <3> QED BY <1>5, <3>1, <3>2
  <2>2. CASE i \in P + 1 .. P + n
    <3> DEFINE j == i - P
    <3>1. j \in 1 .. n /\ P + j - 1 = i - 1
      BY <1>1, <2>2
    <3>2. sent'[i] = pbuf[j]
      BY <1>6, <2>2
    <3> HIDE DEF j
    <3>3. data[Slot(P + j - 1)] = pbuf[j]
      BY <1>9, <3>1
    <3> QED BY <3>1, <3>2, <3>3
  <2> QED BY <1>1, <2>1, <2>2
<1>15. ProducerInv'
  BY <1>7 DEF ProducerInv
<1>16. ConsumerInv'
  <2>1. PopCopied' = PopCopied
    BY <1>8 DEF PopCopied, First, Slot, AtMost
  <2>2. cpc = "idle" => cn = 0
    BY DEF IInv, RingInv, ConsumerInv
  <2>3. ASSUME cpc # "idle"
        PROVE  /\ ct' = tail' /\ 0 < cn' /\ Len(rcvd') + cn' =< Len(sent')
               /\ Len(cbuf') = PopCopied'
               /\ \A i \in 1 .. PopCopied' : cbuf'[i] = sent'[Len(rcvd') + i]
    <3>1. /\ ct = tail /\ 0 < cn /\ R + cn =< P /\ Len(cbuf) = PopCopied
          /\ \A i \in 1 .. PopCopied : cbuf[i] = sent[R + i]
      BY <2>3 DEF IInv, RingInv, ConsumerInv, R, P
    <3>2. cn \in Nat
      BY DEF IInv, TypeOK
    <3>3. PopCopied \in Nat /\ PopCopied =< cn
      <4>1. cbuf \in Seq(Byte)
        BY DEF IInv, TypeOK
      <4>2. Len(cbuf) \in Nat
        BY <4>1
      <4>3. cpc = "piece2" => First(ct, cn) =< cn
        <5>1. ct = Index(R) /\ cn \in 1 .. Size
          BY <1>1, <3>1, <3>2 DEF IInv, TypeOK, RingInv, IndexInv, R
        <5> QED BY <1>1, <5>1, Pieces
      <4> QED BY <3>1, <3>2, <4>2, <4>3 DEF PopCopied
    <3>4. ASSUME NEW i \in 1 .. PopCopied PROVE cbuf[i] = sent'[R + i]
      <4>1. R + i \in 1 .. P
        BY <1>1, <3>1, <3>2, <3>3
      <4> QED BY <1>5, <3>1, <4>1
    <3> QED BY <1>1, <1>4, <1>8, <2>1, <3>1, <3>2, <3>4 DEF R
  <2> QED BY <1>8, <2>2, <2>3 DEF ConsumerInv
<1>17. DetachedInv'
  BY <1>7, <1>8 DEF IInv, RingInv, DetachedInv
<1>18. PrefixInv'
  <2>1. \A i \in 1 .. R : rcvd[i] = sent[i] /\ i \in 1 .. P
    BY <1>1 DEF IInv, RingInv, PrefixInv, R
  <2>2. \A i \in 1 .. R : rcvd[i] = sent'[i]
    BY <1>5, <2>1
  <2> QED BY <1>8, <2>2 DEF PrefixInv, R
<1> QED BY <1>12, <1>13, <1>14, <1>15, <1>16, <1>17, <1>18 DEF IInv, RingInv

\* A pop starts from bytes that are there; the drop branch is never taken.
LEMMA PopBeginInv ==
  ASSUME IInv, NEW cap \in 1 .. Size, PopBegin(cap) PROVE IInv'
<1> DEFINE n == AtMost(Used(head, OwnTail), cap)
<1>1. OwnTail = tail /\ Used(head, OwnTail) = Len(sent) - Len(rcvd)
  BY InFlight DEF PopBegin
<1>2. /\ Len(sent) \in Nat /\ Len(rcvd) \in Nat /\ Size \in Nat
      /\ Len(rcvd) =< Len(sent) /\ Len(sent) - Len(rcvd) =< Size
  BY InFlight, SizeAssumption DEF IInv, RingInv, IndexInv
<1>3. /\ n > 0 /\ cpc' = "piece1" /\ ct' = tail /\ cn' = n /\ cbuf' = <<>> /\ tail' = tail
  BY <1>1, <1>2 DEF PopBegin
<1>4. n \in 1 .. Size /\ Len(rcvd) + n =< Len(sent)
  BY <1>1, <1>2, <1>3 DEF AtMost
<1> HIDE DEF n
<1>5. UNCHANGED <<head, data, cardEnd, cardUp, cached, boots, ppc, ph, pbuf, sent, rcvd>>
  BY DEF PopBegin, cardVars, prodVars
<1>6. TypeOK'
  BY <1>3, <1>4, <1>5 DEF IInv, TypeOK
<1>7. IndexInv' /\ ContentInv' /\ PrefixInv'
  BY <1>3, <1>5 DEF IInv, RingInv, IndexInv, ContentInv, PrefixInv
<1>8. ProducerInv'
  <2>1. PushCopied' = PushCopied
    BY <1>5 DEF PushCopied, First, Slot, AtMost
  <2> QED BY <1>5, <2>1 DEF IInv, RingInv, ProducerInv, Slot
<1>9. ConsumerInv'
  <2>1. PopCopied' = 0
    BY <1>3 DEF PopCopied
  <2> QED BY <1>3, <1>4, <1>5, <2>1 DEF ConsumerInv
<1>10. DetachedInv'
  BY <1>3, <1>5 DEF IInv, RingInv, DetachedInv, PopBegin, ConsumerLive
<1> QED BY <1>6, <1>7, <1>8, <1>9, <1>10 DEF IInv, RingInv

\* What the pieces of a pop read, in terms of the stream.
LEMMA PopPieces ==
  ASSUME IInv, cpc # "idle"
  PROVE  LET f == First(ct, cn) IN
         /\ cn \in 1 .. Size /\ f \in 1 .. cn
         /\ \A i \in 1 .. f : /\ Slot(ct) + i - 1 \in 0 .. Size - 1
                             /\ data[Slot(ct) + i - 1] = sent[Len(rcvd) + i]
         /\ \A i \in f + 1 .. cn : /\ i - f - 1 \in 0 .. Size - 1
                                 /\ data[i - f - 1] = sent[Len(rcvd) + i]
<1> DEFINE f == First(ct, cn)
           R == Len(rcvd)
<1>1. /\ R \in Nat /\ Len(sent) \in Nat /\ Size \in Nat /\ cn \in 1 .. Size
      /\ ct = Index(R) /\ R + cn =< Len(sent)
  BY InFlight, SizeAssumption
     DEF IInv, TypeOK, RingInv, ConsumerInv, IndexInv
<1>2. /\ f \in 1 .. cn /\ f =< Size - Slot(R) /\ Slot(ct) = Slot(R)
      /\ Slot(R) \in 0 .. Size - 1
      /\ \A i \in 1 .. f : Slot(R + i - 1) = Slot(R) + i - 1
      /\ \A i \in f + 1 .. cn : Slot(R + i - 1) = i - f - 1
  <2> HIDE DEF R
  <2>1. Slot(ct) = Slot(R) /\ Slot(R) \in 0 .. Size - 1
    BY <1>1, SlotIndex, SlotType
  <2> QED BY <1>1, <2>1, Pieces
<1> HIDE DEF f
<1>3. ASSUME NEW i \in 1 .. cn PROVE data[Slot(R + i - 1)] = sent[R + i]
  <2> DEFINE k == R + i
  <2>1. k \in Len(rcvd) + 1 .. Len(sent) /\ R + i - 1 = k - 1
    BY <1>1
  <2> HIDE DEF k
  <2>2. data[Slot(k - 1)] = sent[k]
    BY <2>1 DEF IInv, RingInv, ContentInv
  <2> QED BY <2>1, <2>2 DEF k
<1> HIDE DEF R
<1>4. ASSUME NEW i \in 1 .. f
      PROVE  Slot(ct) + i - 1 \in 0 .. Size - 1 /\ data[Slot(ct) + i - 1] = sent[R + i]
  <2>1. i \in 1 .. cn /\ Slot(ct) + i - 1 \in 0 .. Size - 1
    BY <1>1, <1>2
  <2>2. Slot(R + i - 1) = Slot(ct) + i - 1
    BY <1>2
  <2> QED BY <1>3, <2>1, <2>2
<1>5. ASSUME NEW i \in f + 1 .. cn
      PROVE  i - f - 1 \in 0 .. Size - 1 /\ data[i - f - 1] = sent[R + i]
  <2>1. i \in 1 .. cn /\ i - f - 1 \in 0 .. Size - 1
    BY <1>1, <1>2
  <2>2. Slot(R + i - 1) = i - f - 1
    BY <1>2
  <2> QED BY <1>3, <2>1, <2>2
<1> QED BY <1>1, <1>2, <1>4, <1>5 DEF f, R

\* The first piece of a pop copies out the oldest bytes in flight.
LEMMA PopFirstInv ==
  ASSUME IInv, PopFirst PROVE IInv'
<1> DEFINE f == First(ct, cn)
<1>1. /\ cn \in 1 .. Size /\ f \in 1 .. cn
      /\ \A i \in 1 .. f : /\ Slot(ct) + i - 1 \in 0 .. Size - 1
                          /\ data[Slot(ct) + i - 1] = sent[Len(rcvd) + i]
  BY PopPieces DEF PopFirst
<1>2. /\ cbuf' = [i \in 1 .. f |-> data[Slot(ct) + i - 1]]
      /\ cpc' = IF f < cn THEN "piece2" ELSE "publish"
      /\ cpc = "piece1"
  BY DEF PopFirst
<1>3. UNCHANGED <<head, tail, data, cardEnd, cardUp, cached, boots, ppc, ph, pbuf, ct, cn, sent, rcvd>>
  BY DEF PopFirst, ringVars, cardVars, prodVars
<1>4. PopCopied' = f
  BY <1>1, <1>2, <1>3 DEF PopCopied, First, Slot, AtMost
<1> HIDE DEF f
<1>5. cbuf' \in Seq(Byte) /\ Len(cbuf') = f
  <2>1. data \in [0 .. Size - 1 -> Byte]
    BY DEF IInv, TypeOK
  <2>2. \A i \in 1 .. f : data[Slot(ct) + i - 1] \in Byte
    BY <1>1, <2>1
  <2>3. f \in Nat
    BY <1>1
  <2> QED BY <1>2, <2>2, <2>3
<1>6. TypeOK'
  BY <1>2, <1>3, <1>5 DEF IInv, TypeOK
<1>7. ConsumerInv'
  <2>1. ct = tail /\ 0 < cn /\ Len(rcvd) + cn =< Len(sent)
    BY <1>2 DEF IInv, RingInv, ConsumerInv
  <2>2. \A i \in 1 .. f : cbuf'[i] = sent[Len(rcvd) + i]
    BY <1>1, <1>2
  <2>3. cpc' # "idle"
    BY <1>2
  <2> QED BY <1>3, <1>4, <1>5, <2>1, <2>2, <2>3 DEF ConsumerInv
<1>8. IndexInv' /\ ContentInv' /\ PrefixInv'
  BY <1>3 DEF IInv, RingInv, IndexInv, ContentInv, PrefixInv
<1>9. ProducerInv'
  <2>1. PushCopied' = PushCopied
    BY <1>3 DEF PushCopied, First, Slot, AtMost
  <2> QED BY <1>3, <2>1 DEF IInv, RingInv, ProducerInv, Slot
<1>10. DetachedInv'
  BY <1>2, <1>3 DEF IInv, RingInv, DetachedInv, PopFirst, ConsumerLive
<1> QED BY <1>6, <1>7, <1>8, <1>9, <1>10 DEF IInv, RingInv

\* The second piece, from slot 0, continues where the first ended.
LEMMA PopSecondInv ==
  ASSUME IInv, PopSecond PROVE IInv'
<1> DEFINE f == First(ct, cn)
<1>1. /\ cn \in 1 .. Size /\ f \in 1 .. cn
      /\ \A i \in f + 1 .. cn : /\ i - f - 1 \in 0 .. Size - 1
                              /\ data[i - f - 1] = sent[Len(rcvd) + i]
  BY PopPieces DEF PopSecond
<1>2. /\ cbuf' = [i \in 1 .. cn |-> IF i =< f THEN cbuf[i] ELSE data[i - f - 1]]
      /\ cpc' = "publish" /\ cpc = "piece2"
  BY DEF PopSecond
<1>3. UNCHANGED <<head, tail, data, cardEnd, cardUp, cached, boots, ppc, ph, pbuf, ct, cn, sent, rcvd>>
  BY DEF PopSecond, ringVars, cardVars, prodVars
<1>4. PopCopied' = cn
  BY <1>2, <1>3 DEF PopCopied
<1>5. Len(cbuf) = f /\ \A i \in 1 .. f : cbuf[i] = sent[Len(rcvd) + i]
  BY <1>2 DEF IInv, RingInv, ConsumerInv, PopCopied
<1> HIDE DEF f
<1>6. ASSUME NEW i \in 1 .. cn
      PROVE  cbuf'[i] = sent[Len(rcvd) + i] /\ cbuf'[i] \in Byte
  <2>1. data \in [0 .. Size - 1 -> Byte] /\ cbuf \in Seq(Byte)
    BY DEF IInv, TypeOK
  <2>2. CASE i =< f
    <3>1. i \in 1 .. f /\ i \in 1 .. Len(cbuf)
      BY <1>1, <1>5, <2>2
    <3>2. cbuf'[i] = cbuf[i]
      BY <1>2, <2>2
    <3>3. cbuf[i] \in Byte
      BY <2>1, <3>1
    <3> QED BY <1>5, <3>1, <3>2, <3>3
  <2>3. CASE ~(i =< f)
    <3>1. i \in f + 1 .. cn
      BY <1>1, <2>3
    <3>2. cbuf'[i] = data[i - f - 1]
      BY <1>2, <2>3
    <3> QED BY <1>1, <2>1, <3>1, <3>2
  <2> QED BY <2>2, <2>3
<1>7. cbuf' \in Seq(Byte) /\ Len(cbuf') = cn
  <2>1. cn \in Nat
    BY <1>1
  <2>2. cbuf' \in [1 .. cn -> Byte]
    BY <1>2, <1>6
  <2> QED BY <2>1, <2>2
<1>8. TypeOK'
  BY <1>2, <1>3, <1>7 DEF IInv, TypeOK
<1>9. ConsumerInv'
  <2>1. ct = tail /\ 0 < cn /\ Len(rcvd) + cn =< Len(sent)
    BY <1>2 DEF IInv, RingInv, ConsumerInv
  <2>2. \A i \in 1 .. cn : cbuf'[i] = sent[Len(rcvd) + i]
    BY <1>6
  <2>3. cpc' # "idle"
    BY <1>2
  <2> QED BY <1>3, <1>4, <1>7, <2>1, <2>2, <2>3 DEF ConsumerInv
<1>10. IndexInv' /\ ContentInv' /\ PrefixInv'
  BY <1>3 DEF IInv, RingInv, IndexInv, ContentInv, PrefixInv
<1>11. ProducerInv'
  <2>1. PushCopied' = PushCopied
    BY <1>3 DEF PushCopied, First, Slot, AtMost
  <2> QED BY <1>3, <2>1 DEF IInv, RingInv, ProducerInv, Slot
<1>12. DetachedInv'
  BY <1>2, <1>3 DEF IInv, RingInv, DetachedInv, PopSecond, ConsumerLive
<1> QED BY <1>8, <1>9, <1>10, <1>11, <1>12 DEF IInv, RingInv

\* The bytes a pop publishes as taken are the oldest ones in flight.
LEMMA PopTakesOldest ==
  ASSUME IInv, PopPublish
  PROVE  /\ Len(rcvd') = Len(rcvd) + cn /\ rcvd' \in Seq(Byte)
         /\ 0 < cn /\ Len(rcvd) + cn =< Len(sent)
         /\ \A i \in 1 .. cn : rcvd'[Len(rcvd) + i] = sent[Len(rcvd) + i]
         /\ \A i \in 1 .. Len(rcvd) : rcvd'[i] = rcvd[i]
<1>1. rcvd \in Seq(Byte) /\ cbuf \in Seq(Byte) /\ rcvd' = rcvd \o cbuf /\ cn \in Nat
  BY DEF IInv, TypeOK, PopPublish
<1>2. /\ Len(cbuf) = cn /\ 0 < cn /\ Len(rcvd) + cn =< Len(sent)
      /\ \A i \in 1 .. cn : cbuf[i] = sent[Len(rcvd) + i]
  BY DEF IInv, RingInv, ConsumerInv, PopCopied, PopPublish
<1>3. rcvd' \in Seq(Byte) /\ Len(rcvd') = Len(rcvd) + cn
  <2>1. rcvd \o cbuf \in Seq(Byte) /\ Len(rcvd \o cbuf) = Len(rcvd) + Len(cbuf)
    BY <1>1
  <2> QED BY <1>1, <1>2, <2>1
<1>4. ASSUME NEW i \in 1 .. cn PROVE rcvd'[Len(rcvd) + i] = cbuf[i]
  <2>1. Len(rcvd) \in Nat /\ Len(rcvd) + i \in 1 .. Len(rcvd) + Len(cbuf)
    BY <1>1, <1>2
  <2> QED BY <1>1, <1>2, <2>1
<1>5. \A i \in 1 .. Len(rcvd) : rcvd'[i] = rcvd[i]
  BY <1>1, <1>2
<1> QED BY <1>2, <1>3, <1>4, <1>5

\* Publishing tail gives the slots back: the stream position advances by cn.
LEMMA PopPublishInv ==
  ASSUME IInv, PopPublish PROVE IInv'
<1>1. /\ Len(rcvd') = Len(rcvd) + cn /\ rcvd' \in Seq(Byte)
      /\ 0 < cn /\ Len(rcvd) + cn =< Len(sent) /\ cn \in Nat
  BY PopTakesOldest DEF IInv, TypeOK
<1>2. Len(rcvd) \in Nat /\ Len(sent) \in Nat /\ Len(pbuf) \in Nat /\ Size \in Nat
  BY InFlight, SizeAssumption
<1>3. tail' = Index(Len(rcvd'))
  <2>1. ct = Index(Len(rcvd))
    BY DEF PopPublish, IInv, RingInv, ConsumerInv, IndexInv
  <2> QED BY <1>1, <1>2, <2>1, AdvanceIndex DEF PopPublish
<1>4. cached' = IF cardEnd = "consumer" THEN tail' ELSE cached
  BY DEF PopPublish, Keep
<1>5. cpc' = "idle" /\ ct' = 0 /\ cn' = 0 /\ cbuf' = <<>>
  BY DEF PopPublish
<1>6. UNCHANGED <<head, data, cardEnd, cardUp, boots, ppc, ph, pbuf, sent>>
  BY DEF PopPublish, prodVars
<1>7. tail' \in 0 .. IdxMod - 1
  BY <1>1, <1>2, <1>3, IndexType
<1>8. TypeOK'
  BY <1>1, <1>2, <1>4, <1>5, <1>6, <1>7, IdxAssumption DEF IInv, TypeOK
<1>9. IndexInv'
  <2>1. /\ head = Index(Len(sent)) /\ Len(sent) =< Len(rcvd) + Size
        /\ cardUp => cached = IF cardEnd = "producer" THEN head ELSE tail
        /\ cardEnd \in {"producer", "consumer"}
    BY DEF IInv, TypeOK, RingInv, IndexInv
  <2>2. Len(rcvd') =< Len(sent') /\ Len(sent') =< Len(rcvd') + Size
    BY <1>1, <1>2, <1>6, <2>1
  <2>3. cardUp' => cached' = IF cardEnd' = "producer" THEN head' ELSE tail'
    BY <1>4, <1>6, <2>1
  <2> QED BY <1>3, <1>6, <2>1, <2>2, <2>3 DEF IndexInv
<1>10. ContentInv'
  <2> SUFFICES ASSUME NEW i \in Len(rcvd') + 1 .. Len(sent)
               PROVE  data[Slot(i - 1)] = sent[i]
    BY <1>6 DEF ContentInv
  <2>1. i \in Len(rcvd) + 1 .. Len(sent)
    BY <1>1, <1>2
  <2> QED BY <2>1 DEF IInv, RingInv, ContentInv
<1>11. ProducerInv'
  <2>1. PushCopied' = PushCopied
    BY <1>6 DEF PushCopied, First, Slot, AtMost
  <2>2. ppc # "idle" => Len(sent) + Len(pbuf) =< Len(rcvd) + Size
    BY DEF IInv, RingInv, ProducerInv
  <2>3. ppc # "idle" => Len(sent') + Len(pbuf') =< Len(rcvd') + Size
    BY <1>1, <1>2, <1>6, <2>2
  <2> QED BY <1>6, <2>1, <2>3 DEF IInv, RingInv, ProducerInv, Slot
<1>12. ConsumerInv'
  BY <1>5 DEF ConsumerInv
<1>13. DetachedInv'
  BY <1>5, <1>6 DEF IInv, RingInv, DetachedInv
<1>14. PrefixInv'
  <2>1. ASSUME NEW i \in 1 .. Len(rcvd') PROVE rcvd'[i] = sent[i]
    <3>1. CASE i \in 1 .. Len(rcvd)
      <4>1. rcvd[i] = sent[i]
        BY <3>1 DEF IInv, RingInv, PrefixInv
      <4> QED BY <3>1, <4>1, PopTakesOldest
    <3>2. CASE i \in Len(rcvd) + 1 .. Len(rcvd) + cn
      <4> DEFINE j == i - Len(rcvd)
      <4>1. j \in 1 .. cn /\ i = Len(rcvd) + j
        BY <1>1, <1>2, <3>2
      <4> HIDE DEF j
      <4> QED BY <4>1, PopTakesOldest
    <3> QED BY <1>1, <1>2, <3>1, <3>2
  <2> QED BY <1>6, <2>1 DEF PrefixInv
<1> QED BY <1>8, <1>9, <1>10, <1>11, <1>12, <1>13, <1>14 DEF IInv, RingInv

\* A boot at any moment leaves a fresh ring.
LEMMA BootInv ==
  ASSUME IInv, Boot PROVE IInv'
<1>1. Index(0) = 0
  <2>1. IdxMod \in Nat \ {0} /\ 0 \in 0 .. IdxMod - 1 /\ 0 = IdxMod * 0 + 0
    BY IdxAssumption
  <2>2. 0 % IdxMod = 0
    BY <2>1, ModUnique
  <2> QED BY <2>2 DEF Index
<1>2. TypeOK'
  <2>1. boots' \in Nat /\ 0 \in 0 .. IdxMod - 1 /\ 0 \in 0 .. Size
    BY IdxAssumption, SizeAssumption DEF Boot, IInv, TypeOK
  <2>2. <<>> \in Seq(Byte)
    OBVIOUS
  <2> QED BY <2>1, <2>2 DEF Boot, IInv, TypeOK
<1>3. IndexInv'
  BY <1>1, SizeAssumption DEF Boot, IndexInv
<1>4. ContentInv' /\ PrefixInv' /\ ProducerInv' /\ ConsumerInv' /\ DetachedInv'
  BY DEF Boot, ContentInv, PrefixInv, ProducerInv, ConsumerInv, DetachedInv
<1> QED BY <1>2, <1>3, <1>4 DEF IInv, RingInv

\* Attaching loads the index the card will own.
LEMMA AttachInv ==
  ASSUME IInv, Attach PROVE IInv'
<1>1. /\ cardUp' = TRUE
      /\ cached' = IF cardEnd = "producer" THEN head ELSE tail
      /\ UNCHANGED <<head, tail, data, cardEnd, boots, ppc, ph, pbuf, cpc, ct, cn, cbuf, sent, rcvd>>
  BY DEF Attach, ringVars, prodVars, consVars
<1>2. TypeOK'
  BY <1>1 DEF IInv, TypeOK
<1>3. IndexInv' /\ ContentInv' /\ PrefixInv'
  BY <1>1 DEF IInv, RingInv, IndexInv, ContentInv, PrefixInv
<1>4. PushCopied' = PushCopied /\ PopCopied' = PopCopied
  BY <1>1 DEF PushCopied, PopCopied
<1>5. ProducerInv' /\ ConsumerInv'
  BY <1>1, <1>4 DEF IInv, RingInv, ProducerInv, ConsumerInv
<1>6. DetachedInv'
  BY <1>1 DEF DetachedInv
<1> QED BY <1>2, <1>3, <1>5, <1>6 DEF IInv, RingInv

\* IInv is preserved by every step, and by stuttering.
LEMMA NextInv == IInv /\ [Next]_vars => IInv'
<1> SUFFICES ASSUME IInv, [Next]_vars PROVE IInv'
  OBVIOUS
<1>1. ASSUME NEW s \in Payload, PushBegin(s) PROVE IInv'
  BY <1>1, PushBeginInv
<1>2. CASE PushFirst
  BY <1>2, PushFirstInv
<1>3. CASE PushSecond
  BY <1>3, PushSecondInv
<1>4. CASE PushPublish
  BY <1>4, PushPublishInv
<1>5. ASSUME NEW cap \in 1 .. Size, PopBegin(cap) PROVE IInv'
  BY <1>5, PopBeginInv
<1>6. CASE PopFirst
  BY <1>6, PopFirstInv
<1>7. CASE PopSecond
  BY <1>7, PopSecondInv
<1>8. CASE PopPublish
  BY <1>8, PopPublishInv
<1>9. CASE Boot
  BY <1>9, BootInv
<1>10. CASE Attach
  BY <1>10, AttachInv
<1>11. CASE UNCHANGED vars
  <2>1. UNCHANGED <<head, tail, data, cardEnd, cardUp, cached, boots, ppc, ph,
                    pbuf, cpc, ct, cn, cbuf, sent, rcvd>>
    BY <1>11 DEF vars, ringVars, cardVars, prodVars, consVars
  <2>2. TypeOK'
    BY <2>1 DEF IInv, TypeOK
  <2>3. PushCopied' = PushCopied /\ PopCopied' = PopCopied
    BY <2>1 DEF PushCopied, PopCopied
  <2>4. RingInv'
    BY <2>1, <2>3 DEF IInv, RingInv, IndexInv, ContentInv, PrefixInv, ProducerInv,
                      ConsumerInv, DetachedInv
  <2> QED BY <2>2, <2>4 DEF IInv
<1> QED
  BY <1>1, <1>2, <1>3, <1>4, <1>5, <1>6, <1>7, <1>8, <1>9, <1>10, <1>11
  DEF Next, Push, Pop

----------------------------------------------------------------------------
(* The theorems.                                                           *)

\* The inductive invariant holds of every behaviour of ring_push, ring_pop
\* and the card's drivers.
THEOREM RingInvariant == Spec => []IInv
<1>1. Init => IInv
  BY InitInv
<1>2. IInv /\ [Next]_vars => IInv'
  BY NextInv
<1> QED BY <1>1, <1>2, PTL DEF Spec

\* Both indices stay within 32 bits and both copies within the ring, in every
\* step of ring_push, ring_pop and the driver.
THEOREM TypeCorrect == Spec => []TypeOK
<1>1. IInv => TypeOK
  BY DEF IInv
<1> QED BY <1>1, RingInvariant, PTL

\* Never more in flight than the ring holds: ring_pop never has to drop.
THEOREM RingNeverOverfull == Spec => []NeverOverfull
<1>1. IInv => NeverOverfull
  <2> SUFFICES ASSUME IInv PROVE NeverOverfull
    OBVIOUS
  <2>1. Used(head, tail) = Len(sent) - Len(rcvd) /\ Len(sent) \in Nat /\ Len(rcvd) \in Nat
    BY InFlight
  <2>2. Len(sent) =< Len(rcvd) + Size
    BY DEF IInv, RingInv, IndexInv
  <2> QED BY <2>1, <2>2, SizeAssumption DEF NeverOverfull
<1> QED BY <1>1, RingInvariant, PTL

\* No push in progress overwrites a byte that is in flight.
THEOREM RingPublishedIntact == Spec => []PublishedIntact
<1>1. IInv => PublishedIntact
  <2> SUFFICES ASSUME IInv, NEW i \in 1 .. Used(head, tail)
               PROVE  data[Slot(Advance(tail, i - 1))] = sent[Len(rcvd) + i]
    BY DEF PublishedIntact
  <2>1. Used(head, tail) = Len(sent) - Len(rcvd) /\ Len(sent) \in Nat /\ Len(rcvd) \in Nat
    BY InFlight
  <2> DEFINE j == i - 1
             p == Len(rcvd) + j
             k == Len(rcvd) + i
  <2>2. j \in Nat /\ p \in Nat /\ k \in Len(rcvd) + 1 .. Len(sent) /\ p = k - 1
    BY <2>1
  <2> HIDE DEF j
  <2>3. Advance(tail, j) = Index(p)
    BY <2>1, <2>2, AdvanceIndex DEF IInv, RingInv, IndexInv
  <2> HIDE DEF p, k
  <2>4. Slot(Index(p)) = Slot(p)
    BY <2>2, SlotIndex
  <2>5. data[Slot(k - 1)] = sent[k]
    BY <2>2 DEF IInv, RingInv, ContentInv
  <2> QED BY <2>2, <2>3, <2>4, <2>5 DEF j, k
<1> QED BY <1>1, RingInvariant, PTL

\* The copies of the two ends never touch the same slot.
THEOREM RingCopiesDisjoint == Spec => []CopiesDisjoint
<1>1. IInv => CopiesDisjoint
  <2> SUFFICES ASSUME IInv, NEW i \in 1 .. Len(pbuf), NEW j \in 1 .. cn,
                      Slot(Advance(ph, i - 1)) = Slot(Advance(ct, j - 1))
               PROVE  FALSE
    BY DEF CopiesDisjoint
  <2>1. /\ Len(sent) \in Nat /\ Len(rcvd) \in Nat /\ Len(pbuf) \in Nat
        /\ cn \in Nat /\ Size \in Nat
    BY InFlight, SizeAssumption DEF IInv, TypeOK
  <2>2. ppc # "idle" /\ cpc # "idle"
    <3>1. ppc = "idle" => Len(pbuf) = 0
      BY DEF IInv, RingInv, ProducerInv
    <3>2. cpc = "idle" => cn = 0
      BY DEF IInv, RingInv, ConsumerInv
    <3> QED BY <2>1, <3>1, <3>2
  <2>3. /\ ph = Index(Len(sent)) /\ ct = Index(Len(rcvd))
        /\ Len(sent) + Len(pbuf) =< Len(rcvd) + Size
        /\ Len(rcvd) + cn =< Len(sent)
    BY <2>2 DEF IInv, RingInv, ProducerInv, ConsumerInv, IndexInv
  <2> DEFINE p == Len(sent) + (i - 1)
             q == Len(rcvd) + (j - 1)
  <2>4. i - 1 \in Nat /\ j - 1 \in Nat
    BY <2>1
  <2>5. Advance(ph, i - 1) = Index(p) /\ Advance(ct, j - 1) = Index(q)
    BY <2>1, <2>3, <2>4, AdvanceIndex
  <2>6. p \in Nat /\ q \in Nat /\ q < p /\ p - q < Size /\ q - p < Size
    BY <2>1, <2>3, <2>4
  <2> HIDE DEF p, q
  <2>7. Slot(p) = Slot(q)
    BY <2>5, <2>6, SlotIndex
  <2>8. p = q
    BY <2>6, <2>7, SlotInjective
  <2> QED BY <2>6, <2>8
<1> QED BY <1>1, RingInvariant, PTL

\* Every step of the ring is a step of the stream or leaves it alone.
LEMMA StreamStep == IInv /\ [Next]_vars => [Stream!StreamNext]_(Stream!streamVars)
<1> SUFFICES ASSUME IInv, [Next]_vars
             PROVE  \/ Stream!StreamNext
                    \/ UNCHANGED <<sent, rcvd>>
  BY DEF Stream!streamVars
<1>1. CASE PushPublish
  <2>1. /\ sent \in Seq(Byte) /\ pbuf \in Seq(Byte)
        /\ sent' = sent \o pbuf /\ rcvd' = rcvd
        /\ 0 < Len(pbuf) /\ Len(sent) + Len(pbuf) =< Len(rcvd) + Size
    BY <1>1 DEF IInv, TypeOK, RingInv, ProducerInv, PushPublish
  <2>2. sent' \in Seq(Byte) /\ Len(sent') = Len(sent) + Len(pbuf)
    BY <2>1
  <2>3. SubSeq(sent', 1, Len(sent)) = sent
    BY <2>1
  <2>4. Stream!Send
    BY <2>1, <2>2, <2>3 DEF Stream!Send
  <2> QED BY <2>4 DEF Stream!StreamNext
<1>2. CASE PopPublish
  <2>1. /\ Len(rcvd') = Len(rcvd) + cn /\ rcvd' \in Seq(Byte)
        /\ 0 < cn /\ Len(rcvd) + cn =< Len(sent)
    BY <1>2, PopTakesOldest
  <2>2. /\ sent \in Seq(Byte) /\ rcvd \in Seq(Byte) /\ cn \in Nat
        /\ Len(rcvd) \in Nat /\ Len(sent) \in Nat /\ sent' = sent
    BY <1>2 DEF IInv, TypeOK, PopPublish
  <2>3. \A i \in 1 .. Len(rcvd') : rcvd'[i] = sent[i]
    <3>1. PrefixInv'
      BY <1>2, PopPublishInv DEF IInv, RingInv
    <3> QED BY <2>2, <3>1 DEF PrefixInv
  <2> DEFINE m == Len(rcvd')
             sub == SubSeq(sent, 1, m)
  <2>4. m \in Nat /\ m =< Len(sent) /\ Len(rcvd) < m
    BY <2>1, <2>2
  <2>5. sub \in Seq(Byte) /\ Len(sub) = m /\ \A i \in 1 .. m : sub[i] = sent[i]
    BY <2>2, <2>4
  <2> HIDE DEF sub
  <2>6. rcvd' = sub
    BY <2>1, <2>3, <2>5
  <2>7. Stream!Receive
    BY <2>2, <2>4, <2>6 DEF Stream!Receive, sub
  <2> QED BY <2>7 DEF Stream!StreamNext
<1>3. CASE Boot
  <2>1. Stream!Restart
    BY <1>3 DEF Boot, Stream!Restart
  <2> QED BY <2>1 DEF Stream!StreamNext
<1>4. ASSUME NEW s \in Payload, PushBegin(s) PROVE UNCHANGED <<sent, rcvd>>
  BY <1>4 DEF PushBegin
<1>5. ASSUME NEW cap \in 1 .. Size, PopBegin(cap) PROVE UNCHANGED <<sent, rcvd>>
  BY <1>5 DEF PopBegin
<1>6. CASE PushFirst \/ PushSecond \/ PopFirst \/ PopSecond \/ Attach
  BY <1>6 DEF PushFirst, PushSecond, PopFirst, PopSecond, Attach
<1>7. CASE UNCHANGED vars
  BY <1>7 DEF vars
<1> QED
  BY <1>1, <1>2, <1>3, <1>4, <1>5, <1>6, <1>7 DEF Next, Push, Pop

\* The ring is a bounded FIFO stream: whatever the two ends interleave and
\* however the indices wrap, the consumer takes exactly the bytes that were
\* published, in order, and a boot starts both afresh.
THEOREM RingRefinesStream == Spec => StreamRefinement
<1>1. Init => Stream!StreamInit
  BY DEF Init, Stream!StreamInit
<1>2. IInv /\ [Next]_vars => [Stream!StreamNext]_(Stream!streamVars)
  BY StreamStep
<1> QED
  BY <1>1, <1>2, RingInvariant, PTL
  DEF Spec, StreamRefinement, Stream!StreamSpec

=============================================================================
