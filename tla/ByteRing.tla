----------------------------- MODULE ByteRing -----------------------------
(***************************************************************************)
(* One byte ring of a channel: a power-of-two data area in card memory     *)
(* between two free-running 32-bit indices, head (written only by the      *)
(* producer) and tail (written only by the consumer).                      *)
(*                                                                         *)
(* One end is the host process (ring_push, ring_pop of ring.S), the other  *)
(* the rpc driver of the card's kernel (knc_rpc_write, knc_rpc_read of     *)
(* patch 0022).  The two run concurrently and share no lock.  A push       *)
(* computes its room, copies the bytes in one or two pieces and then       *)
(* publishes head; a pop is its mirror image; each of those memory         *)
(* operations is a step here.  The host reads its own index back from the  *)
(* ring on every call; the card keeps its own in a driver variable loaded  *)
(* once, when the driver attaches.                                         *)
(***************************************************************************)
EXTENDS Integers, Sequences

CONSTANTS Size,      \* data bytes of the ring (a power of two in the code)
          IdxMod,    \* indices are free-running modulo IdxMod (2^32)
          Byte,      \* the values a byte can have
          Payload,   \* the buffers a caller may offer to a push
          MaxSent,   \* bound: bytes published between two boots
          MaxBoots   \* bound: further boots of the card

ASSUME SizeAssumption == Size \in Nat \ {0}
ASSUME IdxAssumption ==
          IdxMod \in Nat \ {0} /\ IdxMod % Size = 0 /\ Size < IdxMod
ASSUME PayloadAssumption == Payload \subseteq Seq(Byte)
ASSUME BoundAssumption == MaxSent \in Nat /\ MaxBoots \in Nat

VARIABLES head, tail,   \* the two shared indices
          data,         \* the shared data area, 0 .. Size-1
          cardEnd,      \* which end of this ring the card is
          cardUp,       \* the card's driver has attached
          cached,       \* the card's own index (tx_head or rx_tail)
          ppc, ph, pbuf,     \* the producer: step, head it read, its bytes
          cpc, ct, cn, cbuf, \* the consumer: step, tail it read, count, buffer
          sent, rcvd,   \* history: bytes published and bytes taken
          boots         \* how many further boots there were

ringVars == <<head, tail, data>>
cardVars == <<cardEnd, cardUp, cached, boots>>
prodVars == <<ppc, ph, pbuf>>
consVars == <<cpc, ct, cn, cbuf>>
vars == <<ringVars, cardVars, prodVars, consVars, sent, rcvd>>

----------------------------------------------------------------------------
AtMost(a, b) == IF a =< b THEN a ELSE b

\* Mutant: the index saturates instead of wrapping.
AdvanceSaturates(i, n) == AtMost(i + n, IdxMod - 1)

\* 32-bit index arithmetic: subl and the u32 subtraction of the driver wrap.
Used(h, t) == (h - t) % IdxMod
Advance(i, n) == (i + n) % IdxMod

\* index & (size - 1), size a power of two.
Slot(i) == i % Size

\* Mutant: one byte too many, the classic full-versus-empty slip.
RoomOffByOne(used) == Size - used + 1

\* What a push may write, given the bytes in flight.
Room(used) == Size - used

\* Mutant: the copy ignores the end of the data area.
FirstIgnoresEnd(i, n) == n

\* The first piece of a copy of n bytes at index i runs to the end of the
\* data area at most; the second, if any, starts at slot 0.
First(i, n) == AtMost(n, Size - Slot(i))

\* The producer's and the consumer's own index: the card's driver uses its
\* variable, the host reads the ring.
OwnHead == IF cardEnd = "producer" THEN cached ELSE head
OwnTail == IF cardEnd = "consumer" THEN cached ELSE tail

ProducerLive == cardEnd = "producer" => cardUp
ConsumerLive == cardEnd = "consumer" => cardUp

\* Mutant: the driver publishes the index and forgets to keep it.
KeepNothing(end, i) == cached' = cached

\* Only the card's end has an index to keep.
Keep(end, i) == cached' = IF cardEnd = end THEN i ELSE cached

----------------------------------------------------------------------------
(* The producer: ring_push on the host, knc_rpc_write on the card. *)

\* Room is computed once, from the tail as it is now; what does not fit is
\* left to the caller.
PushBegin(s) ==
  LET used == Used(OwnHead, tail)
      n == AtMost(Len(s), Room(used))
  IN /\ ppc = "idle" /\ ProducerLive
     /\ used < Size /\ n > 0
     /\ Len(sent) + n =< MaxSent
     /\ ppc' = "piece1" /\ ph' = OwnHead /\ pbuf' = SubSeq(s, 1, n)
     /\ UNCHANGED <<ringVars, cardVars, consVars, sent, rcvd>>

PushFirst ==
  LET start == Slot(ph)
      n == Len(pbuf)
      f == First(ph, n)
  IN /\ ppc = "piece1" /\ ProducerLive
     /\ data' = [k \in 0 .. Size - 1 |->
                   IF start =< k /\ k < start + f THEN pbuf[k - start + 1]
                                                  ELSE data[k]]
     /\ ppc' = IF f < n THEN "piece2" ELSE "publish"
     /\ UNCHANGED <<head, tail, cardVars, ph, pbuf, consVars, sent, rcvd>>

PushSecond ==
  LET n == Len(pbuf)
      f == First(ph, n)
  IN /\ ppc = "piece2" /\ ProducerLive
     /\ data' = [k \in 0 .. Size - 1 |->
                   IF k < n - f THEN pbuf[f + k + 1] ELSE data[k]]
     /\ ppc' = "publish"
     /\ UNCHANGED <<head, tail, cardVars, ph, pbuf, consVars, sent, rcvd>>

\* After the fence, one 32-bit write makes the bytes the consumer's.
PushPublish ==
  LET h == Advance(ph, Len(pbuf))
  IN /\ ppc = "publish" /\ ProducerLive
     /\ head' = h /\ Keep("producer", h)
     /\ sent' = sent \o pbuf
     /\ ppc' = "idle" /\ ph' = 0 /\ pbuf' = <<>>
     /\ UNCHANGED <<tail, data, cardEnd, cardUp, boots, consVars, rcvd>>

----------------------------------------------------------------------------
(* The consumer: ring_pop on the host, knc_rpc_read on the card.    *)

\* The host resolves indices that make no sense (more in flight than the
\* ring holds) by dropping everything; the card's driver does not look.
PopBegin(cap) ==
  LET avail == Used(head, OwnTail)
      n == AtMost(avail, cap)
  IN /\ cpc = "idle" /\ ConsumerLive
     /\ \/ /\ avail > Size /\ cardEnd = "producer"
           /\ tail' = head
           /\ UNCHANGED consVars
        \/ /\ avail =< Size \/ cardEnd = "consumer"
           /\ n > 0
           /\ cpc' = "piece1" /\ ct' = OwnTail /\ cn' = n /\ cbuf' = <<>>
           /\ tail' = tail
     /\ UNCHANGED <<head, data, cardVars, prodVars, sent, rcvd>>

PopFirst ==
  LET f == First(ct, cn)
  IN /\ cpc = "piece1" /\ ConsumerLive
     /\ cbuf' = [i \in 1 .. f |-> data[Slot(ct) + i - 1]]
     /\ cpc' = IF f < cn THEN "piece2" ELSE "publish"
     /\ UNCHANGED <<ringVars, cardVars, prodVars, ct, cn, sent, rcvd>>

PopSecond ==
  LET f == First(ct, cn)
  IN /\ cpc = "piece2" /\ ConsumerLive
     /\ cbuf' = [i \in 1 .. cn |->
                   IF i =< f THEN cbuf[i] ELSE data[i - f - 1]]
     /\ cpc' = "publish"
     /\ UNCHANGED <<ringVars, cardVars, prodVars, ct, cn, sent, rcvd>>

PopPublish ==
  LET t == Advance(ct, cn)
  IN /\ cpc = "publish" /\ ConsumerLive
     /\ tail' = t /\ Keep("consumer", t)
     /\ rcvd' = rcvd \o cbuf
     /\ cpc' = "idle" /\ ct' = 0 /\ cn' = 0 /\ cbuf' = <<>>
     /\ UNCHANGED <<head, data, cardEnd, cardUp, boots, prodVars, sent>>

----------------------------------------------------------------------------
(* The card's life.                                                        *)

\* Opening the card resets it, so a new host process means a new boot: both
\* ends lose what they were doing, at whatever step, and format_ring zeroes
\* the indices.  The data area keeps whatever it held.
Boot ==
  /\ boots < MaxBoots
  /\ boots' = boots + 1
  /\ head' = 0 /\ tail' = 0
  /\ cardUp' = FALSE /\ cached' = 0
  /\ ppc' = "idle" /\ ph' = 0 /\ pbuf' = <<>>
  /\ cpc' = "idle" /\ ct' = 0 /\ cn' = 0 /\ cbuf' = <<>>
  /\ sent' = <<>> /\ rcvd' = <<>>
  /\ UNCHANGED <<data, cardEnd>>

\* The driver's init loads its own index from the ring.  The host may have
\* been using its end for a while by then.
Attach ==
  /\ ~cardUp
  /\ cardUp' = TRUE
  /\ cached' = IF cardEnd = "producer" THEN head ELSE tail
  /\ UNCHANGED <<ringVars, cardEnd, boots, prodVars, consVars, sent, rcvd>>

----------------------------------------------------------------------------
\* A freshly formatted ring over whatever card memory held.
Init ==
  /\ head = 0 /\ tail = 0
  /\ data \in [0 .. Size - 1 -> Byte]
  /\ cardEnd \in {"producer", "consumer"} /\ cardUp = FALSE /\ cached = 0
  /\ ppc = "idle" /\ ph = 0 /\ pbuf = <<>>
  /\ cpc = "idle" /\ ct = 0 /\ cn = 0 /\ cbuf = <<>>
  /\ sent = <<>> /\ rcvd = <<>>
  /\ boots = 0

Push == \/ \E s \in Payload : PushBegin(s)
        \/ PushFirst
        \/ PushSecond
        \/ PushPublish

Pop == \/ \E cap \in 1 .. Size : PopBegin(cap)
       \/ PopFirst
       \/ PopSecond
       \/ PopPublish

Next == Push \/ Pop \/ Boot \/ Attach

Spec == Init /\ [][Next]_vars

\* The daemon's loop and the drivers' poll timers keep both ends moving:
\* a pop that can proceed eventually does, a push that began is finished,
\* and a booted card attaches.  Nobody has to start a push.
FairSpec == /\ Spec
            /\ WF_vars(Pop)
            /\ WF_vars(PushFirst \/ PushSecond \/ PushPublish)
            /\ WF_vars(Attach)

----------------------------------------------------------------------------
(* Properties.                                                             *)

\* Every variable keeps the shape the ring header and the code give it:
\* 32-bit indices, a data area of Size bytes, the steps of a push and a pop.
TypeOK ==
  /\ head \in 0 .. IdxMod - 1 /\ tail \in 0 .. IdxMod - 1
  /\ data \in [0 .. Size - 1 -> Byte]
  /\ cardEnd \in {"producer", "consumer"} /\ cardUp \in BOOLEAN
  /\ cached \in 0 .. IdxMod - 1
  /\ ppc \in {"idle", "piece1", "piece2", "publish"}
  /\ ph \in 0 .. IdxMod - 1 /\ pbuf \in Seq(Byte)
  /\ cpc \in {"idle", "piece1", "piece2", "publish"}
  /\ ct \in 0 .. IdxMod - 1 /\ cn \in 0 .. Size /\ cbuf \in Seq(Byte)
  /\ sent \in Seq(Byte) /\ rcvd \in Seq(Byte)
  /\ boots \in Nat

\* The bytes in flight never exceed the ring, across index wrap-around and
\* whatever either end is in the middle of, so ring_pop's "inconsistent
\* indices" branch, which throws away everything in flight, is never taken
\* by a card that was booted on this region.
NeverOverfull == Used(head, tail) =< Size

\* The bytes between tail and head are, at every moment, exactly the ones
\* published and not yet taken: a push in progress overwrites none of them,
\* wherever it wraps and however much the consumer has taken meanwhile.
PublishedIntact ==
  \A i \in 1 .. Used(head, tail) :
     data[Slot(Advance(tail, i - 1))] = sent[Len(rcvd) + i]

\* The slots a push is about to fill and the slots a pop is about to read
\* are disjoint, although neither end takes a lock.
CopiesDisjoint ==
  \A i \in 1 .. Len(pbuf), j \in 1 .. cn :
     Slot(Advance(ph, i - 1)) # Slot(Advance(ct, j - 1))

\* The index that stands for a position of the stream.
Index(p) == p % IdxMod

\* The history ties the indices to positions of the stream: each index is a
\* stream position modulo 2^32, and the two are at most Size apart.
IndexInv ==
  /\ head = Index(Len(sent)) /\ tail = Index(Len(rcvd))
  /\ Len(rcvd) =< Len(sent) /\ Len(sent) =< Len(rcvd) + Size
  /\ cardUp => cached = IF cardEnd = "producer" THEN head ELSE tail

\* What is in flight lies where its stream position says.
ContentInv ==
  \A i \in Len(rcvd) + 1 .. Len(sent) : data[Slot(i - 1)] = sent[i]

\* What was taken is the beginning of what was published.
PrefixInv == \A i \in 1 .. Len(rcvd) : rcvd[i] = sent[i]

\* How many of its bytes a push has copied into the ring, a pop out of it.
PushCopied == IF ppc = "piece2" THEN First(ph, Len(pbuf))
              ELSE IF ppc = "publish" THEN Len(pbuf) ELSE 0
PopCopied == IF cpc = "piece2" THEN First(ct, cn)
             ELSE IF cpc = "publish" THEN cn ELSE 0

\* A push in progress works from the current head, fits in front of the
\* consumer, and has copied what its step says it has copied.
ProducerInv ==
  /\ ppc = "idle" => pbuf = <<>>
  /\ ppc # "idle" =>
       /\ ph = head /\ 0 < Len(pbuf)
       /\ Len(sent) + Len(pbuf) =< Len(rcvd) + Size
       /\ \A i \in 1 .. PushCopied : data[Slot(Len(sent) + i - 1)] = pbuf[i]

\* A pop in progress works from the current tail, asks for bytes that are
\* there, and holds the oldest ones in flight.
ConsumerInv ==
  /\ cpc = "idle" => cn = 0
  /\ cpc # "idle" =>
       /\ ct = tail /\ 0 < cn /\ Len(rcvd) + cn =< Len(sent)
       /\ Len(cbuf) = PopCopied
       /\ \A i \in 1 .. PopCopied : cbuf[i] = sent[Len(rcvd) + i]

\* Until the driver attaches, the card's end has nothing in progress.
DetachedInv ==
  ~cardUp => /\ cardEnd = "producer" => ppc = "idle"
             /\ cardEnd = "consumer" => cpc = "idle"

RingInv == /\ IndexInv /\ ContentInv /\ PrefixInv
           /\ ProducerInv /\ ConsumerInv /\ DetachedInv

\* The inductive invariant behind the properties above: the ring, the two
\* copies in progress (ring_push, ring_pop and the driver's) and the card's
\* own index all agree with the stream.
IInv == TypeOK /\ RingInv

\* The ring implements the bounded FIFO stream.
Stream == INSTANCE ByteStream WITH Capacity <- Size
StreamRefinement == Stream!StreamSpec

\* Every byte published is eventually taken, unless the card is booted again
\* first (the consumer polls; no signal can be lost because there is none).
EveryByteTaken ==
  \A k \in 1 .. MaxSent :
     (Len(sent) >= k) ~> (Len(rcvd) >= k \/ sent = <<>>)
=============================================================================
