---------------------------- MODULE ByteStream ----------------------------
(***************************************************************************)
(* What one direction of a channel promises its two ends: a bounded        *)
(* first-in first-out stream of bytes.  The producer appends a run of      *)
(* bytes, the consumer takes a run from the front, never more than         *)
(* Capacity bytes are in flight, and nothing is lost, repeated, reordered  *)
(* or invented.  Booting the card starts the stream afresh.                *)
(*                                                                         *)
(* The detailed specification is ByteRing: the ring in card memory that    *)
(* the host (host/asm/phictl/ring.S) and the card's drivers share.         *)
(***************************************************************************)
EXTENDS Naturals, Sequences

CONSTANTS Byte,      \* the values a byte can have
          Capacity   \* the data bytes of the ring

VARIABLES sent,      \* every byte the producer has published, in order
          rcvd       \* every byte the consumer has taken, in order

streamVars == <<sent, rcvd>>

StreamInit == sent = <<>> /\ rcvd = <<>>

\* The producer publishes one or more further bytes, if they fit.
Send == /\ sent' \in Seq(Byte)
        /\ Len(sent) < Len(sent')
        /\ SubSeq(sent', 1, Len(sent)) = sent
        /\ Len(sent') =< Len(rcvd) + Capacity
        /\ rcvd' = rcvd

\* The consumer takes one or more of the bytes in flight, oldest first.
Receive == /\ Len(rcvd) < Len(rcvd')
           /\ Len(rcvd') =< Len(sent)
           /\ rcvd' = SubSeq(sent, 1, Len(rcvd'))
           /\ sent' = sent

\* The host boots the card again and lays the ring out afresh.
Restart == sent' = <<>> /\ rcvd' = <<>>

StreamNext == Send \/ Receive \/ Restart

StreamSpec == StreamInit /\ [][StreamNext]_streamVars
=============================================================================
