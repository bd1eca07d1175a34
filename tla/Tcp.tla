-------------------------------- MODULE Tcp --------------------------------
(***************************************************************************)
(* One forwarded connection: the daemon's TCP stack (tcp.S, driven by      *)
(* forward_step) between a local socket and the card's Linux, over the     *)
(* rings of the network channel.                                           *)
(*                                                                         *)
(* A pass of the stack handles every frame the card sent (tcp_in), then    *)
(* walks the connection (conn_step): received bytes to the local socket,   *)
(* local bytes into the send buffer, segments out, the FIN, the            *)
(* retransmission timer, the close.  The card runs between any two of      *)
(* those steps.  A frame that finds its ring full is dropped, by either    *)
(* side, and the card's driver drops one it has no memory for.             *)
(*                                                                         *)
(* The i-th byte of either stream is the number i, so a byte lost,         *)
(* repeated or out of place shows.  Sequence numbers are modulo SeqMod;    *)
(* the send buffer's indices are never reset and so are stream positions.  *)
(* Ethernet, IP, checksums and the table of connections (which segments    *)
(* are matched with by their ports) are not modelled.  The local           *)
(* application and the card's TCP are external.                            *)
(***************************************************************************)
EXTENDS Integers, Sequences

CONSTANTS SeqMod,       \* sequence numbers are modulo SeqMod (2^32)
          Isns,         \* initial sequence numbers the clock may give
          CardIsn,      \* the card's
          HostBytes, CardBytes,  \* bound: bytes each side has to send
          Mss, SndCap, RcvCap,   \* MSS, SNDCAP, RCVCAP
          CardCap,      \* the card's receive buffer
          RingCap,      \* frames a ring holds
          SendQuota,    \* SEND_QUOTA
          Rests,        \* what now_ms may leave in %edx: nanoseconds % 10^6
          MaxRetries,   \* MAX_RETRIES
          MaxCardRetries  \* bound: the card's retransmissions and probes

ASSUME SeqAssumption ==
  /\ SeqMod \in Nat /\ Isns \subseteq 0 .. SeqMod - 1 /\ CardIsn \in 0 .. SeqMod - 1
  /\ SeqMod > 2 * (HostBytes + CardBytes + 2)
ASSUME RestAssumption == Rests # {} /\ Rests \subseteq 0 .. SeqMod - 1
ASSUME CapAssumption ==
  /\ {Mss, SndCap, RcvCap, CardCap, RingCap, SendQuota} \subseteq Nat \ {0}
  /\ {HostBytes, CardBytes, MaxRetries, MaxCardRetries} \subseteq Nat

VARIABLES
  pc, quota, mac,               \* the stack: step of the pass, have_card_mac
  st, una, nxt, rcvNxt, wnd, advWnd, finSeq, retries,  \* C_*
  sbHead, sbTail, rb,           \* the send buffer's indices; bytes received
  hostEof, cardEof,
  hostShut,                     \* the local socket: not shut, SHUT_WR, SHUT_RDWR
  h2c, c2h,                     \* the rings: frames
  cst, up, unread, cFin,        \* the card: bytes received, not yet read, FIN seen
  cSent, cAcked, cWnd, cTries,  \* ... bytes (and FIN) sent, acknowledged
  isn, got, ended               \* history: ISN, bytes delivered, how it ended

passVars == <<pc, quota, mac>>
sendVars == <<una, nxt, wnd, finSeq, retries, sbHead, sbTail, hostEof>>
recvVars == <<rcvNxt, rb, cardEof, hostShut>>
cardVars == <<cst, up, unread, cFin, cSent, cAcked, cWnd, cTries>>
history == <<isn, got, ended>>
vars == <<passVars, st, advWnd, sendVars, recvVars, h2c, c2h, cardVars, history>>

Least(a, b) == IF a =< b THEN a ELSE b

Mod(n) == n % SeqMod

\* The bytes at the positions i + 1 .. i + n of a stream.
Bytes(i, n) == [k \in 1 .. n |-> i + k]

Sending == {"established", "closeWait"}

----------------------------------------------------------------------------
(* Frames.                                                                 *)

Segment(kind, seq, ack, w, data) ==
  [kind |-> kind, seq |-> seq, ack |-> ack, wnd |-> w, data |-> data]

\* The two frames of ARP: who has the other side's address, and the answer.
Who == Segment("WHO", 0, 0, 0, <<>>)
Arp == Segment("ARP", 0, 0, 0, <<>>)
IsArp(f) == f.kind \in {"WHO", "ARP"}

\* net_send: whole or not at all.
Fit(ring, f) == IF Len(ring) < RingCap THEN Append(ring, f) ELSE ring

\* tcp_send_segment: nothing before the card's address is known; the window
\* is what the receive buffer has room for.
Send(kind, seq, data) ==
  IF mac
  THEN /\ advWnd' = RcvCap - Len(rb')
       /\ h2c' = Fit(h2c, Segment(kind, seq, rcvNxt', advWnd', data))
  ELSE UNCHANGED <<advWnd, h2c>>
Quiet == UNCHANGED <<advWnd, h2c>>

----------------------------------------------------------------------------
(* The connection opens (forward_step, tcp_connect, send_syn).             *)

Connect ==
  /\ st = "free" /\ ended = "none" /\ pc = "recv"
  /\ \E i \in Isns : /\ isn' = i /\ una' = i /\ nxt' = Mod(i + 1)
  /\ st' = "synSent" /\ wnd' = Mss
  /\ UNCHANGED <<finSeq, retries, sbHead, sbTail, hostEof, recvVars>>
  /\ Send("SYN", una', <<>>)
  /\ UNCHANGED <<passVars, c2h, cardVars, got, ended>>

----------------------------------------------------------------------------
(* tcp_in: a segment from the card.                                        *)

InFlight == Mod(nxt - una)
Acked(f) == Mod(f.ack - una)
NewAck(f) == Acked(f) > 0 /\ Acked(f) =< InFlight

\* Mutant: the acknowledged FIN is taken for a byte of the send buffer.
FinCountedNever(f) == FALSE

\* Mutant: once the FIN is sent, any acknowledgement covers it.
FinCountedEarly(f) == finSeq # 0

\* The FIN counts one and is not in the send buffer; whether it is covered
\* is an unsigned comparison of two sequence numbers.
FinCounted(f) == finSeq # 0 /\ finSeq < f.ack

\* The states that wait for the FIN's acknowledgement are left on a new
\* acknowledgement when fin_seq + 1 equals %edx.  That register held the
\* segment's number, but arm_rto has called now_ms meanwhile, whose division
\* leaves the remainder in it: the acknowledgement of the FIN is seen by
\* coincidence only, and then whatever the segment acknowledged.
FinAcked(f, rest) == NewAck(f) /\ finSeq # 0 /\ rest = Mod(finSeq + 1)

AfterAck(f, rest) ==
  CASE FinAcked(f, rest) /\ st = "finWait1" -> "finWait2"
    [] FinAcked(f, rest) /\ st \in {"closing", "lastAck"} -> "closed"
    [] OTHER -> st

\* Mutant: whatever arrives is taken for the next byte.
InOrderAny(f) == TRUE

InOrder(f) == f.seq = rcvNxt

Room == RcvCap - Len(rb)
Taken(f) == IF InOrder(f) THEN Least(Len(f.data), Room) ELSE 0

\* A FIN counts after every byte it carried, taken.
FinIn(f) == f.kind = "FIN" /\ InOrder(f) /\ Taken(f) = Len(f.data)

AfterFin(f, s) ==
  CASE FinIn(f) /\ s = "established" -> "closeWait"
    [] FinIn(f) /\ s = "finWait1" -> "closing"
    [] FinIn(f) /\ s = "finWait2" -> "closed"
    [] OTHER -> s

\* The SYN-ACK opens the connection; anything else is dropped meanwhile.
Opens(f) ==
  /\ IF f.kind = "SYNACK" /\ f.ack = nxt
     THEN /\ rcvNxt' = Mod(f.seq + 1) /\ una' = nxt /\ wnd' = f.wnd
          /\ st' = "established" /\ retries' = 0 /\ rb' = rb
          /\ Send("ACK", nxt, <<>>)
     ELSE UNCHANGED <<rcvNxt, una, wnd, st, retries, rb>> /\ Quiet
  /\ UNCHANGED <<nxt, finSeq, sbHead, sbTail, hostEof, cardEof, hostShut, ended>>

\* The acknowledgement first, then the payload while it fits, then the FIN.
\* What brought something is acknowledged, what is not the next byte is
\* answered with an ACK that says what is.
Applies(f) ==
  /\ wnd' = f.wnd
  /\ IF NewAck(f)
     THEN /\ una' = f.ack /\ retries' = 0
          /\ sbHead' = sbHead + Acked(f) - (IF FinCounted(f) THEN 1 ELSE 0)
     ELSE UNCHANGED <<una, retries, sbHead>>
  /\ rb' = rb \o SubSeq(f.data, 1, Taken(f))
  /\ rcvNxt' = Mod(rcvNxt + Taken(f) + (IF FinIn(f) THEN 1 ELSE 0))
  /\ cardEof' = (cardEof \/ FinIn(f))
  /\ st' \in {AfterFin(f, AfterAck(f, rest)) : rest \in Rests}
  /\ IF ~InOrder(f) \/ Taken(f) > 0 \/ FinIn(f) THEN Send("ACK", nxt, <<>>) ELSE Quiet
  /\ UNCHANGED <<nxt, finSeq, sbTail, hostEof, hostShut, ended>>

Resets ==
  /\ st' = "closed" /\ cardEof' = TRUE /\ ended' = "reset"
  /\ UNCHANGED <<sendVars, rcvNxt, rb, hostShut, advWnd, h2c>>

\* A frame from the card; of ARP, either teaches its address and the
\* question is answered (arp_in).
HostRecv ==
  /\ pc = "recv" /\ c2h # <<>>
  /\ c2h' = Tail(c2h)
  /\ LET f == Head(c2h)
     IN \/ /\ IsArp(f) \/ st = "free"
           /\ mac' = (mac \/ IsArp(f))
           /\ h2c' = IF f.kind = "WHO" THEN Fit(h2c, Arp) ELSE h2c
           /\ UNCHANGED <<st, advWnd, sendVars, recvVars, ended>>
        \/ /\ ~IsArp(f) /\ st # "free" /\ mac' = mac
           /\ \/ f.kind = "RST" /\ Resets
              \/ f.kind # "RST" /\ st = "synSent" /\ Opens(f)
              \/ f.kind # "RST" /\ st # "synSent" /\ Applies(f)
  /\ UNCHANGED <<pc, quota, cardVars, isn, got>>

\* No more frames: the card's address is asked for every now and then while
\* it is not known (ARP_RETRY_MS), and the connection gets its step.
HostArp ==
  /\ pc = "recv" /\ c2h = <<>> /\ st # "free" /\ pc' = "deliver"
  /\ \/ h2c' = h2c
     \/ ~mac /\ h2c' = Fit(h2c, Who)
  /\ UNCHANGED <<quota, mac, st, advWnd, sendVars, recvVars, c2h, cardVars, history>>

----------------------------------------------------------------------------
(* conn_step.                                                              *)

\* Mutant: the card's end of file is passed on at once.
ShutReadyEarly == cardEof

\* The card ended and everything it sent is delivered.
ShutReady == cardEof /\ rb' = <<>>

\* The peer was throttled and half the buffer is free again.
WindowUpdate == /\ 2 * advWnd < RcvCap /\ 2 * Len(rb') =< RcvCap
                /\ st \in {"established", "finWait1", "finWait2"}

\* 1. Received bytes to the local socket, as many as it takes; a socket
\* that fails aborts the connection.
HostDeliver ==
  /\ pc = "deliver" /\ rcvNxt' = rcvNxt
  /\ \/ /\ st = "closed" /\ pc' = "close"
        /\ UNCHANGED <<st, rb, hostShut, got, ended>> /\ Quiet
     \/ /\ st # "closed" /\ pc' = "read"
        /\ \/ rb' = rb /\ got' = got /\ Quiet
           \/ \E k \in 1 .. Len(rb) :
                /\ got' = got \o SubSeq(rb, 1, k)
                /\ rb' = SubSeq(rb, k + 1, Len(rb))
                /\ IF WindowUpdate THEN Send("ACK", nxt, <<>>) ELSE Quiet
        /\ hostShut' = IF hostShut = "no" /\ ShutReady THEN "write" ELSE hostShut
        /\ UNCHANGED <<st, ended>>
     \/ /\ st # "closed" /\ rb # <<>> /\ pc' = "close"
        /\ st' = "closed" /\ ended' = "hostGone"
        /\ rb' = rb /\ Send("RST", nxt, <<>>)
        /\ UNCHANGED <<hostShut, got>>
  /\ UNCHANGED <<quota, mac, sendVars, cardEof, c2h, cardVars, isn>>

\* The rest of the ring from index i on.
ToEnd(i) == SndCap - (i % SndCap)

\* Room in the send buffer.
Free == SndCap - (sbTail - sbHead)

\* 2. The local socket's bytes into the send buffer, or its end of file
\* (any failure counts as that).
HostRead ==
  /\ pc = "read" /\ pc' = "send"
  /\ \/ UNCHANGED <<sbTail, hostEof>>
     \/ /\ ~hostEof /\ st \in Sending /\ Free > 0
        /\ \/ /\ \E n \in 1 .. HostBytes - sbTail :
                   /\ n =< Free /\ n =< ToEnd(sbTail)
                   /\ sbTail' = sbTail + n
              /\ hostEof' = hostEof
           \/ hostEof' = TRUE /\ sbTail' = sbTail
  /\ UNCHANGED <<quota, mac, st, advWnd, una, nxt, wnd, finSeq, retries, sbHead,
                 recvVars, h2c, c2h, cardVars, history>>

\* The index of the next unsent byte.
Unsent == sbHead + InFlight

\* 3. One segment of unsent bytes within the window, at most SendQuota of
\* them; it counts as sent whether or not the ring took it.
HostSend ==
  LET n == Least(Least(sbTail - Unsent, wnd - InFlight), Least(Mss, ToEnd(Unsent)))
  IN /\ pc = "send"
     /\ IF st \in Sending /\ quota > 0 /\ sbTail # Unsent /\ wnd > InFlight
        THEN /\ nxt' = Mod(nxt + n) /\ quota' = quota - 1 /\ pc' = pc
             /\ UNCHANGED recvVars
             /\ Send("ACK", nxt, Bytes(Unsent, n))
        ELSE pc' = "fin" /\ quota' = SendQuota /\ UNCHANGED <<nxt, recvVars>> /\ Quiet
     /\ UNCHANGED <<mac, st, una, wnd, finSeq, retries, sbHead, sbTail, hostEof,
                    c2h, cardVars, history>>

\* Mutant: the FIN does not wait for the bytes before it.
AllSentAlways == TRUE

AllSent == sbTail = Unsent

\* 4. The FIN, once the local side has ended and everything is sent.
HostFin ==
  /\ pc = "fin" /\ pc' = "timer"
  /\ IF hostEof /\ finSeq = 0 /\ AllSent /\ st \in Sending
     THEN /\ st' = IF st = "established" THEN "finWait1" ELSE "lastAck"
          /\ finSeq' = nxt /\ nxt' = Mod(nxt + 1)
          /\ UNCHANGED recvVars
          /\ Send("FIN", nxt, <<>>)
     ELSE UNCHANGED <<st, finSeq, nxt, recvVars>> /\ Quiet
  /\ UNCHANGED <<quota, mac, una, wnd, retries, sbHead, sbTail, hostEof, c2h,
                 cardVars, history>>

\* Mutant: the timer is for the bytes in the send buffer.
TimerForBytes == sbHead # sbTail

TimerRuns == nxt # una

\* What the timer sends again: the SYN, one segment from the first
\* unacknowledged byte (sent already or not), or the FIN.
Resend ==
  LET n == Least(Least(sbTail - sbHead, Mss), ToEnd(sbHead))
  IN CASE st = "synSent" -> Send("SYN", una, <<>>)
       [] st # "synSent" /\ n # 0 -> Send("ACK", una, Bytes(sbHead, n))
       [] st # "synSent" /\ n = 0 /\ finSeq # 0 -> Send("FIN", finSeq, <<>>)
       [] OTHER -> Quiet

\* 5. The retransmission timer: nothing in flight, or not due yet ...
HostTimerWaits ==
  /\ pc = "timer" /\ pc' = "close"
  /\ UNCHANGED <<quota, mac, st, advWnd, sendVars, recvVars, h2c, c2h, cardVars, history>>

\* ... or due, which it may be at any look (the deadline is C_RTO after the
\* last arm_rto); after MaxRetries in a row the connection is given up.
HostTimerFires ==
  /\ pc = "timer" /\ TimerRuns /\ pc' = "close"
  /\ retries' = retries + 1 /\ UNCHANGED recvVars
  /\ IF retries < MaxRetries
     THEN Resend /\ UNCHANGED <<st, ended>>
     ELSE st' = "closed" /\ ended' = "gaveUp" /\ Quiet
  /\ UNCHANGED <<quota, mac, una, nxt, wnd, finSeq, sbHead, sbTail, hostEof, c2h,
                 cardVars, isn, got>>

\* 6. A closed connection shuts the local socket both ways and frees its
\* slot; what the receive buffer still holds goes with it.
HostClose ==
  /\ pc = "close" /\ pc' = "recv"
  /\ IF st = "closed"
     THEN /\ st' = "free" /\ hostShut' = "both"
          /\ ended' = IF ended = "none" THEN "orderly" ELSE ended
     ELSE UNCHANGED <<st, hostShut, ended>>
  /\ UNCHANGED <<quota, mac, advWnd, sendVars, rcvNxt, rb, cardEof, h2c, c2h,
                 cardVars, isn, got>>

----------------------------------------------------------------------------
(* The card's TCP (external): it answers the SYN, takes bytes in order     *)
(* within its window, sends within ours, repeats what is not acknowledged, *)
(* probes a closed window, and may reset the connection.                   *)

hostVars == <<passVars, st, advWnd, sendVars, recvVars, history>>

CardSeq(pos) == Mod(CardIsn + 1 + pos)
CardOut(kind, pos, data) ==
  c2h' = Fit(c2h, Segment(kind, CardSeq(pos),
                          Mod(isn + 1 + Len(up') + (IF cFin' THEN 1 ELSE 0)),
                          CardCap - unread', data))

\* New bytes of a segment: past those it has, within its window.
CardTake(f) ==
  LET off == Mod(isn + 1 + Len(up) - f.seq)
  IN IF cFin \/ off > Len(f.data) THEN <<>>
     ELSE SubSeq(f.data, off + 1, Least(Len(f.data), off + CardCap - unread))

CardSegment(f) ==
  LET acked == Mod(f.ack - CardSeq(cAcked))
  IN /\ cst' = "open" /\ cWnd' = f.wnd
     /\ cAcked' = IF acked =< cSent - cAcked THEN cAcked + acked ELSE cAcked
     /\ up' = up \o CardTake(f) /\ unread' = unread + Len(CardTake(f))
     /\ cFin' = (cFin \/ (f.kind = "FIN" /\ f.seq = Mod(isn + 1 + Len(up'))))
     /\ IF f.data # <<>> \/ f.kind = "FIN" THEN CardOut("ACK", cSent, <<>>) ELSE c2h' = c2h
     /\ UNCHANGED <<cSent, cTries>>

\* The card forgets the connection.
CardGone ==
  /\ cst' = "gone" /\ unread' = 0 /\ cAcked' = cSent /\ cWnd' = 0 /\ cTries' = 0
  /\ UNCHANGED <<up, cFin, cSent>>

CardIn ==
  /\ h2c # <<>> /\ h2c' = Tail(h2c)
  /\ LET f == Head(h2c)
     IN \/ UNCHANGED <<cardVars, c2h>>              \* no memory for it
        \/ f.kind = "WHO" /\ c2h' = Fit(c2h, Arp) /\ UNCHANGED cardVars
        \/ /\ f.kind = "SYN" /\ cst # "gone"
           /\ cst' = IF cst = "listen" THEN "synRcvd" ELSE cst
           /\ UNCHANGED <<up, unread, cFin, cSent, cAcked, cWnd, cTries>>
           /\ IF cst' = "synRcvd" THEN CardOut("SYNACK", -1, <<>>) ELSE CardOut("ACK", cSent, <<>>)
        \/ f.kind = "RST" /\ CardGone /\ c2h' = c2h
        \/ f.kind \in {"ACK", "FIN"} /\ cst # "gone" /\ CardSegment(f)
        \/ /\ f.kind \in {"SYN", "ACK", "FIN"} /\ cst = "gone"
           /\ UNCHANGED cardVars /\ CardOut("RST", cSent, <<>>)
  /\ UNCHANGED hostVars

CardRead ==
  /\ cst = "open" /\ unread > 0 /\ unread' \in 0 .. unread - 1
  /\ UNCHANGED <<cst, up, cFin, cSent, cAcked, cWnd, cTries>>
  /\ IF unread = CardCap THEN CardOut("ACK", cSent, <<>>) ELSE c2h' = c2h
  /\ UNCHANGED <<hostVars, h2c>>

\* Bytes, with or without the FIN behind them, or the FIN alone.
CardSend ==
  /\ cst = "open" /\ cSent =< CardBytes
  /\ \E n \in 0 .. Least(Mss, CardBytes - cSent), fin \in {0, 1} :
       /\ fin = 1 => cSent + n = CardBytes
       /\ n + fin > 0 /\ n =< cWnd - (cSent - cAcked)
       /\ cSent' = cSent + n + fin
       /\ UNCHANGED <<cst, up, unread, cFin, cAcked, cWnd, cTries>>
       /\ CardOut(IF fin = 1 THEN "FIN" ELSE "ACK", cSent, Bytes(cSent, n))
  /\ UNCHANGED <<hostVars, h2c>>

CardTimer ==
  LET n == Least(Mss, Least(cSent, CardBytes) - cAcked)
  IN /\ cTries < MaxCardRetries /\ cTries' = cTries + 1
     /\ UNCHANGED <<cst, up, unread, cFin, cSent, cAcked, cWnd>>
     /\ \/ cst = "synRcvd" /\ CardOut("SYNACK", -1, <<>>)
        \/ /\ cst = "open" /\ cAcked < cSent
           /\ CardOut(IF cAcked + n + 1 = cSent /\ cSent > CardBytes THEN "FIN" ELSE "ACK",
                      cAcked, Bytes(cAcked, n))
        \/ /\ cst = "open" /\ cAcked = cSent /\ cWnd = 0 /\ cSent < CardBytes
           /\ CardOut("ACK", cSent - 1, <<>>)
     /\ UNCHANGED <<hostVars, h2c>>

\* The card asks for the daemon's address.
CardAsks ==
  /\ cst \in {"synRcvd", "open"}
  /\ cTries < MaxCardRetries /\ cTries' = cTries + 1
  /\ c2h' = Fit(c2h, Who)
  /\ UNCHANGED <<hostVars, h2c, cst, up, unread, cFin, cSent, cAcked, cWnd>>

CardAbort ==
  /\ cst = "open" /\ CardGone
  /\ CardOut("RST", cSent, <<>>)
  /\ UNCHANGED <<hostVars, h2c>>

----------------------------------------------------------------------------
Init ==
  /\ pc = "recv" /\ quota = SendQuota /\ mac \in BOOLEAN
  /\ st = "free" /\ una = 0 /\ nxt = 0 /\ rcvNxt = 0 /\ wnd = 0 /\ advWnd = 0
  /\ finSeq = 0 /\ retries = 0
  /\ sbHead = 0 /\ sbTail = 0 /\ rb = <<>>
  /\ hostEof = FALSE /\ cardEof = FALSE /\ hostShut = "no"
  /\ h2c = <<>> /\ c2h = <<>>
  /\ cst = "listen" /\ up = <<>> /\ unread = 0 /\ cFin = FALSE
  /\ cSent = 0 /\ cAcked = 0 /\ cWnd = 0 /\ cTries = 0
  /\ isn = 0 /\ got = <<>> /\ ended = "none"

HostNext == \/ HostRecv \/ HostArp \/ HostDeliver \/ HostRead \/ HostSend
            \/ HostFin \/ HostTimerWaits \/ HostTimerFires
            \/ HostClose
CardNext == CardIn \/ CardRead \/ CardSend \/ CardTimer \/ CardAsks \/ CardAbort

Next == Connect \/ HostNext \/ CardNext
Spec == Init /\ [][Next]_vars

\* The daemon's loop runs, and time passes: a timer that runs for ever is
\* found due.  Nothing is asked of the card.
FairSpec == Spec /\ WF_vars(HostNext) /\ SF_vars(HostTimerFires)

----------------------------------------------------------------------------
(* Properties.                                                             *)

Open == {"established", "finWait1", "finWait2", "closeWait", "lastAck", "closing"}
Kind == {"WHO", "ARP", "SYN", "SYNACK", "ACK", "FIN", "RST"}

Seg == [kind : Kind, seq : 0 .. SeqMod - 1, ack : 0 .. SeqMod - 1, wnd : Nat, data : Seq(Int)]

\* Every variable keeps its shape; both buffers stay within their capacity.
TypeOK ==
  /\ pc \in {"recv", "deliver", "read", "send", "fin", "timer", "close"}
  /\ quota \in 0 .. SendQuota /\ mac \in BOOLEAN /\ hostEof \in BOOLEAN
  /\ cardEof \in BOOLEAN /\ hostShut \in {"no", "write", "both"} /\ cFin \in BOOLEAN
  /\ st \in Open \cup {"free", "synSent", "closed"}
  /\ {una, nxt, rcvNxt, finSeq, isn} \subseteq 0 .. SeqMod - 1
  /\ wnd \in 0 .. CardCap + Mss /\ advWnd \in 0 .. RcvCap
  /\ retries \in 0 .. MaxRetries + 1
  /\ sbHead \in Nat /\ sbTail \in 0 .. HostBytes /\ sbTail - sbHead =< SndCap
  /\ rb \in Seq(1 .. CardBytes) /\ Len(rb) =< RcvCap
  /\ got \in Seq(1 .. CardBytes) /\ up \in Seq(Int)
  /\ h2c \in Seq(Seg) /\ Len(h2c) =< RingCap /\ c2h \in Seq(Seg) /\ Len(c2h) =< RingCap
  /\ cst \in {"listen", "synRcvd", "open", "gone"} /\ unread \in 0 .. CardCap
  /\ cSent \in 0 .. CardBytes + 1 /\ cAcked \in 0 .. cSent
  /\ ended \in {"none", "orderly", "reset", "hostGone", "gaveUp"}

On(ring) == {ring[i] : i \in 1 .. Len(ring)}
One(b) == IF b THEN 1 ELSE 0
Fresh == st = "free" /\ ended = "none"

\* A free slot has no pass to make, and from conn_step's second part on the
\* connection is not closed.
PassAgrees ==
  /\ pc # "recv" => st # "free"
  /\ pc \in {"read", "send", "fin", "timer"} => st # "closed"
  /\ st \notin {"free", "closed"} \/ Fresh => retries =< MaxRetries

\* What the card sends is a piece of its stream, the FIN at its end; the
\* receive buffer goes on where the local socket is, and rcv_nxt where it
\* ends, whatever is repeated or comes twice.
CardPos(f) == Mod(f.seq - CardIsn - 1)
FromCard(f) ==
  /\ f.kind # "SYN" /\ (f.kind = "SYNACK" => f.seq = CardIsn)
  /\ f.wnd =< CardCap
  /\ f.data = Bytes(CardPos(f), Len(f.data))
  /\ f.data # <<>> => CardPos(f) + Len(f.data) =< CardBytes
  /\ f.kind = "FIN" => CardPos(f) + Len(f.data) = CardBytes
Received == Len(got) + Len(rb)
RecvSync ==
  /\ rb = Bytes(Len(got), Len(rb)) /\ Received =< CardBytes
  /\ rcvNxt = CardSeq(Received + One(cardEof))
  /\ cardEof => Received = CardBytes
RecvAgrees ==
  /\ \A f \in On(c2h) : FromCard(f)
  /\ st \in Open => RecvSync
  /\ st = "synSent" \/ Fresh => rb = <<>> /\ got = <<>> /\ ~cardEof /\ hostShut = "no"

\* A connection that ends by itself has seen the card's FIN, so everything
\* the card sent is received, and stays so until the slot is free.
CloseAgrees ==
  /\ st \in {"closeWait", "lastAck", "closing"} => cardEof
  /\ st = "closed" /\ ended = "none" => cardEof /\ RecvSync
  /\ ended = "orderly" => st = "free" /\ Received = CardBytes

\* The send buffer's head is the byte snd_una stands for, the FIN being one
\* sequence number past the buffer: acknowledgements, however they arrive,
\* never free a byte the card has not got, nor keep one it has.
BufferAgrees ==
  /\ finSeq # 0 => finSeq = isn + 1 + sbTail
  /\ st \in Open =>
       /\ sbHead =< sbTail /\ una =< nxt
       /\ una = isn + 1 + sbHead + One(finSeq # 0 /\ una = finSeq + 1)
       /\ IF finSeq = 0 THEN st \in Sending /\ nxt =< isn + 1 + sbTail
                        ELSE st \notin Sending /\ nxt = finSeq + 1
  /\ st = "synSent" => una = isn /\ nxt = isn + 1
  /\ st = "synSent" \/ Fresh => sbHead = 0 /\ sbTail = 0 /\ finSeq = 0

\* What is on its way to the card is a piece of what the local side gave,
\* the FIN behind all of it; the card has no more than that, and
\* acknowledges no more than it has.
FromHost(f) ==
  /\ f.data # <<>> => /\ f.seq > isn /\ f.data = Bytes(f.seq - isn - 1, Len(f.data))
                     /\ f.seq - isn - 1 + Len(f.data) =< sbTail
  /\ f.kind = "FIN" => finSeq # 0 /\ f.seq = finSeq /\ f.data = <<>>
AcksWhatItHas(f) ==
  f.kind \in {"SYNACK", "ACK", "FIN"} => f.ack \in isn + 1 .. isn + 1 + Len(up) + One(cFin)
SendAgrees ==
  /\ \A f \in On(h2c) : FromHost(f)
  /\ \A f \in On(c2h) : AcksWhatItHas(f)
  /\ Len(up) =< sbTail /\ (cFin => finSeq # 0)
  /\ isn + HostBytes + 2 < SeqMod
  /\ Fresh => h2c = <<>> /\ c2h = <<>> /\ cst = "listen"

\* The connection's fields keep their types, its receive buffer agrees with
\* rcv_nxt and its send buffer with snd_una (tcp_in, tcp_send_segment).
TcpInv == TypeOK /\ PassAgrees /\ RecvAgrees /\ CloseAgrees /\ BufferAgrees /\ SendAgrees

\* The card gets the local side's bytes in order, none twice and none left
\* out, whatever is dropped, repeated or sent before its time.
CardInOrder == up = Bytes(0, Len(up))

\* The local side gets the card's bytes in order, none twice, none left out.
HostInOrder == got = Bytes(0, Len(got))

\* When the card sees the end of the stream it has all of the stream: the
\* FIN never overtakes a byte.
CardEofComplete == cFin => Len(up) = sbTail

\* conn_step shuts the local socket's write side for the card's end of file
\* only when every byte the card sent has been delivered to it (HalfShut).
\* A connection that ends by itself is shut both ways without that: what it
\* may lose is the rest the receive buffer holds, never a byte the card sent
\* and did not get acknowledged (FullShut).
HalfShut == hostShut = "write" => Len(got) = CardBytes
FullShut == hostShut = "both" /\ ended = "orderly" => Received = CardBytes
ShutComplete == HalfShut /\ FullShut

\* However the local socket is shut, when the connection ended by itself every
\* byte before the card's FIN has been delivered: what tcp.md says of the
\* close.  conn_step skips the delivery of a closed connection, so it is not
\* so: a last segment with bytes and the FIN in FIN-WAIT-2 loses the bytes.
ClosedComplete == hostShut = "both" /\ ended = "orderly" => Len(got) = CardBytes

\* A FIN is acknowledged by the card, or the connection is given up: it is
\* resent until then, whichever ring drops it.
FinSettles == (finSeq # 0) ~> (una = nxt \/ st \in {"closed", "free"})

\* Having sent its FIN, a connection leaves the states that wait for the
\* acknowledgement, as the comment in tcp_in has it: acknowledged, or given
\* up.  It does not: the register compared is no longer the acknowledgement.
FinLeaves == (st \in {"finWait1", "closing", "lastAck"}) ~> (st \in {"finWait2", "closed", "free"})
=============================================================================
