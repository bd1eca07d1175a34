---------------------------- MODULE FrameDecoder ----------------------------
(***************************************************************************)
(* The incremental decoder of phi-rpc (Decoder in lib.rs) at the receiving *)
(* end of a byte stream that arrives in pieces of any size, cut anywhere.  *)
(* The sender writes a sequence of frames; some are well formed, some are  *)
(* truncated, have an unknown tag, text that is not UTF-8, or a length     *)
(* field out of range.                                                     *)
(***************************************************************************)
EXTENDS Wire, FiniteSetsExt

CONSTANTS
    Streams,    \* sequences of frames the sender may write
    Pieces      \* how many bytes one push may carry

ASSUME PieceSizes == Pieces \subseteq Nat

VARIABLES
    stream,     \* the frames sent: [bytes, expect], chosen at the start
    line,       \* bytes sent and not pushed yet
    buf,        \* Decoder.buf
    since,      \* results of next_frame since the buffer was last cleared
    from,       \* how many bytes of the stream were gone when it was
    idle        \* next_frame has returned None since the last push

vars == <<stream, line, buf, since, from, idle>>

\* Where the k-th frame ends, counted in bytes of the stream.
Bytes(frames) == [i \in DOMAIN frames |-> frames[i].bytes]
BytesOf(frames) == Concat(Bytes(frames))
EndOf(k) == Len(Joined(Bytes(stream))[k])

FrameInit ==
    /\ stream \in Streams
    /\ line = BytesOf(stream)
    /\ buf = << >>
    /\ since = << >>
    /\ from = 0
    /\ idle = TRUE

push(n) ==
    /\ idle
    /\ n <= Len(line)
    /\ buf' = buf \o SubSeq(line, 1, n)
    /\ line' = SubSeq(line, n + 1, Len(line))
    /\ idle' = FALSE
    /\ UNCHANGED <<stream, since, from>>

-----------------------------------------------------------------------------
(* next_frame, one action per way it returns *)
HasLength == Len(buf) >= 4
length == Number(SubSeq(buf, 1, 4))
OutOfRange == length = 0 \/ length > MAX_FRAME
\* A frame waits for a byte of the next.
WholeLate == Len(buf) > 4 + length
Whole == Len(buf) >= 4 + length

NoFrame ==
    /\ ~idle
    /\ HasLength => ~OutOfRange /\ ~Whole
    /\ idle' = TRUE
    /\ UNCHANGED <<stream, line, buf, since, from>>

\* The frame boundary is lost: everything buffered goes.
BadLength ==
    /\ ~idle
    /\ HasLength /\ OutOfRange
    /\ buf' = << >>
    /\ since' = << >>
    /\ from' = Len(BytesOf(stream)) - Len(line)
    /\ UNCHANGED <<stream, line, idle>>

\* The frame leaves the buffer whether its body decodes or not.
TakeFrame ==
    /\ ~idle
    /\ HasLength /\ ~OutOfRange /\ Whole
    /\ since' = Append(since, decode_body(buf[5], SubSeq(buf, 6, 4 + length)))
    /\ buf' = SubSeq(buf, 5 + length, Len(buf))
    /\ UNCHANGED <<stream, line, from, idle>>

next_frame == NoFrame \/ BadLength \/ TakeFrame

Finished == idle /\ line = << >> /\ UNCHANGED vars

FrameNext == (\E n \in Pieces : push(n)) \/ next_frame \/ Finished

FrameSpec == FrameInit /\ [][FrameNext]_vars

-----------------------------------------------------------------------------
(* What the sender can write, and what the receiver must make of it. *)

\* The text that survives: its longest prefix that fits and is still UTF-8.
Kept(s) ==
    LET fit == {n \in 0..Len(s) : n <= MAX_STRING /\ ValidUtf8(SubSeq(s, 1, n))}
    IN  SubSeq(s, 1, Max(fit))
FirstItems(xs) == SubSeq(xs, 1, count(Len(xs)))
KeptDevs(ds) ==
    [i \in 1..count(Len(ds)) |-> [ds[i] EXCEPT ![1] = Kept(@)]]
KeptProcs(ps) ==
    [i \in 1..count(Len(ps)) |-> [ps[i] EXCEPT ![7] = Kept(@)]]

Normal(m) ==
    CASE m.tag = "Exec" ->
            Msg("Exec",
                <<[i \in 1..count(Len(m.f[1])) |-> <<Kept(m.f[1][i][1])>>],
                  [i \in 1..count(Len(m.f[2])) |-> <<Kept(m.f[2][i][1]), Kept(m.f[2][i][2])>>],
                  IF m.f[3] = << >> THEN None
                  ELSE IF m.f[3] = None THEN None ELSE Kept(m.f[3])>>)
      [] m.tag \in OneString \cup {"PutOpen"} -> Msg(m.tag, [m.f EXCEPT ![1] = Kept(@)])
      [] m.tag = "StatReply" ->
            Msg("StatReply",
                [m.f EXCEPT ![2] = FirstItems(@), ![14] = FirstItems(@),
                            ![18] = KeptDevs(@), ![19] = KeptDevs(@), ![20] = KeptProcs(@)])
      [] OTHER -> m

\* A message too long for a frame is written all the same, and refused.
Fits(m) == 1 + Len(EncodeBody(m)) <= MAX_FRAME
Sent(m) == [bytes |-> encode(m), expect |-> IF Fits(m) THEN Normal(m) ELSE Err("Length")]
\* m with its body cut short to n bytes, and with bytes after its last field.
Cut(m, n) == [bytes |-> Frame(TAG[m.tag], SubSeq(EncodeBody(m), 1, n)),
              expect |-> Err("Malformed")]
Padded(m, extra) == [bytes |-> Frame(TAG[m.tag], EncodeBody(m) \o extra),
                     expect |-> Normal(m)]
Unknown(tag, body) == [bytes |-> Frame(tag, body), expect |-> Err("Tag")]
\* A frame whose length field says n, out of range.
Oversize(n, tag, body) == [bytes |-> put_u32(n) \o <<tag>> \o body, expect |-> Err("Length")]

-----------------------------------------------------------------------------
(* What the proofs take for granted of a sender: the length field of a frame
   counts its other bytes, or no decoder accepts it.                        *)
LengthField(b) == Number(SubSeq(b, 1, 4))
Framed(f) ==
    /\ f.bytes \in Seq(Nat) /\ Len(f.bytes) >= 4
    /\ \/ f.expect = Err("Length") /\ LengthField(f.bytes) \notin 1..MAX_FRAME
       \/ LengthField(f.bytes) \in 1..MAX_FRAME /\ Len(f.bytes) = 4 + LengthField(f.bytes)
ASSUME StreamsFramed ==
    \A s \in Streams : s \in Seq({s[k] : k \in DOMAIN s}) /\ \A k \in DOMAIN s : Framed(s[k])

Arrived == Len(BytesOf(stream)) - Len(line)

\* Where a frame begins, and how many were sent before it.
Begins(p) == \E k \in 0..Len(stream) : p = EndOf(k)
Before(p) == CHOOSE k \in 0..Len(stream) : p = EndOf(k)

(* However the stream is cut into pieces, as long as the decoder starts on a
   frame boundary it reports exactly the frames sent, in order: a message
   comes back with its strings and lists at their wire limits and otherwise
   unchanged, and a truncated body, text that is not UTF-8 or an unknown tag
   costs that one frame and nothing else. The buffer is thrown away only once
   a length field that is out of range has arrived (next_frame, decode_body,
   encode). *)
FramesIntact ==
    /\ Begins(from) =>
          /\ Before(from) + Len(since) <= Len(stream)
          /\ \A i \in DOMAIN since : since[i] = stream[Before(from) + i].expect
    /\ from > 0 =>
          \E k \in DOMAIN stream :
              /\ stream[k].expect = Err("Length")
              /\ EndOf(k - 1) + 4 <= from

(* When next_frame says there is no more, every frame that has arrived whole
   since the last loss of sync has been reported, and what stays buffered is
   less than one frame of the largest size (next_frame, pending).           *)
NothingHeldBack ==
    idle =>
        /\ Len(buf) < 4 + MAX_FRAME
        /\ Begins(from) =>
              \A k \in Before(from)..Len(stream) :
                  EndOf(k) <= Arrived => Before(from) + Len(since) >= k
=============================================================================
