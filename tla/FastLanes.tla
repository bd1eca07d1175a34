----------------------------- MODULE FastLanes -----------------------------
(***************************************************************************)
(* The FastLanes backend: fls_unffor_kernel, fls_dispatch and              *)
(* fls_mask_constants of host/crates/knc-mvex/src/main.rs. The layout has  *)
(* 32 lanes, so a row of 32 words is two vectors, and the kernel is run    *)
(* once for each half. The input starts at any multiple of four bytes, and *)
(* every vector of it is read by the pair vloadunpackld, vloadunpackhd:    *)
(* the model follows one column of the vector (lane job.col of half 0 and  *)
(* lane job.col + 16 of half 1) for an input that starts job.res words     *)
(* after a 64-byte line.                                                   *)
(***************************************************************************)
EXTENDS LaneCodec

CONSTANTS
    Columns,    \* the columns of the vector that are followed
    Residues    \* the words by which the input misses a 64-byte line

ASSUME ColumnsInVector == Columns \subseteq 0..15 /\ Residues \subseteq 0..15

FLS_POSITIONS == 32
FlsBaseWord == Word(2000)

\* Addresses are in words from the line the input starts in; the input
\* element k is at job.res + k.
LineOf(a) == a \div 16

\* External: what the two halves of an unaligned load do to one column
\* (ISA reference 327364-001, VLOADUNPACKLD and VLOADUNPACKHD). The low half
\* fills the columns up to the end of its line, the high half the others from
\* the start of the line its address (64 bytes on) lies in.
vloadunpackld(e, old) ==
    LET r == (job.res + e) % 16
    IN  IF job.col < 16 - r THEN Fetch(mem, <<"in", e + job.col>>) ELSE old
vloadunpackhd(e, old) ==
    LET r == (job.res + e) % 16
    IN  IF job.col >= 16 - r
          THEN Fetch(mem, <<"in", e - r + (job.col - (16 - r))>>)
          ELSE old

word_at(half, w) == 32 * w + 16 * half
\* The high half at the address of the low half.
word_hiSame(half, w) == 32 * w + 16 * half
word_hi(half, w) == 32 * w + 16 * half + 16

\* The words of a group: every low half before any high half.
fls_loads(half, bits, start) ==
    LET w(d) == first_word(bits, start) + d
        n == n_words(bits, start)
        low == [d \in 0..31 |-> IF d < n THEN vloadunpackld(word_at(half, w(d)), zmm[d]) ELSE zmm[d]]
    IN  [d \in 0..31 |-> IF d < n THEN vloadunpackhd(word_hi(half, w(d)), low[d]) ELSE low[d]]

\* Lines the loads of a group read from. A high half whose address is on a
\* line transfers nothing and is exempt from faults.
fls_lines(half, bits, start) ==
    LET ws == first_word(bits, start)..first_word(bits, start) + n_words(bits, start) - 1
    IN  {LineOf(job.res + word_at(half, w)) : w \in ws}
        \cup IF job.res = 0 THEN {}
             ELSE {LineOf(job.res + word_hi(half, w)) : w \in ws}

fls_group(half, bits, start) ==
    ExtractGroup(bits, start)
    \o Loop(GROUP, LAMBDA p : <<Vpaddd(temp(p, 1), base, result(bits, start, p))>>)
    \o Loop(GROUP, LAMBDA p : <<Store(<<"out", 2 * (start + p) + half>>, temp(p, 1))>>)

FlsJobs == [kind : {"fls"}, bits : 0..33, col : Columns, res : Residues, lines : {{}}]

FlsInit ==
    /\ job \in FlsJobs
    /\ pc = [stage |-> "call", i |-> 0, round |-> 0]
    /\ zmm = EntryRegisters
    /\ mem = [in   |-> [e \in 0..32 * job.bits - 1 |-> Plain(Word(e))],
              out  |-> Fresh(2 * FLS_POSITIONS),
              base |-> [k \in {0} |-> Plain(FlsBaseWord)],
              mask |-> [k \in {0} |-> Plain(mask_constants(job.bits))]]

\* knc_fls_unffor compares the width with 32 and jumps through 33 entries;
\* the zero-bit kernel stores the base everywhere and returns.
FlsCall ==
    LET entry == <<Load(base, <<"base", 0>>)>> IN
    /\ pc.stage = "call"
    /\ job.kind = "fls"
    /\ \/ /\ job.bits > 32
          /\ pc' = [pc EXCEPT !.stage = "refused"]
          /\ UNCHANGED <<zmm, mem>>
       \/ /\ job.bits = 0
          /\ pc' = [pc EXCEPT !.stage = "unffor", !.i = FLS_POSITIONS, !.round = 1]
          /\ Execute(zmm, entry \o Loop(2 * FLS_POSITIONS, LAMBDA k : <<Store(<<"out", k>>, base)>>))
       \/ /\ job.bits \in 1..32
          /\ pc' = [pc EXCEPT !.stage = "unffor"]
          /\ Execute(zmm, entry \o When(job.bits < 32, Load(maskreg, <<"mask", 0>>)))
    /\ UNCHANGED job

\* pc.round is the half. The generator asserts that the words fit.
FlsStep ==
    /\ pc.stage = "unffor"
    /\ pc.i < FLS_POSITIONS
    /\ n_words(job.bits, pc.i) <= WORD_REGS
    /\ Execute(fls_loads(pc.round, job.bits, pc.i), fls_group(pc.round, job.bits, pc.i))
    /\ job' = [job EXCEPT !.lines = @ \cup fls_lines(pc.round, job.bits, pc.i)]
    /\ pc' = IF pc.i + GROUP = FLS_POSITIONS /\ pc.round = 0
               THEN [pc EXCEPT !.i = 0, !.round = 1]
               ELSE [pc EXCEPT !.i = @ + GROUP]

FlsDone ==
    \/ pc.stage = "refused"
    \/ pc.stage = "unffor" /\ pc.round = 1 /\ pc.i = FLS_POSITIONS

FlsNext == FlsCall \/ FlsStep

FlsSpec == FlsInit /\ [][FlsNext]_laneVars

-----------------------------------------------------------------------------
(* FastLanes' unffor: value p of a lane is the bits p N .. p N + N - 1 of the
   lane's words, plus the base. Every slot the kernel has stored holds it, in
   both halves, for every width from 0 on and wherever the input starts: the
   two halves of an unaligned load meet without a gap. The loads read only
   lines the input has a word in, so what they touch past its end is never on
   a page the input does not reach (the argument of the kernel's comment). *)
UnfforMatchesLayout ==
    /\ job.kind = "fls" =>
        job.lines \subseteq {LineOf(job.res + e) : e \in DOMAIN mem.in}
    /\ (job.kind = "fls" /\ pc.stage = "unffor") =>
        LET stored(p, h) == h < pc.round \/ (h = pc.round /\ p < pc.i)
            bit(p, h, b) == LET q == p * job.bits + b
                            IN  SrcBit(32 * (q \div 32) + 16 * h + job.col, q % 32)
            value(p, h) == [b \in BitsOfWord |-> IF b < job.bits THEN bit(p, h, b) ELSE 0]
            expected(p, h) == IF job.bits = 0 THEN <<FlsBaseWord>>
                                              ELSE <<FlsBaseWord, value(p, h)>>
        IN  /\ DOMAIN mem.out = 0..2 * FLS_POSITIONS - 1
            /\ \A p \in 0..FLS_POSITIONS - 1, h \in 0..1 :
                  mem.out[2 * p + h] = IF stored(p, h)
                                         THEN [plus |-> expected(p, h), minus |-> << >>]
                                         ELSE Unwritten
=============================================================================
