----------------------------- MODULE LaneCodec -----------------------------
(***************************************************************************)
(* libknc's bit-packing kernels on one lane: the generator functions       *)
(* unpack_kernel, transform_kernel, pack_kernel, dispatch_thunks and       *)
(* dispatch_tables of host/crates/knc-mvex/src/main.rs, called through the *)
(* Rust binding card/lib/knc-rs/src/lib.rs or its C entry points, in the   *)
(* order of knc-rs/src/main.rs (check_every_width, check_cascades):        *)
(* encode, pack, unpack.                                                   *)
(***************************************************************************)
EXTENDS VpuLane

POSITIONS == 64            \* values of a lane: BLOCK / LANES = 1024 / 16
MAX_WORDS == 64            \* words of a lane in the widest packed block
GROUP == 8
WORD_REGS == 10
PACK_WORDS == 4
WAYS == 2
EaxModulus == 2^16         \* stands for 2^32, beyond TLC's integers

Modes == {"plain", "for", "delta"}

\* Names of the input words: value v, the lane's base, and residue v.
XWord(v) == Word(v)
BaseWord == Word(64)
ResWord(v) == Word(100 + v)

place(bits, v) == [w |-> (bits * v) \div 32, s |-> (bits * v) % 32]
Straddles(bits, v) == place(bits, v).s + bits > 32

mask_constants(bits) == [b \in BitsOfWord |-> IF b < bits THEN 1 ELSE 0]

-----------------------------------------------------------------------------
(* unpack_kernel *)
temp(p, half) == WORD_REGS + 2 * p + half
maskreg == 30
base == 26
acc == 27

UnpackPrologue(bits, mode) ==
    When(mode = "for", Load(base, <<"base", 0>>))
    \o When(mode = "delta", Load(acc, <<"base", 0>>))
    \o When(bits < 32, Load(maskreg, <<"mask", 0>>))

first_word(bits, start) == place(bits, start).w
n_words(bits, start) ==
    (bits * (start + GROUP - 1) + bits - 1) \div 32 - first_word(bits, start) + 1

\* The extraction of a group's values, phase by phase, from the word
\* registers into temp(p, 0); shared with the FastLanes kernel, whose
\* emission of these four phases is the same.
ExtractGroup(bits, start) ==
    LET wreg(w) == w - first_word(bits, start)
        at(p) == place(bits, start + p)
        over(p) == Straddles(bits, start + p)
    IN  Loop(GROUP, LAMBDA p : When(at(p).s # 0, Vpsrld(temp(p, 0), wreg(at(p).w), at(p).s)))
        \o Loop(GROUP, LAMBDA p : When(over(p), Vpslld(temp(p, 1), wreg(at(p).w + 1), 32 - at(p).s)))
        \o Loop(GROUP, LAMBDA p : When(over(p), Vpord(temp(p, 0), temp(p, 0), temp(p, 1))))
        \o Loop(GROUP, LAMBDA p : When(at(p).s + bits # 32,
               Vpandd(temp(p, 0), IF at(p).s = 0 THEN wreg(at(p).w) ELSE temp(p, 0), maskreg)))

result(bits, start, p) ==
    IF bits = 32 THEN place(bits, start + p).w - first_word(bits, start) ELSE temp(p, 0)

\* The running sum taken from the temporaries at every width, also at 32,
\* where the values are still in the word registers.
FinishGroupTemp(bits, mode, start) ==
    Loop(GROUP, LAMBDA p : <<Vpaddd(acc, acc, temp(p, 0)), Store(<<"out", start + p>>, acc)>>)
FinishGroup(bits, mode, start) ==
    CASE mode = "plain" ->
            Loop(GROUP, LAMBDA p : <<Store(<<"out", start + p>>, result(bits, start, p))>>)
      [] mode = "for" ->
            Loop(GROUP, LAMBDA p : <<Vpaddd(temp(p, 0), base, result(bits, start, p))>>)
            \o Loop(GROUP, LAMBDA p : <<Store(<<"out", start + p>>, temp(p, 0))>>)
      [] mode = "delta" ->
            Loop(GROUP, LAMBDA p : <<Vpaddd(acc, acc, result(bits, start, p)),
                                     Store(<<"out", start + p>>, acc)>>)

unpack_group(bits, mode, start) ==
    Loop(n_words(bits, start),
         LAMBDA w : <<Load(w, <<"packed", first_word(bits, start) + w>>)>>)
    \o ExtractGroup(bits, start)
    \o FinishGroup(bits, mode, start)

-----------------------------------------------------------------------------
(* transform_kernel: out[v] = values[v] - base, or minus the value before. *)
\* The value before is never moved up.
transform_stepFixed(mode, v) ==
    <<Load(27, <<"values", v>>), Vpsubd(28, 27, base), Store(<<"staged", v>>, 28)>>
transform_step(mode, v) ==
    <<Load(27, <<"values", v>>),
      Vpsubd(28, 27, base),
      Store(<<"staged", v>>, 28)>>
    \o When(mode = "delta", Move(base, 27))

-----------------------------------------------------------------------------
(* pack_kernel *)
packAcc(j, way) == WAYS * j + way
packTmp(j) == PACK_WORDS * WAYS + j

\* A value that goes on into the next word leaves only its low part.
piecesCut(bits, w) ==
    LET lands(v) == place(bits, v).w = w
    IN  Loop(POSITIONS, LAMBDA v : When(lands(v), [value |-> v, left |-> TRUE, amount |-> place(bits, v).s]))
\* The pieces that land in packed word w, in the order of their values.
pieces(bits, w) ==
    LET lands(v) == place(bits, v).w = w \/ (place(bits, v).w + 1 = w /\ Straddles(bits, v))
        piece(v) == IF place(bits, v).w = w
                      THEN [value |-> v, left |-> TRUE, amount |-> place(bits, v).s]
                      ELSE [value |-> v, left |-> FALSE, amount |-> 32 - place(bits, v).s]
    IN  Loop(POSITIONS, LAMBDA v : When(lands(v), piece(v)))

PieceTable == [bits \in 1..32 |-> [w \in 0..2 * bits - 1 |-> pieces(bits, w)]]

pack_round(bits, ps, n, i) ==
    LET dst(j) == IF i < WAYS THEN packAcc(j, i) ELSE packTmp(j)
        has(j) == Len(ps[j + 1]) > i
        p(j) == ps[j + 1][i + 1]
    IN  Loop(n, LAMBDA j : IF has(j) THEN <<Load(dst(j), <<"staged", p(j).value>>)>> ELSE << >>)
        \o Loop(n, LAMBDA j : When(bits < 32 /\ has(j), Vpandd(dst(j), dst(j), maskreg)))
        \o Loop(n, LAMBDA j :
               IF ~has(j) THEN << >>
               ELSE IF p(j).amount = 0 THEN << >>
               ELSE IF p(j).left THEN <<Vpslld(dst(j), dst(j), p(j).amount)>>
                                 ELSE <<Vpsrld(dst(j), dst(j), p(j).amount)>>)
        \o Loop(n, LAMBDA j : When(i >= WAYS /\ has(j),
               Vpord(packAcc(j, i % WAYS), packAcc(j, i % WAYS), packTmp(j))))

\* The words from `first` on are built together, one piece of each to a round.
pack_words(bits, first) ==
    IF first + PACK_WORDS <= 2 * bits THEN PACK_WORDS ELSE 2 * bits - first
pack_pieces(bits, first) == [j \in 1..pack_words(bits, first) |-> PieceTable[bits][first + j - 1]]
pack_steps(bits, first) == Max({Len(PieceTable[bits][first + j]) : j \in 0..pack_words(bits, first) - 1})

pack_close(bits, first) ==
    LET n == pack_words(bits, first)
    IN  Loop(n, LAMBDA j : When(Len(PieceTable[bits][first + j]) > 1,
               Vpord(packAcc(j, 0), packAcc(j, 0), packAcc(j, 1))))
        \o Loop(n, LAMBDA j : <<Store(<<"packed", first + j>>, packAcc(j, 0))>>)

-----------------------------------------------------------------------------
(* Codec::new refuses a width outside 1 to 32; the C entry points compare  *)
(* width - 1, which wraps for 0, and jump through a table of 33 entries    *)
(* whose first is null.                                                    *)
CodecNew(bits) == bits \in 1..32
DispatchIndex(bits) == (bits - 1) % EaxModulus
Dispatched(bits) == DispatchIndex(bits) <= 31
TableWidth(bits) == DispatchIndex(bits) + 1
words(bits) == (POSITIONS * bits) \div 32

CodecJobs ==
    [kind : {"codec"}, api : {"rust", "c"}, bits : 0..33, mode : Modes, residue : {<< >>}]

CodecInit ==
    /\ job \in {j \in CodecJobs : j.api = "rust" \/ j.bits \in {0, 1, 32, 33}}
    /\ pc = [stage |-> "call", i |-> 0, round |-> 0]
    /\ zmm = EntryRegisters
    /\ mem = [values |-> [v \in 0..POSITIONS - 1 |-> Plain(XWord(v))],
              staged |-> Fresh(POSITIONS),
              packed |-> Fresh(MAX_WORDS),
              out    |-> Fresh(POSITIONS),
              base   |-> (0 :> Plain(BaseWord)),
              mask   |-> (0 :> Plain(mask_constants(job.bits)))]

\* The caller: a width the binding refuses, or that the entry point does not
\* know, ends the call before memory is touched.
CodecCall ==
    /\ pc.stage = "call"
    /\ job.kind = "codec"
    /\ IF IF job.api = "rust" THEN CodecNew(job.bits) ELSE Dispatched(job.bits)
         THEN pc' = [stage |-> "encode", i |-> 0, round |-> 0]
         ELSE pc' = [stage |-> "refused", i |-> 0, round |-> 0]
    /\ UNCHANGED <<job, zmm, mem>>

\* encode_for, encode_delta: eight values to a step. A plain block is packed
\* as it is.
EncodeStep ==
    /\ pc.stage = "encode"
    /\ job.mode # "plain"
    /\ pc.i < POSITIONS
    /\ Execute(IF pc.i = 0 THEN [EntryRegisters EXCEPT ![base] = mem.base[0]] ELSE zmm,
               Loop(GROUP, LAMBDA k : transform_step(job.mode, pc.i + k)))
    /\ pc' = [pc EXCEPT !.i = @ + GROUP]
    /\ UNCHANGED job

\* The staged values become the input of the packer: from here on residue v
\* is a word of its own, and job keeps what it stands for.
PackCall ==
    /\ pc.stage = "encode"
    /\ job.mode = "plain" \/ pc.i = POSITIONS
    /\ job' = [job EXCEPT !.residue = [v \in 0..POSITIONS - 1 |->
                  IF job.mode = "plain" THEN mem.values[v] ELSE mem.staged[v]]]
    /\ mem' = [mem EXCEPT !.staged = [v \in 0..POSITIONS - 1 |-> Plain(ResWord(v))]]
    /\ zmm' = [EntryRegisters EXCEPT ![maskreg] =
                  IF TableWidth(job.bits) < 32 THEN mem.mask[0] ELSE @]
    /\ pc' = [stage |-> "pack", i |-> 0, round |-> 0]

PackRound ==
    LET bits == TableWidth(job.bits) IN
    /\ pc.stage = "pack"
    /\ pc.i < 2 * bits
    /\ pc.round < pack_steps(bits, pc.i)
    /\ Execute(zmm, pack_round(bits, pack_pieces(bits, pc.i), pack_words(bits, pc.i), pc.round))
    /\ pc' = [pc EXCEPT !.round = @ + 1]
    /\ UNCHANGED job

PackClose ==
    LET bits == TableWidth(job.bits) IN
    /\ pc.stage = "pack"
    /\ pc.i < 2 * bits
    /\ pc.round = pack_steps(bits, pc.i)
    /\ Execute(zmm, pack_close(bits, pc.i))
    /\ pc' = [pc EXCEPT !.i = @ + PACK_WORDS, !.round = 0]
    /\ UNCHANGED job

UnpackCall ==
    /\ pc.stage = "pack"
    /\ pc.i >= 2 * job.bits
    /\ Execute(EntryRegisters, UnpackPrologue(TableWidth(job.bits), job.mode))
    /\ pc' = [stage |-> "unpack", i |-> 0, round |-> 0]
    /\ UNCHANGED job

\* The generator asserts that a group's words fit the word registers.
UnpackStep ==
    /\ pc.stage = "unpack"
    /\ pc.i < POSITIONS
    /\ n_words(TableWidth(job.bits), pc.i) <= WORD_REGS
    /\ Execute(zmm, unpack_group(TableWidth(job.bits), job.mode, pc.i))
    /\ pc' = [pc EXCEPT !.i = @ + GROUP]
    /\ UNCHANGED job

CodecDone ==
    \/ pc.stage = "refused"
    \/ pc.stage = "unpack" /\ pc.i = POSITIONS

CodecNext == CodecCall \/ EncodeStep \/ PackCall \/ PackRound \/ PackClose \/ UnpackCall \/ UnpackStep

-----------------------------------------------------------------------------
(* Reference definitions *)

\* scalar_unpack of knc-rs/src/main.rs: the layout written out value by value.
scalar_unpack(p(_), bits, pos) ==
    LET bit == pos * bits
        w == bit \div 32
        s == bit % 32
        low == Shr(p(w), s)
        val == IF s + bits > 32 THEN Or(low, Shl(p(w + 1), 32 - s)) ELSE low
    IN  And(val, mask_constants(bits))

\* How often a word occurs in a formal sum, net of subtractions.
Net(x, w) ==
    LET count(s) == Len(SelectSeq(s, LAMBDA u : u = w))
    IN  count(x.plus) - count(x.minus)

\* A formal sum over packed residues, with each residue that fits the width
\* replaced by what it stands for.
Expand(x, bits) ==
    LET low(v) == And(ResWord(v), mask_constants(bits))
        owner(u) == {v \in 0..POSITIONS - 1 : low(v) = u}
        meaning(u) == IF owner(u) = {} THEN Plain(u)
                      ELSE job.residue[CHOOSE v \in owner(u) : TRUE]
    IN  [plus  |-> FlattenSeq([k \in 1..Len(x.plus) |-> meaning(x.plus[k]).plus]),
         minus |-> FlattenSeq([k \in 1..Len(x.plus) |-> meaning(x.plus[k]).minus])]

-----------------------------------------------------------------------------
(* The packed words of every group written so far are the lane's bitstream:
   bit j of word w is bit q % N of residue q / N, where q = 32 w + j. No piece
   of a value is lost, misplaced or overlaid by a neighbour at any width
   (pack_kernel), and nothing outside the words of this width is written. A
   width outside 1 to 32, which Codec::new and the C entry points refuse,
   leaves memory as it was. *)
PackedIsStream ==
    /\ (job.kind = "codec" /\ job.bits \notin 1..32) =>
        /\ pc.stage \in {"call", "refused"}
        /\ mem.packed = Fresh(MAX_WORDS) /\ mem.out = Fresh(POSITIONS)
    /\ (job.kind = "codec" /\ job.bits \in 1..32 /\ pc.stage \in {"pack", "unpack"}) =>
        LET done == IF pc.stage = "unpack" \/ pc.i > 2 * job.bits THEN 2 * job.bits ELSE pc.i
        IN  /\ DOMAIN mem.packed = 0..MAX_WORDS - 1
            /\ \A w \in done..MAX_WORDS - 1 : mem.packed[w] = Unwritten
            /\ 2 * job.bits = words(job.bits)
            /\ \A w \in 0..done - 1 :
                  mem.packed[w] = Plain([j \in BitsOfWord |->
                      SrcBit(100 + (32 * w + j) \div job.bits, (32 * w + j) % job.bits)])

(* Every value an unpack kernel has stored is what the scalar model of the
   layout reads from the same words, with the base added (frame of reference)
   or as the running sum from the base (delta); no other slot is written. *)
UnpackMatchesScalar ==
    (job.kind = "codec" /\ pc.stage = "unpack") =>
        LET word(w) == AsWord(mem.packed[w])
            value(v) == scalar_unpack(word, job.bits, v)
            sum(v) == CASE job.mode = "plain" -> <<value(v)>>
                        [] job.mode = "for" -> <<BaseWord, value(v)>>
                        [] job.mode = "delta" ->
                             <<BaseWord>> \o [u \in 1..v + 1 |-> value(u - 1)]
        IN  /\ DOMAIN mem.out = 0..POSITIONS - 1
            /\ \A v \in pc.i..POSITIONS - 1 : mem.out[v] = Unwritten
            /\ \A v \in {u \in 0..pc.i - 1 : u >= pc.i - GROUP} :
                  mem.out[v] = [plus |-> sum(v), minus |-> << >>]

(* Encode, pack and unpack give back the value that went in, when every
   residue fits the width: the additions of the decoder cancel the
   subtractions of the encoder, for every width and both cascades. *)
CascadeRestores ==
    (job.kind = "codec" /\ pc.stage = "unpack" /\ pc.i > 0) =>
        LET v == pc.i - 1
            x == Expand(mem.out[v], job.bits)
            atoms == {x.plus[k] : k \in DOMAIN x.plus} \cup {x.minus[k] : k \in DOMAIN x.minus}
        IN  \A w \in atoms \cup {XWord(v)} : Net(x, w) = IF w = XWord(v) THEN 1 ELSE 0
=============================================================================
