-------------------------------- MODULE Mvex --------------------------------
(***************************************************************************)
(* The encoder of the card's vector instructions: host/crates/knc-mvex     *)
(* src/lib.rs, conv.rs and transc.rs. A constructor (vaddpd, vpslld, ...)  *)
(* is an entry of Forms; what a caller asks of it is a request             *)
(*   [form, reg, v, rm, k, imm]                                            *)
(* with rm a register [zmm] or memory [base, disp, conv]. No assembler     *)
(* checks these bytes and a wrong bit is usually another valid             *)
(* instruction, so what matters is that the bytes read back, by the layout *)
(* of the prefix, as what was asked.                                       *)
(***************************************************************************)
EXTENDS Integers, Sequences

M0F == 1
M0F38 == 2
M0F3A == 3
None == 0
P66 == 1
Pf2 == 3

Zmms == 0..31
Ks == 0..7
\* Mem::new refuses rsp and r12, whose ModRM would need a SIB byte.
MemBase(base) == base \in 0..15 /\ base % 8 # 4
\* Displacements are i32.
MaxDisp == 2147483647
Disps == (-MaxDisp - 1)..MaxDisp
Bcast == {1, 2}

-----------------------------------------------------------------------------
(* The constructors. reg: what ModRM.reg holds, a "zmm" or "mask" register or
   an opcode extension out of ext; v: whether vvvv carries a register; rm: "any" (a register, or
   memory with a conversion), "zmm", "mem" (plain) or "conv", with the
   conversions it refuses; sss: whether the conversion is encoded; fixed: a
   conversion or eviction hint set in P2 after assembly.                    *)
Plain == [reg |-> "zmm", ext |-> {}, v |-> FALSE, rm |-> "mem", refuse |-> {}, sss |-> FALSE,
          mask |-> FALSE, imm |-> {}, eh |-> 0, fixed |-> 0]
Shape(map, pp, w, op, base) ==
    [map |-> map, pp |-> pp, w |-> w, op |-> op, base |-> base]

Masked == [Plain EXCEPT !.mask = TRUE]
Three == [Masked EXCEPT !.v = TRUE, !.rm = "any", !.sss = TRUE]
Unary == [Masked EXCEPT !.rm = "any", !.sss = TRUE]
UnaryReg == [Masked EXCEPT !.rm = "zmm"]
Converting == [Masked EXCEPT !.rm = "conv", !.sss = TRUE]
NoBroadcast == [Converting EXCEPT !.refuse = Bcast]
Compare == [Masked EXCEPT !.reg = "mask", !.v = TRUE, !.rm = "any", !.imm = 0..7]
Shift(ext) == [Masked EXCEPT !.reg = "ext", !.ext = {ext}, !.v = TRUE, !.rm = "any", !.imm = 0..255]

arith(map, w, op) == Shape(map, P66, w, op, Three)
arith_ps(map, op) == Shape(map, None, 0, op, Three)
fma(op) == Shape(M0F38, P66, 0, op, Three)
shift_imm(ext) == Shape(M0F, P66, 0, 114, Shift(ext))

MoveForms == [
    vmovaps_store |-> Shape(M0F, None, 0, 41, Plain),
    vmovnraps_store |-> Shape(M0F, Pf2, 0, 41, Plain),
    vmovnrngoaps_store |-> Shape(M0F, Pf2, 0, 41, [Plain EXCEPT !.eh = 1]),
    vmovaps_load |-> Shape(M0F, None, 0, 40, Plain),
    vmovaps_load_f16 |-> Shape(M0F, None, 0, 40, [Plain EXCEPT !.fixed = 3]),
    vmovapd_load |-> Shape(M0F, P66, 1, 40, [Masked EXCEPT !.rm = "any"]),
    vmovapd_store |-> Shape(M0F, P66, 1, 41, Masked)]

Float64Forms == [
    vaddpd |-> arith(M0F, 1, 88),
    vsubpd |-> arith(M0F, 1, 92),
    vmulpd |-> arith(M0F, 1, 89),
    vfmadd213pd |-> arith(M0F38, 1, 168),
    vfmadd231pd |-> arith(M0F38, 1, 184),
    vcmppd |-> Shape(M0F, P66, 1, 194, Compare)]

Float32Forms == [
    vaddps |-> arith_ps(M0F, 88),
    vsubps |-> arith_ps(M0F, 92),
    vmulps |-> arith_ps(M0F, 89),
    vfmadd213ps |-> arith(M0F38, 0, 168),
    vfmadd231ps |-> arith(M0F38, 0, 184),
    vcmpps |-> Shape(M0F, None, 0, 194, Compare)]

\* Without the 66 prefix these are the opcodes of the unaligned loads.
UnalignedStoreFormsNoPrefix == [
    vpackstoreld |-> Shape(M0F38, None, 0, 208, Masked),
    vpackstorehd |-> Shape(M0F38, None, 0, 212, Masked)]

UnalignedStoreForms == [
    vpackstoreld |-> Shape(M0F38, P66, 0, 208, Masked),
    vpackstorehd |-> Shape(M0F38, P66, 0, 212, Masked)]

IntForms == [
    vpaddd |-> arith(M0F, 0, 254),
    vpsubd |-> arith(M0F, 0, 250),
    vpandd |-> arith(M0F, 0, 219),
    vpandnd |-> arith(M0F, 0, 223),
    vpord |-> arith(M0F, 0, 235),
    vpxord |-> arith(M0F, 0, 239),
    vpsllvd |-> arith(M0F38, 0, 71),
    vpsrlvd |-> arith(M0F38, 0, 69)]

ShiftForms == [
    vpslld |-> shift_imm(6),
    vpsrld |-> shift_imm(2),
    vpsrad |-> shift_imm(4)]

UnalignedLoadForms == [
    vloadunpackld |-> Shape(M0F38, None, 0, 208, Masked),
    vloadunpackhd |-> Shape(M0F38, None, 0, 212, Masked),
    vpbroadcastd |-> Shape(M0F38, P66, 0, 88, Masked)]

ConvForms == [
    vmovaps_load_conv |-> Shape(M0F, None, 0, 40, Converting),
    vmovdqa32_load_conv |-> Shape(M0F, P66, 0, 111, Converting),
    vloadunpackld_conv |-> Shape(M0F38, None, 0, 208, NoBroadcast),
    vloadunpackhd_conv |-> Shape(M0F38, None, 0, 212, NoBroadcast),
    vcvtfxpntdq2ps |-> Shape(M0F3A, None, 0, 203, [Unary EXCEPT !.imm = {0}]),
    vrndfxpntps |-> Shape(M0F3A, P66, 0, 82, [Unary EXCEPT !.imm = 0..3]),
    vfnmadd231ps |-> fma(188),
    vfmsub213ps |-> fma(170),
    vfmsub231ps |-> fma(186)]

ConvForms2 == [
    vpermd |-> fma(54),
    vcvtfxpntps2dq |-> Shape(M0F3A, P66, 0, 203, [Unary EXCEPT !.imm = 0..3]),
    vmovaps_store_conv |-> Shape(M0F, None, 0, 41, NoBroadcast),
    \* the exponent adjustment in the high nibble, the rounding in the low
    vcvtfxpntps2dq_adj |-> Shape(M0F3A, P66, 0, 203,
        [Unary EXCEPT !.imm = {16 * adj + mode : adj \in 0..7, mode \in 0..3}]),
    vloadunpacklps_conv |-> Shape(M0F38, None, 0, 209, Converting),
    vloadunpackhps_conv |-> Shape(M0F38, None, 0, 213, Converting),
    vprefetch |-> Shape(M0F, None, 0, 24, [Plain EXCEPT !.reg = "ext", !.ext = {1, 2}])]

TranscForms == [
    vexp223ps |-> Shape(M0F38, P66, 0, 200, UnaryReg),
    vrcp23ps |-> Shape(M0F38, P66, 0, 202, UnaryReg)]

Tables == {MoveForms, Float64Forms, Float32Forms, UnalignedStoreForms, IntForms, ShiftForms,
           UnalignedLoadForms, ConvForms, ConvForms2, TranscForms}
FormNames == UNION {DOMAIN table : table \in Tables}
Form(name) == (CHOOSE table \in Tables : name \in DOMAIN table)[name]

\* What the card calls the instruction: several constructors may share one.
Synonyms == {{"vmovaps_store", "vmovaps_store_conv"}, {"vmovaps_load", "vmovaps_load_f16", "vmovaps_load_conv"},
             {"vloadunpackld", "vloadunpackld_conv"}, {"vloadunpackhd", "vloadunpackhd_conv"},
             {"vcvtfxpntps2dq", "vcvtfxpntps2dq_adj"}}
SameMnemonic(a, b) == a = b \/ \E s \in Synonyms : a \in s /\ b \in s

-----------------------------------------------------------------------------
(* Assembly *)
Reg(z) == [zmm |-> z]
Mem(base, disp, conv) == [base |-> base, disp |-> disp, conv |-> conv]
IsReg(rm) == "zmm" \in DOMAIN rm

\* The bit of x that counts for value.
Bit(x, value) == (x \div value) % 2
Not(x) == 1 - x
Bytes32(n) == <<n % 256, (n \div 256) % 256, (n \div 65536) % 256, (n \div 16777216) % 256>>

src_sss(rm) == IF IsReg(rm) THEN 0 ELSE rm.conv

mvex(map, pp, w, reg, vvvv, rm, aaa, opcode, imm) ==
    LET b == IF IsReg(rm) THEN Bit(rm.zmm, 8) ELSE Bit(rm.base, 8)
        x == IF IsReg(rm) THEN Bit(rm.zmm, 16) ELSE 0
        p0 == Not(Bit(reg, 8)) * 128 + Not(x) * 64 + Not(b) * 32 + Not(Bit(reg, 16)) * 16 + map
        p1 == w * 128 + (15 - (vvvv % 16)) * 8 + pp
        p2 == Not(Bit(vvvv, 16)) * 8 + aaa
        modrm == IF IsReg(rm) THEN 192 + (reg % 8) * 8 + (rm.zmm % 8)
                              ELSE 128 + (reg % 8) * 8 + (rm.base % 8)
    IN  <<98, p0, p1, p2, opcode, modrm>>
        \o (IF IsReg(rm) THEN << >> ELSE Bytes32(rm.disp))
        \o imm

\* SSS and the eviction hint are clear in what mvex assembles.
with_sss(bytes, sss) == [bytes EXCEPT ![4] = @ + 16 * sss]
with_eh(bytes, eh) == [bytes EXCEPT ![4] = @ + 128 * eh]

Encode(r) ==
    LET f == Form(r.form)
        o == f.base
        sss == IF o.sss THEN src_sss(r.rm) ELSE o.fixed
    IN  with_eh(with_sss(mvex(f.map, f.pp, f.w, r.reg, r.v, r.rm, r.k, f.op, r.imm), sss), o.eh)

\* What the signature and the assertions of a constructor let a caller ask.
Accepts(r) ==
    LET o == Form(r.form).base IN
    /\ r.form \in FormNames
    /\ r.reg \in IF o.reg = "ext" THEN o.ext ELSE Zmms   \* a mask destination too: mvex checks no more
    /\ r.v \in IF o.v THEN Zmms ELSE {0}
    /\ r.k \in IF o.mask THEN Ks ELSE {0}
    /\ IF o.imm = {} THEN r.imm = << >> ELSE Len(r.imm) = 1 /\ r.imm[1] \in o.imm
    /\ IF IsReg(r.rm) THEN o.rm \in {"any", "zmm"} /\ r.rm.zmm \in Zmms
       ELSE /\ o.rm # "zmm" /\ MemBase(r.rm.base) /\ r.rm.disp \in Disps
            /\ r.rm.conv \in IF o.rm = "mem" THEN {0} ELSE (0..7) \ o.refuse

\* The mask register moves are VEX instructions of four bytes.
vex_k(opcode, reg, rm) == <<197, 248, opcode, 192 + 8 * reg + rm>>
kmov_r32_k(dst, src) == vex_k(147, dst, src)
kmov_k_r32(dst, src) == vex_k(146, dst, src)
kmov_k_k(dst, src) == vex_k(144, dst, src)
kortest(a, b) == vex_k(152, a, b)

-----------------------------------------------------------------------------
(* Reading the prefix back, by the layout in the head comment of lib.rs. *)
Signed32(b) == b[1] + 256 * b[2] + 65536 * b[3]
               + 16777216 * (IF b[4] > 127 THEN b[4] - 256 ELSE b[4])

Fields(b) ==
    LET reg == 16 * Not(Bit(b[2], 16)) + 8 * Not(Bit(b[2], 128)) + ((b[6] \div 8) % 8)
        v == 16 * Not(Bit(b[4], 8)) + 15 - ((b[3] \div 8) % 16)
        direct == b[6] \div 64 = 3
        tail == IF direct THEN 7 ELSE 11
    IN  [map |-> b[2] % 4, pp |-> b[3] % 4, w |-> b[3] \div 128, op |-> b[5],
         reg |-> reg, v |-> v, k |-> b[4] % 8, sss |-> (b[4] \div 16) % 8, eh |-> b[4] \div 128,
         rm |-> IF direct THEN Reg(16 * Not(Bit(b[2], 64)) + 8 * Not(Bit(b[2], 32)) + (b[6] % 8))
                ELSE [base |-> 8 * Not(Bit(b[2], 32)) + (b[6] % 8),
                      disp |-> Signed32(SubSeq(b, 7, 10))],
         imm |-> SubSeq(b, tail, Len(b))]

\* The constructors whose instruction a card would take these fields for.
ReadAs(d) ==
    {name \in FormNames :
        LET f == Form(name) IN
        /\ <<f.map, f.pp, f.w, f.op, f.base.eh>> = <<d.map, d.pp, d.w, d.op, d.eh>>
        /\ f.base.reg = "ext" => d.reg \in f.base.ext}
=============================================================================
