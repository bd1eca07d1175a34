---------------------------- MODULE AuditProofs ----------------------------
(***************************************************************************)
(* Proofs about the instruction encoder and the audit, for every request   *)
(* to a constructor, every file and every set of flags.                    *)
(***************************************************************************)
EXTENDS IsaAudit, ModArith, FiniteSetTheorems

(* The constructors.                                                       *)

\* What the operands of a constructor are, and what a constructor is: an
\* immediate goes with the opcodes that take one.
IsBase(o) ==
  /\ o.reg \in {"zmm", "mask", "ext"} /\ o.ext \subseteq 0 .. 7
  /\ o.reg = "ext" <=> o.ext # {}
  /\ o.eh \in 0 .. 1 /\ o.fixed \in 0 .. 7 /\ o.imm \subseteq 0 .. 255
TakesImm(map, op) == map = 3 \/ (map = 1 /\ op \in {112, 114, 194})
IsForm(f) ==
  /\ f.map \in 1 .. 3 /\ f.pp \in 0 .. 3 /\ f.w \in 0 .. 1 /\ f.op \in 0 .. 255
  /\ IsBase(f.base)
  /\ f.base.imm # {} <=> TakesImm(f.map, f.op)

\* The opcode with its map, prefix, W and hint as one number, and the number
\* of every constructor with its opcode extensions.
Code(f) == f.op + 256 * f.base.eh + 512 * f.w + 1024 * f.pp + 4096 * f.map
Codes == {
  <<"vmovaps_store", 4137, {}>>, <<"vmovnraps_store", 7209, {}>>,
  <<"vmovnrngoaps_store", 7465, {}>>, <<"vmovaps_load", 4136, {}>>,
  <<"vmovaps_load_f16", 4136, {}>>, <<"vmovapd_load", 5672, {}>>, <<"vmovapd_store", 5673, {}>>,
  <<"vaddpd", 5720, {}>>, <<"vsubpd", 5724, {}>>, <<"vmulpd", 5721, {}>>,
  <<"vfmadd213pd", 9896, {}>>, <<"vfmadd231pd", 9912, {}>>, <<"vcmppd", 5826, {}>>,
  <<"vaddps", 4184, {}>>, <<"vsubps", 4188, {}>>, <<"vmulps", 4185, {}>>,
  <<"vfmadd213ps", 9384, {}>>, <<"vfmadd231ps", 9400, {}>>, <<"vcmpps", 4290, {}>>,
  <<"vpackstoreld", 9424, {}>>, <<"vpackstorehd", 9428, {}>>, <<"vpaddd", 5374, {}>>,
  <<"vpsubd", 5370, {}>>, <<"vpandd", 5339, {}>>, <<"vpandnd", 5343, {}>>,
  <<"vpord", 5355, {}>>, <<"vpxord", 5359, {}>>, <<"vpsllvd", 9287, {}>>,
  <<"vpsrlvd", 9285, {}>>, <<"vpslld", 5234, {6}>>, <<"vpsrld", 5234, {2}>>,
  <<"vpsrad", 5234, {4}>>, <<"vloadunpackld", 8400, {}>>, <<"vloadunpackhd", 8404, {}>>,
  <<"vpbroadcastd", 9304, {}>>, <<"vmovaps_load_conv", 4136, {}>>,
  <<"vmovdqa32_load_conv", 5231, {}>>, <<"vloadunpackld_conv", 8400, {}>>,
  <<"vloadunpackhd_conv", 8404, {}>>, <<"vcvtfxpntdq2ps", 12491, {}>>,
  <<"vrndfxpntps", 13394, {}>>, <<"vfnmadd231ps", 9404, {}>>, <<"vfmsub213ps", 9386, {}>>,
  <<"vfmsub231ps", 9402, {}>>, <<"vpermd", 9270, {}>>, <<"vcvtfxpntps2dq", 13515, {}>>,
  <<"vmovaps_store_conv", 4137, {}>>, <<"vcvtfxpntps2dq_adj", 13515, {}>>,
  <<"vloadunpacklps_conv", 8401, {}>>, <<"vloadunpackhps_conv", 8405, {}>>,
  <<"vprefetch", 4120, {1, 2}>>, <<"vexp223ps", 9416, {}>>, <<"vrcp23ps", 9418, {}>>}
Entry(name, f) == IsForm(f) /\ <<name, Code(f), f.base.ext>> \in Codes
Spells(c, map, pp, w, op, eh) == c = op + 256 * eh + 512 * w + 1024 * pp + 4096 * map
ImmFits(imm, map, op) == imm # {} <=> TakesImm(map, op)

\* A constructor from its parts.
Parts(name, c, map, pp, w, op, o) ==
  /\ map \in 1 .. 3 /\ pp \in 0 .. 3 /\ w \in 0 .. 1 /\ op \in 0 .. 255
  /\ IsBase(o) /\ ImmFits(o.imm, map, op)
  /\ Spells(c, map, pp, w, op, o.eh) /\ <<name, c, o.ext>> \in Codes

LEMMA ShapeEntry ==
  ASSUME NEW map, NEW pp, NEW w, NEW op, NEW base, NEW name, NEW c, Parts(name, c, map, pp, w, op, base)
  PROVE  Entry(name, Shape(map, pp, w, op, base))
<1> DEFINE f == Shape(map, pp, w, op, base)
<1>1. f.map = map /\ f.pp = pp /\ f.w = w /\ f.op = op /\ f.base = base
  BY DEF Shape
<1> HIDE DEF f
<1>2. IsForm(f)
  BY <1>1 DEF Parts, IsForm, ImmFits
<1>3. Code(f) = c
  BY <1>1 DEF Parts, Code, Spells
<1>4. Entry(name, f)
  BY <1>1, <1>2, <1>3 DEF Parts, Entry
<1> QED BY <1>4 DEF f

\* Operands without an immediate.
PlainBases == {Plain, Masked, Three, Unary, UnaryReg, Converting, NoBroadcast,
               [Plain EXCEPT !.fixed = 3], [Masked EXCEPT !.rm = "any"]}

LEMMA PlainOperands ==
  \A o \in PlainBases : IsBase(o) /\ o.imm = {} /\ o.eh = 0 /\ o.ext = {}
<1> DEFINE Good(o) == IsBase(o) /\ o.imm = {} /\ o.eh = 0 /\ o.ext = {}
<1>1. Good(Plain)
  BY DEF IsBase, Plain, Masked, Three, Unary, UnaryReg, Converting, NoBroadcast
<1>2. Good(Masked)
  BY DEF IsBase, Plain, Masked, Three, Unary, UnaryReg, Converting, NoBroadcast
<1>3. Good(Three)
  BY DEF IsBase, Plain, Masked, Three, Unary, UnaryReg, Converting, NoBroadcast
<1>4. Good(Unary)
  BY DEF IsBase, Plain, Masked, Three, Unary, UnaryReg, Converting, NoBroadcast
<1>5. Good(UnaryReg)
  BY DEF IsBase, Plain, Masked, Three, Unary, UnaryReg, Converting, NoBroadcast
<1>6. Good(Converting)
  BY DEF IsBase, Plain, Masked, Three, Unary, UnaryReg, Converting, NoBroadcast
<1>7. Good(NoBroadcast)
  BY DEF IsBase, Plain, Masked, Three, Unary, UnaryReg, Converting, NoBroadcast
<1>8. Good([Plain EXCEPT !.fixed = 3])
  BY DEF IsBase, Plain, Masked, Three, Unary, UnaryReg, Converting, NoBroadcast
<1>9. Good([Masked EXCEPT !.rm = "any"])
  BY DEF IsBase, Plain, Masked, Three, Unary, UnaryReg, Converting, NoBroadcast
<1> HIDE DEF Good
<1>10. \A o \in PlainBases : Good(o)
  BY <1>1, <1>2, <1>3, <1>4, <1>5, <1>6, <1>7, <1>8, <1>9 DEF PlainBases
<1> QED BY <1>10 DEF Good

\* Constructors without an immediate.
PlainParts(name, c, map, pp, w, op) ==
  /\ map \in 1 .. 3 /\ pp \in 0 .. 3 /\ w \in 0 .. 1 /\ op \in 0 .. 255
  /\ ~TakesImm(map, op) /\ Spells(c, map, pp, w, op, 0) /\ <<name, c, {}>> \in Codes

LEMMA PlainEntry ==
  ASSUME NEW map, NEW pp, NEW w, NEW op, NEW base \in PlainBases, NEW name, NEW c,
         PlainParts(name, c, map, pp, w, op)
  PROVE  Entry(name, Shape(map, pp, w, op, base))
<1>1. IsBase(base) /\ base.imm = {} /\ base.eh = 0 /\ base.ext = {}
  BY PlainOperands
<1>2. ImmFits(base.imm, map, op)
  BY <1>1 DEF ImmFits, PlainParts
<1>3. Parts(name, c, map, pp, w, op, base)
  BY <1>1, <1>2 DEF Parts, PlainParts
<1> QED BY <1>3, ShapeEntry

\* The entries of MoveForms.
LEMMA MoveEntries == \A name \in DOMAIN MoveForms : Entry(name, MoveForms[name])
<1>1. Entry("vmovaps_store", Shape(M0F, None, 0, 41, Plain))
  <2>1. PlainParts("vmovaps_store", 4137, 1, 0, 0, 41)
    BY DEF PlainParts, Codes, Spells, TakesImm
  <2>2. Plain \in PlainBases
    BY DEF PlainBases
  <2>3. Entry("vmovaps_store", Shape(1, 0, 0, 41, Plain))
    BY <2>1, <2>2, PlainEntry
  <2> QED BY <2>3 DEF M0F, M0F38, M0F3A, None, P66, Pf2
<1>2. Entry("vmovnraps_store", Shape(M0F, Pf2, 0, 41, Plain))
  <2>1. PlainParts("vmovnraps_store", 7209, 1, 3, 0, 41)
    BY DEF PlainParts, Codes, Spells, TakesImm
  <2>2. Plain \in PlainBases
    BY DEF PlainBases
  <2>3. Entry("vmovnraps_store", Shape(1, 3, 0, 41, Plain))
    BY <2>1, <2>2, PlainEntry
  <2> QED BY <2>3 DEF M0F, M0F38, M0F3A, None, P66, Pf2
<1>3. Entry("vmovnrngoaps_store", Shape(M0F, Pf2, 0, 41, [Plain EXCEPT !.eh = 1]))
  <2> DEFINE o == [Plain EXCEPT !.eh = 1]
  <2>1. IsBase(o)
    BY DEF IsBase, Plain, Masked, Unary, Compare, Shift
  <2>2. o.eh = 1 /\ o.ext = {}
    BY DEF Plain, Masked, Unary, Compare, Shift
  <2>3. ImmFits(o.imm, 1, 41)
    BY DEF ImmFits, TakesImm, Plain, Masked, Unary, Compare, Shift
  <2> HIDE DEF o
  <2>4. <<"vmovnrngoaps_store", 7465, {}>> \in Codes /\ Spells(7465, 1, 3, 0, 41, 1)
    BY DEF Codes, Spells
  <2>5. Parts("vmovnrngoaps_store", 7465, 1, 3, 0, 41, o)
    BY <2>1, <2>2, <2>3, <2>4 DEF Parts
  <2>6. Entry("vmovnrngoaps_store", Shape(1, 3, 0, 41, o))
    BY <2>5, ShapeEntry
  <2> QED BY <2>6 DEF o, M0F, M0F38, M0F3A, None, P66, Pf2
<1>4. Entry("vmovaps_load", Shape(M0F, None, 0, 40, Plain))
  <2>1. PlainParts("vmovaps_load", 4136, 1, 0, 0, 40)
    BY DEF PlainParts, Codes, Spells, TakesImm
  <2>2. Plain \in PlainBases
    BY DEF PlainBases
  <2>3. Entry("vmovaps_load", Shape(1, 0, 0, 40, Plain))
    BY <2>1, <2>2, PlainEntry
  <2> QED BY <2>3 DEF M0F, M0F38, M0F3A, None, P66, Pf2
<1>5. Entry("vmovaps_load_f16", Shape(M0F, None, 0, 40, [Plain EXCEPT !.fixed = 3]))
  <2>1. PlainParts("vmovaps_load_f16", 4136, 1, 0, 0, 40)
    BY DEF PlainParts, Codes, Spells, TakesImm
  <2>2. [Plain EXCEPT !.fixed = 3] \in PlainBases
    BY DEF PlainBases
  <2>3. Entry("vmovaps_load_f16", Shape(1, 0, 0, 40, [Plain EXCEPT !.fixed = 3]))
    BY <2>1, <2>2, PlainEntry
  <2> QED BY <2>3 DEF M0F, M0F38, M0F3A, None, P66, Pf2
<1>6. Entry("vmovapd_load", Shape(M0F, P66, 1, 40, [Masked EXCEPT !.rm = "any"]))
  <2>1. PlainParts("vmovapd_load", 5672, 1, 1, 1, 40)
    BY DEF PlainParts, Codes, Spells, TakesImm
  <2>2. [Masked EXCEPT !.rm = "any"] \in PlainBases
    BY DEF PlainBases
  <2>3. Entry("vmovapd_load", Shape(1, 1, 1, 40, [Masked EXCEPT !.rm = "any"]))
    BY <2>1, <2>2, PlainEntry
  <2> QED BY <2>3 DEF M0F, M0F38, M0F3A, None, P66, Pf2
<1>7. Entry("vmovapd_store", Shape(M0F, P66, 1, 41, Masked))
  <2>1. PlainParts("vmovapd_store", 5673, 1, 1, 1, 41)
    BY DEF PlainParts, Codes, Spells, TakesImm
  <2>2. Masked \in PlainBases
    BY DEF PlainBases
  <2>3. Entry("vmovapd_store", Shape(1, 1, 1, 41, Masked))
    BY <2>1, <2>2, PlainEntry
  <2> QED BY <2>3 DEF M0F, M0F38, M0F3A, None, P66, Pf2
<1> QED BY <1>1, <1>2, <1>3, <1>4, <1>5, <1>6, <1>7 DEF MoveForms

\* The entries of Float64Forms.
LEMMA Float64Entries == \A name \in DOMAIN Float64Forms : Entry(name, Float64Forms[name])
<1>1. Entry("vaddpd", arith(M0F, 1, 88))
  <2>1. PlainParts("vaddpd", 5720, 1, 1, 1, 88)
    BY DEF PlainParts, Codes, Spells, TakesImm
  <2>2. Three \in PlainBases
    BY DEF PlainBases
  <2>3. Entry("vaddpd", Shape(1, 1, 1, 88, Three))
    BY <2>1, <2>2, PlainEntry
  <2> QED BY <2>3 DEF M0F, M0F38, M0F3A, None, P66, Pf2, arith
<1>2. Entry("vsubpd", arith(M0F, 1, 92))
  <2>1. PlainParts("vsubpd", 5724, 1, 1, 1, 92)
    BY DEF PlainParts, Codes, Spells, TakesImm
  <2>2. Three \in PlainBases
    BY DEF PlainBases
  <2>3. Entry("vsubpd", Shape(1, 1, 1, 92, Three))
    BY <2>1, <2>2, PlainEntry
  <2> QED BY <2>3 DEF M0F, M0F38, M0F3A, None, P66, Pf2, arith
<1>3. Entry("vmulpd", arith(M0F, 1, 89))
  <2>1. PlainParts("vmulpd", 5721, 1, 1, 1, 89)
    BY DEF PlainParts, Codes, Spells, TakesImm
  <2>2. Three \in PlainBases
    BY DEF PlainBases
  <2>3. Entry("vmulpd", Shape(1, 1, 1, 89, Three))
    BY <2>1, <2>2, PlainEntry
  <2> QED BY <2>3 DEF M0F, M0F38, M0F3A, None, P66, Pf2, arith
<1>4. Entry("vfmadd213pd", arith(M0F38, 1, 168))
  <2>1. PlainParts("vfmadd213pd", 9896, 2, 1, 1, 168)
    BY DEF PlainParts, Codes, Spells, TakesImm
  <2>2. Three \in PlainBases
    BY DEF PlainBases
  <2>3. Entry("vfmadd213pd", Shape(2, 1, 1, 168, Three))
    BY <2>1, <2>2, PlainEntry
  <2> QED BY <2>3 DEF M0F, M0F38, M0F3A, None, P66, Pf2, arith
<1>5. Entry("vfmadd231pd", arith(M0F38, 1, 184))
  <2>1. PlainParts("vfmadd231pd", 9912, 2, 1, 1, 184)
    BY DEF PlainParts, Codes, Spells, TakesImm
  <2>2. Three \in PlainBases
    BY DEF PlainBases
  <2>3. Entry("vfmadd231pd", Shape(2, 1, 1, 184, Three))
    BY <2>1, <2>2, PlainEntry
  <2> QED BY <2>3 DEF M0F, M0F38, M0F3A, None, P66, Pf2, arith
<1>6. Entry("vcmppd", Shape(M0F, P66, 1, 194, Compare))
  <2> DEFINE o == Compare
  <2>1. IsBase(o)
    BY DEF IsBase, Plain, Masked, Unary, Compare, Shift
  <2>2. o.eh = 0 /\ o.ext = {}
    BY DEF Plain, Masked, Unary, Compare, Shift
  <2>3. ImmFits(o.imm, 1, 194)
    BY DEF ImmFits, TakesImm, Plain, Masked, Unary, Compare, Shift
  <2> HIDE DEF o
  <2>4. <<"vcmppd", 5826, {}>> \in Codes /\ Spells(5826, 1, 1, 1, 194, 0)
    BY DEF Codes, Spells
  <2>5. Parts("vcmppd", 5826, 1, 1, 1, 194, o)
    BY <2>1, <2>2, <2>3, <2>4 DEF Parts
  <2>6. Entry("vcmppd", Shape(1, 1, 1, 194, o))
    BY <2>5, ShapeEntry
  <2> QED BY <2>6 DEF o, M0F, M0F38, M0F3A, None, P66, Pf2
<1> QED BY <1>1, <1>2, <1>3, <1>4, <1>5, <1>6 DEF Float64Forms

\* The entries of Float32Forms.
LEMMA Float32Entries == \A name \in DOMAIN Float32Forms : Entry(name, Float32Forms[name])
<1>1. Entry("vaddps", arith_ps(M0F, 88))
  <2>1. PlainParts("vaddps", 4184, 1, 0, 0, 88)
    BY DEF PlainParts, Codes, Spells, TakesImm
  <2>2. Three \in PlainBases
    BY DEF PlainBases
  <2>3. Entry("vaddps", Shape(1, 0, 0, 88, Three))
    BY <2>1, <2>2, PlainEntry
  <2> QED BY <2>3 DEF M0F, M0F38, M0F3A, None, P66, Pf2, arith_ps
<1>2. Entry("vsubps", arith_ps(M0F, 92))
  <2>1. PlainParts("vsubps", 4188, 1, 0, 0, 92)
    BY DEF PlainParts, Codes, Spells, TakesImm
  <2>2. Three \in PlainBases
    BY DEF PlainBases
  <2>3. Entry("vsubps", Shape(1, 0, 0, 92, Three))
    BY <2>1, <2>2, PlainEntry
  <2> QED BY <2>3 DEF M0F, M0F38, M0F3A, None, P66, Pf2, arith_ps
<1>3. Entry("vmulps", arith_ps(M0F, 89))
  <2>1. PlainParts("vmulps", 4185, 1, 0, 0, 89)
    BY DEF PlainParts, Codes, Spells, TakesImm
  <2>2. Three \in PlainBases
    BY DEF PlainBases
  <2>3. Entry("vmulps", Shape(1, 0, 0, 89, Three))
    BY <2>1, <2>2, PlainEntry
  <2> QED BY <2>3 DEF M0F, M0F38, M0F3A, None, P66, Pf2, arith_ps
<1>4. Entry("vfmadd213ps", arith(M0F38, 0, 168))
  <2>1. PlainParts("vfmadd213ps", 9384, 2, 1, 0, 168)
    BY DEF PlainParts, Codes, Spells, TakesImm
  <2>2. Three \in PlainBases
    BY DEF PlainBases
  <2>3. Entry("vfmadd213ps", Shape(2, 1, 0, 168, Three))
    BY <2>1, <2>2, PlainEntry
  <2> QED BY <2>3 DEF M0F, M0F38, M0F3A, None, P66, Pf2, arith
<1>5. Entry("vfmadd231ps", arith(M0F38, 0, 184))
  <2>1. PlainParts("vfmadd231ps", 9400, 2, 1, 0, 184)
    BY DEF PlainParts, Codes, Spells, TakesImm
  <2>2. Three \in PlainBases
    BY DEF PlainBases
  <2>3. Entry("vfmadd231ps", Shape(2, 1, 0, 184, Three))
    BY <2>1, <2>2, PlainEntry
  <2> QED BY <2>3 DEF M0F, M0F38, M0F3A, None, P66, Pf2, arith
<1>6. Entry("vcmpps", Shape(M0F, None, 0, 194, Compare))
  <2> DEFINE o == Compare
  <2>1. IsBase(o)
    BY DEF IsBase, Plain, Masked, Unary, Compare, Shift
  <2>2. o.eh = 0 /\ o.ext = {}
    BY DEF Plain, Masked, Unary, Compare, Shift
  <2>3. ImmFits(o.imm, 1, 194)
    BY DEF ImmFits, TakesImm, Plain, Masked, Unary, Compare, Shift
  <2> HIDE DEF o
  <2>4. <<"vcmpps", 4290, {}>> \in Codes /\ Spells(4290, 1, 0, 0, 194, 0)
    BY DEF Codes, Spells
  <2>5. Parts("vcmpps", 4290, 1, 0, 0, 194, o)
    BY <2>1, <2>2, <2>3, <2>4 DEF Parts
  <2>6. Entry("vcmpps", Shape(1, 0, 0, 194, o))
    BY <2>5, ShapeEntry
  <2> QED BY <2>6 DEF o, M0F, M0F38, M0F3A, None, P66, Pf2
<1> QED BY <1>1, <1>2, <1>3, <1>4, <1>5, <1>6 DEF Float32Forms

\* The entries of UnalignedStoreForms.
LEMMA UnalignedStoreEntries == \A name \in DOMAIN UnalignedStoreForms : Entry(name, UnalignedStoreForms[name])
<1>1. Entry("vpackstoreld", Shape(M0F38, P66, 0, 208, Masked))
  <2>1. PlainParts("vpackstoreld", 9424, 2, 1, 0, 208)
    BY DEF PlainParts, Codes, Spells, TakesImm
  <2>2. Masked \in PlainBases
    BY DEF PlainBases
  <2>3. Entry("vpackstoreld", Shape(2, 1, 0, 208, Masked))
    BY <2>1, <2>2, PlainEntry
  <2> QED BY <2>3 DEF M0F, M0F38, M0F3A, None, P66, Pf2
<1>2. Entry("vpackstorehd", Shape(M0F38, P66, 0, 212, Masked))
  <2>1. PlainParts("vpackstorehd", 9428, 2, 1, 0, 212)
    BY DEF PlainParts, Codes, Spells, TakesImm
  <2>2. Masked \in PlainBases
    BY DEF PlainBases
  <2>3. Entry("vpackstorehd", Shape(2, 1, 0, 212, Masked))
    BY <2>1, <2>2, PlainEntry
  <2> QED BY <2>3 DEF M0F, M0F38, M0F3A, None, P66, Pf2
<1> QED BY <1>1, <1>2 DEF UnalignedStoreForms

\* The entries of IntForms.
LEMMA IntEntries == \A name \in DOMAIN IntForms : Entry(name, IntForms[name])
<1>1. Entry("vpaddd", arith(M0F, 0, 254))
  <2>1. PlainParts("vpaddd", 5374, 1, 1, 0, 254)
    BY DEF PlainParts, Codes, Spells, TakesImm
  <2>2. Three \in PlainBases
    BY DEF PlainBases
  <2>3. Entry("vpaddd", Shape(1, 1, 0, 254, Three))
    BY <2>1, <2>2, PlainEntry
  <2> QED BY <2>3 DEF M0F, M0F38, M0F3A, None, P66, Pf2, arith
<1>2. Entry("vpsubd", arith(M0F, 0, 250))
  <2>1. PlainParts("vpsubd", 5370, 1, 1, 0, 250)
    BY DEF PlainParts, Codes, Spells, TakesImm
  <2>2. Three \in PlainBases
    BY DEF PlainBases
  <2>3. Entry("vpsubd", Shape(1, 1, 0, 250, Three))
    BY <2>1, <2>2, PlainEntry
  <2> QED BY <2>3 DEF M0F, M0F38, M0F3A, None, P66, Pf2, arith
<1>3. Entry("vpandd", arith(M0F, 0, 219))
  <2>1. PlainParts("vpandd", 5339, 1, 1, 0, 219)
    BY DEF PlainParts, Codes, Spells, TakesImm
  <2>2. Three \in PlainBases
    BY DEF PlainBases
  <2>3. Entry("vpandd", Shape(1, 1, 0, 219, Three))
    BY <2>1, <2>2, PlainEntry
  <2> QED BY <2>3 DEF M0F, M0F38, M0F3A, None, P66, Pf2, arith
<1>4. Entry("vpandnd", arith(M0F, 0, 223))
  <2>1. PlainParts("vpandnd", 5343, 1, 1, 0, 223)
    BY DEF PlainParts, Codes, Spells, TakesImm
  <2>2. Three \in PlainBases
    BY DEF PlainBases
  <2>3. Entry("vpandnd", Shape(1, 1, 0, 223, Three))
    BY <2>1, <2>2, PlainEntry
  <2> QED BY <2>3 DEF M0F, M0F38, M0F3A, None, P66, Pf2, arith
<1>5. Entry("vpord", arith(M0F, 0, 235))
  <2>1. PlainParts("vpord", 5355, 1, 1, 0, 235)
    BY DEF PlainParts, Codes, Spells, TakesImm
  <2>2. Three \in PlainBases
    BY DEF PlainBases
  <2>3. Entry("vpord", Shape(1, 1, 0, 235, Three))
    BY <2>1, <2>2, PlainEntry
  <2> QED BY <2>3 DEF M0F, M0F38, M0F3A, None, P66, Pf2, arith
<1>6. Entry("vpxord", arith(M0F, 0, 239))
  <2>1. PlainParts("vpxord", 5359, 1, 1, 0, 239)
    BY DEF PlainParts, Codes, Spells, TakesImm
  <2>2. Three \in PlainBases
    BY DEF PlainBases
  <2>3. Entry("vpxord", Shape(1, 1, 0, 239, Three))
    BY <2>1, <2>2, PlainEntry
  <2> QED BY <2>3 DEF M0F, M0F38, M0F3A, None, P66, Pf2, arith
<1>7. Entry("vpsllvd", arith(M0F38, 0, 71))
  <2>1. PlainParts("vpsllvd", 9287, 2, 1, 0, 71)
    BY DEF PlainParts, Codes, Spells, TakesImm
  <2>2. Three \in PlainBases
    BY DEF PlainBases
  <2>3. Entry("vpsllvd", Shape(2, 1, 0, 71, Three))
    BY <2>1, <2>2, PlainEntry
  <2> QED BY <2>3 DEF M0F, M0F38, M0F3A, None, P66, Pf2, arith
<1>8. Entry("vpsrlvd", arith(M0F38, 0, 69))
  <2>1. PlainParts("vpsrlvd", 9285, 2, 1, 0, 69)
    BY DEF PlainParts, Codes, Spells, TakesImm
  <2>2. Three \in PlainBases
    BY DEF PlainBases
  <2>3. Entry("vpsrlvd", Shape(2, 1, 0, 69, Three))
    BY <2>1, <2>2, PlainEntry
  <2> QED BY <2>3 DEF M0F, M0F38, M0F3A, None, P66, Pf2, arith
<1> QED BY <1>1, <1>2, <1>3, <1>4, <1>5, <1>6, <1>7, <1>8 DEF IntForms

\* The entries of ShiftForms.
LEMMA ShiftEntries == \A name \in DOMAIN ShiftForms : Entry(name, ShiftForms[name])
<1>1. Entry("vpslld", shift_imm(6))
  <2> DEFINE o == Shift(6)
  <2>1. IsBase(o)
    BY DEF IsBase, Plain, Masked, Unary, Compare, Shift
  <2>2. o.eh = 0 /\ o.ext = {6}
    BY DEF Plain, Masked, Unary, Compare, Shift
  <2>3. ImmFits(o.imm, 1, 114)
    BY DEF ImmFits, TakesImm, Plain, Masked, Unary, Compare, Shift
  <2> HIDE DEF o
  <2>4. <<"vpslld", 5234, {6}>> \in Codes /\ Spells(5234, 1, 1, 0, 114, 0)
    BY DEF Codes, Spells
  <2>5. Parts("vpslld", 5234, 1, 1, 0, 114, o)
    BY <2>1, <2>2, <2>3, <2>4 DEF Parts
  <2>6. Entry("vpslld", Shape(1, 1, 0, 114, o))
    BY <2>5, ShapeEntry
  <2> QED BY <2>6 DEF o, M0F, M0F38, M0F3A, None, P66, Pf2, shift_imm
<1>2. Entry("vpsrld", shift_imm(2))
  <2> DEFINE o == Shift(2)
  <2>1. IsBase(o)
    BY DEF IsBase, Plain, Masked, Unary, Compare, Shift
  <2>2. o.eh = 0 /\ o.ext = {2}
    BY DEF Plain, Masked, Unary, Compare, Shift
  <2>3. ImmFits(o.imm, 1, 114)
    BY DEF ImmFits, TakesImm, Plain, Masked, Unary, Compare, Shift
  <2> HIDE DEF o
  <2>4. <<"vpsrld", 5234, {2}>> \in Codes /\ Spells(5234, 1, 1, 0, 114, 0)
    BY DEF Codes, Spells
  <2>5. Parts("vpsrld", 5234, 1, 1, 0, 114, o)
    BY <2>1, <2>2, <2>3, <2>4 DEF Parts
  <2>6. Entry("vpsrld", Shape(1, 1, 0, 114, o))
    BY <2>5, ShapeEntry
  <2> QED BY <2>6 DEF o, M0F, M0F38, M0F3A, None, P66, Pf2, shift_imm
<1>3. Entry("vpsrad", shift_imm(4))
  <2> DEFINE o == Shift(4)
  <2>1. IsBase(o)
    BY DEF IsBase, Plain, Masked, Unary, Compare, Shift
  <2>2. o.eh = 0 /\ o.ext = {4}
    BY DEF Plain, Masked, Unary, Compare, Shift
  <2>3. ImmFits(o.imm, 1, 114)
    BY DEF ImmFits, TakesImm, Plain, Masked, Unary, Compare, Shift
  <2> HIDE DEF o
  <2>4. <<"vpsrad", 5234, {4}>> \in Codes /\ Spells(5234, 1, 1, 0, 114, 0)
    BY DEF Codes, Spells
  <2>5. Parts("vpsrad", 5234, 1, 1, 0, 114, o)
    BY <2>1, <2>2, <2>3, <2>4 DEF Parts
  <2>6. Entry("vpsrad", Shape(1, 1, 0, 114, o))
    BY <2>5, ShapeEntry
  <2> QED BY <2>6 DEF o, M0F, M0F38, M0F3A, None, P66, Pf2, shift_imm
<1> QED BY <1>1, <1>2, <1>3 DEF ShiftForms

\* The entries of UnalignedLoadForms.
LEMMA UnalignedLoadEntries == \A name \in DOMAIN UnalignedLoadForms : Entry(name, UnalignedLoadForms[name])
<1>1. Entry("vloadunpackld", Shape(M0F38, None, 0, 208, Masked))
  <2>1. PlainParts("vloadunpackld", 8400, 2, 0, 0, 208)
    BY DEF PlainParts, Codes, Spells, TakesImm
  <2>2. Masked \in PlainBases
    BY DEF PlainBases
  <2>3. Entry("vloadunpackld", Shape(2, 0, 0, 208, Masked))
    BY <2>1, <2>2, PlainEntry
  <2> QED BY <2>3 DEF M0F, M0F38, M0F3A, None, P66, Pf2
<1>2. Entry("vloadunpackhd", Shape(M0F38, None, 0, 212, Masked))
  <2>1. PlainParts("vloadunpackhd", 8404, 2, 0, 0, 212)
    BY DEF PlainParts, Codes, Spells, TakesImm
  <2>2. Masked \in PlainBases
    BY DEF PlainBases
  <2>3. Entry("vloadunpackhd", Shape(2, 0, 0, 212, Masked))
    BY <2>1, <2>2, PlainEntry
  <2> QED BY <2>3 DEF M0F, M0F38, M0F3A, None, P66, Pf2
<1>3. Entry("vpbroadcastd", Shape(M0F38, P66, 0, 88, Masked))
  <2>1. PlainParts("vpbroadcastd", 9304, 2, 1, 0, 88)
    BY DEF PlainParts, Codes, Spells, TakesImm
  <2>2. Masked \in PlainBases
    BY DEF PlainBases
  <2>3. Entry("vpbroadcastd", Shape(2, 1, 0, 88, Masked))
    BY <2>1, <2>2, PlainEntry
  <2> QED BY <2>3 DEF M0F, M0F38, M0F3A, None, P66, Pf2
<1> QED BY <1>1, <1>2, <1>3 DEF UnalignedLoadForms

\* The entries of ConvForms.
LEMMA ConvEntries == \A name \in DOMAIN ConvForms : Entry(name, ConvForms[name])
<1>1. Entry("vmovaps_load_conv", Shape(M0F, None, 0, 40, Converting))
  <2>1. PlainParts("vmovaps_load_conv", 4136, 1, 0, 0, 40)
    BY DEF PlainParts, Codes, Spells, TakesImm
  <2>2. Converting \in PlainBases
    BY DEF PlainBases
  <2>3. Entry("vmovaps_load_conv", Shape(1, 0, 0, 40, Converting))
    BY <2>1, <2>2, PlainEntry
  <2> QED BY <2>3 DEF M0F, M0F38, M0F3A, None, P66, Pf2
<1>2. Entry("vmovdqa32_load_conv", Shape(M0F, P66, 0, 111, Converting))
  <2>1. PlainParts("vmovdqa32_load_conv", 5231, 1, 1, 0, 111)
    BY DEF PlainParts, Codes, Spells, TakesImm
  <2>2. Converting \in PlainBases
    BY DEF PlainBases
  <2>3. Entry("vmovdqa32_load_conv", Shape(1, 1, 0, 111, Converting))
    BY <2>1, <2>2, PlainEntry
  <2> QED BY <2>3 DEF M0F, M0F38, M0F3A, None, P66, Pf2
<1>3. Entry("vloadunpackld_conv", Shape(M0F38, None, 0, 208, NoBroadcast))
  <2>1. PlainParts("vloadunpackld_conv", 8400, 2, 0, 0, 208)
    BY DEF PlainParts, Codes, Spells, TakesImm
  <2>2. NoBroadcast \in PlainBases
    BY DEF PlainBases
  <2>3. Entry("vloadunpackld_conv", Shape(2, 0, 0, 208, NoBroadcast))
    BY <2>1, <2>2, PlainEntry
  <2> QED BY <2>3 DEF M0F, M0F38, M0F3A, None, P66, Pf2
<1>4. Entry("vloadunpackhd_conv", Shape(M0F38, None, 0, 212, NoBroadcast))
  <2>1. PlainParts("vloadunpackhd_conv", 8404, 2, 0, 0, 212)
    BY DEF PlainParts, Codes, Spells, TakesImm
  <2>2. NoBroadcast \in PlainBases
    BY DEF PlainBases
  <2>3. Entry("vloadunpackhd_conv", Shape(2, 0, 0, 212, NoBroadcast))
    BY <2>1, <2>2, PlainEntry
  <2> QED BY <2>3 DEF M0F, M0F38, M0F3A, None, P66, Pf2
<1>5. Entry("vcvtfxpntdq2ps", Shape(M0F3A, None, 0, 203, [Unary EXCEPT !.imm = {0}]))
  <2> DEFINE o == [Unary EXCEPT !.imm = {0}]
  <2>1. IsBase(o)
    BY DEF IsBase, Plain, Masked, Unary, Compare, Shift
  <2>2. o.eh = 0 /\ o.ext = {}
    BY DEF Plain, Masked, Unary, Compare, Shift
  <2>3. ImmFits(o.imm, 3, 203)
    BY DEF ImmFits, TakesImm, Plain, Masked, Unary, Compare, Shift
  <2> HIDE DEF o
  <2>4. <<"vcvtfxpntdq2ps", 12491, {}>> \in Codes /\ Spells(12491, 3, 0, 0, 203, 0)
    BY DEF Codes, Spells
  <2>5. Parts("vcvtfxpntdq2ps", 12491, 3, 0, 0, 203, o)
    BY <2>1, <2>2, <2>3, <2>4 DEF Parts
  <2>6. Entry("vcvtfxpntdq2ps", Shape(3, 0, 0, 203, o))
    BY <2>5, ShapeEntry
  <2> QED BY <2>6 DEF o, M0F, M0F38, M0F3A, None, P66, Pf2
<1>6. Entry("vrndfxpntps", Shape(M0F3A, P66, 0, 82, [Unary EXCEPT !.imm = 0..3]))
  <2> DEFINE o == [Unary EXCEPT !.imm = 0..3]
  <2>1. IsBase(o)
    BY DEF IsBase, Plain, Masked, Unary, Compare, Shift
  <2>2. o.eh = 0 /\ o.ext = {}
    BY DEF Plain, Masked, Unary, Compare, Shift
  <2>3. ImmFits(o.imm, 3, 82)
    BY DEF ImmFits, TakesImm, Plain, Masked, Unary, Compare, Shift
  <2> HIDE DEF o
  <2>4. <<"vrndfxpntps", 13394, {}>> \in Codes /\ Spells(13394, 3, 1, 0, 82, 0)
    BY DEF Codes, Spells
  <2>5. Parts("vrndfxpntps", 13394, 3, 1, 0, 82, o)
    BY <2>1, <2>2, <2>3, <2>4 DEF Parts
  <2>6. Entry("vrndfxpntps", Shape(3, 1, 0, 82, o))
    BY <2>5, ShapeEntry
  <2> QED BY <2>6 DEF o, M0F, M0F38, M0F3A, None, P66, Pf2
<1>7. Entry("vfnmadd231ps", fma(188))
  <2>1. PlainParts("vfnmadd231ps", 9404, 2, 1, 0, 188)
    BY DEF PlainParts, Codes, Spells, TakesImm
  <2>2. Three \in PlainBases
    BY DEF PlainBases
  <2>3. Entry("vfnmadd231ps", Shape(2, 1, 0, 188, Three))
    BY <2>1, <2>2, PlainEntry
  <2> QED BY <2>3 DEF M0F, M0F38, M0F3A, None, P66, Pf2, fma
<1>8. Entry("vfmsub213ps", fma(170))
  <2>1. PlainParts("vfmsub213ps", 9386, 2, 1, 0, 170)
    BY DEF PlainParts, Codes, Spells, TakesImm
  <2>2. Three \in PlainBases
    BY DEF PlainBases
  <2>3. Entry("vfmsub213ps", Shape(2, 1, 0, 170, Three))
    BY <2>1, <2>2, PlainEntry
  <2> QED BY <2>3 DEF M0F, M0F38, M0F3A, None, P66, Pf2, fma
<1>9. Entry("vfmsub231ps", fma(186))
  <2>1. PlainParts("vfmsub231ps", 9402, 2, 1, 0, 186)
    BY DEF PlainParts, Codes, Spells, TakesImm
  <2>2. Three \in PlainBases
    BY DEF PlainBases
  <2>3. Entry("vfmsub231ps", Shape(2, 1, 0, 186, Three))
    BY <2>1, <2>2, PlainEntry
  <2> QED BY <2>3 DEF M0F, M0F38, M0F3A, None, P66, Pf2, fma
<1> QED BY <1>1, <1>2, <1>3, <1>4, <1>5, <1>6, <1>7, <1>8, <1>9 DEF ConvForms

\* The entries of ConvForms2.
LEMMA ConvEntries2 == \A name \in DOMAIN ConvForms2 : Entry(name, ConvForms2[name])
<1>1. Entry("vpermd", fma(54))
  <2>1. PlainParts("vpermd", 9270, 2, 1, 0, 54)
    BY DEF PlainParts, Codes, Spells, TakesImm
  <2>2. Three \in PlainBases
    BY DEF PlainBases
  <2>3. Entry("vpermd", Shape(2, 1, 0, 54, Three))
    BY <2>1, <2>2, PlainEntry
  <2> QED BY <2>3 DEF M0F, M0F38, M0F3A, None, P66, Pf2, fma
<1>2. Entry("vcvtfxpntps2dq", Shape(M0F3A, P66, 0, 203, [Unary EXCEPT !.imm = 0..3]))
  <2> DEFINE o == [Unary EXCEPT !.imm = 0..3]
  <2>1. IsBase(o)
    BY DEF IsBase, Plain, Masked, Unary, Compare, Shift
  <2>2. o.eh = 0 /\ o.ext = {}
    BY DEF Plain, Masked, Unary, Compare, Shift
  <2>3. ImmFits(o.imm, 3, 203)
    BY DEF ImmFits, TakesImm, Plain, Masked, Unary, Compare, Shift
  <2> HIDE DEF o
  <2>4. <<"vcvtfxpntps2dq", 13515, {}>> \in Codes /\ Spells(13515, 3, 1, 0, 203, 0)
    BY DEF Codes, Spells
  <2>5. Parts("vcvtfxpntps2dq", 13515, 3, 1, 0, 203, o)
    BY <2>1, <2>2, <2>3, <2>4 DEF Parts
  <2>6. Entry("vcvtfxpntps2dq", Shape(3, 1, 0, 203, o))
    BY <2>5, ShapeEntry
  <2> QED BY <2>6 DEF o, M0F, M0F38, M0F3A, None, P66, Pf2
<1>3. Entry("vmovaps_store_conv", Shape(M0F, None, 0, 41, NoBroadcast))
  <2>1. PlainParts("vmovaps_store_conv", 4137, 1, 0, 0, 41)
    BY DEF PlainParts, Codes, Spells, TakesImm
  <2>2. NoBroadcast \in PlainBases
    BY DEF PlainBases
  <2>3. Entry("vmovaps_store_conv", Shape(1, 0, 0, 41, NoBroadcast))
    BY <2>1, <2>2, PlainEntry
  <2> QED BY <2>3 DEF M0F, M0F38, M0F3A, None, P66, Pf2
<1>4. Entry("vcvtfxpntps2dq_adj", Shape(M0F3A, P66, 0, 203, [Unary EXCEPT !.imm = {16 * adj + mode : adj \in 0..7, mode \in 0..3}]))
  <2> DEFINE o == [Unary EXCEPT !.imm = {16 * adj + mode : adj \in 0..7, mode \in 0..3}]
  <2>1. IsBase(o)
    BY DEF IsBase, Plain, Masked, Unary, Compare, Shift
  <2>2. o.eh = 0 /\ o.ext = {}
    BY DEF Plain, Masked, Unary, Compare, Shift
  <2>3. ImmFits(o.imm, 3, 203)
    BY DEF ImmFits, TakesImm, Plain, Masked, Unary, Compare, Shift
  <2> HIDE DEF o
  <2>4. <<"vcvtfxpntps2dq_adj", 13515, {}>> \in Codes /\ Spells(13515, 3, 1, 0, 203, 0)
    BY DEF Codes, Spells
  <2>5. Parts("vcvtfxpntps2dq_adj", 13515, 3, 1, 0, 203, o)
    BY <2>1, <2>2, <2>3, <2>4 DEF Parts
  <2>6. Entry("vcvtfxpntps2dq_adj", Shape(3, 1, 0, 203, o))
    BY <2>5, ShapeEntry
  <2> QED BY <2>6 DEF o, M0F, M0F38, M0F3A, None, P66, Pf2
<1>5. Entry("vloadunpacklps_conv", Shape(M0F38, None, 0, 209, Converting))
  <2>1. PlainParts("vloadunpacklps_conv", 8401, 2, 0, 0, 209)
    BY DEF PlainParts, Codes, Spells, TakesImm
  <2>2. Converting \in PlainBases
    BY DEF PlainBases
  <2>3. Entry("vloadunpacklps_conv", Shape(2, 0, 0, 209, Converting))
    BY <2>1, <2>2, PlainEntry
  <2> QED BY <2>3 DEF M0F, M0F38, M0F3A, None, P66, Pf2
<1>6. Entry("vloadunpackhps_conv", Shape(M0F38, None, 0, 213, Converting))
  <2>1. PlainParts("vloadunpackhps_conv", 8405, 2, 0, 0, 213)
    BY DEF PlainParts, Codes, Spells, TakesImm
  <2>2. Converting \in PlainBases
    BY DEF PlainBases
  <2>3. Entry("vloadunpackhps_conv", Shape(2, 0, 0, 213, Converting))
    BY <2>1, <2>2, PlainEntry
  <2> QED BY <2>3 DEF M0F, M0F38, M0F3A, None, P66, Pf2
<1>7. Entry("vprefetch", Shape(M0F, None, 0, 24, [Plain EXCEPT !.reg = "ext", !.ext = {1, 2}]))
  <2> DEFINE o == [Plain EXCEPT !.reg = "ext", !.ext = {1, 2}]
  <2>1. IsBase(o)
    BY DEF IsBase, Plain, Masked, Unary, Compare, Shift
  <2>2. o.eh = 0 /\ o.ext = {1, 2}
    BY DEF Plain, Masked, Unary, Compare, Shift
  <2>3. ImmFits(o.imm, 1, 24)
    BY DEF ImmFits, TakesImm, Plain, Masked, Unary, Compare, Shift
  <2> HIDE DEF o
  <2>4. <<"vprefetch", 4120, {1, 2}>> \in Codes /\ Spells(4120, 1, 0, 0, 24, 0)
    BY DEF Codes, Spells
  <2>5. Parts("vprefetch", 4120, 1, 0, 0, 24, o)
    BY <2>1, <2>2, <2>3, <2>4 DEF Parts
  <2>6. Entry("vprefetch", Shape(1, 0, 0, 24, o))
    BY <2>5, ShapeEntry
  <2> QED BY <2>6 DEF o, M0F, M0F38, M0F3A, None, P66, Pf2
<1> QED BY <1>1, <1>2, <1>3, <1>4, <1>5, <1>6, <1>7 DEF ConvForms2

\* The entries of TranscForms.
LEMMA TranscEntries == \A name \in DOMAIN TranscForms : Entry(name, TranscForms[name])
<1>1. Entry("vexp223ps", Shape(M0F38, P66, 0, 200, UnaryReg))
  <2>1. PlainParts("vexp223ps", 9416, 2, 1, 0, 200)
    BY DEF PlainParts, Codes, Spells, TakesImm
  <2>2. UnaryReg \in PlainBases
    BY DEF PlainBases
  <2>3. Entry("vexp223ps", Shape(2, 1, 0, 200, UnaryReg))
    BY <2>1, <2>2, PlainEntry
  <2> QED BY <2>3 DEF M0F, M0F38, M0F3A, None, P66, Pf2
<1>2. Entry("vrcp23ps", Shape(M0F38, P66, 0, 202, UnaryReg))
  <2>1. PlainParts("vrcp23ps", 9418, 2, 1, 0, 202)
    BY DEF PlainParts, Codes, Spells, TakesImm
  <2>2. UnaryReg \in PlainBases
    BY DEF PlainBases
  <2>3. Entry("vrcp23ps", Shape(2, 1, 0, 202, UnaryReg))
    BY <2>1, <2>2, PlainEntry
  <2> QED BY <2>3 DEF M0F, M0F38, M0F3A, None, P66, Pf2
<1> QED BY <1>1, <1>2 DEF TranscForms

\* Every name finds its constructor in a table.
LEMMA FormEntry == \A name \in FormNames : Entry(name, Form(name))
<1> SUFFICES ASSUME NEW name \in FormNames PROVE Entry(name, Form(name))
  OBVIOUS
<1>1. PICK t : t = CHOOSE table \in Tables : name \in DOMAIN table
  OBVIOUS
<1>2. t \in Tables /\ name \in DOMAIN t
  BY <1>1, Zenon DEF FormNames
<1>3. Form(name) = t[name]
  BY <1>1 DEF Form
<1>4. Entry(name, t[name])
  BY <1>2, MoveEntries, Float64Entries, Float32Entries, UnalignedStoreEntries, IntEntries,
     ShiftEntries, UnalignedLoadEntries, ConvEntries, ConvEntries2, TranscEntries
     DEF Tables
<1> QED BY <1>3, <1>4

\* Two constructors of one number are the same instruction or differ in the
\* opcode extension.
LEMMA CodesTell ==
  ASSUME NEW a, NEW b, NEW c, NEW x, NEW y, NEW e, <<a, c, x>> \in Codes, <<b, c, y>> \in Codes,
         x # {} => e \in x, y # {} => e \in y
  PROVE  SameMnemonic(a, b)
  BY DEF Codes, SameMnemonic, Synonyms

(* The bits of a byte.                                                     *)

\* A register's number in its three fields.
LEMMA RegisterBits ==
  ASSUME NEW n \in 0 .. 31
  PROVE  /\ Bit(n, 8) \in 0 .. 1 /\ Bit(n, 16) \in 0 .. 1 /\ n % 8 \in 0 .. 7
         /\ n = 16 * Bit(n, 16) + 8 * Bit(n, 8) + (n % 8)
  BY DEF Bit

\* The first source's number, in two fields.
LEMMA SourceBits ==
  ASSUME NEW n \in 0 .. 31
  PROVE  Bit(n, 16) \in 0 .. 1 /\ n % 16 \in 0 .. 15 /\ n = 16 * Bit(n, 16) + (n % 16)
  BY DEF Bit

\* P0 read back.
LEMMA P0Bits ==
  ASSUME NEW r \in 0 .. 1, NEW x \in 0 .. 1, NEW b \in 0 .. 1, NEW s \in 0 .. 1, NEW map \in 1 .. 3,
         NEW p, p = Not(r) * 128 + Not(x) * 64 + Not(b) * 32 + Not(s) * 16 + map
  PROVE  /\ p \in 0 .. 255 /\ p % 4 = map
         /\ Not(Bit(p, 128)) = r /\ Not(Bit(p, 64)) = x /\ Not(Bit(p, 32)) = b /\ Not(Bit(p, 16)) = s
  BY DEF Bit, Not

\* P1 read back; its bit 2 is clear.
LEMMA P1Bits ==
  ASSUME NEW w \in 0 .. 1, NEW v \in 0 .. 15, NEW pp \in 0 .. 3,
         NEW p, p = w * 128 + (15 - v) * 8 + pp
  PROVE  /\ p \in 0 .. 255 /\ p % 4 = pp /\ p \div 128 = w /\ 15 - ((p \div 8) % 16) = v
         /\ Bit(p, 4) = 0
  BY DEF Bit

\* P2 read back, with the conversion and the hint set after assembly.
IsP2(p, v, k, sss, eh) ==
  /\ v \in 0 .. 1 /\ k \in 0 .. 7 /\ sss \in 0 .. 7 /\ eh \in 0 .. 1
  /\ p = Not(v) * 8 + k + 16 * sss + 128 * eh

LEMMA P2Bits ==
  ASSUME NEW v, NEW k, NEW sss, NEW eh, NEW p, IsP2(p, v, k, sss, eh)
  PROVE  /\ p \in 0 .. 255 /\ p % 8 = k /\ (p \div 16) % 8 = sss /\ p \div 128 = eh
         /\ Not(Bit(p, 8)) = v
  BY DEF Bit, Not, IsP2

\* ModRM read back.
LEMMA ModRmBits ==
  ASSUME NEW m \in 0 .. 3, NEW reg \in 0 .. 7, NEW rm \in 0 .. 7, NEW p, p = 64 * m + reg * 8 + rm
  PROVE  p \in 0 .. 255 /\ p \div 64 = m /\ (p \div 8) % 8 = reg /\ p % 8 = rm
  OBVIOUS

\* A displacement comes back with its sign.
LEMMA DispBack ==
  ASSUME NEW n \in Disps
  PROVE  /\ Bytes32(n) \in Seq(0 .. 255) /\ Len(Bytes32(n)) = 4
         /\ Signed32(Bytes32(n)) = n
<1> DEFINE q1 == n \div 256
           q2 == n \div 65536
           q3 == n \div 16777216
           b1 == n % 256
           b2 == q1 % 256
           b3 == q2 % 256
           b4 == q3 % 256
<1>1. n \in Int /\ -2147483647 - 1 =< n /\ n =< 2147483647
  <2>1. MaxDisp \in Int
    BY SMT DEF MaxDisp
  <2>2. n \in Int /\ -MaxDisp - 1 =< n /\ n =< MaxDisp
    BY <2>1, SMT DEF Disps
  <2>3. MaxDisp = 2147483647
    BY SMT DEF MaxDisp
  <2> QED BY <2>1, <2>2, <2>3, SMT
<1>2. /\ b1 \in 0 .. 255 /\ b2 \in 0 .. 255 /\ b3 \in 0 .. 255 /\ b4 \in 0 .. 255
      /\ q1 \in Int /\ q2 \in Int /\ q3 \in Int
  BY <1>1, SMT
<1>3. q3 \in -128 .. 127
  BY <1>1, SMT
<1>4. n = 256 * q1 + b1 /\ q1 = 256 * q2 + b2 /\ q2 = 256 * q3 + b3
  BY <1>1, SMT
<1>5. (IF b4 > 127 THEN b4 - 256 ELSE b4) = q3
  BY <1>2, <1>3, SMT
<1>6. Bytes32(n) = <<b1, b2, b3, b4>>
  BY SMT DEF Bytes32
<1>7. Signed32(Bytes32(n)) = b1 + 256 * b2 + 65536 * b3 + 16777216 * q3
  BY <1>5, <1>6, SMT DEF Signed32
<1> HIDE DEF q1, q2, q3, b1, b2, b3, b4
<1>8. Signed32(Bytes32(n)) = n
  BY <1>2, <1>3, <1>4, <1>7, SMT
<1>9. Bytes32(n) \in Seq(0 .. 255) /\ Len(Bytes32(n)) = 4
  BY <1>2, <1>6, SMT
<1> QED BY <1>8, <1>9

(* The bytes of an instruction.                                            *)

Operands == [zmm : Zmms] \cup [base : 0 .. 15, disp : Disps, conv : 0 .. 7]
RmB(rm) == IF IsReg(rm) THEN Bit(rm.zmm, 8) ELSE Bit(rm.base, 8)
RmX(rm) == IF IsReg(rm) THEN Bit(rm.zmm, 16) ELSE 0
RmLow(rm) == IF IsReg(rm) THEN rm.zmm % 8 ELSE rm.base % 8
RmMod(rm) == IF IsReg(rm) THEN 3 ELSE 2
RmDisp(rm) == IF IsReg(rm) THEN << >> ELSE Bytes32(rm.disp)

\* The parts of an operand that are encoded.
LEMMA OperandParts ==
  ASSUME NEW rm \in Operands
  PROVE  /\ RmB(rm) \in 0 .. 1 /\ RmX(rm) \in 0 .. 1 /\ RmLow(rm) \in 0 .. 7 /\ RmMod(rm) \in 0 .. 3
         /\ RmDisp(rm) \in Seq(0 .. 255) /\ Len(RmDisp(rm)) = IF IsReg(rm) THEN 0 ELSE 4
         /\ IsReg(rm) => rm = Reg(16 * RmX(rm) + 8 * RmB(rm) + RmLow(rm)) /\ rm.zmm \in Zmms
         /\ ~IsReg(rm) => /\ rm.base = 8 * RmB(rm) + RmLow(rm) /\ rm.disp \in Disps
                          /\ rm.conv \in 0 .. 7 /\ rm.base \in 0 .. 15
<1>1. CASE rm \in [zmm : Zmms]
  <2>1. IsReg(rm) /\ rm.zmm \in 0 .. 31 /\ rm = [zmm |-> rm.zmm]
    BY <1>1 DEF IsReg, Zmms
  <2>2. PICK n \in 0 .. 31 : n = rm.zmm
    BY <2>1
  <2>3. /\ Bit(n, 8) \in 0 .. 1 /\ Bit(n, 16) \in 0 .. 1 /\ n % 8 \in 0 .. 7
        /\ n = 16 * Bit(n, 16) + 8 * Bit(n, 8) + (n % 8)
    BY <2>2, RegisterBits
  <2>4. RmB(rm) = Bit(n, 8) /\ RmX(rm) = Bit(n, 16) /\ RmLow(rm) = n % 8 /\ RmMod(rm) = 3 /\ RmDisp(rm) = << >>
    BY <2>1, <2>2 DEF RmB, RmX, RmLow, RmMod, RmDisp
  <2>5. n = 16 * RmX(rm) + 8 * RmB(rm) + RmLow(rm)
    BY <2>3, <2>4
  <2>6. rm = Reg(16 * RmX(rm) + 8 * RmB(rm) + RmLow(rm))
    BY <2>1, <2>2, <2>5 DEF Reg
  <2>7. << >> \in Seq(0 .. 255) /\ Len(<< >>) = 0
    OBVIOUS
  <2>8. rm.zmm \in Zmms
    BY <1>1
  <2> QED BY <2>1, <2>3, <2>4, <2>6, <2>7, <2>8
<1>2. CASE rm \in [base : 0 .. 15, disp : Disps, conv : 0 .. 7]
  <2>1. ~IsReg(rm) /\ rm.base \in 0 .. 15 /\ rm.disp \in Disps /\ rm.conv \in 0 .. 7
    BY <1>2 DEF IsReg
  <2>2. PICK n \in 0 .. 15 : n = rm.base
    BY <2>1
  <2>3. Bit(n, 8) \in 0 .. 1 /\ n % 8 \in 0 .. 7 /\ n = 8 * Bit(n, 8) + (n % 8)
    BY DEF Bit
  <2>4. RmB(rm) = Bit(n, 8) /\ RmX(rm) = 0 /\ RmLow(rm) = n % 8 /\ RmMod(rm) = 2 /\ RmDisp(rm) = Bytes32(rm.disp)
    BY <2>1, <2>2 DEF RmB, RmX, RmLow, RmMod, RmDisp
  <2>5. Bytes32(rm.disp) \in Seq(0 .. 255) /\ Len(Bytes32(rm.disp)) = 4
    BY <2>1, DispBack
  <2> QED BY <2>1, <2>2, <2>3, <2>4, <2>5
<1> QED BY <1>1, <1>2 DEF Operands

\* What a request asks for.
LEMMA Asked ==
  ASSUME NEW r \in Requests, Accepts(r)
  PROVE  /\ IsForm(Form(r.form)) /\ r.reg \in 0 .. 31 /\ r.v \in 0 .. 31 /\ r.k \in 0 .. 7
         /\ r.rm \in Operands /\ r.imm \in Seq(0 .. 255) /\ r.form \in FormNames
         /\ Len(r.imm) = IF TakesImm(Form(r.form).map, Form(r.form).op) THEN 1 ELSE 0
         /\ Form(r.form).base.ext # {} => r.reg \in Form(r.form).base.ext
<1> DEFINE f == Form(r.form)
<1>1. /\ r.form \in FormNames /\ r.reg \in 0 .. 31 /\ r.v \in 0 .. 31 /\ r.k \in 0 .. 7
      /\ r.rm \in Operands /\ r.imm \in Seq(0 .. 255)
  BY DEF Requests, Operands, Zmms, Ks
<1>2. IsForm(f)
  BY <1>1, FormEntry DEF Entry
<1>3. IF f.base.imm = {} THEN r.imm = << >> ELSE Len(r.imm) = 1 /\ r.imm[1] \in f.base.imm
  BY DEF Accepts
<1>4. r.reg \in IF f.base.reg = "ext" THEN f.base.ext ELSE Zmms
  BY DEF Accepts
<1> HIDE DEF f
<1>5. Len(r.imm) = IF TakesImm(f.map, f.op) THEN 1 ELSE 0
  <2>1. f.base.imm # {} <=> TakesImm(f.map, f.op)
    BY <1>2 DEF IsForm
  <2>2. Len(<< >>) = 0
    OBVIOUS
  <2> QED BY <1>3, <2>1, <2>2
<1>6. f.base.ext # {} => r.reg \in f.base.ext
  <2>1. f.base.ext # {} => f.base.reg = "ext"
    BY <1>2 DEF IsForm, IsBase
  <2> QED BY <1>4, <2>1
<1> QED BY <1>1, <1>2, <1>5, <1>6 DEF f

\* The bytes that carry fields, before the conversion and the hint are set.
BP0(map, reg, rm) == Not(Bit(reg, 8)) * 128 + Not(RmX(rm)) * 64 + Not(RmB(rm)) * 32 + Not(Bit(reg, 16)) * 16 + map
BP1(w, v, pp) == w * 128 + (15 - (v % 16)) * 8 + pp
BP2(v, k) == Not(Bit(v, 16)) * 8 + k
BModRm(reg, rm) == 64 * RmMod(rm) + (reg % 8) * 8 + RmLow(rm)
FirstSix(map, pp, w, reg, v, rm, k, op) ==
  <<98, BP0(map, reg, rm), BP1(w, v, pp), BP2(v, k), op, BModRm(reg, rm)>>

\* mvex in its parts.
InParts(map, pp, w, reg, v, rm, k, op, imm) ==
  mvex(map, pp, w, reg, v, rm, k, op, imm) = FirstSix(map, pp, w, reg, v, rm, k, op) \o RmDisp(rm) \o imm

LEMMA MvexParts ==
  ASSUME NEW map, NEW pp, NEW w, NEW reg, NEW v, NEW rm, NEW k, NEW op, NEW imm, rm \in Operands
  PROVE  InParts(map, pp, w, reg, v, rm, k, op, imm)
<1> USE DEF InParts
<1>1. CASE IsReg(rm)
  <2>1. RmB(rm) = Bit(rm.zmm, 8) /\ RmX(rm) = Bit(rm.zmm, 16) /\ RmLow(rm) = rm.zmm % 8 /\ RmMod(rm) = 3 /\ RmDisp(rm) = << >>
    BY <1>1 DEF RmB, RmX, RmLow, RmMod, RmDisp
  <2>2. BModRm(reg, rm) = 192 + (reg % 8) * 8 + (rm.zmm % 8)
    BY <2>1 DEF BModRm
  <2> QED BY <1>1, <2>1, <2>2 DEF mvex, FirstSix, BP0, BP1, BP2
<1>2. CASE ~IsReg(rm)
  <2>1. RmB(rm) = Bit(rm.base, 8) /\ RmX(rm) = 0 /\ RmLow(rm) = rm.base % 8 /\ RmMod(rm) = 2 /\ RmDisp(rm) = Bytes32(rm.disp)
    BY <1>2 DEF RmB, RmX, RmLow, RmMod, RmDisp
  <2>2. BModRm(reg, rm) = 128 + (reg % 8) * 8 + (rm.base % 8)
    BY <2>1 DEF BModRm
  <2> QED BY <1>2, <2>1, <2>2 DEF mvex, FirstSix, BP0, BP1, BP2
<1> QED BY <1>1, <1>2

\* Six bytes, a displacement and an immediate in a row.
IsPieces(S, h, d, m) == h \in Seq(S) /\ d \in Seq(S) /\ m \in Seq(S) /\ Len(h) = 6

LEMMA ThreePieces ==
  ASSUME NEW S, NEW h, NEW d, NEW m, IsPieces(S, h, d, m)
  PROVE  /\ h \o d \o m \in Seq(S) /\ Len(d) \in Nat /\ Len(m) \in Nat
         /\ Len(h \o d \o m) = 6 + Len(d) + Len(m)
         /\ \A i \in 1 .. 6 : (h \o d \o m)[i] = h[i]
         /\ \A i \in 1 .. Len(d) : (h \o d \o m)[6 + i] = d[i]
         /\ \A i \in 1 .. Len(m) : (h \o d \o m)[6 + Len(d) + i] = m[i]
<1> USE DEF IsPieces
<1>1. PICK a : a = h \o d
  OBVIOUS
<1>2. PICK x \in Nat : x = Len(d)
  BY LenProperties
<1>3. PICK y \in Nat : y = Len(m)
  BY LenProperties
<1>4. /\ a \in Seq(S) /\ Len(a) = 6 + x
      /\ \A i \in 1 .. 6 + x : a[i] = IF i =< 6 THEN h[i] ELSE d[i - 6]
  <2>1. /\ h \o d \in Seq(S) /\ Len(h \o d) = Len(h) + Len(d)
        /\ \A i \in 1 .. Len(h) + Len(d) : (h \o d)[i] = IF i =< Len(h) THEN h[i] ELSE d[i - Len(h)]
    BY ConcatProperties, Zenon
  <2> QED BY <1>1, <1>2, <2>1
<1>5. /\ a \o m \in Seq(S) /\ Len(a \o m) = (6 + x) + y
      /\ \A i \in 1 .. (6 + x) + y : (a \o m)[i] = IF i =< 6 + x THEN a[i] ELSE m[i - (6 + x)]
  <2>1. /\ a \o m \in Seq(S) /\ Len(a \o m) = Len(a) + Len(m)
        /\ \A i \in 1 .. Len(a) + Len(m) : (a \o m)[i] = IF i =< Len(a) THEN a[i] ELSE m[i - Len(a)]
    BY <1>4, ConcatProperties, Zenon
  <2> QED BY <1>3, <1>4, <2>1
<1>6. PICK w : w = a \o m
  OBVIOUS
<1>7. \A i \in 1 .. 6 : w[i] = h[i]
  BY <1>4, <1>5, <1>6
<1>8. \A i \in 1 .. x : w[6 + i] = d[i]
  <2> TAKE i \in 1 .. x
  <2>1. 6 + i \in 1 .. (6 + x) + y /\ 6 + i \in 1 .. 6 + x /\ 6 + i =< 6 + x /\ ~(6 + i =< 6) /\ (6 + i) - 6 = i
    OBVIOUS
  <2> QED BY <1>4, <1>5, <1>6, <2>1
<1>9. \A i \in 1 .. y : w[6 + x + i] = m[i]
  <2> TAKE i \in 1 .. y
  <2>1. 6 + x + i \in 1 .. (6 + x) + y /\ ~(6 + x + i =< 6 + x) /\ (6 + x + i) - (6 + x) = i
    OBVIOUS
  <2> QED BY <1>5, <1>6, <2>1
<1> QED BY <1>1, <1>2, <1>3, <1>5, <1>6, <1>7, <1>8, <1>9

\* Changing the fourth element leaves the others.
IsChange(s, n, t) == s \in Seq(0 .. 255) /\ Len(s) >= 6 /\ n \in 0 .. 255 /\ t = [s EXCEPT ![4] = n]

LEMMA FourthChanged ==
  ASSUME NEW s, NEW n, NEW t, IsChange(s, n, t)
  PROVE  /\ t \in Seq(0 .. 255) /\ Len(t) = Len(s) /\ t[4] = n
         /\ \A i \in 1 .. Len(s) : i # 4 => t[i] = s[i]
<1> USE DEF IsChange
<1>1. Len(s) \in Nat /\ DOMAIN s = 1 .. Len(s) /\ \A i \in 1 .. Len(s) : s[i] \in 0 .. 255
  BY LenProperties, ElementOfSeq
<1>2. 4 \in 1 .. Len(s)
  BY <1>1
<1>3. \A i \in 1 .. Len(s) : t[i] = IF i = 4 THEN n ELSE s[i]
  BY <1>1
<1>4. t = [i \in 1 .. Len(s) |-> IF i = 4 THEN n ELSE s[i]]
  BY <1>1
<1>5. \A i \in 1 .. Len(s) : (IF i = 4 THEN n ELSE s[i]) \in 0 .. 255
  BY <1>1
<1>6. t \in Seq(0 .. 255) /\ Len(t) = Len(s)
  <2>1. t \in [1 .. Len(s) -> 0 .. 255]
    BY <1>4, <1>5, ZenonT(60)
  <2> QED BY <1>1, <2>1
<1> QED BY <1>2, <1>3, <1>6

\* The conversion a request has encoded, and the finished third prefix byte.
SssOf(r) == IF Form(r.form).base.sss THEN src_sss(r.rm) ELSE Form(r.form).base.fixed
P2Of(r) == BP2(r.v, r.k) + 16 * SssOf(r) + 128 * Form(r.form).base.eh
DispLen(r) == IF IsReg(r.rm) THEN 0 ELSE 4

\* The conversion fits its three bits.
LEMMA SssFits ==
  ASSUME NEW r \in Requests, Accepts(r)
  PROVE  SssOf(r) \in 0 .. 7 /\ Form(r.form).base.eh \in 0 .. 1
<1>1. IsForm(Form(r.form)) /\ r.rm \in Operands
  BY Asked
<1>2. Form(r.form).base.fixed \in 0 .. 7 /\ Form(r.form).base.eh \in 0 .. 1
  BY <1>1 DEF IsForm, IsBase
<1>3. src_sss(r.rm) \in 0 .. 7
  <2>1. ~IsReg(r.rm) => r.rm.conv \in 0 .. 7
    BY <1>1, OperandParts
  <2> QED BY <2>1 DEF src_sss
<1> QED BY <1>2, <1>3 DEF SssOf

\* The first six bytes are bytes.
Assembly(map, pp, w, reg, v, rm, k, op) ==
  /\ map \in 1 .. 3 /\ pp \in 0 .. 3 /\ w \in 0 .. 1 /\ reg \in 0 .. 31 /\ v \in 0 .. 31
  /\ rm \in Operands /\ k \in 0 .. 7 /\ op \in 0 .. 255

LEMMA SixBytes ==
  ASSUME NEW map, NEW pp, NEW w, NEW reg, NEW v, NEW rm, NEW k, NEW op,
         Assembly(map, pp, w, reg, v, rm, k, op)
  PROVE  /\ BP0(map, reg, rm) \in 0 .. 255 /\ BP1(w, v, pp) \in 0 .. 255 /\ BP2(v, k) \in 0 .. 15
         /\ BModRm(reg, rm) \in 0 .. 255
         /\ FirstSix(map, pp, w, reg, v, rm, k, op) \in Seq(0 .. 255)
         /\ Len(FirstSix(map, pp, w, reg, v, rm, k, op)) = 6
<1> USE DEF Assembly
<1>1. /\ Bit(reg, 8) \in 0 .. 1 /\ Bit(reg, 16) \in 0 .. 1 /\ reg % 8 \in 0 .. 7
  BY RegisterBits
<1>2. Bit(v, 16) \in 0 .. 1 /\ v % 16 \in 0 .. 15
  BY SourceBits
<1>3. RmB(rm) \in 0 .. 1 /\ RmX(rm) \in 0 .. 1 /\ RmLow(rm) \in 0 .. 7 /\ RmMod(rm) \in 0 .. 3
  BY OperandParts
<1>4. BP0(map, reg, rm) \in 0 .. 255
  BY <1>1, <1>3 DEF BP0, Not
<1>5. BP1(w, v, pp) \in 0 .. 255
  BY <1>2 DEF BP1
<1>6. BP2(v, k) \in 0 .. 15
  BY <1>2 DEF BP2, Not
<1>7. BModRm(reg, rm) \in 0 .. 255
  BY <1>1, <1>3 DEF BModRm
<1>8. BP2(v, k) \in 0 .. 255 /\ 98 \in 0 .. 255
  BY <1>6
<1>9. /\ FirstSix(map, pp, w, reg, v, rm, k, op) \in Seq(0 .. 255)
      /\ Len(FirstSix(map, pp, w, reg, v, rm, k, op)) = 6
  BY <1>4, <1>5, <1>7, <1>8 DEF FirstSix
<1> QED BY <1>4, <1>5, <1>6, <1>7, <1>9

\* A finished third prefix byte.
Third(v, k, sss, eh) == BP2(v, k) + 16 * sss + 128 * eh

\* Every byte of what is assembled.
IsAssembled(e, map, pp, w, reg, v, rm, k, op, imm, sss, eh) ==
  /\ Assembly(map, pp, w, reg, v, rm, k, op)
  /\ imm \in Seq(0 .. 255) /\ sss \in 0 .. 7 /\ eh \in 0 .. 1
  /\ e = with_eh(with_sss(mvex(map, pp, w, reg, v, rm, k, op, imm), sss), eh)

LEMMA Assembled ==
  ASSUME NEW map, NEW pp, NEW w, NEW reg, NEW v, NEW rm, NEW k, NEW op, NEW imm, NEW sss, NEW eh,
         NEW e, IsAssembled(e, map, pp, w, reg, v, rm, k, op, imm, sss, eh)
  PROVE  /\ e \in Seq(0 .. 255) /\ Len(e) = 6 + Len(RmDisp(rm)) + Len(imm)
         /\ e[1] = 98 /\ e[2] = BP0(map, reg, rm) /\ e[3] = BP1(w, v, pp) /\ e[4] = Third(v, k, sss, eh)
         /\ e[5] = op /\ e[6] = BModRm(reg, rm)
         /\ \A i \in 1 .. Len(RmDisp(rm)) : e[6 + i] = RmDisp(rm)[i]
         /\ \A i \in 1 .. Len(imm) : e[6 + Len(RmDisp(rm)) + i] = imm[i]
<1>a. Assembly(map, pp, w, reg, v, rm, k, op)
  BY DEF IsAssembled
<1>b. imm \in Seq(0 .. 255) /\ sss \in 0 .. 7 /\ eh \in 0 .. 1
  BY DEF IsAssembled
<1>c. rm \in Operands
  BY <1>a DEF Assembly
<1>1. PICK h : h = FirstSix(map, pp, w, reg, v, rm, k, op)
  OBVIOUS
<1>2. h \in Seq(0 .. 255) /\ Len(h) = 6
  BY <1>1, <1>a, SixBytes
<1>3. BP2(v, k) \in 0 .. 15
  BY <1>a, SixBytes
<1>4. h[1] = 98 /\ h[2] = BP0(map, reg, rm) /\ h[3] = BP1(w, v, pp) /\ h[4] = BP2(v, k) /\ h[5] = op /\ h[6] = BModRm(reg, rm)
  BY <1>1 DEF FirstSix
<1>5. PICK d : d = RmDisp(rm)
  OBVIOUS
<1>6. d \in Seq(0 .. 255)
  BY <1>5, <1>c, OperandParts
<1>7. PICK m : m = h \o d \o imm
  OBVIOUS
<1>8. /\ m \in Seq(0 .. 255) /\ Len(d) \in Nat /\ Len(imm) \in Nat /\ Len(m) = 6 + Len(d) + Len(imm)
      /\ \A i \in 1 .. 6 : m[i] = h[i]
      /\ \A i \in 1 .. Len(d) : m[6 + i] = d[i]
      /\ \A i \in 1 .. Len(imm) : m[6 + Len(d) + i] = imm[i]
  <2>1. IsPieces(0 .. 255, h, d, imm)
    BY <1>2, <1>6, <1>b DEF IsPieces
  <2> QED BY <1>7, <2>1, ThreePieces, SMTT(30)
<1>9. mvex(map, pp, w, reg, v, rm, k, op, imm) = m
  <2>1. mvex(map, pp, w, reg, v, rm, k, op, imm) = FirstSix(map, pp, w, reg, v, rm, k, op) \o RmDisp(rm) \o imm
    <3>1. InParts(map, pp, w, reg, v, rm, k, op, imm)
      BY <1>c, MvexParts
    <3> QED BY <3>1, Zenon DEF InParts
  <2> QED BY <1>1, <1>5, <1>7, <2>1, Zenon
<1>10. e = with_eh(with_sss(m, sss), eh)
  BY <1>9 DEF IsAssembled
<1>11. PICK s : s = with_sss(m, sss)
  OBVIOUS
<1>12. PICK x \in Nat, y \in Nat : x = Len(d) /\ y = Len(imm)
  BY <1>8
<1>13. Len(m) = 6 + x + y /\ Len(m) >= 6
  BY <1>8, <1>12
<1>14. PICK c \in 0 .. 15 : c = BP2(v, k)
  BY <1>3
<1>15. m[4] = c
  BY <1>4, <1>8, <1>14
<1>16. s \in Seq(0 .. 255) /\ Len(s) = Len(m) /\ s[4] = c + 16 * sss /\ \A i \in 1 .. Len(m) : i # 4 => s[i] = m[i]
  <2>1. c + 16 * sss \in 0 .. 255
    BY <1>b
  <2>2. s = [m EXCEPT ![4] = c + 16 * sss]
    BY <1>11, <1>15 DEF with_sss
  <2>3. IsChange(m, c + 16 * sss, s)
    BY <1>8, <1>13, <2>1, <2>2 DEF IsChange
  <2> QED BY <2>3, FourthChanged
<1>17. e \in Seq(0 .. 255) /\ Len(e) = Len(s) /\ e[4] = c + 16 * sss + 128 * eh /\ \A i \in 1 .. Len(s) : i # 4 => e[i] = s[i]
  <2>1. c + 16 * sss + 128 * eh \in 0 .. 255
    BY <1>b
  <2>2. e = [s EXCEPT ![4] = c + 16 * sss + 128 * eh]
    BY <1>10, <1>11, <1>16 DEF with_eh
  <2>3. IsChange(s, c + 16 * sss + 128 * eh, e)
    BY <1>13, <1>16, <2>1, <2>2 DEF IsChange
  <2> QED BY <2>3, FourthChanged
<1>18. Len(e) = 6 + x + y /\ \A i \in 1 .. 6 + x + y : i # 4 => e[i] = m[i]
  BY <1>13, <1>16, <1>17
<1>19. e[4] = Third(v, k, sss, eh)
  BY <1>14, <1>17 DEF Third
<1>20. \A i \in 1 .. 6 : i # 4 => e[i] = h[i]
  BY <1>8, <1>18
<1>21. e[1] = h[1] /\ e[2] = h[2] /\ e[3] = h[3] /\ e[5] = h[5] /\ e[6] = h[6]
  BY <1>20
<1>22. \A i \in 1 .. x : e[6 + i] = d[i]
  <2> TAKE i \in 1 .. x
  <2>1. 6 + i \in 1 .. 6 + x + y /\ 6 + i # 4
    OBVIOUS
  <2> QED BY <1>8, <1>12, <1>18, <2>1
<1>23. \A i \in 1 .. y : e[6 + x + i] = imm[i]
  <2> TAKE i \in 1 .. y
  <2>1. 6 + x + i \in 1 .. 6 + x + y /\ 6 + x + i # 4
    OBVIOUS
  <2> QED BY <1>8, <1>12, <1>18, <2>1
<1>24. e[1] = 98 /\ e[2] = BP0(map, reg, rm) /\ e[3] = BP1(w, v, pp) /\ e[5] = op /\ e[6] = BModRm(reg, rm)
  BY <1>4, <1>21
<1> QED BY <1>5, <1>12, <1>17, <1>18, <1>19, <1>22, <1>23, <1>24

\* Every byte of an encoded request.
LEMMA EncodeBytes ==
  ASSUME NEW r \in Requests, Accepts(r)
  PROVE  LET f == Form(r.form) IN
         IsAssembled(Encode(r), f.map, f.pp, f.w, r.reg, r.v, r.rm, r.k, f.op, r.imm, SssOf(r), f.base.eh)
<1>1. PICK f : f = Form(r.form)
  OBVIOUS
<1>2. IsForm(f) /\ r.reg \in 0 .. 31 /\ r.v \in 0 .. 31 /\ r.k \in 0 .. 7 /\ r.rm \in Operands /\ r.imm \in Seq(0 .. 255)
  BY <1>1, Asked
<1>3. SssOf(r) \in 0 .. 7 /\ f.base.eh \in 0 .. 1
  BY <1>1, SssFits
<1>4. Assembly(f.map, f.pp, f.w, r.reg, r.v, r.rm, r.k, f.op)
  BY <1>2 DEF Assembly, IsForm
<1>5. Encode(r) = with_eh(with_sss(mvex(f.map, f.pp, f.w, r.reg, r.v, r.rm, r.k, f.op, r.imm), SssOf(r)), f.base.eh)
  BY <1>1, Zenon DEF Encode, SssOf
<1> QED BY <1>1, <1>2, <1>3, <1>4, <1>5 DEF IsAssembled

(* Reading it back.                                                        *)

\* The fields of assembled bytes are what was assembled.
Reads(d, map, pp, w, reg, v, rm, k, op, imm, sss, eh) ==
  /\ d.map = map /\ d.pp = pp /\ d.w = w /\ d.op = op /\ d.eh = eh
  /\ d.reg = reg /\ d.v = v /\ d.k = k /\ d.imm = imm /\ d.sss = sss
  /\ d.rm = IF IsReg(rm) THEN rm ELSE [base |-> rm.base, disp |-> rm.disp]

LEMMA ReadBack ==
  ASSUME NEW map, NEW pp, NEW w, NEW reg, NEW v, NEW rm, NEW k, NEW op, NEW imm, NEW sss, NEW eh,
         NEW e, IsAssembled(e, map, pp, w, reg, v, rm, k, op, imm, sss, eh), NEW d, d = Fields(e)
  PROVE  Reads(d, map, pp, w, reg, v, rm, k, op, imm, sss, eh)
<1>1. /\ map \in 1 .. 3 /\ pp \in 0 .. 3 /\ w \in 0 .. 1 /\ reg \in 0 .. 31 /\ v \in 0 .. 31
      /\ rm \in Operands /\ k \in 0 .. 7 /\ op \in 0 .. 255
  BY DEF IsAssembled, Assembly
<1>2. imm \in Seq(0 .. 255) /\ sss \in 0 .. 7 /\ eh \in 0 .. 1
  BY DEF IsAssembled
<1>3. e \in Seq(0 .. 255) /\ Len(e) = 6 + Len(RmDisp(rm)) + Len(imm)
  BY Assembled
<1>4. e[2] = BP0(map, reg, rm) /\ e[3] = BP1(w, v, pp) /\ e[4] = Third(v, k, sss, eh) /\ e[5] = op /\ e[6] = BModRm(reg, rm)
  BY Assembled
<1>5. \A i \in 1 .. Len(RmDisp(rm)) : e[6 + i] = RmDisp(rm)[i]
  BY Assembled
<1>6. \A i \in 1 .. Len(imm) : e[6 + Len(RmDisp(rm)) + i] = imm[i]
  BY Assembled
<1>7. /\ Bit(reg, 8) \in 0 .. 1 /\ Bit(reg, 16) \in 0 .. 1 /\ reg % 8 \in 0 .. 7
      /\ reg = 16 * Bit(reg, 16) + 8 * Bit(reg, 8) + (reg % 8)
  BY <1>1, RegisterBits
<1>8. Bit(v, 16) \in 0 .. 1 /\ v % 16 \in 0 .. 15 /\ v = 16 * Bit(v, 16) + (v % 16)
  BY <1>1, SourceBits
<1>9. /\ RmB(rm) \in 0 .. 1 /\ RmX(rm) \in 0 .. 1 /\ RmLow(rm) \in 0 .. 7 /\ RmMod(rm) \in 0 .. 3
  BY <1>1, OperandParts
<1>10. /\ IsReg(rm) => rm = Reg(16 * RmX(rm) + 8 * RmB(rm) + RmLow(rm))
       /\ ~IsReg(rm) => rm.base = 8 * RmB(rm) + RmLow(rm) /\ rm.disp \in Disps
  BY <1>1, OperandParts
<1>11. /\ e[2] % 4 = map
       /\ Not(Bit(e[2], 128)) = Bit(reg, 8) /\ Not(Bit(e[2], 64)) = RmX(rm)
       /\ Not(Bit(e[2], 32)) = RmB(rm) /\ Not(Bit(e[2], 16)) = Bit(reg, 16)
  <2>1. PICK a \in 0 .. 1, b \in 0 .. 1, x \in 0 .. 1, s \in 0 .. 1 :
           a = Bit(reg, 8) /\ b = RmB(rm) /\ x = RmX(rm) /\ s = Bit(reg, 16)
    BY <1>7, <1>9
  <2>2. e[2] = Not(a) * 128 + Not(x) * 64 + Not(b) * 32 + Not(s) * 16 + map
    BY <1>4, <2>1 DEF BP0
  <2>3. e[2] % 4 = map /\ Not(Bit(e[2], 128)) = a /\ Not(Bit(e[2], 64)) = x /\ Not(Bit(e[2], 32)) = b /\ Not(Bit(e[2], 16)) = s
    BY <1>1, <2>2, P0Bits
  <2> QED BY <2>1, <2>3
<1>12. e[3] % 4 = pp /\ e[3] \div 128 = w /\ 15 - ((e[3] \div 8) % 16) = v % 16 /\ Bit(e[3], 4) = 0 /\ e[3] \in 0 .. 255
  <2>1. PICK n \in 0 .. 15 : n = v % 16
    BY <1>8
  <2>2. e[3] = w * 128 + (15 - n) * 8 + pp
    BY <1>4, <2>1 DEF BP1
  <2>3. e[3] % 4 = pp /\ e[3] \div 128 = w /\ 15 - ((e[3] \div 8) % 16) = n /\ Bit(e[3], 4) = 0 /\ e[3] \in 0 .. 255
    BY <1>1, <2>2, P1Bits
  <2> QED BY <2>1, <2>3
<1>13. e[4] % 8 = k /\ (e[4] \div 16) % 8 = sss /\ e[4] \div 128 = eh /\ Not(Bit(e[4], 8)) = Bit(v, 16)
  <2>1. PICK n \in 0 .. 1 : n = Bit(v, 16)
    BY <1>8
  <2>2. e[4] = Not(n) * 8 + k + 16 * sss + 128 * eh
    BY <1>4, <2>1 DEF Third, BP2
  <2>3. e[4] % 8 = k /\ (e[4] \div 16) % 8 = sss /\ e[4] \div 128 = eh /\ Not(Bit(e[4], 8)) = n
    <3>1. IsP2(e[4], n, k, sss, eh)
      BY <1>1, <1>2, <2>2 DEF IsP2
    <3> QED BY <3>1, P2Bits
  <2> QED BY <2>1, <2>3
<1>14. e[6] \div 64 = RmMod(rm) /\ (e[6] \div 8) % 8 = reg % 8 /\ e[6] % 8 = RmLow(rm)
  <2>1. PICK m \in 0 .. 3, a \in 0 .. 7, b \in 0 .. 7 : m = RmMod(rm) /\ a = reg % 8 /\ b = RmLow(rm)
    BY <1>7, <1>9
  <2>2. e[6] = 64 * m + a * 8 + b
    BY <1>4, <2>1 DEF BModRm
  <2>3. e[6] \div 64 = m /\ (e[6] \div 8) % 8 = a /\ e[6] % 8 = b
    BY <2>2, ModRmBits
  <2> QED BY <2>1, <2>3
<1>15. 16 * Not(Bit(e[2], 16)) + 8 * Not(Bit(e[2], 128)) + ((e[6] \div 8) % 8) = reg
  BY <1>7, <1>11, <1>14
<1>16. 16 * Not(Bit(e[4], 8)) + 15 - ((e[3] \div 8) % 16) = v
  <2>1. PICK a \in 0 .. 1, b \in 0 .. 15 : a = Bit(v, 16) /\ b = v % 16
    BY <1>8
  <2>2. (e[3] \div 8) % 16 = 15 - b
    <3>1. e[3] \in 0 .. 255
      BY <1>12
    <3> QED BY <1>12, <2>1, <3>1
  <2> QED BY <1>8, <1>13, <2>1, <2>2
<1>17. PICK x \in Nat, y \in Nat : x = Len(RmDisp(rm)) /\ y = Len(imm)
  <2>1. RmDisp(rm) \in Seq(0 .. 255)
    BY <1>1, OperandParts
  <2> QED BY <1>2, <2>1, LenProperties
<1>18. /\ IsReg(rm) => RmMod(rm) = 3 /\ x = 0
       /\ ~IsReg(rm) => RmMod(rm) = 2 /\ x = 4
  BY <1>1, <1>17, OperandParts DEF RmMod
<1>19. SubSeq(e, 7 + x, Len(e)) = imm
  <2>1. Len(e) = 6 + x + y /\ \A i \in 1 .. y : e[6 + x + i] = imm[i]
    BY <1>3, <1>6, <1>17
  <2>2. PICK n \in Nat : n = 6 + x + y
    OBVIOUS
  <2>3. SubSeq(e, 7 + x, n) \in Seq(0 .. 255) /\ Len(SubSeq(e, 7 + x, n)) = y
        /\ \A i \in 1 .. y : SubSeq(e, 7 + x, n)[i] = e[6 + x + i]
    <3>1. SubSeq(e, 7 + x, n) = [i \in 1 .. y |-> e[6 + x + i]]
      <4>1. SubSeq(e, 7 + x, n) = [i \in 1 .. (1 + n - (7 + x)) |-> e[i + (7 + x) - 1]]
        BY <2>2 DEF SubSeq
      <4>2. 1 + n - (7 + x) = y /\ \A i \in 1 .. y : i + (7 + x) - 1 = 6 + x + i
        BY <2>2
      <4> QED BY <4>1, <4>2
    <3>2. \A i \in 1 .. y : e[6 + x + i] \in 0 .. 255
      <4>1. \A j \in 1 .. Len(e) : e[j] \in 0 .. 255
        BY <1>3, ElementOfSeq
      <4>2. \A i \in 1 .. y : 6 + x + i \in 1 .. 6 + x + y
        OBVIOUS
      <4> QED BY <2>1, <4>1, <4>2
    <3>3. SubSeq(e, 7 + x, n) \in [1 .. y -> 0 .. 255]
      BY <3>1, <3>2
    <3>4. SubSeq(e, 7 + x, n) \in Seq(0 .. 255) /\ Len(SubSeq(e, 7 + x, n)) = y
      <4>1. PICK q : q = SubSeq(e, 7 + x, n)
        OBVIOUS
      <4>2. q \in [1 .. y -> 0 .. 255]
        BY <3>3, <4>1
      <4>3. q \in Seq(0 .. 255) /\ Len(q) = y
        BY <4>2
      <4> QED BY <4>1, <4>3
    <3> QED BY <3>1, <3>4
  <2>4. \A i \in 1 .. y : SubSeq(e, 7 + x, n)[i] = imm[i]
    BY <2>1, <2>3
  <2> QED BY <1>2, <1>17, <2>1, <2>2, <2>3, <2>4, SeqEqual
<1>20. ~IsReg(rm) => Signed32(SubSeq(e, 7, 10)) = rm.disp
  <2> SUFFICES ASSUME ~IsReg(rm) PROVE Signed32(SubSeq(e, 7, 10)) = rm.disp
    OBVIOUS
  <2>1. PICK b : b = Bytes32(rm.disp)
    OBVIOUS
  <2>2. RmDisp(rm) = b /\ Len(b) = 4 /\ Signed32(b) = rm.disp
    BY <1>10, <2>1, DispBack DEF RmDisp
  <2>3. e[7] = b[1] /\ e[8] = b[2] /\ e[9] = b[3] /\ e[10] = b[4]
    <3>1. \A i \in 1 .. 4 : e[6 + i] = b[i]
      BY <1>5, <2>2
    <3> QED BY <3>1
  <2>4. PICK q : q = SubSeq(e, 7, 10)
    OBVIOUS
  <2>6. q = [i \in 1 .. 4 |-> e[i + 6]]
    <3>1. q = [i \in 1 .. (1 + 10 - 7) |-> e[i + 7 - 1]]
      BY <2>4 DEF SubSeq
    <3>2. 1 + 10 - 7 = 4 /\ \A i \in 1 .. 4 : i + 7 - 1 = i + 6
      OBVIOUS
    <3> QED BY <3>1, <3>2
  <2>7. q[1] = e[7] /\ q[2] = e[8] /\ q[3] = e[9] /\ q[4] = e[10]
    BY <2>6
  <2>5. Signed32(SubSeq(e, 7, 10)) = Signed32(b)
    BY <2>3, <2>4, <2>7, SMT DEF Signed32
  <2> QED BY <2>2, <2>5
<1>21. /\ d.map = e[2] % 4 /\ d.pp = e[3] % 4 /\ d.w = e[3] \div 128 /\ d.op = e[5]
       /\ d.k = e[4] % 8 /\ d.sss = (e[4] \div 16) % 8 /\ d.eh = e[4] \div 128
  BY DEF Fields
<1>22. /\ d.reg = 16 * Not(Bit(e[2], 16)) + 8 * Not(Bit(e[2], 128)) + ((e[6] \div 8) % 8)
       /\ d.v = 16 * Not(Bit(e[4], 8)) + 15 - ((e[3] \div 8) % 16)
       /\ d.imm = SubSeq(e, IF e[6] \div 64 = 3 THEN 7 ELSE 11, Len(e))
       /\ d.rm = IF e[6] \div 64 = 3 THEN Reg(16 * Not(Bit(e[2], 64)) + 8 * Not(Bit(e[2], 32)) + (e[6] % 8))
                 ELSE [base |-> 8 * Not(Bit(e[2], 32)) + (e[6] % 8), disp |-> Signed32(SubSeq(e, 7, 10))]
  BY DEF Fields
<1>23. e[6] \div 64 = 3 <=> IsReg(rm)
  BY <1>14, <1>18
<1>24. d.imm = imm
  <2>1. (IF e[6] \div 64 = 3 THEN 7 ELSE 11) = 7 + x
    BY <1>18, <1>23
  <2> QED BY <1>19, <1>22, <2>1
<1>25. d.rm = IF IsReg(rm) THEN rm ELSE [base |-> rm.base, disp |-> rm.disp]
  <2>1. CASE IsReg(rm)
    BY <1>10, <1>11, <1>14, <1>22, <1>23, <2>1
  <2>2. CASE ~IsReg(rm)
    BY <1>10, <1>11, <1>14, <1>20, <1>22, <1>23, <2>2
  <2> QED BY <2>1, <2>2
<1> QED BY <1>4, <1>11, <1>12, <1>13, <1>15, <1>16, <1>21, <1>22, <1>24, <1>25 DEF Reads

\* What the audit looks at: the bit that tells it from EVEX, and ModRM.
LEMMA Settled ==
  ASSUME NEW map, NEW pp, NEW w, NEW reg, NEW v, NEW rm, NEW k, NEW op, NEW imm, NEW sss, NEW eh,
         NEW e, IsAssembled(e, map, pp, w, reg, v, rm, k, op, imm, sss, eh)
  PROVE  Bit(e[3], 4) = 0 /\ e[6] \div 64 = RmMod(rm) /\ e[6] % 8 = RmLow(rm)
<1>1. w \in 0 .. 1 /\ pp \in 0 .. 3 /\ reg \in 0 .. 31 /\ v \in 0 .. 31 /\ rm \in Operands
  BY DEF IsAssembled, Assembly
<1>2. e[3] = BP1(w, v, pp) /\ e[6] = BModRm(reg, rm)
  BY Assembled
<1>3. PICK n \in 0 .. 15 : n = v % 16
  BY <1>1
<1>4. e[3] = w * 128 + (15 - n) * 8 + pp
  BY <1>2, <1>3 DEF BP1
<1>5. Bit(e[3], 4) = 0
  BY <1>1, <1>4, P1Bits
<1>6. RmLow(rm) \in 0 .. 7 /\ RmMod(rm) \in 0 .. 3
  BY <1>1, OperandParts
<1>7. PICK m \in 0 .. 3, a \in 0 .. 7, b \in 0 .. 7 : m = RmMod(rm) /\ a = reg % 8 /\ b = RmLow(rm)
  BY <1>1, <1>6
<1>8. e[6] = 64 * m + a * 8 + b
  BY <1>2, <1>7 DEF BModRm
<1>9. e[6] \div 64 = m /\ e[6] % 8 = b
  BY <1>8, ModRmBits
<1> QED BY <1>5, <1>7, <1>9

\* A request accepted by its constructor is what its bytes say, and nothing
\* but a constructor of the same instruction has these bytes.
SaysRequest(r, d) ==
  LET f == Form(r.form) IN
  /\ <<d.map, d.pp, d.w, d.op, d.eh>> = <<f.map, f.pp, f.w, f.op, f.base.eh>>
  /\ <<d.reg, d.v, d.k, d.imm>> = <<r.reg, r.v, r.k, r.imm>>
  /\ IF IsReg(r.rm) THEN d.rm = r.rm
     ELSE d.rm = [base |-> r.rm.base, disp |-> r.rm.disp]
  /\ d.sss = IF f.base.sss THEN src_sss(r.rm) ELSE f.base.fixed
  /\ \A name \in ReadAs(d) : SameMnemonic(name, r.form)

LEMMA RequestReadBack ==
  ASSUME NEW r \in Requests, Accepts(r)
  PROVE  SaysRequest(r, Fields(Encode(r)))
<1>1. PICK f : f = Form(r.form)
  OBVIOUS
<1>2. PICK e : e = Encode(r)
  OBVIOUS
<1>3. PICK d : d = Fields(e)
  OBVIOUS
<1>4. IsAssembled(e, f.map, f.pp, f.w, r.reg, r.v, r.rm, r.k, f.op, r.imm, SssOf(r), f.base.eh)
  BY <1>1, <1>2, EncodeBytes
<1>a. Reads(d, f.map, f.pp, f.w, r.reg, r.v, r.rm, r.k, f.op, r.imm, SssOf(r), f.base.eh)
  BY <1>3, <1>4, ReadBack
<1>5. /\ d.map = f.map /\ d.pp = f.pp /\ d.w = f.w /\ d.op = f.op /\ d.eh = f.base.eh
  BY <1>a DEF Reads
<1>6. d.reg = r.reg /\ d.v = r.v /\ d.k = r.k /\ d.imm = r.imm /\ d.sss = SssOf(r)
  BY <1>a DEF Reads
<1>7. d.rm = IF IsReg(r.rm) THEN r.rm ELSE [base |-> r.rm.base, disp |-> r.rm.disp]
  BY <1>a DEF Reads
<1>8. ASSUME NEW name \in ReadAs(d) PROVE SameMnemonic(name, r.form)
  <2>1. PICK g : g = Form(name)
    OBVIOUS
  <2>2. name \in FormNames /\ <<g.map, g.pp, g.w, g.op, g.base.eh>> = <<d.map, d.pp, d.w, d.op, d.eh>>
    BY <2>1, Zenon DEF ReadAs
  <2>3. g.base.reg = "ext" => d.reg \in g.base.ext
    BY <2>1, Zenon DEF ReadAs
  <2>4. r.form \in FormNames /\ (f.base.ext # {} => r.reg \in f.base.ext)
    BY <1>1, Asked
  <2>5. Entry(name, g) /\ Entry(r.form, f)
    BY <1>1, <2>1, <2>2, <2>4, FormEntry
  <2>6. g.map = f.map /\ g.pp = f.pp /\ g.w = f.w /\ g.op = f.op /\ g.base.eh = f.base.eh
    BY <1>5, <2>2
  <2>7. Code(g) = Code(f)
    BY <2>6 DEF Code
  <2>8. g.base.ext # {} => r.reg \in g.base.ext
    <3>1. g.base.ext # {} => g.base.reg = "ext"
      BY <2>5 DEF Entry, IsForm, IsBase
    <3> QED BY <1>6, <2>3, <3>1
  <2>9. PICK c, x, y, n : c = Code(f) /\ x = g.base.ext /\ y = f.base.ext /\ n = r.reg
    OBVIOUS
  <2>10. PICK a : a = r.form
    OBVIOUS
  <2>11. <<name, c, x>> \in Codes /\ <<a, c, y>> \in Codes
    BY <2>5, <2>7, <2>9, <2>10 DEF Entry
  <2>12. (x # {} => n \in x) /\ (y # {} => n \in y)
    BY <2>4, <2>8, <2>9
  <2>13. SameMnemonic(name, a)
    BY <2>11, <2>12, CodesTell
  <2> QED BY <2>10, <2>13
<1>9. d.sss = IF f.base.sss THEN src_sss(r.rm) ELSE f.base.fixed
  BY <1>1, <1>6 DEF SssOf
<1>10. SaysRequest(r, d)
  BY <1>1, <1>5, <1>6, <1>7, <1>8, <1>9 DEF SaysRequest
<1> QED BY <1>2, <1>3, <1>10

(* What the tool is run on.                                                *)

CodedSet == {i \in Instructions : Coded(i) /\ Judged(i)}
GoodSection(s) == s.alt \in BOOLEAN /\ s.readable \in BOOLEAN /\ s.address \in Nat /\ s.code \in Seq(CodedSet)
GoodMember(m) ==
  /\ m.elf \in BOOLEAN /\ m.x86 \in BOOLEAN /\ (m.x86 => m.elf)
  /\ Len(m.sections) \in Nat /\ \A s \in 1 .. Len(m.sections) : GoodSection(m.sections[s])
GoodJob(j) ==
  /\ j.file.archive \in BOOLEAN /\ (~j.file.archive => Len(j.file.members) = 1)
  /\ Len(j.file.members) \in Nat /\ \A m \in 1 .. Len(j.file.members) : GoodMember(j.file.members[m])
  /\ j.args.allow_suspect \in BOOLEAN

\* Every job has typed members with typed sections of coded instructions.
LEMMA JobsGood == \A j \in Jobs : GoodJob(j)
<1> SUFFICES ASSUME NEW j \in Jobs PROVE GoodJob(j)
  OBVIOUS
<1>1. j \in JobSet
  BY JobsTyped
<1>2. PICK ms : ms = j.file.members
  OBVIOUS
<1>3. ms \in Seq(MemberSet) /\ j.file.archive \in BOOLEAN /\ j.args.allow_suspect \in BOOLEAN
  BY <1>1, <1>2 DEF JobSet
<1>4. Len(ms) \in Nat /\ \A m \in 1 .. Len(ms) : ms[m] \in MemberSet
  BY <1>3, LenProperties, ElementOfSeq
<1>5. ASSUME NEW m \in 1 .. Len(ms) PROVE GoodMember(ms[m])
  <2>1. PICK x : x = ms[m]
    OBVIOUS
  <2>2. x \in MemberSet
    BY <1>4, <2>1
  <2>3. PICK ss : ss = x.sections
    OBVIOUS
  <2>4. ss \in Seq(SectionSet) /\ x.elf \in BOOLEAN /\ x.x86 \in BOOLEAN
    BY <2>2, <2>3 DEF MemberSet
  <2>5. Len(ss) \in Nat /\ \A s \in 1 .. Len(ss) : ss[s] \in SectionSet
    BY <2>4, LenProperties, ElementOfSeq
  <2>6. /\ x.x86 => x.elf
        /\ \A s \in 1 .. Len(ss) : \A k \in 1 .. Len(ss[s].code) : Coded(ss[s].code[k]) /\ Judged(ss[s].code[k])
    <3>2. \A s \in 1 .. Len(j.file.members[m].sections) :
             \A k \in 1 .. Len(j.file.members[m].sections[s].code) :
                 Judged(j.file.members[m].sections[s].code[k])
      BY <1>2, JobsJudged, Zenon
    <3>1. /\ j.file.members[m].x86 => j.file.members[m].elf
          /\ \A s \in 1 .. Len(j.file.members[m].sections) :
                \A k \in 1 .. Len(j.file.members[m].sections[s].code) :
                    Coded(j.file.members[m].sections[s].code[k])
      BY <1>2, JobsTyped, Zenon
    <3> QED BY <1>2, <2>1, <2>3, <3>1, <3>2, Zenon
  <2>7. ASSUME NEW s \in 1 .. Len(ss) PROVE GoodSection(ss[s])
    <3>1. PICK c : c = ss[s].code
      OBVIOUS
    <3>2. ss[s].alt \in BOOLEAN /\ ss[s].readable \in BOOLEAN /\ ss[s].address \in Nat /\ c \in Seq(Instructions)
      BY <2>5, <3>1 DEF SectionSet
    <3>3. Len(c) \in Nat /\ \A k \in 1 .. Len(c) : c[k] \in Instructions
      BY <3>2, LenProperties, ElementOfSeq
    <3>4. \A k \in 1 .. Len(c) : Coded(c[k]) /\ Judged(c[k])
      BY <2>6, <3>1
    <3>5. \A k \in 1 .. Len(c) : c[k] \in CodedSet
      BY <3>3, <3>4 DEF CodedSet
    <3>6. c \in Seq(CodedSet)
      <4>1. c = [k \in 1 .. Len(c) |-> c[k]]
        BY <3>2, LenProperties
      <4>2. [k \in 1 .. Len(c) |-> c[k]] \in Seq(CodedSet)
        BY <3>3, <3>5, IsASeq
      <4> QED BY <4>1, <4>2
    <3> QED BY <3>1, <3>2, <3>6 DEF GoodSection
  <2>8. GoodMember(x)
    BY <2>3, <2>4, <2>5, <2>6, <2>7 DEF GoodMember
  <2> QED BY <2>1, <2>8
<1>6. ~j.file.archive => Len(ms) = 1
  BY <1>2, JobsTyped
<1> QED BY <1>2, <1>3, <1>4, <1>5, <1>6 DEF GoodJob

\* The code of a member is its sections' code in a row.
LEMMA SectionRow ==
  ASSUME NEW m, GoodMember(m)
  PROVE  /\ SectionCode(m) \in Seq(Seq(CodedSet)) /\ Len(SectionCode(m)) = Len(m.sections)
         /\ \A k \in 1 .. Len(m.sections) : SectionCode(m)[k] = Executed(m.sections[k])
         /\ Concat(SectionCode(m)) \in Seq(CodedSet)
<1>1. PICK n \in Nat : n = Len(m.sections)
  BY DEF GoodMember
<1>2. \A k \in 1 .. n : Executed(m.sections[k]) \in Seq(CodedSet)
  <2>1. << >> \in Seq(CodedSet)
    BY EmptySeq
  <2>2. \A k \in 1 .. n : m.sections[k].code \in Seq(CodedSet)
    BY <1>1 DEF GoodMember, GoodSection
  <2> QED BY <2>1, <2>2 DEF Executed
<1>3. PICK l : l = SectionCode(m)
  OBVIOUS
<1>4. l = [k \in 1 .. n |-> Executed(m.sections[k])]
  BY <1>1, <1>3 DEF SectionCode
<1>5. l \in Seq(Seq(CodedSet)) /\ Len(l) = n
  BY <1>2, <1>4, IsASeq
<1>6. Concat(l) \in Seq(CodedSet)
  <2>1. Joined(l)[Len(l)] \in Seq(CodedSet)
    <3>1. Len(l) \in 0 .. Len(l)
      BY <1>5
    <3> QED BY <1>5, <3>1, JoinedFacts
  <2> QED BY <2>1 DEF Concat
<1> QED BY <1>1, <1>3, <1>4, <1>5, <1>6

\* The code of the file is its members' code in a row.
LEMMA MemberRow ==
  ASSUME GoodJob(job)
  PROVE  /\ MemberCode \in Seq(Seq(CodedSet)) /\ Len(MemberCode) = Len(Members) /\ Len(Members) \in Nat
         /\ \A k \in 1 .. Len(Members) :
              MemberCode[k] = IF Members[k].elf THEN Concat(SectionCode(Members[k])) ELSE << >>
         /\ CardCode \in Seq(CodedSet)
<1>1. PICK n \in Nat : n = Len(Members)
  BY DEF GoodJob, Members
<1>2. \A k \in 1 .. n : GoodMember(Members[k])
  BY <1>1 DEF GoodJob, Members
<1>3. \A k \in 1 .. n : Concat(SectionCode(Members[k])) \in Seq(CodedSet)
  BY <1>2, SectionRow
<1>4. << >> \in Seq(CodedSet)
  BY EmptySeq
<1> DEFINE C(k) == IF Members[k].elf THEN Concat(SectionCode(Members[k])) ELSE << >>
<1>5. \A k \in 1 .. n : C(k) \in Seq(CodedSet)
  BY <1>3, <1>4
<1>6. PICK l : l = MemberCode
  OBVIOUS
<1>7. l = [k \in 1 .. n |-> C(k)]
  BY <1>1, <1>6 DEF MemberCode
<1> HIDE DEF C
<1>8. l \in Seq(Seq(CodedSet)) /\ Len(l) = n
  BY <1>5, <1>7, IsASeq
<1>9. Concat(l) \in Seq(CodedSet)
  <2>1. Joined(l)[Len(l)] \in Seq(CodedSet)
    <3>1. Len(l) \in 0 .. Len(l)
      BY <1>8
    <3> QED BY <1>8, <3>1, JoinedFacts
  <2> QED BY <2>1 DEF Concat
<1>10. \A k \in 1 .. n : l[k] = C(k)
  BY <1>7
<1> QED BY <1>1, <1>6, <1>8, <1>9, <1>10 DEF C, CardCode

\* The file and the flags stay as they were at the start.
LEMMA JobStays == AuditSpec => [](job \in Jobs)
<1>1. AuditInit => job \in Jobs
  BY DEF AuditInit
<1>2. job \in Jobs /\ [AuditNext]_auditVars => (job \in Jobs)'
  BY DEF AuditNext, auditVars, SkipMember, RefuseMember, SkipSection, ScanVector, ScanScalar,
         EndSection, EndMember, Verdict, Exited
<1> QED BY <1>1, <1>2, PTL DEF AuditSpec

(* Whatever file the tool is run on, every vector instruction in it that the
   encoder made of an accepted request reads back, by the layout of the prefix,
   as that request, and no other constructor has its bytes.                 *)
THEOREM EncoderReadsBack == AuditSpec => []DecodesToRequest
<1>1. ASSUME job \in Jobs PROVE DecodesToRequest
  <2>1. GoodJob(job)
    BY <1>1, JobsGood
  <2>2. CardCode \in Seq(CodedSet)
    BY <2>1, MemberRow
  <2>3. \A i \in AllCode : i \in CodedSet
    BY <2>2, ElementOfSeq DEF AllCode
  <2>4. ASSUME NEW i \in AllCode, i.req # << >>, Accepts(i.req[1])
        PROVE  SaysRequest(i.req[1], Fields(i.bytes))
    <3>1. i \in Instructions /\ Coded(i)
      BY <2>3 DEF CodedSet
    <3>2. i.req \in Seq(Requests)
      BY <3>1 DEF Instructions
    <3>3. i.req[1] \in Requests
      BY <2>4, <3>2
    <3>4. i.bytes = Encode(i.req[1])
      BY <2>4, <3>1 DEF Coded
    <3> QED BY <2>4, <3>3, <3>4, RequestReadBack
  <2> QED BY <2>4, Zenon DEF DecodesToRequest, SaysRequest
<1> QED BY <1>1, JobStays, PTL

(* How long an instruction is.                                             *)

\* a goes on from b.
Starts(a, b) == Len(a) \in Nat /\ Len(a) >= Len(b) /\ \A i \in 1 .. Len(b) : a[i] = b[i]

\* A vector instruction with whatever follows has its own length.
LEMMA VectorLength ==
  ASSUME NEW a, NEW b \in Seq(0 .. 255), Starts(a, b), IsVector(b), ~NoBaseBytes(b)
  PROVE  mvex_length(a) = Len(b) /\ Len(b) >= 6
<1>1. PICK n \in Nat : n = Len(b)
  BY LenProperties
<1>2. SibSize(b) \in 0 .. 1 /\ ImmSize(b) \in 0 .. 1
  BY DEF SibSize, ImmSize
<1>3. n >= 6
  BY <1>1, <1>2 DEF IsVector
<1>4. \A i \in 1 .. n : b[i] \in 0 .. 255
  BY <1>1, ElementOfSeq
<1>5. b[2] \in 0 .. 255 /\ b[3] \in 0 .. 255 /\ b[5] \in 0 .. 255 /\ b[6] \in 0 .. 255
  BY <1>3, <1>4
<1>6. a[1] = b[1] /\ a[2] = b[2] /\ a[3] = b[3] /\ a[5] = b[5] /\ a[6] = b[6]
  BY <1>1, <1>3 DEF Starts
<1>7. PICK x : x = Len(a)
  OBVIOUS
<1>8. x \in Nat /\ x >= n
  BY <1>1, <1>7 DEF Starts
<1>9. b[1] = 98 /\ b[2] % 4 # 0 /\ Bit(b[3], 4) = 0 /\ n = 6 + SibSize(b) + DispSize(b) + ImmSize(b)
  BY <1>1 DEF IsVector
<1>10. PICK m \in 0 .. 3, rm \in 0 .. 7 : m = b[6] \div 64 /\ rm = b[6] % 8
  <2>1. \A c \in 0 .. 255 : c \div 64 \in 0 .. 3 /\ c % 8 \in 0 .. 7
    OBVIOUS
  <2> QED BY <1>5, <2>1, Zenon
<1> DEFINE disp == CASE m = 3 -> 0
                     [] m = 0 -> IF rm = 5 THEN 4 ELSE 0
                     [] m = 1 -> 1
                     [] m = 2 -> 4
<1>11. SibSize(b) = IF m # 3 /\ rm = 4 THEN 1 ELSE 0
  BY <1>10 DEF SibSize
<1>12. DispSize(b) = disp
  <2>1. CASE m = 0
    <3>1. ~NoBaseBytes(b)
      OBVIOUS
    <3> QED BY <1>10, <2>1, <3>1 DEF DispSize
  <2>2. CASE m # 0
    BY <1>10, <2>2 DEF DispSize
  <2> QED BY <2>1, <2>2
<1>13. ImmSize(b) = IF HasImm(b[2] % 4, b[5]) THEN 1 ELSE 0
  BY DEF ImmSize, HasImm
<1> HIDE DEF disp
<1>14. n = 6 + (IF m # 3 /\ rm = 4 THEN 1 ELSE 0) + disp + (IF HasImm(b[2] % 4, b[5]) THEN 1 ELSE 0)
  BY <1>9, <1>11, <1>12, <1>13
<1> DEFINE dispA == CASE a[6] \div 64 = 3 -> 0
                      [] a[6] \div 64 = 0 -> IF a[6] % 8 = 5 THEN 4 ELSE 0
                      [] a[6] \div 64 = 1 -> 1
                      [] a[6] \div 64 = 2 -> 4
           lenA == 6 + (IF a[6] \div 64 # 3 /\ a[6] % 8 = 4 THEN 1 ELSE 0) + dispA
                   + (IF HasImm(a[2] % 4, a[5]) THEN 1 ELSE 0)
<1>15. mvex_length(a) = IF Len(a) < 6 THEN 0
                        ELSE IF a[1] # 98 \/ Bit(a[3], 4) # 0 \/ a[2] % 4 = 0 \/ Len(a) < lenA THEN 0 ELSE lenA
  BY Zenon DEF mvex_length
<1>16. dispA = disp
  BY <1>6, <1>10 DEF disp
<1> HIDE DEF dispA
<1>17. lenA = n
  BY <1>6, <1>10, <1>14, <1>16
<1> HIDE DEF lenA
<1>18. mvex_length(a) = IF x < 6 THEN 0 ELSE IF b[1] # 98 \/ Bit(b[3], 4) # 0 \/ b[2] % 4 = 0 \/ x < n THEN 0 ELSE n
  BY <1>6, <1>7, <1>15, <1>17
<1> QED BY <1>1, <1>3, <1>8, <1>9, <1>18

\* Anything else has none.
LEMMA OtherLength ==
  ASSUME NEW a, NEW b \in Seq(0 .. 255), Starts(a, b), IsOther(b)
  PROVE  mvex_length(a) = 0 /\ Len(b) >= 1
<1>1. PICK n \in Nat : n = Len(b)
  BY LenProperties
<1>2. n >= 1
  BY <1>1 DEF IsOther
<1>3. a[1] = b[1]
  BY <1>1, <1>2 DEF Starts
<1>4. n >= 3 => a[3] = b[3]
  BY <1>1 DEF Starts
<1>5. a[1] # 98 \/ Bit(a[3], 4) # 0
  BY <1>1, <1>3, <1>4 DEF IsOther
<1>6. mvex_length(a) = 0
  BY <1>5 DEF mvex_length
<1> QED BY <1>1, <1>2, <1>6

(* The audit steps over everything the encoder makes: what mvex_length finds at
   the head of an encoded request is the request's own length.              *)
THEOREM EncodedLength ==
  ASSUME NEW r \in Requests, Accepts(r)
  PROVE  IsVector(Encode(r)) /\ ~NoBaseBytes(Encode(r)) /\ mvex_length(Encode(r)) = Len(Encode(r))
<1>1. PICK f : f = Form(r.form)
  OBVIOUS
<1>2. PICK e : e = Encode(r)
  OBVIOUS
<1>3. PICK rm, imm, op, map : rm = r.rm /\ imm = r.imm /\ op = f.op /\ map = f.map
  OBVIOUS
<1>4. IsAssembled(e, map, f.pp, f.w, r.reg, r.v, rm, r.k, op, imm, SssOf(r), f.base.eh)
  BY <1>1, <1>2, <1>3, EncodeBytes
<1>5. e \in Seq(0 .. 255) /\ Len(e) = 6 + Len(RmDisp(rm)) + Len(imm) /\ e[1] = 98 /\ e[5] = op
  BY <1>4, Assembled
<1>6. Reads(Fields(e), map, f.pp, f.w, r.reg, r.v, rm, r.k, op, imm, SssOf(r), f.base.eh)
  BY <1>4, ReadBack
<1>7. e[2] % 4 = map
  BY <1>6 DEF Reads, Fields
<1>8. map \in 1 .. 3 /\ rm \in Operands
  BY <1>4 DEF IsAssembled, Assembly
<1>9. Len(imm) = IF TakesImm(map, op) THEN 1 ELSE 0
  BY <1>1, <1>3, Asked
<1>10. Len(RmDisp(rm)) = IF IsReg(rm) THEN 0 ELSE 4
  BY <1>8, OperandParts
<1>11. Bit(e[3], 4) = 0 /\ e[6] \div 64 = RmMod(rm) /\ e[6] % 8 = RmLow(rm)
  BY <1>4, Settled
<1>12. RmMod(rm) = IF IsReg(rm) THEN 3 ELSE 2
  BY DEF RmMod
<1>13. ~IsReg(rm) => RmLow(rm) # 4
  <2>1. ~IsReg(rm) => MemBase(rm.base)
    BY <1>3 DEF Accepts
  <2> QED BY <2>1 DEF MemBase, RmLow
<1>14. SibSize(e) = 0
  BY <1>11, <1>12, <1>13 DEF SibSize
<1>15. DispSize(e) = IF IsReg(rm) THEN 0 ELSE 4
  BY <1>11, <1>12 DEF DispSize
<1>16. ImmSize(e) = IF TakesImm(map, op) THEN 1 ELSE 0
  BY <1>5, <1>7 DEF ImmSize, TakesImm
<1>17. Len(e) = 6 + SibSize(e) + DispSize(e) + ImmSize(e) /\ Len(e) >= 6 + SibSize(e)
  BY <1>5, <1>9, <1>10, <1>14, <1>15, <1>16
<1>18. IsVector(e)
  BY <1>5, <1>7, <1>8, <1>11, <1>17 DEF IsVector
<1>19. ~NoBaseBytes(e)
  BY <1>11, <1>12 DEF NoBaseBytes
<1>20. Starts(e, e)
  BY <1>5, LenProperties DEF Starts
<1>21. mvex_length(e) = Len(e)
  BY <1>5, <1>18, <1>19, <1>20, VectorLength
<1> QED BY <1>2, <1>18, <1>19, <1>21

(* Where instructions stand in a section.                                  *)

\* The size of an instruction.
LEMMA InstructionBytes ==
  ASSUME NEW i \in CodedSet
  PROVE  /\ i.bytes \in Seq(0 .. 255) /\ Len(i.bytes) \in Nat /\ Len(i.bytes) >= 1
         /\ i.kind \in {"vector", "scalar", "invalid"} /\ i.features \in Seq(STRING) /\ i.mnem \in STRING
<1>1. i \in Instructions /\ Coded(i)
  BY DEF CodedSet
<1>2. /\ i.bytes \in Seq(0 .. 255)
      /\ i.kind \in {"vector", "scalar", "invalid"} /\ i.features \in Seq(STRING) /\ i.mnem \in STRING
  BY <1>1 DEF Instructions
<1>3. PICK b \in Seq(0 .. 255) : b = i.bytes
  BY <1>2
<1>4. PICK n \in Nat : n = Len(b)
  BY LenProperties
<1>5. n >= 1
  <2>1. CASE IsVector(b)
    <3>1. SibSize(b) \in 0 .. 1
      BY DEF SibSize
    <3> QED BY <1>4, <2>1, <3>1 DEF IsVector
  <2>2. CASE IsOther(b)
    BY <1>4, <2>2 DEF IsOther
  <2> QED BY <1>1, <1>3, <2>1, <2>2 DEF Coded
<1> QED BY <1>2, <1>3, <1>4, <1>5

\* The bytes of a section's instructions.
LEMMA SectionBytes ==
  ASSUME NEW s, GoodSection(s)
  PROVE  /\ Len(s.code) \in Nat /\ BytesOf(s.code) \in Seq(Seq(0 .. 255)) /\ Len(BytesOf(s.code)) = Len(s.code)
         /\ \A k \in 1 .. Len(s.code) :
              s.code[k] \in CodedSet /\ BytesOf(s.code)[k] = s.code[k].bytes /\ Len(s.code[k].bytes) \in Nat
              /\ Len(s.code[k].bytes) >= 1
<1>1. PICK c \in Seq(CodedSet) : c = s.code
  BY DEF GoodSection
<1>2. PICK n \in Nat : n = Len(c)
  BY LenProperties
<1>3. \A k \in 1 .. n : c[k] \in CodedSet
  BY <1>2, ElementOfSeq
<1>4. \A k \in 1 .. n : c[k].bytes \in Seq(0 .. 255) /\ Len(c[k].bytes) \in Nat /\ Len(c[k].bytes) >= 1
  BY <1>3, InstructionBytes
<1>5. PICK l : l = BytesOf(c)
  OBVIOUS
<1>6. l = [k \in 1 .. n |-> c[k].bytes]
  BY <1>2, <1>5 DEF BytesOf
<1>7. l \in Seq(Seq(0 .. 255)) /\ Len(l) = n
  BY <1>4, <1>6, IsASeq
<1>8. \A k \in 1 .. n : l[k] = c[k].bytes
  BY <1>6
<1> QED BY <1>1, <1>2, <1>3, <1>4, <1>5, <1>7, <1>8

\* Where instructions end: each after the last, in their order.
LEMMA SectionEnds ==
  ASSUME NEW s, GoodSection(s)
  PROVE  /\ EndOf(s, 0) = 0 /\ EndOf(s, Len(s.code)) = Len(CodeOf(s)) /\ CodeOf(s) \in Seq(0 .. 255)
         /\ \A k \in 0 .. Len(s.code) : EndOf(s, k) \in Nat
         /\ \A k \in 1 .. Len(s.code) : EndOf(s, k) = EndOf(s, k - 1) + Len(s.code[k].bytes)
         /\ \A j, k \in 0 .. Len(s.code) : j < k => EndOf(s, j) < EndOf(s, k)
         /\ \A k \in 1 .. Len(s.code) : \A i \in 1 .. Len(s.code[k].bytes) :
               CodeOf(s)[EndOf(s, k - 1) + i] = s.code[k].bytes[i]
<1>1. PICK n \in Nat : n = Len(s.code)
  BY SectionBytes
<1>2. PICK l : l = BytesOf(s.code)
  OBVIOUS
<1>3. /\ l \in Seq(Seq(0 .. 255)) /\ Len(l) = n
      /\ \A k \in 1 .. n : l[k] = s.code[k].bytes /\ Len(l[k]) \in Nat /\ Len(l[k]) >= 1
  BY <1>1, <1>2, SectionBytes
<1>4. CodeOf(s) = Concat(l) /\ \A k : EndOf(s, k) = Len(Joined(l)[k])
  BY <1>2, Zenon DEF CodeOf, EndOf
<1>5. EndOf(s, n) = Len(CodeOf(s))
  BY <1>3, <1>4, Zenon DEF Concat
<1>6. EndOf(s, 0) = 0
  BY <1>3, <1>4, JoinedFacts
<1>7. \A k \in 0 .. n : EndOf(s, k) \in Nat
  BY <1>3, <1>4, JoinedFacts
<1>8. \A k \in 1 .. n : EndOf(s, k) = EndOf(s, k - 1) + Len(l[k])
  BY <1>3, <1>4, JoinedFacts
<1>9. \A k \in 0 .. n : \A j \in k .. n : EndOf(s, k) =< EndOf(s, j)
  <2>1. TAKE k \in 0 .. n
  <2>2. TAKE j \in k .. n
  <2>3. k \in 0 .. Len(l) /\ j \in k .. Len(l)
    BY <1>3
  <2>4. Len(Joined(l)[k]) =< Len(Joined(l)[j])
    BY <1>3, <2>3, JoinedPrefix
  <2> QED BY <1>4, <2>4
<1>10. ASSUME NEW j \in 0 .. n, NEW k \in 0 .. n, j < k PROVE EndOf(s, j) < EndOf(s, k)
  <2>1. k - 1 \in j .. n /\ k \in 1 .. n /\ k - 1 \in 0 .. n
    BY <1>10
  <2>2. EndOf(s, j) =< EndOf(s, k - 1) /\ EndOf(s, k) = EndOf(s, k - 1) + Len(l[k]) /\ Len(l[k]) >= 1
    BY <1>3, <1>8, <1>9, <2>1
  <2>3. EndOf(s, j) \in Nat /\ EndOf(s, k - 1) \in Nat /\ Len(l[k]) \in Nat
    BY <1>3, <1>7, <2>1
  <2>4. \A x, y, z \in Nat : x =< y /\ z >= 1 => x < y + z
    OBVIOUS
  <2> QED BY <2>2, <2>3, <2>4, Zenon
<1>11. ASSUME NEW k \in 1 .. n PROVE \A i \in 1 .. Len(l[k]) : CodeOf(s)[EndOf(s, k - 1) + i] = l[k][i]
  <2>1. k \in 1 .. Len(l)
    BY <1>3
  <2>2. \A i \in 1 .. Len(l[k]) : Concat(l)[Len(Joined(l)[k - 1]) + i] = l[k][i]
    BY <1>3, <2>1, JoinedPiece
  <2> QED BY <1>4, <2>2, Zenon
<1>12. CodeOf(s) \in Seq(0 .. 255)
  <2>1. n \in 0 .. n
    OBVIOUS
  <2>2. Joined(l)[n] \in Seq(0 .. 255)
    BY <1>3, <2>1, JoinedFacts
  <2> QED BY <1>3, <1>4, <2>2, Zenon DEF Concat
<1> QED BY <1>1, <1>3, <1>5, <1>6, <1>7, <1>8, <1>10, <1>11, <1>12, SMTT(30)

\* What is ahead at a position of a section.
AheadIn(s, p) == SubSeq(CodeOf(s), p + 1, Len(CodeOf(s)))

\* On a boundary before the end stands an instruction: the decoder reads it,
\* and the bytes ahead begin with its bytes.
LEMMA AtInstruction ==
  ASSUME NEW s, GoodSection(s), NEW k \in 0 .. Len(s.code), NEW p, p = EndOf(s, k), p < Len(CodeOf(s))
  PROVE  /\ k + 1 \in 1 .. Len(s.code) /\ p + Len(s.code[k + 1].bytes) = EndOf(s, k + 1)
         /\ Decode(s, p) = s.code[k + 1] /\ Starts(AheadIn(s, p), s.code[k + 1].bytes)
<1>1. PICK n \in Nat : n = Len(s.code)
  BY SectionBytes
<1>2. PICK c \in Seq(0 .. 255) : c = CodeOf(s)
  BY SectionEnds
<1>3. PICK z \in Nat : z = Len(c)
  BY LenProperties
<1>4. p \in Nat /\ p < z /\ EndOf(s, n) = z
  BY <1>1, <1>2, <1>3, SectionEnds
<1>5. k # n
  BY <1>4
<1>6. k \in 0 .. n /\ k + 1 \in 1 .. n /\ (k + 1) - 1 = k /\ k + 1 \in 0 .. n
  BY <1>1, <1>5
<1>7. PICK i : i = s.code[k + 1]
  OBVIOUS
<1>8. PICK x \in Nat : x = Len(i.bytes)
  BY <1>1, <1>6, <1>7, SectionBytes
<1>9. EndOf(s, k + 1) = p + x
  BY <1>1, <1>6, <1>7, <1>8, SectionEnds
<1>10. \A j \in 1 .. x : c[p + j] = i.bytes[j]
  <2>1. \A j \in 1 .. Len(s.code[k + 1].bytes) : CodeOf(s)[EndOf(s, (k + 1) - 1) + j] = s.code[k + 1].bytes[j]
    BY <1>1, <1>6, SectionEnds
  <2> QED BY <1>2, <1>6, <1>7, <1>8, <2>1
<1>11. p + x =< z
  <2>1. CASE k + 1 = n
    BY <1>4, <1>9, <2>1
  <2>2. CASE k + 1 # n
    <3>1. k + 1 < n /\ n \in 0 .. n
      BY <1>6, <2>2
    <3>2. EndOf(s, k + 1) < EndOf(s, n)
      BY <1>1, <1>6, <3>1, SectionEnds
    <3> QED BY <1>4, <1>9, <3>2
  <2> QED BY <2>1, <2>2
<1>12. Starts(AheadIn(s, p), i.bytes)
  <2>1. PICK a : a = AheadIn(s, p)
    OBVIOUS
  <2>2. a = SubSeq(c, p + 1, z)
    BY <1>2, <1>3, <2>1 DEF AheadIn
  <2>3. a = [j \in 1 .. z - p |-> c[p + j]]
    <3>1. a = [j \in 1 .. (1 + z - (p + 1)) |-> c[j + (p + 1) - 1]]
      <4>1. SubSeq(c, p + 1, z) = [j \in 1 .. (1 + z - (p + 1)) |-> c[j + (p + 1) - 1]]
        BY <1>4, SMTT(30) DEF SubSeq
      <4> QED BY <2>2, <4>1, Zenon
    <3>2. 1 + z - (p + 1) = z - p /\ \A j \in 1 .. z - p : j + (p + 1) - 1 = p + j
      BY <1>4
    <3> QED BY <3>1, <3>2
  <2>4. z - p \in Nat
    BY <1>4
  <2>5. Len(a) = z - p
    BY <2>3, <2>4
  <2>6. \A j \in 1 .. x : j \in 1 .. z - p
    BY <1>4, <1>11
  <2>7. \A j \in 1 .. x : a[j] = i.bytes[j]
    BY <1>10, <2>3, <2>6
  <2>8. z - p >= x
    BY <1>4, <1>11
  <2> QED BY <1>8, <2>1, <2>4, <2>5, <2>7, <2>8 DEF Starts
<1>13. Decode(s, p) = i
  <2>1. DOMAIN s.code = 1 .. n
    BY <1>1, LenProperties DEF GoodSection
  <2>2. k + 1 \in DOMAIN s.code /\ p = EndOf(s, (k + 1) - 1)
    BY <1>6, <2>1
  <2>3. PICK j : j = CHOOSE y \in DOMAIN s.code : p = EndOf(s, y - 1)
    OBVIOUS
  <2>4. j \in DOMAIN s.code /\ p = EndOf(s, j - 1)
    BY <2>2, <2>3, Zenon
  <2>5. j \in 1 .. n /\ j - 1 \in 0 .. n
    BY <2>1, <2>4
  <2>6. ~(j - 1 < k) /\ ~(k < j - 1)
    <3>1. \A y \in 0 .. n : \A w \in 0 .. n : y < w => EndOf(s, y) < EndOf(s, w)
      BY <1>1, SectionEnds
    <3>2. EndOf(s, j - 1) = EndOf(s, k) /\ EndOf(s, k) \in Nat /\ \A y \in Nat : ~(y < y)
      BY <1>4, <2>4
    <3> QED BY <1>6, <2>5, <3>1, <3>2, Zenon
  <2>7. j = k + 1
    BY <1>6, <2>5, <2>6
  <2>8. Decode(s, p) = s.code[j]
    BY <2>2, <2>3, Zenon DEF Decode
  <2> QED BY <1>7, <2>7, <2>8
<1> QED BY <1>1, <1>6, <1>7, <1>8, <1>9, <1>12, <1>13

\* The step the walk takes there is the instruction's own length.
LEMMA StepOver ==
  ASSUME NEW i \in CodedSet, NEW a, Starts(a, i.bytes), ~NoBase(i)
  PROVE  mvex_length(a) = IF i.kind = "vector" THEN Len(i.bytes) ELSE 0
<1>1. PICK b \in Seq(0 .. 255) : b = i.bytes
  BY InstructionBytes
<1>2. Coded(i)
  BY DEF CodedSet
<1>3. CASE i.kind = "vector"
  <2>1. IsVector(b) /\ ~NoBaseBytes(b)
    BY <1>1, <1>2, <1>3 DEF Coded, NoBase
  <2> QED BY <1>1, <1>3, <2>1, VectorLength
<1>4. CASE i.kind # "vector"
  <2>1. IsOther(b)
    BY <1>1, <1>2, <1>4 DEF Coded
  <2> QED BY <1>1, <1>4, <2>1, OtherLength
<1> QED BY <1>3, <1>4

(* The walk keeps in step.                                                 *)

\* Off the start of a section, the walk is inside one that it scans, and on a
\* boundary if its code has no index without a base.
OnTrack ==
  pos = 0 \/ /\ member \in 1 .. Len(Members) /\ section \in 1 .. Len(Sections) /\ ~Skipped(Here)
             /\ Sized(Here.code) => Boundary(Here, pos)
StepInv == job \in Jobs /\ member \in Nat \ {0} /\ section \in Nat \ {0} /\ OnTrack

\* A scanned section is a good one.
LEMMA Standing ==
  ASSUME StepInv, member =< Len(Members), section =< Len(Sections)
  PROVE  /\ GoodSection(Here) /\ member \in 1 .. Len(Members) /\ section \in 1 .. Len(Sections)
         /\ Sized(Here.code) => Boundary(Here, pos)
<1>1. GoodJob(job)
  BY JobsGood DEF StepInv
<1>2. Len(Members) \in Nat /\ member \in 1 .. Len(Members)
  BY <1>1 DEF StepInv, GoodJob, Members
<1>3. GoodMember(Members[member])
  BY <1>1, <1>2 DEF GoodJob, Members
<1>4. Len(Sections) \in Nat /\ section \in 1 .. Len(Sections)
  BY <1>3 DEF StepInv, GoodMember, Sections
<1>5. GoodSection(Here)
  BY <1>3, <1>4 DEF GoodMember, Sections, Here
<1>6. Sized(Here.code) => Boundary(Here, pos)
  <2>1. CASE pos = 0
    <3>1. EndOf(Here, 0) = 0 /\ Len(Here.code) \in Nat
      BY <1>5, SectionEnds, SectionBytes
    <3>2. 0 \in 0 .. Len(Here.code)
      BY <3>1
    <3> QED BY <2>1, <3>1, <3>2 DEF Boundary
  <2>2. CASE pos # 0
    BY <2>2 DEF StepInv, OnTrack
  <2> QED BY <2>1, <2>2
<1> QED BY <1>2, <1>4, <1>5, <1>6

\* From a boundary either kind of step leads to the next one.
LEMMA StepsToBoundary ==
  ASSUME StepInv, Scanning, pos < Len(CodeOf(Here)), Sized(Here.code)
  PROVE  /\ mvex_length(Ahead) > 0 => Boundary(Here, pos + mvex_length(Ahead))
         /\ mvex_length(Ahead) = 0 => Boundary(Here, pos + Len(Decode(Here, pos).bytes))
<1>1. PICK s : s = Here
  OBVIOUS
<1>2. member =< Len(Members) /\ section =< Len(Sections)
  BY DEF Scanning, Running
<1>3. GoodSection(s) /\ Boundary(s, pos)
  BY <1>1, <1>2, Standing
<1>4. PICK k \in 0 .. Len(s.code) : pos = EndOf(s, k)
  BY <1>3 DEF Boundary
<1>5. pos < Len(CodeOf(s))
  BY <1>1
<1>6. PICK i : i = s.code[k + 1]
  OBVIOUS
<1>7. k + 1 \in 1 .. Len(s.code) /\ pos + Len(i.bytes) = EndOf(s, k + 1)
  BY <1>3, <1>4, <1>5, <1>6, AtInstruction
<1>8. Decode(s, pos) = i /\ Starts(AheadIn(s, pos), i.bytes)
  BY <1>3, <1>4, <1>5, <1>6, AtInstruction
<1>9. i \in CodedSet /\ Len(i.bytes) \in Nat /\ Len(i.bytes) >= 1
  BY <1>3, <1>6, <1>7, SectionBytes
<1>10. ~NoBase(i)
  BY <1>1, <1>6, <1>7 DEF Sized
<1>11. mvex_length(AheadIn(s, pos)) = IF i.kind = "vector" THEN Len(i.bytes) ELSE 0
  BY <1>8, <1>9, <1>10, StepOver
<1>12. Ahead = AheadIn(s, pos)
  BY <1>1 DEF Ahead, AheadIn
<1>13. Boundary(s, pos + Len(i.bytes))
  <2>1. k + 1 \in 0 .. Len(s.code)
    BY <1>7
  <2> QED BY <1>7, <2>1 DEF Boundary
<1>14. mvex_length(Ahead) > 0 => mvex_length(Ahead) = Len(i.bytes)
  BY <1>11, <1>12
<1> QED BY <1>1, <1>8, <1>13, <1>14

\* StepInv is inductive.
LEMMA StepInvHolds == AuditSpec => []StepInv
<1>1. AuditInit => StepInv
  BY DEF AuditInit, StepInv, OnTrack
<1>2. StepInv /\ [AuditNext]_auditVars => StepInv'
  <2> SUFFICES ASSUME StepInv, [AuditNext]_auditVars PROVE StepInv'
    OBVIOUS
  <2> USE DEF StepInv
  <2>1. CASE SkipMember
    BY <2>1 DEF SkipMember, OnTrack
  <2>2. CASE RefuseMember
    BY <2>2 DEF RefuseMember, OnTrack
  <2>3. CASE SkipSection
    <3>1. pos = 0
      BY <2>3 DEF SkipSection, OnTrack
    <3> QED BY <2>3, <3>1 DEF SkipSection, OnTrack
  <2>4. CASE ScanVector
    <3>1. /\ Scanning /\ ~Skipped(Here) /\ pos < Len(CodeOf(Here)) /\ mvex_length(Ahead) > 0
          /\ pos' = pos + mvex_length(Ahead) /\ job' = job /\ member' = member /\ section' = section
      BY <2>4 DEF ScanVector
    <3>2. member \in 1 .. Len(Members) /\ section \in 1 .. Len(Sections)
      BY <3>1, Standing DEF Scanning, Running
    <3>3. Sized(Here.code) => Boundary(Here, pos')
      BY <3>1, StepsToBoundary
    <3>4. Members' = Members /\ Sections' = Sections /\ Here' = Here
      BY <3>1 DEF Members, Sections, Here
    <3>5. OnTrack'
      BY <3>1, <3>2, <3>3, <3>4 DEF OnTrack
    <3> QED BY <3>1, <3>5
  <2>5. CASE ScanScalar
    <3>1. /\ Scanning /\ ~Skipped(Here) /\ pos < Len(CodeOf(Here)) /\ mvex_length(Ahead) = 0
          /\ pos' = pos + Len(Decode(Here, pos).bytes) /\ job' = job /\ member' = member /\ section' = section
      BY <2>5 DEF ScanScalar
    <3>2. member \in 1 .. Len(Members) /\ section \in 1 .. Len(Sections)
      BY <3>1, Standing DEF Scanning, Running
    <3>3. Sized(Here.code) => Boundary(Here, pos')
      BY <3>1, StepsToBoundary
    <3>4. Members' = Members /\ Sections' = Sections /\ Here' = Here
      BY <3>1 DEF Members, Sections, Here
    <3>5. OnTrack'
      BY <3>1, <3>2, <3>3, <3>4 DEF OnTrack
    <3> QED BY <3>1, <3>5
  <2>6. CASE EndSection
    BY <2>6 DEF EndSection, OnTrack
  <2>7. CASE EndMember
    <3>1. GoodJob(job) /\ member =< Len(Members) /\ section > Len(Sections)
      BY <2>7, JobsGood DEF EndMember, Running
    <3>2. Len(Sections) \in Nat
      <4>1. member \in 1 .. Len(Members)
        BY <3>1 DEF GoodJob, Members
      <4> QED BY <3>1, <4>1 DEF GoodJob, GoodMember, Members, Sections
    <3>3. pos = 0
      BY <3>1, <3>2 DEF OnTrack
    <3> QED BY <2>7, <3>3 DEF EndMember, OnTrack
  <2>8. CASE UNCHANGED <<job, member, section, pos>>
    <3>1. Members' = Members /\ Sections' = Sections /\ Here' = Here
      BY <2>8 DEF Members, Sections, Here
    <3> QED BY <2>8, <3>1 DEF OnTrack
  <2>9. CASE Verdict
    BY <2>8, <2>9 DEF Verdict
  <2>10. CASE Exited \/ UNCHANGED auditVars
    BY <2>8, <2>10 DEF Exited, auditVars
  <2> QED BY <2>1, <2>2, <2>3, <2>4, <2>5, <2>6, <2>7, <2>9, <2>10 DEF AuditNext
<1> QED BY <1>1, <1>2, PTL DEF AuditSpec

(* Whatever file the tool is run on, the walk stands on the first byte of an
   instruction whenever it decodes, in every section without an index that has
   no base.                                                                 *)
THEOREM WalkInStep == AuditSpec => []InStep
<1>1. StepInv => InStep
  BY Standing DEF InStep, Scanning, Running
<1> QED BY <1>1, StepInvHolds, PTL

(* Where the walk is in the file.                                          *)

\* The code of some members, and how much of it comes before a member and,
\* inside one, before a section.
CodeOfMember(m) == IF m.elf THEN Concat(SectionCode(m)) ELSE << >>
RowOf(ms) == [k \in 1 .. Len(ms) |-> CodeOfMember(ms[k])]
AllOf(ms) == Concat(RowOf(ms))
BeforeAt(ms, m) == Len(Joined(RowOf(ms))[m - 1])
WithinAt(x, s) == Len(Joined(SectionCode(x))[s - 1])
GoodMembers(ms) == Len(ms) \in Nat /\ \A k \in 1 .. Len(ms) : GoodMember(ms[k])

\* The walk at member m, section s and position p has seen j instructions, k of
\* them in the section.
AtPlace(ms, j, m, s, p) ==
  \E k \in Nat :
    /\ j = BeforeAt(ms, m) + WithinAt(ms[m], s) + k
    /\ s =< Len(ms[m].sections) => k =< Len(Executed(ms[m].sections[s])) /\ p = EndOf(ms[m].sections[s], k)
    /\ s > Len(ms[m].sections) => k = 0 /\ p = 0
Place(ms, j, m, s, p) ==
  /\ m \in 1 .. Len(ms) + 1
  /\ m = Len(ms) + 1 => j = Len(AllOf(ms)) /\ s = 1 /\ p = 0
  /\ m =< Len(ms) => s \in 1 .. Len(ms[m].sections) + 1 /\ AtPlace(ms, j, m, s, p)

\* A row of sequences as the walk goes along it.
LEMMA Along ==
  ASSUME NEW S, NEW l \in Seq(Seq(S)), NEW k \in 1 .. Len(l)
  PROVE  /\ Len(Joined(l)[0]) = 0 /\ Len(Joined(l)[k - 1]) \in Nat /\ Len(l[k]) \in Nat /\ l[k] \in Seq(S)
         /\ Len(Joined(l)[k]) = Len(Joined(l)[k - 1]) + Len(l[k])
         /\ Len(Joined(l)[k - 1]) + Len(l[k]) =< Len(Concat(l)) /\ Len(Concat(l)) \in Nat
         /\ \A i \in 1 .. Len(l[k]) : Concat(l)[Len(Joined(l)[k - 1]) + i] = l[k][i]
<1>1. Len(l) \in Nat
  BY LenProperties
<1>2. k - 1 \in 0 .. Len(l)
  BY <1>1
<1>3. Len(Joined(l)[0]) = 0 /\ Len(l[k]) \in Nat /\ l[k] \in Seq(S)
  BY JoinedFacts
<1>4. Len(Joined(l)[k - 1]) \in Nat
  BY <1>2, JoinedFacts
<1>5. Len(Joined(l)[k]) = Len(Joined(l)[k - 1]) + Len(l[k])
  BY JoinedFacts
<1>6. Len(Joined(l)[k - 1]) + Len(l[k]) =< Len(Concat(l)) /\ Len(Concat(l)) \in Nat
  BY JoinedPiece
<1>7. \A i \in 1 .. Len(l[k]) : Concat(l)[Len(Joined(l)[k - 1]) + i] = l[k][i]
  BY JoinedPiece
<1> QED BY <1>3, <1>4, <1>5, <1>6, <1>7

\* Along the sections of a member.
LEMMA AlongSections ==
  ASSUME NEW x, GoodMember(x), NEW s \in 1 .. Len(x.sections)
  PROVE  /\ WithinAt(x, 1) = 0 /\ WithinAt(x, s) \in Nat /\ Len(Executed(x.sections[s])) \in Nat
         /\ GoodSection(x.sections[s])
         /\ WithinAt(x, s + 1) = WithinAt(x, s) + Len(Executed(x.sections[s]))
         /\ WithinAt(x, s) + Len(Executed(x.sections[s])) =< Len(Concat(SectionCode(x)))
         /\ \A i \in 1 .. Len(Executed(x.sections[s])) :
               Concat(SectionCode(x))[WithinAt(x, s) + i] = Executed(x.sections[s])[i]
<1>1. PICK l : l = SectionCode(x)
  OBVIOUS
<1>2. l \in Seq(Seq(CodedSet)) /\ Len(l) = Len(x.sections)
  BY <1>1, SectionRow
<1>3. \A k \in 1 .. Len(x.sections) : l[k] = Executed(x.sections[k])
  BY <1>1, SectionRow
<1>4. l[s] = Executed(x.sections[s]) /\ s \in 1 .. Len(l)
  BY <1>2, <1>3
<1>5. Len(x.sections) \in Nat /\ GoodSection(x.sections[s])
  BY DEF GoodMember
<1>6. 1 - 1 = 0 /\ (s + 1) - 1 = s
  BY <1>5
<1>7. WithinAt(x, 1) = Len(Joined(l)[0]) /\ WithinAt(x, s) = Len(Joined(l)[s - 1]) /\ WithinAt(x, s + 1) = Len(Joined(l)[s])
  BY <1>1, <1>6 DEF WithinAt
<1>8. Len(Joined(l)[0]) = 0 /\ Len(Joined(l)[s - 1]) \in Nat /\ Len(l[s]) \in Nat
  BY <1>2, <1>4, Along
<1>9. Len(Joined(l)[s]) = Len(Joined(l)[s - 1]) + Len(l[s]) /\ Len(Joined(l)[s - 1]) + Len(l[s]) =< Len(Concat(l))
  BY <1>2, <1>4, Along
<1>10. \A i \in 1 .. Len(l[s]) : Concat(l)[Len(Joined(l)[s - 1]) + i] = l[s][i]
  BY <1>2, <1>4, Along
<1> QED BY <1>1, <1>4, <1>5, <1>7, <1>8, <1>9, <1>10

\* Before the first section nothing, after the last the member's code.
LEMMA SectionsFromTo ==
  ASSUME NEW x, GoodMember(x)
  PROVE  /\ WithinAt(x, 1) = 0 /\ WithinAt(x, Len(x.sections) + 1) = Len(Concat(SectionCode(x)))
         /\ \A s \in 1 .. Len(x.sections) + 1 : WithinAt(x, s) \in Nat
<1>1. PICK l : l = SectionCode(x)
  OBVIOUS
<1>2. PICK n \in Nat : n = Len(x.sections)
  BY DEF GoodMember
<1>3. l \in Seq(Seq(CodedSet)) /\ Len(l) = n
  BY <1>1, <1>2, SectionRow
<1>4. Len(Joined(l)[0]) = 0 /\ \A i \in 0 .. n : Len(Joined(l)[i]) \in Nat
  BY <1>3, JoinedFacts
<1>5. 1 - 1 = 0 /\ (n + 1) - 1 = n /\ \A s \in 1 .. n + 1 : s - 1 \in 0 .. n
  OBVIOUS
<1>6. WithinAt(x, 1) = Len(Joined(l)[0]) /\ WithinAt(x, n + 1) = Len(Joined(l)[n])
  BY <1>1, <1>5 DEF WithinAt
<1>7. \A s \in 1 .. n + 1 : WithinAt(x, s) \in Nat
  BY <1>1, <1>4, <1>5 DEF WithinAt
<1>8. Joined(l)[n] = Concat(l)
  BY <1>3 DEF Concat
<1> QED BY <1>1, <1>2, <1>4, <1>6, <1>7, <1>8

\* The members' code is a row of coded instructions.
LEMMA RowTyped ==
  ASSUME NEW ms, GoodMembers(ms)
  PROVE  /\ RowOf(ms) \in Seq(Seq(CodedSet)) /\ Len(RowOf(ms)) = Len(ms)
         /\ \A m \in 1 .. Len(ms) : RowOf(ms)[m] = CodeOfMember(ms[m])
<1>1. PICK n \in Nat : n = Len(ms)
  BY DEF GoodMembers
<1>2. \A m \in 1 .. n : CodeOfMember(ms[m]) \in Seq(CodedSet)
  <2>1. \A m \in 1 .. n : Concat(SectionCode(ms[m])) \in Seq(CodedSet)
    BY <1>1, SectionRow DEF GoodMembers
  <2>2. << >> \in Seq(CodedSet)
    BY EmptySeq
  <2> QED BY <2>1, <2>2 DEF CodeOfMember
<1>3. PICK l : l = RowOf(ms)
  OBVIOUS
<1>4. l = [k \in 1 .. n |-> CodeOfMember(ms[k])]
  BY <1>1, <1>3 DEF RowOf
<1>5. l \in Seq(Seq(CodedSet)) /\ Len(l) = n
  BY <1>2, <1>4, IsASeq
<1> QED BY <1>1, <1>3, <1>4, <1>5

\* Along the members of a file.
LEMMA AlongMembers ==
  ASSUME NEW ms, GoodMembers(ms), NEW m \in 1 .. Len(ms)
  PROVE  /\ BeforeAt(ms, m) \in Nat /\ Len(CodeOfMember(ms[m])) \in Nat
         /\ BeforeAt(ms, m + 1) = BeforeAt(ms, m) + Len(CodeOfMember(ms[m]))
         /\ BeforeAt(ms, m) + Len(CodeOfMember(ms[m])) =< Len(AllOf(ms)) /\ Len(AllOf(ms)) \in Nat
         /\ \A i \in 1 .. Len(CodeOfMember(ms[m])) : AllOf(ms)[BeforeAt(ms, m) + i] = CodeOfMember(ms[m])[i]
<1>1. PICK l : l = RowOf(ms)
  OBVIOUS
<1>2. l \in Seq(Seq(CodedSet)) /\ Len(l) = Len(ms)
  BY <1>1, RowTyped
<1>3. \A k \in 1 .. Len(ms) : l[k] = CodeOfMember(ms[k])
  BY <1>1, RowTyped
<1>4. l[m] = CodeOfMember(ms[m]) /\ m \in 1 .. Len(l)
  BY <1>2, <1>3
<1>5. (m + 1) - 1 = m
  BY DEF GoodMembers
<1>6. BeforeAt(ms, m) = Len(Joined(l)[m - 1]) /\ BeforeAt(ms, m + 1) = Len(Joined(l)[m]) /\ AllOf(ms) = Concat(l)
  BY <1>1, <1>5 DEF BeforeAt, AllOf
<1>7. Len(Joined(l)[m - 1]) \in Nat /\ Len(l[m]) \in Nat
  BY <1>2, <1>4, Along
<1>8. /\ Len(Joined(l)[m]) = Len(Joined(l)[m - 1]) + Len(l[m])
      /\ Len(Joined(l)[m - 1]) + Len(l[m]) =< Len(Concat(l)) /\ Len(Concat(l)) \in Nat
  BY <1>2, <1>4, Along
<1>9. \A i \in 1 .. Len(l[m]) : Concat(l)[Len(Joined(l)[m - 1]) + i] = l[m][i]
  BY <1>2, <1>4, Along
<1> QED BY <1>4, <1>6, <1>7, <1>8, <1>9

\* Before the first member nothing, after the last the whole file's code.
LEMMA MembersFromTo ==
  ASSUME NEW ms, GoodMembers(ms)
  PROVE  BeforeAt(ms, 1) = 0 /\ BeforeAt(ms, Len(ms) + 1) = Len(AllOf(ms)) /\ AllOf(ms) \in Seq(CodedSet)
<1>1. PICK l : l = RowOf(ms)
  OBVIOUS
<1>2. PICK n \in Nat : n = Len(ms)
  BY DEF GoodMembers
<1>3. l \in Seq(Seq(CodedSet)) /\ Len(l) = n
  BY <1>1, <1>2, RowTyped
<1>4. Len(Joined(l)[0]) = 0 /\ \A i \in 0 .. n : Joined(l)[i] \in Seq(CodedSet)
  BY <1>3, JoinedFacts
<1>5. 1 - 1 = 0 /\ (n + 1) - 1 = n /\ n \in 0 .. n
  OBVIOUS
<1>6. BeforeAt(ms, 1) = Len(Joined(l)[0]) /\ BeforeAt(ms, n + 1) = Len(Joined(l)[n])
  BY <1>1, <1>5 DEF BeforeAt
<1>7. Joined(l)[n] = AllOf(ms)
  BY <1>1, <1>3 DEF Concat, AllOf
<1> QED BY <1>2, <1>4, <1>5, <1>6, <1>7

\* What stands in a section the walk has reached.
LEMMA HereFacts ==
  ASSUME NEW ms, GoodMembers(ms), NEW m \in 1 .. Len(ms), NEW s \in 1 .. Len(ms[m].sections)
  PROVE  /\ GoodMember(ms[m]) /\ GoodSection(ms[m].sections[s]) /\ EndOf(ms[m].sections[s], 0) = 0
         /\ Len(ms[m].sections) \in Nat /\ Len(Executed(ms[m].sections[s])) \in Nat
         /\ Len(Executed(ms[m].sections[s])) =< Len(ms[m].sections[s].code)
         /\ Len(ms[m].sections[s].code) \in Nat
         /\ \A k \in 1 .. Len(Executed(ms[m].sections[s])) : EndOf(ms[m].sections[s], k) > 0
<1>1. PICK x : x = ms[m]
  OBVIOUS
<1>2. GoodMember(x)
  BY <1>1 DEF GoodMembers
<1>3. PICK c : c = x.sections[s]
  OBVIOUS
<1>4. GoodSection(c) /\ Len(x.sections) \in Nat
  BY <1>1, <1>2, <1>3 DEF GoodMember
<1>5. EndOf(c, 0) = 0
  BY <1>4, SectionEnds
<1>6. PICK n \in Nat : n = Len(c.code)
  BY <1>4, SectionBytes
<1>7. Len(Executed(c)) \in Nat /\ Len(Executed(c)) =< n
  <2>1. Len(<< >>) = 0
    OBVIOUS
  <2> QED BY <1>6, <2>1 DEF Executed
<1>8. \A k \in 1 .. n : EndOf(c, k) > 0
  <2> TAKE k \in 1 .. n
  <2>1. 0 \in 0 .. n /\ k \in 0 .. n /\ 0 < k
    OBVIOUS
  <2>2. EndOf(c, 0) < EndOf(c, k) /\ EndOf(c, k) \in Nat
    BY <1>4, <1>6, <2>1, SectionEnds
  <2> QED BY <1>5, <2>2
<1>9. \A k \in 1 .. Len(Executed(c)) : k \in 1 .. n
  BY <1>7
<1> QED BY <1>1, <1>2, <1>3, <1>4, <1>5, <1>6, <1>7, <1>8, <1>9

\* At the start of a section the walk has seen what comes before it.
LEMMA EnterSection ==
  ASSUME NEW ms, GoodMembers(ms), NEW m \in 1 .. Len(ms), NEW s \in 1 .. Len(ms[m].sections) + 1, NEW j,
         j = BeforeAt(ms, m) + WithinAt(ms[m], s)
  PROVE  Place(ms, j, m, s, 0)
<1>1. Len(ms) \in Nat /\ GoodMember(ms[m])
  BY DEF GoodMembers
<1>2. PICK n \in Nat : n = Len(ms[m].sections)
  BY <1>1 DEF GoodMember
<1>3. PICK a \in Nat, b \in Nat : a = BeforeAt(ms, m) /\ b = WithinAt(ms[m], s)
  <2>1. BeforeAt(ms, m) \in Nat
    BY AlongMembers
  <2>2. WithinAt(ms[m], s) \in Nat
    BY <1>1, SectionsFromTo
  <2> QED BY <2>1, <2>2
<1>4. s =< n => 0 =< Len(Executed(ms[m].sections[s])) /\ 0 = EndOf(ms[m].sections[s], 0)
  <2> SUFFICES ASSUME s =< n PROVE 0 =< Len(Executed(ms[m].sections[s])) /\ 0 = EndOf(ms[m].sections[s], 0)
    OBVIOUS
  <2>1. s \in 1 .. Len(ms[m].sections)
    BY <1>2
  <2>2. EndOf(ms[m].sections[s], 0) = 0 /\ Len(Executed(ms[m].sections[s])) \in Nat
    BY <2>1, HereFacts
  <2> QED BY <2>2
<1>5. j = a + b + 0
  BY <1>3
<1>6. AtPlace(ms, j, m, s, 0)
  BY <1>2, <1>3, <1>4, <1>5 DEF AtPlace
<1>7. m # Len(ms) + 1 /\ m \in 1 .. Len(ms) + 1
  BY <1>1
<1> QED BY <1>6, <1>7 DEF Place

\* At the start of a member the walk has seen the members before it.
LEMMA EnterMember ==
  ASSUME NEW ms, GoodMembers(ms), NEW m \in 1 .. Len(ms) + 1, NEW j, j = BeforeAt(ms, m)
  PROVE  Place(ms, j, m, 1, 0)
<1>1. PICK n \in Nat : n = Len(ms)
  BY DEF GoodMembers
<1>2. CASE m = n + 1
  <2>1. j = Len(AllOf(ms))
    BY <1>1, <1>2, MembersFromTo
  <2>2. ~(m =< n)
    BY <1>2
  <2> QED BY <1>1, <1>2, <2>1, <2>2 DEF Place
<1>3. CASE m # n + 1
  <2>1. m \in 1 .. n
    BY <1>1, <1>3
  <2>2. GoodMember(ms[m])
    BY <1>1, <2>1 DEF GoodMembers
  <2>3. WithinAt(ms[m], 1) = 0 /\ Len(ms[m].sections) \in Nat
    BY <2>2, SectionsFromTo DEF GoodMember
  <2>4. 1 \in 1 .. Len(ms[m].sections) + 1
    BY <2>3
  <2>5. BeforeAt(ms, m) \in Nat
    BY <1>1, <2>1, AlongMembers
  <2>6. j = BeforeAt(ms, m) + WithinAt(ms[m], 1)
    BY <2>3, <2>5
  <2>7. m \in 1 .. Len(ms)
    BY <1>1, <2>1
  <2>8. PICK s : s = 1
    OBVIOUS
  <2>9. Place(ms, j, m, s, 0)
    BY <2>4, <2>6, <2>7, <2>8, EnterSection
  <2> QED BY <2>8, <2>9
<1> QED BY <1>2, <1>3

\* The place read out.
LEMMA PlaceRead ==
  ASSUME NEW ms, GoodMembers(ms), NEW j, NEW m, NEW s, NEW p, Place(ms, j, m, s, p), m =< Len(ms)
  PROVE  /\ m \in 1 .. Len(ms) /\ s \in 1 .. Len(ms[m].sections) + 1 /\ BeforeAt(ms, m) \in Nat
         /\ GoodMember(ms[m]) /\ WithinAt(ms[m], s) \in Nat /\ AtPlace(ms, j, m, s, p)
         /\ Len(ms[m].sections) \in Nat
<1>1. Len(ms) \in Nat
  BY DEF GoodMembers
<1>2. m \in 1 .. Len(ms)
  BY <1>1 DEF Place
<1>3. s \in 1 .. Len(ms[m].sections) + 1 /\ AtPlace(ms, j, m, s, p)
  BY DEF Place
<1>4. GoodMember(ms[m])
  BY <1>2 DEF GoodMembers
<1>5. BeforeAt(ms, m) \in Nat
  BY <1>2, AlongMembers
<1>6. WithinAt(ms[m], s) \in Nat
  BY <1>3, <1>4, SectionsFromTo
<1>7. Len(ms[m].sections) \in Nat
  BY <1>4 DEF GoodMember
<1> QED BY <1>2, <1>3, <1>4, <1>5, <1>6, <1>7

\* A member with no code to run is passed by.
LEMMA PassMember ==
  ASSUME NEW ms, GoodMembers(ms), NEW j, NEW m, Place(ms, j, m, 1, 0), m =< Len(ms), ~ms[m].elf
  PROVE  Place(ms, j, m + 1, 1, 0)
<1>1. m \in 1 .. Len(ms) /\ BeforeAt(ms, m) \in Nat /\ GoodMember(ms[m]) /\ AtPlace(ms, j, m, 1, 0) /\ Len(ms[m].sections) \in Nat
  BY PlaceRead
<1>2. WithinAt(ms[m], 1) = 0
  BY <1>1, SectionsFromTo
<1>3. PICK k \in Nat : /\ j = BeforeAt(ms, m) + WithinAt(ms[m], 1) + k
                       /\ 1 =< Len(ms[m].sections) => k =< Len(Executed(ms[m].sections[1])) /\ 0 = EndOf(ms[m].sections[1], k)
                       /\ 1 > Len(ms[m].sections) => k = 0
  BY <1>1 DEF AtPlace
<1>4. k = 0
  <2>1. CASE 1 =< Len(ms[m].sections)
    <3>1. 1 \in 1 .. Len(ms[m].sections)
      BY <1>1, <2>1
    <3>2. Len(Executed(ms[m].sections[1])) \in Nat /\ \A y \in 1 .. Len(Executed(ms[m].sections[1])) : EndOf(ms[m].sections[1], y) > 0
      BY <1>1, <3>1, HereFacts
    <3> QED BY <1>3, <2>1, <3>2
  <2>2. CASE 1 > Len(ms[m].sections)
    BY <1>3, <2>2
  <2> QED BY <1>1, <2>1, <2>2
<1>5. CodeOfMember(ms[m]) = << >> /\ Len(<< >>) = 0
  BY DEF CodeOfMember
<1>6. BeforeAt(ms, m + 1) = BeforeAt(ms, m) + Len(CodeOfMember(ms[m]))
  BY <1>1, AlongMembers
<1>7. j = BeforeAt(ms, m + 1)
  BY <1>1, <1>2, <1>3, <1>4, <1>5, <1>6
<1>8. m + 1 \in 1 .. Len(ms) + 1
  BY <1>1 DEF GoodMembers
<1> QED BY <1>7, <1>8, EnterMember

\* The end of a section is the start of the next.
LEMMA PassSection ==
  ASSUME NEW ms, GoodMembers(ms), NEW j, NEW m, NEW s, NEW p, Place(ms, j, m, s, p), m =< Len(ms),
         s =< Len(ms[m].sections),
         Skipped(ms[m].sections[s]) \/ p >= Len(CodeOf(ms[m].sections[s]))
  PROVE  Place(ms, j, m, s + 1, 0) /\ (Skipped(ms[m].sections[s]) => p = 0)
<1>1. /\ m \in 1 .. Len(ms) /\ s \in 1 .. Len(ms[m].sections) + 1 /\ BeforeAt(ms, m) \in Nat
      /\ GoodMember(ms[m]) /\ WithinAt(ms[m], s) \in Nat /\ Len(ms[m].sections) \in Nat
  BY PlaceRead
<1>2. AtPlace(ms, j, m, s, p)
  BY PlaceRead
<1>3. PICK c : c = ms[m].sections[s]
  OBVIOUS
<1>4. PICK k \in Nat : j = BeforeAt(ms, m) + WithinAt(ms[m], s) + k /\ k =< Len(Executed(c)) /\ p = EndOf(c, k)
  BY <1>2, <1>3 DEF AtPlace
<1>5. s \in 1 .. Len(ms[m].sections) /\ s + 1 \in 1 .. Len(ms[m].sections) + 1
  BY <1>1
<1>6. /\ GoodSection(c) /\ EndOf(c, 0) = 0 /\ Len(Executed(c)) \in Nat /\ Len(c.code) \in Nat
  BY <1>1, <1>3, <1>5, HereFacts
<1>7. k = Len(Executed(c)) /\ (Skipped(c) => p = 0)
  <2>1. CASE Skipped(c)
    <3>1. Executed(c) = << >>
      BY <2>1 DEF Skipped, Executed
    <3>2. Len(Executed(c)) = 0
      BY <3>1
    <3> QED BY <1>4, <1>6, <3>2
  <2>2. CASE ~Skipped(c)
    <3>1. Executed(c) = c.code
      BY <1>6, <2>2 DEF Skipped, Executed, GoodSection
    <3>2. PICK n \in Nat : n = Len(c.code)
      BY <1>6
    <3>3. EndOf(c, n) = Len(CodeOf(c)) /\ \A y \in 0 .. n : EndOf(c, y) \in Nat
      BY <1>6, <3>2, SectionEnds
    <3>4. p >= EndOf(c, n)
      BY <1>3, <2>2, <3>3
    <3>5. k \in 0 .. n /\ n \in 0 .. n
      BY <1>4, <3>1, <3>2
    <3>6. k < n => EndOf(c, k) < EndOf(c, n)
      BY <1>6, <3>2, <3>5, SectionEnds
    <3>7. ~(k < n)
      <4>1. EndOf(c, k) \in Nat /\ EndOf(c, n) \in Nat
        BY <3>3, <3>5
      <4> QED BY <1>4, <3>4, <3>6, <4>1
    <3> QED BY <2>2, <3>1, <3>2, <3>5, <3>7
  <2> QED BY <2>1, <2>2
<1>8. WithinAt(ms[m], s + 1) = WithinAt(ms[m], s) + Len(Executed(c))
  BY <1>1, <1>3, <1>5, AlongSections
<1>9. j = BeforeAt(ms, m) + WithinAt(ms[m], s + 1)
  BY <1>1, <1>4, <1>6, <1>7, <1>8
<1>10. Place(ms, j, m, s + 1, 0)
  BY <1>1, <1>5, <1>9, EnterSection
<1> QED BY <1>3, <1>7, <1>10

\* The end of a member is the start of the next.
LEMMA LeaveMember ==
  ASSUME NEW ms, GoodMembers(ms), NEW j, NEW m, NEW s, NEW p, Place(ms, j, m, s, p), m =< Len(ms),
         s > Len(ms[m].sections), ms[m].elf
  PROVE  p = 0 /\ Place(ms, j, m + 1, 1, 0)
<1>1. /\ m \in 1 .. Len(ms) /\ s \in 1 .. Len(ms[m].sections) + 1 /\ BeforeAt(ms, m) \in Nat
      /\ GoodMember(ms[m]) /\ WithinAt(ms[m], s) \in Nat /\ Len(ms[m].sections) \in Nat
  BY PlaceRead
<1>2. AtPlace(ms, j, m, s, p)
  BY PlaceRead
<1>3. j = BeforeAt(ms, m) + WithinAt(ms[m], s) + 0 /\ p = 0
  BY <1>2 DEF AtPlace
<1>4. s = Len(ms[m].sections) + 1
  BY <1>1
<1>5. WithinAt(ms[m], s) = Len(CodeOfMember(ms[m]))
  BY <1>1, <1>4, SectionsFromTo DEF CodeOfMember
<1>6. BeforeAt(ms, m + 1) = BeforeAt(ms, m) + Len(CodeOfMember(ms[m]))
  BY <1>1, AlongMembers
<1>7. j = BeforeAt(ms, m + 1)
  BY <1>1, <1>3, <1>5, <1>6
<1>8. m + 1 \in 1 .. Len(ms) + 1
  BY <1>1 DEF GoodMembers
<1> QED BY <1>3, <1>7, <1>8, EnterMember

\* The instruction at hand is the next one of the file.
LEMMA NextInstruction ==
  ASSUME NEW ms, GoodMembers(ms), NEW j, NEW m, NEW s, NEW p, Place(ms, j, m, s, p), m =< Len(ms),
         s =< Len(ms[m].sections), ms[m].elf, ~Skipped(ms[m].sections[s]), p < Len(CodeOf(ms[m].sections[s])),
         NEW i, i = AllOf(ms)[j + 1]
  PROVE  /\ j \in Nat /\ j + 1 \in 1 .. Len(AllOf(ms)) /\ i \in CodedSet /\ p \in Nat
         /\ Decode(ms[m].sections[s], p) = i /\ Starts(AheadIn(ms[m].sections[s], p), i.bytes)
         /\ Place(ms, j + 1, m, s, p + Len(i.bytes))
<1>1. /\ m \in 1 .. Len(ms) /\ s \in 1 .. Len(ms[m].sections) + 1 /\ Len(ms[m].sections) \in Nat /\ GoodMember(ms[m])
  BY PlaceRead
<1>2. AtPlace(ms, j, m, s, p)
  BY PlaceRead
<1>3. PICK c : c = ms[m].sections[s]
  OBVIOUS
<1>4. PICK a \in Nat, b \in Nat : a = BeforeAt(ms, m) /\ b = WithinAt(ms[m], s)
  BY PlaceRead
<1>5. PICK k \in Nat : j = a + b + k /\ k =< Len(Executed(c)) /\ p = EndOf(c, k)
  BY <1>2, <1>3, <1>4 DEF AtPlace
<1>6. s \in 1 .. Len(ms[m].sections)
  BY <1>1
<1>7. GoodSection(c) /\ Len(c.code) \in Nat
  BY <1>1, <1>3, <1>6, HereFacts
<1>8. Executed(c) = c.code
  BY <1>3, <1>7 DEF Skipped, Executed, GoodSection
<1>9. PICK n \in Nat : n = Len(c.code)
  BY <1>7
<1>10. k \in 0 .. Len(c.code) /\ p < Len(CodeOf(c))
  BY <1>3, <1>5, <1>7, <1>8
<1>11. PICK x : x = c.code[k + 1]
  OBVIOUS
<1>12. k + 1 \in 1 .. n /\ p + Len(x.bytes) = EndOf(c, k + 1)
  BY <1>5, <1>7, <1>9, <1>10, <1>11, AtInstruction
<1>13. Decode(c, p) = x /\ Starts(AheadIn(c, p), x.bytes)
  BY <1>5, <1>7, <1>10, <1>11, AtInstruction
<1>14. x \in CodedSet
  BY <1>7, <1>9, <1>11, <1>12, SectionBytes
<1>15. PICK y : y = CodeOfMember(ms[m])
  OBVIOUS
<1>16. y = Concat(SectionCode(ms[m]))
  BY <1>15 DEF CodeOfMember
<1>17. b + n =< Len(y) /\ \A z \in 1 .. n : y[b + z] = c.code[z]
  <2>1. /\ WithinAt(ms[m], s) + Len(Executed(ms[m].sections[s])) =< Len(Concat(SectionCode(ms[m])))
        /\ \A z \in 1 .. Len(Executed(ms[m].sections[s])) :
              Concat(SectionCode(ms[m]))[WithinAt(ms[m], s) + z] = Executed(ms[m].sections[s])[z]
    BY <1>1, <1>6, AlongSections
  <2> QED BY <1>3, <1>4, <1>8, <1>9, <1>16, <2>1, Zenon
<1>18. PICK w \in Nat, t \in Nat : w = Len(y) /\ t = Len(AllOf(ms))
  BY <1>1, <1>15, AlongMembers
<1>19. a + w =< t /\ \A z \in 1 .. w : AllOf(ms)[a + z] = y[z]
  <2>1. /\ BeforeAt(ms, m) + Len(CodeOfMember(ms[m])) =< Len(AllOf(ms))
        /\ \A z \in 1 .. Len(CodeOfMember(ms[m])) : AllOf(ms)[BeforeAt(ms, m) + z] = CodeOfMember(ms[m])[z]
    BY <1>1, AlongMembers
  <2> QED BY <1>4, <1>15, <1>18, <2>1, Zenon
<1>20. b + (k + 1) \in 1 .. w /\ j + 1 = a + (b + (k + 1)) /\ j \in Nat /\ j + 1 \in 1 .. t
  BY <1>5, <1>12, <1>17, <1>18, <1>19
<1>21. i = x
  BY <1>11, <1>12, <1>17, <1>19, <1>20
<1>22. p \in Nat
  BY <1>5, <1>7, <1>10, SectionEnds
<1>23. AtPlace(ms, j + 1, m, s, p + Len(i.bytes))
  <2>1. k + 1 \in Nat /\ j + 1 = a + b + (k + 1) /\ k + 1 =< Len(Executed(c)) /\ ~(s > Len(ms[m].sections))
    BY <1>5, <1>6, <1>8, <1>9, <1>12
  <2>2. p + Len(i.bytes) = EndOf(c, k + 1)
    BY <1>12, <1>21
  <2> QED BY <1>3, <1>4, <2>1, <2>2 DEF AtPlace
<1>24. Place(ms, j + 1, m, s, p + Len(i.bytes))
  <2>1. m # Len(ms) + 1 /\ m \in 1 .. Len(ms) + 1
    BY <1>1 DEF GoodMembers
  <2> QED BY <1>1, <1>23, <2>1 DEF Place
<1> QED BY <1>3, <1>13, <1>14, <1>18, <1>20, <1>21, <1>22, <1>24

(* Sorting hits.                                                           *)

Addressed(S) == \A h \in S : h.address \in Nat
Sorted(hs) == \A a, b \in 1 .. Len(hs) : a < b => hs[a].address <= hs[b].address
ElemsOf(hs) == {hs[k] : k \in 1 .. Len(hs)}
InsertAt(hs, h, n) == \A k \in 1 .. Len(hs) : k <= n <=> hs[k].address <= h.address

\* In sorted hits there is a place for another.
LEMMA InsertPoint ==
  ASSUME NEW S, Addressed(S), NEW hs \in Seq(S), Sorted(hs), NEW h \in S
  PROVE  \E n \in 0 .. Len(hs) : InsertAt(hs, h, n)
<1>1. PICK z \in Nat : z = Len(hs)
  BY LenProperties
<1>2. \A k \in 1 .. z : hs[k] \in S
  BY <1>1, ElementOfSeq
<1>3. h.address \in Nat /\ \A k \in 1 .. z : hs[k].address \in Nat
  BY <1>2 DEF Addressed
<1> DEFINE T == {n \in 0 .. z : \A k \in 1 .. n : hs[k].address <= h.address}
<1>4. 0 \in T
  OBVIOUS
<1>5. CASE \A n \in 0 .. z - 1 : n \in T => n + 1 \in T
  <2> HIDE DEF T
  <2>1. \A n \in 0 .. z : n \in T
    BY <1>4, <1>5, CountUp
  <2>2. z \in T
    BY <2>1
  <2>3. \A k \in 1 .. z : hs[k].address <= h.address
    BY <2>2 DEF T
  <2>4. InsertAt(hs, h, z)
    BY <1>1, <2>3 DEF InsertAt
  <2> QED BY <1>1, <2>4
<1>6. CASE ~\A n \in 0 .. z - 1 : n \in T => n + 1 \in T
  <2>1. PICK n \in 0 .. z - 1 : n \in T /\ n + 1 \notin T
    BY <1>6
  <2>2. n \in 0 .. z /\ n + 1 \in 0 .. z /\ n + 1 \in 1 .. z
    OBVIOUS
  <2>3. \A k \in 1 .. n : hs[k].address <= h.address
    BY <2>1
  <2>4. ~(hs[n + 1].address <= h.address)
    <3>1. PICK k \in 1 .. n + 1 : ~(hs[k].address <= h.address)
      BY <2>1, <2>2
    <3>2. k = n + 1
      BY <2>3, <3>1
    <3> QED BY <3>1, <3>2
  <2>5. ASSUME NEW k \in 1 .. z PROVE k <= n <=> hs[k].address <= h.address
    <3>1. CASE k <= n
      <4>1. k \in 1 .. n
        BY <3>1
      <4> QED BY <2>3, <3>1, <4>1
    <3>2. CASE k = n + 1
      <4>1. ~(k <= n)
        BY <3>2
      <4> QED BY <2>4, <3>2, <4>1
    <3>3. CASE n + 1 < k
      <4>1. hs[n + 1].address <= hs[k].address
        BY <1>1, <2>2, <3>3 DEF Sorted
      <4>2. hs[n + 1].address \in Nat /\ hs[k].address \in Nat
        BY <1>3, <2>2
      <4>3. ~(hs[k].address <= h.address)
        BY <1>3, <2>4, <4>1, <4>2
      <4>4. ~(k <= n)
        BY <3>3
      <4> QED BY <4>3, <4>4
    <3> QED BY <3>1, <3>2, <3>3
  <2>6. InsertAt(hs, h, n)
    BY <1>1, <2>5 DEF InsertAt
  <2> QED BY <1>1, <2>2, <2>6
<1> QED BY <1>5, <1>6

\* Three pieces around a place.
LEMMA Inserted ==
  ASSUME NEW S, Addressed(S), NEW hs \in Seq(S), Sorted(hs), NEW h \in S, NEW r, r = Insert(hs, h)
  PROVE  r \in Seq(S) /\ Sorted(r) /\ ElemsOf(r) = ElemsOf(hs) \cup {h}
<1>1. PICK z \in Nat : z = Len(hs)
  BY LenProperties
<1>2. \A k \in 1 .. z : hs[k] \in S
  BY <1>1, ElementOfSeq
<1>3. h.address \in Nat /\ \A k \in 1 .. z : hs[k].address \in Nat
  BY <1>2 DEF Addressed
<1>4. PICK n : n = CHOOSE q \in 0 .. Len(hs) : \A k \in 1 .. Len(hs) : k <= q <=> hs[k].address <= h.address
  OBVIOUS
<1>5. n \in 0 .. z /\ InsertAt(hs, h, n)
  <2>1. \E q \in 0 .. Len(hs) : \A k \in 1 .. Len(hs) : k <= q <=> hs[k].address <= h.address
    BY InsertPoint DEF InsertAt
  <2> QED BY <1>1, <1>4, <2>1, Zenon DEF InsertAt
<1>6. r = SubSeq(hs, 1, n) \o <<h>> \o SubSeq(hs, n + 1, z)
  BY <1>1, <1>4, Zenon DEF Insert
<1>7. PICK u : u = SubSeq(hs, 1, n)
  OBVIOUS
<1>8. PICK w : w = SubSeq(hs, n + 1, z)
  OBVIOUS
<1>9. u \in Seq(S) /\ Len(u) = n /\ \A k \in 1 .. n : u[k] = hs[k]
  <2>1. u = [k \in 1 .. n |-> hs[k]]
    <3>1. SubSeq(hs, 1, n) = [k \in 1 .. (1 + n - 1) |-> hs[k + 1 - 1]]
      BY <1>5 DEF SubSeq
    <3>2. 1 + n - 1 = n /\ \A k \in 1 .. n : k + 1 - 1 = k
      BY <1>5
    <3> QED BY <1>7, <3>1, <3>2
  <2>2. \A k \in 1 .. n : hs[k] \in S
    BY <1>2, <1>5
  <2>3. n \in Nat
    BY <1>5
  <2> QED BY <2>1, <2>2, <2>3, IsASeq
<1>10. w \in Seq(S) /\ Len(w) = z - n /\ \A k \in 1 .. z - n : w[k] = hs[n + k]
  <2>1. w = [k \in 1 .. z - n |-> hs[n + k]]
    <3>1. SubSeq(hs, n + 1, z) = [k \in 1 .. (1 + z - (n + 1)) |-> hs[k + (n + 1) - 1]]
      BY <1>5 DEF SubSeq
    <3>2. 1 + z - (n + 1) = z - n /\ \A k \in 1 .. z - n : k + (n + 1) - 1 = n + k
      BY <1>5
    <3> QED BY <1>8, <3>1, <3>2
  <2>2. \A k \in 1 .. z - n : hs[n + k] \in S
    <3>1. \A k \in 1 .. z - n : n + k \in 1 .. z
      BY <1>5
    <3> QED BY <1>2, <3>1
  <2>3. z - n \in Nat
    BY <1>5
  <2> QED BY <2>1, <2>2, <2>3, IsASeq
<1>11. PICK v : v = u \o <<h>>
  OBVIOUS
<1>12. /\ v \in Seq(S) /\ Len(v) = n + 1
       /\ \A k \in 1 .. n + 1 : v[k] = IF k =< n THEN hs[k] ELSE h
  <2>1. <<h>> \in Seq(S) /\ Len(<<h>>) = 1 /\ <<h>>[1] = h
    OBVIOUS
  <2>2. /\ u \o <<h>> \in Seq(S) /\ Len(u \o <<h>>) = Len(u) + Len(<<h>>)
        /\ \A k \in 1 .. Len(u) + Len(<<h>>) : (u \o <<h>>)[k] = IF k =< Len(u) THEN u[k] ELSE <<h>>[k - Len(u)]
    BY <1>9, <2>1, ConcatProperties, Zenon
  <2>3. \A k \in 1 .. n + 1 : k \in 1 .. n \/ k = n + 1
    BY <1>5
  <2>4. ~(n + 1 =< n) /\ (n + 1) - n = 1
    BY <1>5
  <2> QED BY <1>9, <1>11, <2>1, <2>2, <2>3, <2>4
<1>13. /\ r \in Seq(S) /\ Len(r) = z + 1
       /\ \A k \in 1 .. z + 1 : r[k] = IF k =< n + 1 THEN v[k] ELSE w[k - (n + 1)]
  <2>1. /\ v \o w \in Seq(S) /\ Len(v \o w) = Len(v) + Len(w)
        /\ \A k \in 1 .. Len(v) + Len(w) : (v \o w)[k] = IF k =< Len(v) THEN v[k] ELSE w[k - Len(v)]
    BY <1>10, <1>12, ConcatProperties, Zenon
  <2>2. (n + 1) + (z - n) = z + 1
    BY <1>5
  <2>3. r = v \o w
    BY <1>6, <1>7, <1>8, <1>11
  <2> QED BY <1>10, <1>12, <2>1, <2>2, <2>3
<1>14. \A k \in 1 .. z + 1 : r[k] = IF k =< n THEN hs[k] ELSE IF k = n + 1 THEN h ELSE hs[k - 1]
  <2> TAKE k \in 1 .. z + 1
  <2>1. CASE k =< n + 1
    <3>1. k \in 1 .. n + 1
      BY <1>5, <2>1
    <3>2. r[k] = IF k =< n THEN hs[k] ELSE h
      BY <1>12, <1>13, <2>1, <3>1
    <3>3. ~(k =< n) => k = n + 1
      BY <1>5, <2>1
    <3> QED BY <3>2, <3>3
  <2>2. CASE ~(k =< n + 1)
    <3>1. k - (n + 1) \in 1 .. z - n /\ n + (k - (n + 1)) = k - 1 /\ ~(k =< n) /\ k # n + 1
      BY <1>5, <2>2
    <3> QED BY <1>10, <1>13, <2>2, <3>1
  <2> QED BY <2>1, <2>2
<1>15. Sorted(r)
  <2> SUFFICES ASSUME NEW a \in 1 .. z + 1, NEW b \in 1 .. z + 1, a < b PROVE r[a].address <= r[b].address
    BY <1>13 DEF Sorted
  <2>1. \A x, y \in 1 .. z : x < y => hs[x].address <= hs[y].address
    BY <1>1 DEF Sorted
  <2>2. \A x \in 1 .. z : x <= n <=> hs[x].address <= h.address
    BY <1>1, <1>5 DEF InsertAt
  <2>3. CASE b =< n
    <3>1. a \in 1 .. z /\ b \in 1 .. z /\ a =< n
      BY <1>5, <2>3
    <3> QED BY <1>14, <2>1, <2>3, <3>1
  <2>4. CASE b = n + 1
    <3>1. a \in 1 .. z /\ a =< n /\ ~(b =< n)
      BY <1>5, <2>4
    <3>2. r[a] = hs[a] /\ r[b] = h
      BY <1>14, <2>4, <3>1
    <3> QED BY <2>2, <3>1, <3>2
  <2>5. CASE b > n + 1
    <3>1. b - 1 \in 1 .. z /\ ~(b =< n) /\ b # n + 1 /\ ~(b - 1 <= n)
      BY <1>5, <2>5
    <3>2. r[b] = hs[b - 1]
      BY <1>14, <3>1
    <3>3. CASE a =< n
      <4>1. a \in 1 .. z /\ a < b - 1
        BY <1>5, <2>5, <3>3
      <4>2. r[a] = hs[a]
        BY <1>14, <3>3
      <4> QED BY <2>1, <3>1, <3>2, <4>1, <4>2
    <3>4. CASE a = n + 1
      <4>1. r[a] = h
        <5>1. ~(a =< n)
          BY <1>5, <3>4
        <5> QED BY <1>14, <3>4, <5>1
      <4>2. ~(hs[b - 1].address <= h.address)
        BY <2>2, <3>1
      <4>3. hs[b - 1].address \in Nat
        BY <1>3, <3>1
      <4> QED BY <1>3, <3>2, <4>1, <4>2, <4>3
    <3>5. CASE a > n + 1
      <4>1. a - 1 \in 1 .. z /\ ~(a =< n) /\ a # n + 1 /\ a - 1 < b - 1
        BY <1>5, <3>5
      <4>2. r[a] = hs[a - 1]
        BY <1>14, <4>1
      <4> QED BY <2>1, <3>1, <3>2, <4>1, <4>2
    <3> QED BY <1>5, <3>3, <3>4, <3>5
  <2> QED BY <1>5, <2>3, <2>4, <2>5
<1>16. ElemsOf(r) = ElemsOf(hs) \cup {h}
  <2>1. ASSUME NEW k \in 1 .. z + 1 PROVE r[k] \in ElemsOf(hs) \cup {h}
    <3>1. CASE k =< n
      <4>1. k \in 1 .. z
        BY <1>5, <3>1
      <4>2. r[k] = hs[k]
        BY <1>14, <3>1
      <4> QED BY <1>1, <4>1, <4>2 DEF ElemsOf
    <3>2. CASE k = n + 1
      <4>1. ~(k =< n)
        BY <1>5, <3>2
      <4>2. r[k] = h
        BY <1>14, <3>2, <4>1
      <4> QED BY <4>2
    <3>3. CASE k > n + 1
      <4>1. k - 1 \in 1 .. z /\ ~(k =< n) /\ k # n + 1
        BY <1>5, <3>3
      <4>2. r[k] = hs[k - 1]
        BY <1>14, <4>1
      <4> QED BY <1>1, <4>1, <4>2 DEF ElemsOf
    <3> QED BY <1>5, <3>1, <3>2, <3>3
  <2>2. h \in ElemsOf(r)
    <3>1. n + 1 \in 1 .. z + 1 /\ ~(n + 1 =< n)
      BY <1>5
    <3>2. r[n + 1] = h
      BY <1>14, <3>1
    <3> QED BY <1>13, <3>1, <3>2 DEF ElemsOf
  <2>3. ASSUME NEW k \in 1 .. z PROVE hs[k] \in ElemsOf(r)
    <3>1. CASE k =< n
      <4>1. k \in 1 .. z + 1
        OBVIOUS
      <4>2. r[k] = hs[k]
        BY <1>14, <3>1, <4>1
      <4> QED BY <1>13, <4>1, <4>2 DEF ElemsOf
    <3>2. CASE k > n
      <4>1. k + 1 \in 1 .. z + 1 /\ ~(k + 1 =< n) /\ k + 1 # n + 1 /\ (k + 1) - 1 = k
        BY <1>5, <3>2
      <4>2. r[k + 1] = hs[k]
        BY <1>14, <4>1
      <4> QED BY <1>13, <4>1, <4>2 DEF ElemsOf
    <3> QED BY <1>5, <3>1, <3>2
  <2>4. \A e \in ElemsOf(r) : e \in ElemsOf(hs) \cup {h}
    BY <1>13, <2>1 DEF ElemsOf
  <2>5. \A e \in ElemsOf(hs) : e \in ElemsOf(r)
    BY <1>1, <2>3 DEF ElemsOf
  <2> QED BY <2>2, <2>4, <2>5
<1> QED BY <1>13, <1>15, <1>16

\* The recursion of SortedUpTo has a solution.
LEMMA SortDefined ==
  ASSUME NEW l, Len(l) \in Nat
  PROVE  SortedUpTo(l) = [i \in 0 .. Len(l) |-> IF i = 0 THEN << >> ELSE Insert(SortedUpTo(l)[i - 1], l[i])]
<1> DEFINE n == Len(l)
           Solves(m, g) == g = [i \in 0 .. m |-> IF i = 0 THEN << >> ELSE Insert(g[i - 1], l[i])]
           S == {m \in 0 .. n : \E g : Solves(m, g)}
<1>1. n \in Nat
  OBVIOUS
<1> HIDE DEF n
<1>2. 0 \in S
  <2> DEFINE g == [i \in 0 .. 0 |-> << >>]
  <2>1. Solves(0, g)
    OBVIOUS
  <2>2. 0 \in 0 .. n
    BY <1>1
  <2> HIDE DEF g, Solves
  <2> QED BY <2>1, <2>2
<1>3. ASSUME NEW m \in 0 .. n - 1, m \in S PROVE m + 1 \in S
  <2>1. PICK g : Solves(m, g)
    BY <1>3
  <2> DEFINE h == [i \in 0 .. m + 1 |-> IF i = m + 1 THEN Insert(g[m], l[m + 1]) ELSE g[i]]
  <2>2. m \in Nat /\ m + 1 \in 0 .. n
    BY <1>1
  <2>3. \A i \in 0 .. m + 1 : h[i] = IF i = 0 THEN << >> ELSE Insert(h[i - 1], l[i])
    <3>1. TAKE i \in 0 .. m + 1
    <3>2. CASE i = m + 1
      <4>1. i # 0 /\ i - 1 = m /\ m \in 0 .. m + 1 /\ m # m + 1
        BY <2>2, <3>2
      <4> QED BY <3>2, <4>1
    <3>3. CASE i # m + 1
      <4>1. i \in 0 .. m /\ (i # 0 => i - 1 \in 0 .. m + 1 /\ i - 1 # m + 1)
        BY <2>2, <3>3
      <4>2. g[i] = IF i = 0 THEN << >> ELSE Insert(g[i - 1], l[i])
        BY <2>1, <4>1
      <4> QED BY <3>3, <4>1, <4>2
    <3> QED BY <3>2, <3>3
  <2>4. Solves(m + 1, h)
    <3>1. h = [i \in 0 .. m + 1 |-> h[i]]
      OBVIOUS
    <3> HIDE DEF h
    <3> QED BY <2>3, <3>1
  <2> QED BY <2>2, <2>4
<1> HIDE DEF S
<1>4. \A i \in 0 .. n : i \in S
  BY <1>1, <1>2, <1>3, CountUp
<1>5. n \in S
  BY <1>1, <1>4
<1>6. \E g : Solves(n, g)
  BY <1>5 DEF S
<1>7. SortedUpTo(l) = CHOOSE g : Solves(n, g)
  BY DEF SortedUpTo, n
<1> HIDE DEF Solves
<1>8. Solves(n, SortedUpTo(l))
  BY <1>6, <1>7
<1> QED BY <1>8 DEF Solves, n

\* Sorting gives the same hits in address order.
LEMMA SortFacts ==
  ASSUME NEW S, Addressed(S), NEW l \in Seq(S)
  PROVE  sort_by_key(l) \in Seq(S) /\ Sorted(sort_by_key(l)) /\ ElemsOf(sort_by_key(l)) = ElemsOf(l)
<1>1. PICK n \in Nat : n = Len(l)
  BY LenProperties
<1>2. \A k \in 1 .. n : l[k] \in S
  BY <1>1, ElementOfSeq
<1>3. PICK f : f = SortedUpTo(l)
  OBVIOUS
<1>4. f = [i \in 0 .. n |-> IF i = 0 THEN << >> ELSE Insert(f[i - 1], l[i])]
  BY <1>1, <1>3, SortDefined
<1> DEFINE First(i) == {l[k] : k \in 1 .. i}
           Good(i) == f[i] \in Seq(S) /\ Sorted(f[i]) /\ ElemsOf(f[i]) = First(i)
           T == {i \in 0 .. n : Good(i)}
<1>5. f[0] = << >>
  BY <1>4
<1>6. \A i \in 1 .. n : f[i] = Insert(f[i - 1], l[i])
  <2>1. \A i \in 1 .. n : i \in 0 .. n /\ i # 0
    OBVIOUS
  <2> QED BY <1>4, <2>1
<1>7. 0 \in T
  <2>1. << >> \in Seq(S) /\ Len(<< >>) = 0 /\ 1 .. 0 = {}
    BY EmptySeq
  <2>2. Sorted(<< >>) /\ ElemsOf(<< >>) = {} /\ First(0) = {}
    BY <2>1 DEF Sorted, ElemsOf
  <2>3. Good(0)
    BY <1>5, <2>1, <2>2, Zenon
  <2> HIDE DEF Good
  <2> QED BY <2>3
<1>8. ASSUME NEW i \in 0 .. n - 1, i \in T PROVE i + 1 \in T
  <2>1. i + 1 \in 0 .. n /\ i + 1 \in 1 .. n /\ (i + 1) - 1 = i
    OBVIOUS
  <2>2. Good(i)
    BY <1>8
  <2>3. f[i + 1] = Insert(f[i], l[i + 1]) /\ l[i + 1] \in S
    BY <1>2, <1>6, <2>1
  <2>4. f[i + 1] \in Seq(S) /\ Sorted(f[i + 1]) /\ ElemsOf(f[i + 1]) = ElemsOf(f[i]) \cup {l[i + 1]}
    <3>1. PICK p, h : p = f[i] /\ h = l[i + 1]
      OBVIOUS
    <3>2. p \in Seq(S) /\ Sorted(p) /\ h \in S
      BY <2>2, <2>3, <3>1
    <3>3. PICK q : q = Insert(p, h)
      OBVIOUS
    <3> HIDE DEF First
    <3>4. q \in Seq(S) /\ Sorted(q) /\ ElemsOf(q) = ElemsOf(p) \cup {h}
      BY <3>2, <3>3, Inserted
    <3> QED BY <2>3, <3>1, <3>3, <3>4
  <2>5. First(i + 1) = First(i) \cup {l[i + 1]}
    <3>1. \A k : k \in 1 .. i + 1 <=> k \in 1 .. i \/ k = i + 1
      BY <2>1
    <3> HIDE DEF Good
    <3> QED BY <3>1
  <2> QED BY <2>1, <2>2, <2>4, <2>5
<1> HIDE DEF T, Good
<1>9. \A i \in 0 .. n : i \in T
  BY <1>7, <1>8, CountUp
<1>10. Good(n)
  BY <1>9 DEF T
<1>11. f[n] = sort_by_key(l)
  BY <1>1, <1>3 DEF sort_by_key
<1>12. First(n) = ElemsOf(l)
  BY <1>1 DEF ElemsOf
<1> QED BY <1>10, <1>11, <1>12 DEF Good

(* The worst of the reasons.                                               *)

\* The recursion of WorstUpTo has a solution.
LEMMA WorstDefined ==
  ASSUME NEW l, Len(l) \in Nat
  PROVE  WorstUpTo(l) = [i \in 0 .. Len(l) |-> IF i = 0 THEN [sev |-> NoHit, why |-> ""]
                           ELSE Worse(WorstUpTo(l)[i - 1], [sev |-> classify_feature(l[i]), why |-> l[i]])]
<1> DEFINE n == Len(l)
           Step(a, i) == Worse(a, [sev |-> classify_feature(l[i]), why |-> l[i]])
           Start == [sev |-> NoHit, why |-> ""]
           Solves(m, g) == g = [i \in 0 .. m |-> IF i = 0 THEN Start ELSE Step(g[i - 1], i)]
           S == {m \in 0 .. n : \E g : Solves(m, g)}
<1>7. WorstUpTo(l) = CHOOSE g : Solves(n, g)
  BY DEF WorstUpTo
<1>1. n \in Nat
  OBVIOUS
<1> HIDE DEF n, Step, Start
<1>2. 0 \in S
  <2> DEFINE g == [i \in 0 .. 0 |-> Start]
  <2>1. Solves(0, g)
    OBVIOUS
  <2>2. 0 \in 0 .. n
    BY <1>1
  <2> HIDE DEF g, Solves
  <2> QED BY <2>1, <2>2
<1>3. ASSUME NEW m \in 0 .. n - 1, m \in S PROVE m + 1 \in S
  <2>1. PICK g : Solves(m, g)
    BY <1>3
  <2> DEFINE h == [i \in 0 .. m + 1 |-> IF i = m + 1 THEN Step(g[m], m + 1) ELSE g[i]]
  <2>2. m \in Nat /\ m + 1 \in 0 .. n
    BY <1>1
  <2>3. \A i \in 0 .. m + 1 : h[i] = IF i = 0 THEN Start ELSE Step(h[i - 1], i)
    <3>1. TAKE i \in 0 .. m + 1
    <3>2. CASE i = m + 1
      <4>1. i # 0 /\ i - 1 = m /\ m \in 0 .. m + 1 /\ m # m + 1
        BY <2>2, <3>2
      <4> QED BY <3>2, <4>1
    <3>3. CASE i # m + 1
      <4>1. i \in 0 .. m /\ (i # 0 => i - 1 \in 0 .. m + 1 /\ i - 1 # m + 1)
        BY <2>2, <3>3
      <4>2. g[i] = IF i = 0 THEN Start ELSE Step(g[i - 1], i)
        BY <2>1, <4>1
      <4> QED BY <3>3, <4>1, <4>2
    <3> QED BY <3>2, <3>3
  <2>4. Solves(m + 1, h)
    <3>1. h = [i \in 0 .. m + 1 |-> h[i]]
      OBVIOUS
    <3> HIDE DEF h
    <3> QED BY <2>3, <3>1
  <2> QED BY <2>2, <2>4
<1> HIDE DEF S
<1>4. \A i \in 0 .. n : i \in S
  BY <1>1, <1>2, <1>3, CountUp
<1>5. n \in S
  BY <1>1, <1>4
<1>6. \E g : Solves(n, g)
  BY <1>5 DEF S
<1> HIDE DEF Solves
<1>8. Solves(n, WorstUpTo(l))
  BY <1>6, <1>7
<1> QED BY <1>8 DEF Solves, n, Step, Start

\* The first of the worst of the first n reasons of a list.
ReasonSet == STRING \cup {MnemonicRule(m) : m \in STRING}
Best(f, n, u) ==
  /\ u.sev \in 0 .. 2
  /\ \A k \in 1 .. n : u.sev =< classify_feature(f[k])
  /\ u.sev # 2 => \E k \in 1 .. n : /\ u.why = f[k] /\ classify_feature(f[k]) = u.sev
                                   /\ \A m \in 1 .. n : classify_feature(f[m]) = u.sev => k <= m

\* What the lists say is one of three things.
LEMMA Severities ==
  /\ \A x : classify_feature(x) \in 0 .. 2
  /\ Illegal = 0 /\ Suspect = 1 /\ NoHit = 2
  /\ \A m \in STRING : m \in ReasonSet /\ MnemonicRule(m) \in ReasonSet
<1>1. Illegal = 0 /\ Suspect = 1 /\ NoHit = 2
  BY DEF Illegal, Suspect, NoHit
<1>2. \A x : classify_feature(x) \in 0 .. 2
  BY <1>1 DEF classify_feature
<1>3. \A m \in STRING : m \in ReasonSet /\ MnemonicRule(m) \in ReasonSet
  BY DEF ReasonSet
<1> QED BY <1>1, <1>2, <1>3

\* The fold over the features keeps the worst.
LEMMA WorstFeature ==
  ASSUME NEW f \in Seq(STRING)
  PROVE  Best(f, Len(f), WorstUpTo(f)[Len(f)])
<1>1. PICK n \in Nat : n = Len(f)
  BY LenProperties
<1>2. \A k \in 1 .. n : f[k] \in STRING
  BY <1>1, ElementOfSeq
<1>3. PICK g : g = WorstUpTo(f)
  OBVIOUS
<1>4. g = [i \in 0 .. n |-> IF i = 0 THEN [sev |-> NoHit, why |-> ""]
                            ELSE Worse(g[i - 1], [sev |-> classify_feature(f[i]), why |-> f[i]])]
  BY <1>1, <1>3, WorstDefined
<1> DEFINE T == {i \in 0 .. n : Best(f, i, g[i])}
<1>5. g[0] = [sev |-> NoHit, why |-> ""]
  <2>1. 0 \in 0 .. n
    OBVIOUS
  <2> QED BY <1>4, <2>1, Zenon
<1>6. \A i \in 1 .. n : g[i] = Worse(g[i - 1], [sev |-> classify_feature(f[i]), why |-> f[i]])
  <2>1. \A i \in 1 .. n : i \in 0 .. n /\ i # 0
    OBVIOUS
  <2> QED BY <1>4, <2>1
<1>7. 0 \in T
  <2>1. PICK u : u = g[0]
    OBVIOUS
  <2>2. \A y : [sev |-> NoHit, why |-> y].sev = NoHit
    OBVIOUS
  <2>3. u.sev = NoHit
    BY <1>5, <2>1, <2>2, Zenon
  <2>4. u.sev = 2 /\ u.sev \in 0 .. 2 /\ 1 .. 0 = {}
    BY <2>3, Severities
  <2>5. Best(f, 0, u)
    BY <2>4 DEF Best
  <2> QED BY <2>1, <2>5
<1>8. ASSUME NEW i \in 0 .. n - 1, i \in T PROVE i + 1 \in T
  <2>1. i + 1 \in 0 .. n /\ i + 1 \in 1 .. n /\ (i + 1) - 1 = i
    OBVIOUS
  <2>2. PICK u, v : u = g[i] /\ v = g[i + 1]
    OBVIOUS
  <2>3. Best(f, i, u)
    BY <1>8, <2>2
  <2>4. PICK c \in 0 .. 2 : c = classify_feature(f[i + 1])
    BY Severities
  <2>5. v = Worse(u, [sev |-> c, why |-> f[i + 1]])
    BY <1>6, <2>1, <2>2, <2>4
  <2>6. u.sev \in 0 .. 2
    BY <2>3 DEF Best
  <2>7. \A k \in 1 .. i + 1 : k \in 1 .. i \/ k = i + 1
    BY <2>1
  <2>8. \A k \in 1 .. i : k \in 1 .. i + 1
    BY <2>1
  <2>9. i + 1 \in 1 .. i + 1
    BY <2>1
  <2>10. CASE u.sev <= c
    <3>1. v = u
      BY <2>5, <2>10 DEF Worse
    <3>2. \A k \in 1 .. i + 1 : u.sev =< classify_feature(f[k])
      BY <2>3, <2>4, <2>7, <2>10 DEF Best
    <3>3. u.sev # 2 => \E k \in 1 .. i + 1 : /\ u.why = f[k] /\ classify_feature(f[k]) = u.sev
                                            /\ \A m \in 1 .. i + 1 : classify_feature(f[m]) = u.sev => k <= m
      <4> SUFFICES ASSUME u.sev # 2
                   PROVE  \E k \in 1 .. i + 1 : /\ u.why = f[k] /\ classify_feature(f[k]) = u.sev
                                               /\ \A m \in 1 .. i + 1 : classify_feature(f[m]) = u.sev => k <= m
        OBVIOUS
      <4>1. PICK k \in 1 .. i : /\ u.why = f[k] /\ classify_feature(f[k]) = u.sev
                               /\ \A m \in 1 .. i : classify_feature(f[m]) = u.sev => k <= m
        BY <2>3 DEF Best
      <4>2. k <= i + 1
        OBVIOUS
      <4>3. \A m \in 1 .. i + 1 : classify_feature(f[m]) = u.sev => k <= m
        BY <2>7, <4>1, <4>2
      <4> QED BY <2>8, <4>1, <4>3
    <3>4. Best(f, i + 1, v)
      BY <2>6, <3>1, <3>2, <3>3 DEF Best
    <3> QED BY <2>1, <2>2, <3>4
  <2>11. CASE ~(u.sev <= c)
    <3>1. v.sev = c /\ v.why = f[i + 1]
      BY <2>5, <2>11 DEF Worse
    <3>2. ASSUME NEW k \in 1 .. i + 1 PROVE c =< classify_feature(f[k])
      <4>1. CASE k = i + 1
        BY <2>4, <4>1
      <4>2. CASE k \in 1 .. i
        <5>1. u.sev =< classify_feature(f[k])
          BY <2>3, <4>2 DEF Best
        <5>2. classify_feature(f[k]) \in 0 .. 2
          BY Severities
        <5> QED BY <2>6, <2>11, <5>1, <5>2
      <4> QED BY <2>7, <4>1, <4>2
    <3>5. ASSUME NEW m \in 1 .. i + 1, classify_feature(f[m]) = c PROVE i + 1 <= m
      <4>1. m \notin 1 .. i
        <5>1. m \in 1 .. i => u.sev =< classify_feature(f[m])
          BY <2>3 DEF Best
        <5> QED BY <2>11, <3>5, <5>1
      <4> QED BY <2>1, <2>7, <4>1
    <3>3. \E k \in 1 .. i + 1 : /\ v.why = f[k] /\ classify_feature(f[k]) = v.sev
                               /\ \A m \in 1 .. i + 1 : classify_feature(f[m]) = v.sev => k <= m
      BY <2>4, <2>9, <3>1, <3>5
    <3>4. Best(f, i + 1, v)
      BY <3>1, <3>2, <3>3 DEF Best
    <3> QED BY <2>1, <2>2, <3>4
  <2> QED BY <2>10, <2>11
<1> HIDE DEF T
<1>9. \A i \in 0 .. n : i \in T
  BY <1>7, <1>8, CountUp
<1>10. n \in T
  BY <1>9
<1> QED BY <1>1, <1>3, <1>10 DEF T

\* The severity is that of the worst reason, and the reason is the one given.
LEMMA WorstFacts ==
  ASSUME NEW i \in CodedSet, NEW w, w = worst(i)
  PROVE  /\ w.sev \in 0 .. 2 /\ (w.sev # NoHit => w.why \in ReasonSet)
         /\ w.sev = Illegal <=> HasIllegal(i)
         /\ w.sev = Suspect <=> ~HasIllegal(i) /\ HasSuspect(i)
         /\ w.sev # NoHit => w.why = GivenReason(i)
<1>1. PICK f \in Seq(STRING) : f = i.features
  BY InstructionBytes
<1>2. PICK n \in Nat : n = Len(f)
  BY LenProperties
<1>3. DOMAIN f = 1 .. n
  BY <1>2, LenProperties
<1>4. PICK u : u = WorstUpTo(f)[n]
  OBVIOUS
<1>5. Best(f, n, u)
  BY <1>2, <1>4, WorstFeature
<1>6. PICK r : r = MnemonicRule(i.mnem)
  OBVIOUS
<1>7. PICK c : c = classify_mnemonic(i.mnem)
  OBVIOUS
<1>8. c.sev = (IF r = "" THEN 2 ELSE 0) /\ c.why = r
  BY <1>6, <1>7, Severities DEF classify_mnemonic
<1>9. w = IF u.sev <= c.sev THEN u ELSE c
  BY <1>1, <1>2, <1>4, <1>7 DEF worst, Worse
<1>10. HasIllegal(i) <=> (\E k \in 1 .. n : classify_feature(f[k]) = 0) \/ r # ""
  BY <1>1, <1>3, <1>6, Severities DEF HasIllegal
<1>11. HasSuspect(i) <=> \E k \in 1 .. n : classify_feature(f[k]) = 1
  BY <1>1, <1>3, Severities DEF HasSuspect
<1>12. u.sev \in 0 .. 2
  BY <1>5 DEF Best
<1>23. u.sev # 2 => u.why \in ReasonSet
  <2>1. \A k \in 1 .. n : f[k] \in ReasonSet
    BY <1>2, ElementOfSeq, Severities
  <2> QED BY <1>5, <2>1 DEF Best
<1>13. u.sev = 0 <=> \E k \in 1 .. n : classify_feature(f[k]) = 0
  <2>1. u.sev = 0 => \E k \in 1 .. n : classify_feature(f[k]) = 0
    BY <1>5 DEF Best
  <2>2. ASSUME NEW k \in 1 .. n, classify_feature(f[k]) = 0 PROVE u.sev = 0
    <3>1. u.sev =< classify_feature(f[k])
      BY <1>5 DEF Best
    <3> QED BY <1>12, <2>2, <3>1
  <2> QED BY <2>1, <2>2
<1>14. u.sev = 1 <=> ~(\E k \in 1 .. n : classify_feature(f[k]) = 0) /\ \E k \in 1 .. n : classify_feature(f[k]) = 1
  <2>1. u.sev = 1 => \E k \in 1 .. n : classify_feature(f[k]) = 1
    BY <1>5 DEF Best
  <2>2. ASSUME NEW k \in 1 .. n, classify_feature(f[k]) = 1 PROVE u.sev =< 1
    <3>1. u.sev =< classify_feature(f[k])
      BY <1>5 DEF Best
    <3> QED BY <1>12, <2>2, <3>1
  <2>3. \A y \in 0 .. 2 : y =< 1 => y = 0 \/ y = 1
    OBVIOUS
  <2> QED BY <1>12, <1>13, <2>1, <2>2, <2>3
<1>15. r \in ReasonSet
  BY <1>6, Severities, InstructionBytes
<1>16. \/ r = "" /\ w = u
       \/ r # "" /\ u.sev = 0 /\ w = u
       \/ r # "" /\ u.sev # 0 /\ w = c /\ c.sev = 0 /\ c.why = r
  <2>1. \A y \in 0 .. 2 : y <= 2 /\ (y <= 0 <=> y = 0)
    OBVIOUS
  <2>2. CASE r = ""
    BY <1>8, <1>9, <1>12, <2>1, <2>2
  <2>3. CASE r # ""
    BY <1>8, <1>9, <1>12, <2>1, <2>3
  <2> QED BY <2>2, <2>3
<1>17. w.sev \in 0 .. 2 /\ (w.sev # 2 => w.why \in ReasonSet)
  <2>1. CASE w = u
    BY <1>12, <1>23, <2>1
  <2>2. CASE w = c /\ c.sev = 0 /\ c.why = r
    BY <1>15, <2>2
  <2> QED BY <1>16, <2>1, <2>2
<1>18. w.sev = 0 <=> HasIllegal(i)
  BY <1>10, <1>13, <1>16
<1>22. w.sev = 1 <=> ~HasIllegal(i) /\ HasSuspect(i)
  <2>1. CASE r = "" /\ w = u
    <3>1. PICK A, B : /\ A = (\E k \in 1 .. n : classify_feature(f[k]) = 0)
                      /\ B = (\E k \in 1 .. n : classify_feature(f[k]) = 1)
      OBVIOUS
    <3>2. HasIllegal(i) <=> A
      BY <1>10, <2>1, <3>1, Zenon
    <3>3. HasSuspect(i) <=> B
      BY <1>11, <3>1, Zenon
    <3>4. u.sev = 1 <=> ~A /\ B
      BY <1>14, <3>1, Zenon
    <3>5. w.sev = 1 <=> u.sev = 1
      BY <2>1, Zenon
    <3>6. u.sev = 1 <=> ~HasIllegal(i) /\ HasSuspect(i)
      BY <3>2, <3>3, <3>4, Zenon
    <3> QED BY <3>5, <3>6, Zenon
  <2>2. CASE r # "" /\ w.sev = 0
    <3>1. HasIllegal(i)
      BY <1>10, <2>2, Zenon
    <3>3. w.sev = 0
      BY <2>2, Zenon
    <3>4. 0 # 1
      OBVIOUS
    <3>2. w.sev # 1
      BY <3>3, <3>4, Zenon
    <3> QED BY <3>1, <3>2, Zenon
  <2>3. \/ r = "" /\ w = u
        \/ r # "" /\ w.sev = 0
    BY <1>16
  <2> QED BY <2>1, <2>2, <2>3
<1>19. ASSUME NEW x \in 0 .. 1, u.sev = x PROVE Listed(i, x) # {} /\ u.why = FirstListed(i, x)
  <2> DEFINE L == Listed(i, x)
             First(k) == k \in L /\ \A m \in L : k <= m
  <2>1. L = {m \in 1 .. n : classify_feature(f[m]) = x}
    BY <1>1, <1>3 DEF Listed
  <2>2. PICK k \in 1 .. n : /\ u.why = f[k] /\ classify_feature(f[k]) = x
                           /\ \A m \in 1 .. n : classify_feature(f[m]) = x => k <= m
    BY <1>5, <1>19 DEF Best
  <2>3. First(k)
    BY <2>1, <2>2
  <2>4. PICK c1 : c1 = CHOOSE a \in L : \A m \in L : a <= m
    OBVIOUS
  <2>5. First(c1)
    BY <2>3, <2>4, Zenon
  <2>6. c1 \in Nat /\ k \in Nat
    BY <2>1, <2>5
  <2>7. c1 = k
    <3>1. c1 <= k /\ k <= c1
      BY <2>3, <2>5, Zenon
    <3> QED BY <2>6, <3>1
  <2>8. L # {}
    BY <2>3, Zenon
  <2>9. FirstListed(i, x) = i.features[c1]
    BY <2>4, Zenon DEF FirstListed
  <2> QED BY <1>1, <2>2, <2>7, <2>8, <2>9
<1>20. u.sev # 0 => Listed(i, Illegal) = {}
  BY <1>1, <1>3, <1>13, Severities DEF Listed
<1>21. w.sev # 2 => w.why = GivenReason(i)
  <2> SUFFICES ASSUME w.sev # 2 PROVE w.why = GivenReason(i)
    OBVIOUS
  <2>4. 0 \in 0 .. 1 /\ 1 \in 0 .. 1 /\ Illegal = 0 /\ Suspect = 1
    BY Severities
  <2>1. CASE w = u /\ u.sev = 0
    <3>1. Listed(i, Illegal) # {} /\ u.why = FirstListed(i, Illegal)
      BY <1>19, <2>1, <2>4, Zenon
    <3> QED BY <2>1, <3>1, Zenon DEF GivenReason
  <2>2. CASE r = "" /\ w = u /\ u.sev # 0
    <3>1. u.sev # 2
      BY <2>2, Zenon
    <3>5. u.sev # 0
      BY <2>2, Zenon
    <3>6. \A y \in 0 .. 2 : y = 0 \/ y = 1 \/ y = 2
      OBVIOUS
    <3>3. u.sev = 1
      BY <1>12, <3>1, <3>5, <3>6, Zenon
    <3>4. u.why = FirstListed(i, Suspect)
      BY <1>19, <2>4, <3>3, Zenon
    <3>2. w.why = FirstListed(i, Suspect)
      BY <2>2, <3>4, Zenon
    <3> QED BY <1>6, <1>20, <2>2, <3>2 DEF GivenReason
  <2>3. CASE r # "" /\ u.sev # 0 /\ w = c /\ c.why = r
    BY <1>6, <1>20, <2>3 DEF GivenReason
  <2> QED BY <1>16, <2>1, <2>2, <2>3
<1> QED BY <1>17, <1>18, <1>21, <1>22, Severities


(* The report.                                                             *)

\* The vector instructions among the first n, and what is to be said of the
\* others that are flagged.
Vectors(c, n) == {k \in 1 .. n : c[k].kind = "vector"}
Mark(i) == <<worst(i).sev, worst(i).why>>
Flags(c, n) == {Mark(c[k]) : k \in {q \in 1 .. n : Flagged(c[q])}}
HitSet == [severity : 0 .. 2, reason : ReasonSet, address : Nat]
Marks(hs) == {<<h.severity, h.reason>> : h \in ElemsOf(hs)}

\* One more instruction is one more vector instruction, or none.
LEMMA VectorsNext ==
  ASSUME NEW c, NEW n \in Nat
  PROVE  /\ Cardinality(Vectors(c, 0)) = 0
         /\ IsFiniteSet(Vectors(c, n)) /\ Cardinality(Vectors(c, n)) \in Nat
         /\ c[n + 1].kind = "vector" => Cardinality(Vectors(c, n + 1)) = Cardinality(Vectors(c, n)) + 1
         /\ c[n + 1].kind # "vector" => Cardinality(Vectors(c, n + 1)) = Cardinality(Vectors(c, n))
<1>1. IsFiniteSet(1 .. n)
  BY FS_Interval
<1>2. Vectors(c, n) \subseteq 1 .. n
  BY DEF Vectors
<1>3. IsFiniteSet(Vectors(c, n))
  BY <1>1, <1>2, FS_Subset
<1>4. Cardinality(Vectors(c, n)) \in Nat
  BY <1>3, FS_CardinalityType
<1>5. \A k : k \in 1 .. n + 1 <=> k \in 1 .. n \/ k = n + 1
  OBVIOUS
<1>6. n + 1 \notin Vectors(c, n)
  BY <1>2
<1>7. c[n + 1].kind = "vector" => Vectors(c, n + 1) = Vectors(c, n) \cup {n + 1}
  BY <1>5, Zenon DEF Vectors
<1>8. c[n + 1].kind # "vector" => Vectors(c, n + 1) = Vectors(c, n)
  BY <1>5, Zenon DEF Vectors
<1>9. Cardinality(Vectors(c, n) \cup {n + 1}) = Cardinality(Vectors(c, n)) + 1
  BY <1>3, <1>6, FS_AddElement
<1>10. Cardinality(Vectors(c, 0)) = 0
  <2>1. Vectors(c, 0) = {}
    BY DEF Vectors
  <2> QED BY <2>1, FS_EmptySet
<1> QED BY <1>3, <1>4, <1>7, <1>8, <1>9, <1>10

\* One more instruction is one more mark, or none.
LEMMA FlagsNext ==
  ASSUME NEW c, NEW n \in Nat
  PROVE  /\ Flags(c, 0) = {}
         /\ Flagged(c[n + 1]) => Flags(c, n + 1) = Flags(c, n) \cup {Mark(c[n + 1])}
         /\ ~Flagged(c[n + 1]) => Flags(c, n + 1) = Flags(c, n)
<1>1. \A k : k \in 1 .. n + 1 <=> k \in 1 .. n \/ k = n + 1
  OBVIOUS
<1>2. \A k : k \notin 1 .. 0
  OBVIOUS
<1> QED BY <1>1, <1>2, Zenon DEF Flags

\* What one more hit adds.
LEMMA MarksMore ==
  ASSUME NEW S, NEW a \in Seq(S), NEW h \in S
  PROVE  Marks(Append(a, h)) = Marks(a) \cup {<<h.severity, h.reason>>}
<1>1. PICK n \in Nat : n = Len(a)
  BY LenProperties
<1>3. ElemsOf(Append(a, h)) = ElemsOf(a) \cup {h}
  <2>1. Len(Append(a, h)) = n + 1 /\ Append(a, h)[n + 1] = h /\ \A k \in 1 .. n : Append(a, h)[k] = a[k]
    BY <1>1, AppendProperties
  <2>2. \A k : k \in 1 .. n + 1 <=> k \in 1 .. n \/ k = n + 1
    OBVIOUS
  <2> QED BY <1>1, <2>1, <2>2, Zenon DEF ElemsOf
<1> QED BY <1>3, Zenon DEF Marks

\* What two sequences hold together.
LEMMA MarksOf ==
  ASSUME NEW S, NEW a \in Seq(S), NEW b \in Seq(S)
  PROVE  /\ ElemsOf(<< >>) = {} /\ Marks(<< >>) = {}
         /\ ElemsOf(a \o b) = ElemsOf(a) \cup ElemsOf(b)
         /\ Marks(a \o b) = Marks(a) \cup Marks(b)
<1>1. PICK n \in Nat, z \in Nat : n = Len(a) /\ z = Len(b)
  BY LenProperties
<1>2. ElemsOf(<< >>) = {}
  <2>1. Len(<< >>) = 0
    OBVIOUS
  <2>2. \A k : k \notin 1 .. 0
    OBVIOUS
  <2> QED BY <2>1, <2>2 DEF ElemsOf
<1>4. ElemsOf(a \o b) = ElemsOf(a) \cup ElemsOf(b)
  <2>1. PICK r : r = a \o b
    OBVIOUS
  <2>2. Len(r) = n + z /\ (\A k \in 1 .. n : r[k] = a[k]) /\ \A k \in 1 .. z : r[n + k] = b[k]
    BY <1>1, <2>1, ConcatProperties
  <2>3. \A k \in 1 .. n + z : k \in 1 .. n \/ \E q \in 1 .. z : k = n + q
    <3> TAKE k \in 1 .. n + z
    <3>1. CASE k > n
      <4>1. k - n \in 1 .. z /\ k = n + (k - n)
        BY <3>1
      <4> QED BY <4>1
    <3>2. CASE ~(k > n)
      BY <3>2
    <3> QED BY <3>1, <3>2
  <2>4. \A k \in 1 .. n : k \in 1 .. n + z
    OBVIOUS
  <2>5. \A k \in 1 .. z : n + k \in 1 .. n + z
    OBVIOUS
  <2>6. ASSUME NEW y \in ElemsOf(r) PROVE y \in ElemsOf(a) \cup ElemsOf(b)
    <3>1. PICK k \in 1 .. n + z : y = r[k]
      BY <2>2 DEF ElemsOf
    <3>2. CASE k \in 1 .. n
      BY <1>1, <2>2, <3>1, <3>2, Zenon DEF ElemsOf
    <3>3. CASE \E q \in 1 .. z : k = n + q
      BY <1>1, <2>2, <3>1, <3>3, Zenon DEF ElemsOf
    <3> QED BY <2>3, <3>2, <3>3
  <2>7. ASSUME NEW y \in ElemsOf(a) PROVE y \in ElemsOf(r)
    BY <1>1, <2>2, <2>4, <2>7, Zenon DEF ElemsOf
  <2>8. ASSUME NEW y \in ElemsOf(b) PROVE y \in ElemsOf(r)
    BY <1>1, <2>2, <2>5, <2>8, Zenon DEF ElemsOf
  <2> QED BY <2>1, <2>6, <2>7, <2>8
<1>5. Marks(<< >>) = {}
  BY <1>2, Zenon DEF Marks
<1>7. Marks(a \o b) = Marks(a) \cup Marks(b)
  BY <1>4, Zenon DEF Marks
<1> QED BY <1>2, <1>4, <1>5, <1>7

\* After j instructions the counts and the hits are those of these j.
Tells(c, j, v, hs, fs) ==
  /\ v = Cardinality(Vectors(c, j))
  /\ hs \in Seq(HitSet) /\ fs \in Seq(HitSet)
  /\ Marks(hs) \cup Marks(fs) = Flags(c, j)

\* One more instruction: a vector one, one that is not flagged, or a hit.
LEMMA TellVector ==
  ASSUME NEW c, NEW j \in Nat, NEW v, NEW hs, NEW fs, Tells(c, j, v, hs, fs), NEW i, i = c[j + 1], i.kind = "vector"
  PROVE  Tells(c, j + 1, v + 1, hs, fs)
<1>1. ~Flagged(i)
  BY DEF Flagged
<1> QED BY <1>1, VectorsNext, FlagsNext DEF Tells

\* One that is not flagged.
LEMMA TellPlain ==
  ASSUME NEW c, NEW j \in Nat, NEW v, NEW hs, NEW fs, Tells(c, j, v, hs, fs), NEW i, i = c[j + 1],
         i.kind # "vector", ~Flagged(i)
  PROVE  Tells(c, j + 1, v, hs, fs)
BY VectorsNext, FlagsNext DEF Tells

\* A hit.
LEMMA TellHit ==
  ASSUME NEW c, NEW j \in Nat, NEW v, NEW hs, NEW fs, Tells(c, j, v, hs, fs), NEW i, i = c[j + 1],
         i.kind # "vector", Flagged(i), NEW h, h \in HitSet, Mark(i) = <<h.severity, h.reason>>
  PROVE  Tells(c, j + 1, v, hs, Append(fs, h))
<1>1. Append(fs, h) \in Seq(HitSet)
  BY AppendProperties DEF Tells
<1>2. Marks(Append(fs, h)) = Marks(fs) \cup {<<h.severity, h.reason>>}
  BY MarksMore DEF Tells
<1>3. Flags(c, j + 1) = Flags(c, j) \cup {Mark(i)}
  BY FlagsNext
<1>4. Marks(hs) \cup Marks(Append(fs, h)) = Flags(c, j + 1)
  BY <1>2, <1>3, Zenon DEF Tells
<1>5. v = Cardinality(Vectors(c, j + 1))
  BY VectorsNext DEF Tells
<1> QED BY <1>1, <1>4, <1>5 DEF Tells

\* The hits of a member, sorted, join those of the others.
LEMMA TellMember ==
  ASSUME NEW c, NEW j, NEW v, NEW hs, NEW fs, Tells(c, j, v, hs, fs)
  PROVE  /\ Tells(c, j, v, hs \o sort_by_key(fs), << >>)
         /\ hs = << >> => Sorted(hs \o sort_by_key(fs))
<1>1. PICK g : g = sort_by_key(fs)
  OBVIOUS
<1>2. Addressed(HitSet)
  BY DEF Addressed, HitSet
<1>3. hs \in Seq(HitSet) /\ fs \in Seq(HitSet)
  BY DEF Tells
<1>4. g \in Seq(HitSet) /\ Sorted(g) /\ ElemsOf(g) = ElemsOf(fs)
  BY <1>1, <1>2, <1>3, SortFacts
<1>5. hs \o g \in Seq(HitSet) /\ << >> \in Seq(HitSet)
  BY <1>3, <1>4, ConcatProperties
<1>6. Marks(g) = Marks(fs)
  BY <1>4, Zenon DEF Marks
<1>8. Marks(hs \o g) = Marks(hs) \cup Marks(g) /\ Marks(<< >>) = {}
  BY <1>3, <1>4, MarksOf
<1>9. Marks(hs \o g) \cup Marks(<< >>) = Marks(hs) \cup Marks(fs)
  BY <1>6, <1>8, Zenon
<1>10. Tells(c, j, v, hs \o g, << >>)
  BY <1>5, <1>9 DEF Tells
<1>11. hs = << >> => hs \o g = g
  BY <1>4
<1> QED BY <1>1, <1>4, <1>10, <1>11


\* What decides the exit status.
Fails == CountOf(Illegal) > 0 \/ (CountOf(Suspect) > 0 /\ ~job.args.allow_suspect)

\* The report tells of what the walk has passed, the hits of a lone file are
\* sorted once they are reported, and the status follows from the whole report.
Reported ==
  /\ report \in [instructions : Nat, vector : Nat, hits : Seq(HitSet)]
  /\ Place(Members, report.instructions, member, section, pos)
  /\ Tells(CardCode, report.instructions, report.vector, report.hits, found)
  /\ section = 1 /\ pos = 0 => found = << >>
  /\ ~job.file.archive => Sorted(report.hits) /\ (member = 1 => report.hits = << >>)
  /\ exit \in {0, 1} => member > Len(Members) /\ exit = IF Fails THEN 1 ELSE 0
ReportInv == job \in Jobs /\ (Sized(CardCode) => Reported)

\* The file as the lemmas on the walk see it.
LEMMA FileFacts ==
  ASSUME job \in Jobs
  PROVE  /\ GoodMembers(Members) /\ CardCode = AllOf(Members) /\ CardCode \in Seq(CodedSet)
         /\ ~job.file.archive => Len(Members) = 1
<1>1. GoodJob(job)
  BY JobsGood
<1>2. GoodMembers(Members) /\ (~job.file.archive => Len(Members) = 1)
  BY <1>1 DEF GoodJob, GoodMembers, Members
<1>3. MemberCode = RowOf(Members)
  BY DEF MemberCode, RowOf, CodeOfMember
<1>4. CardCode = AllOf(Members)
  BY <1>3 DEF CardCode, AllOf
<1> QED BY <1>2, <1>4, MembersFromTo

\* The instruction the walk stands on.
LEMMA ReadNext ==
  ASSUME job \in Jobs, Sized(CardCode), Reported, Scanning, ~Skipped(Here), pos < Len(CodeOf(Here))
  PROVE  \E i \in CodedSet :
           /\ i = CardCode[report.instructions + 1] /\ report.instructions \in Nat /\ pos \in Nat
           /\ Decode(Here, pos) = i /\ Here.address \in Nat
           /\ mvex_length(Ahead) = (IF i.kind = "vector" THEN Len(i.bytes) ELSE 0)
           /\ Len(i.bytes) \in Nat /\ Len(i.bytes) >= 1
           /\ Place(Members, report.instructions + 1, member, section, pos + Len(i.bytes))
<1>1. PICK ms : ms = Members
  OBVIOUS
<1>2. PICK j \in Nat : j = report.instructions
  BY DEF Reported
<1>3. PICK c : c = ms[member].sections[section]
  OBVIOUS
<1>4. GoodMembers(ms) /\ CardCode = AllOf(ms)
  BY <1>1, FileFacts
<1>5. c = Here
  BY <1>1, <1>3 DEF Here, Sections
<1>6. /\ Place(ms, j, member, section, pos) /\ member =< Len(ms) /\ section =< Len(ms[member].sections) /\ ms[member].elf
      /\ ~Skipped(c) /\ pos < Len(CodeOf(c))
  BY <1>1, <1>2, <1>5 DEF Reported, Scanning, Running, Sections
<1>7. PICK i : i = AllOf(ms)[j + 1]
  OBVIOUS
<1>8. /\ j + 1 \in 1 .. Len(AllOf(ms)) /\ i \in CodedSet /\ pos \in Nat
      /\ Decode(c, pos) = i /\ Starts(AheadIn(c, pos), i.bytes) /\ Place(ms, j + 1, member, section, pos + Len(i.bytes))
  BY <1>3, <1>4, <1>6, <1>7, NextInstruction
<1>9. ~NoBase(i)
  BY <1>4, <1>7, <1>8 DEF Sized
<1>10. mvex_length(AheadIn(c, pos)) = IF i.kind = "vector" THEN Len(i.bytes) ELSE 0
  BY <1>8, <1>9, StepOver
<1>11. Ahead = AheadIn(c, pos)
  BY <1>5 DEF Ahead, AheadIn
<1>12. GoodSection(c)
  <2>1. member \in 1 .. Len(ms) /\ section \in 1 .. Len(ms[member].sections) + 1 /\ Len(ms[member].sections) \in Nat
    BY <1>4, <1>6, PlaceRead
  <2>2. section \in 1 .. Len(ms[member].sections)
    BY <1>6, <2>1
  <2> QED BY <1>3, <1>4, <2>1, <2>2, HereFacts
<1>13. c.address \in Nat
  BY <1>12 DEF GoodSection
<1>14. Len(i.bytes) \in Nat /\ Len(i.bytes) >= 1
  BY <1>8, InstructionBytes
<1> QED BY <1>1, <1>2, <1>4, <1>5, <1>7, <1>8, <1>10, <1>11, <1>13, <1>14

\* A flagged instruction makes a hit of its severity and reason.
LEMMA HitOf ==
  ASSUME NEW i \in CodedSet, Flagged(i), NEW a \in Nat, NEW h, h = [severity |-> worst(i).sev, reason |-> worst(i).why, address |-> a]
  PROVE  h \in HitSet /\ Mark(i) = <<h.severity, h.reason>>
<1>1. PICK w : w = worst(i)
  OBVIOUS
<1>2. w.sev \in 0 .. 2 /\ (w.sev # NoHit => w.why \in ReasonSet)
  BY <1>1, WorstFacts
<1>3. w.sev # NoHit
  BY <1>1 DEF Flagged
<1>4. PICK x, y : x = w.sev /\ y = w.why
  OBVIOUS
<1>5. x \in 0 .. 2 /\ y \in ReasonSet
  BY <1>2, <1>3, <1>4
<1>6. h = [severity |-> x, reason |-> y, address |-> a]
  BY <1>1, <1>4
<1>7. h \in HitSet /\ h.severity = x /\ h.reason = y
  BY <1>5, <1>6 DEF HitSet
<1>8. Mark(i) = <<x, y>>
  BY <1>1, <1>4 DEF Mark
<1> QED BY <1>7, <1>8


\* The report stays right through every step.
LEMMA ReportStep ==
  ASSUME ReportInv, [AuditNext]_auditVars
  PROVE  ReportInv'
<1>1. job \in Jobs /\ job' \in Jobs /\ job' = job
  BY DEF ReportInv, AuditNext, auditVars, SkipMember, RefuseMember, SkipSection, ScanVector, ScanScalar, EndSection,
         EndMember, Verdict, Exited
<1>2. Members' = Members /\ CardCode' = CardCode
  BY <1>1 DEF Members, CardCode, MemberCode
<1>3. Sized(CardCode)' <=> Sized(CardCode)
  BY <1>2
<1> SUFFICES ASSUME Sized(CardCode), Reported PROVE Reported'
  BY <1>1, <1>3 DEF ReportInv
<1>4. PICK ms : ms = Members
  OBVIOUS
<1>5. PICK j \in Nat : j = report.instructions
  BY DEF Reported
<1>6. PICK c : c = CardCode
  OBVIOUS
<1>7. GoodMembers(ms) /\ c = AllOf(ms) /\ (~job.file.archive => Len(ms) = 1) /\ Len(ms) \in Nat
  BY <1>1, <1>4, <1>6, FileFacts DEF GoodMembers
<1>8. /\ report \in [instructions : Nat, vector : Nat, hits : Seq(HitSet)]
      /\ Place(ms, j, member, section, pos)
      /\ Tells(c, j, report.vector, report.hits, found)
      /\ section = 1 /\ pos = 0 => found = << >>
      /\ ~job.file.archive => Sorted(report.hits) /\ (member = 1 => report.hits = << >>)
  BY <1>4, <1>5, <1>6 DEF Reported
<1>9. member \in 1 .. Len(ms) + 1
  BY <1>8 DEF Place
\* What each of the steps of the walk has to show.
<1> DEFINE Goal ==
      /\ report' \in [instructions : Nat, vector : Nat, hits : Seq(HitSet)]
      /\ Place(ms, report'.instructions, member', section', pos')
      /\ Tells(c, report'.instructions, report'.vector, report'.hits, found')
      /\ section' = 1 /\ pos' = 0 => found' = << >>
      /\ ~job.file.archive => Sorted(report'.hits) /\ (member' = 1 => report'.hits = << >>)
<1>10. ASSUME Goal, exit = -1, exit' = exit PROVE Reported'
  BY <1>1, <1>2, <1>4, <1>6, <1>10 DEF Reported
<1>11. CASE SkipMember
  <2>1. /\ exit = -1 /\ exit' = exit /\ member =< Len(ms) /\ section = 1 /\ pos = 0 /\ ~ms[member].elf
        /\ member' = member + 1 /\ section' = section /\ pos' = pos /\ found' = found /\ report' = report
    BY <1>4, <1>11 DEF SkipMember, Running
  <2>2. Place(ms, j, member + 1, 1, 0)
    BY <1>7, <1>8, <2>1, PassMember
  <2>3. member' # 1
    BY <1>7, <1>9, <2>1
  <2>4. Goal
    BY <1>5, <1>8, <2>1, <2>2, <2>3
  <2> QED BY <1>10, <2>1, <2>4
<1>12. CASE RefuseMember
  <2>1. exit' = 2 /\ member' = member /\ section' = section /\ pos' = pos /\ found' = found /\ report' = report
    BY <1>12 DEF RefuseMember
  <2>2. exit' \notin {0, 1}
    BY <2>1
  <2> QED BY <1>1, <1>2, <2>1, <2>2 DEF Reported
<1>13. CASE SkipSection
  <2>1. /\ exit = -1 /\ exit' = exit /\ member =< Len(ms) /\ section =< Len(ms[member].sections)
        /\ Skipped(ms[member].sections[section])
        /\ member' = member /\ section' = section + 1 /\ pos' = pos /\ found' = found /\ report' = report
    BY <1>4, <1>13 DEF SkipSection, Scanning, Running, Here, Sections
  <2>2. Place(ms, j, member, section + 1, 0) /\ pos = 0
    BY <1>7, <1>8, <2>1, PassSection
  <2>3. section \in 1 .. Len(ms[member].sections) + 1 /\ Len(ms[member].sections) \in Nat
    BY <1>7, <1>8, <2>1, PlaceRead
  <2>4. section' # 1
    BY <2>1, <2>3
  <2>5. Goal
    BY <1>5, <1>8, <2>1, <2>2, <2>4
  <2> QED BY <1>10, <2>1, <2>5
<1>14. CASE ScanVector
  <2>1. /\ Scanning /\ ~Skipped(Here) /\ pos < Len(CodeOf(Here)) /\ mvex_length(Ahead) > 0
        /\ pos' = pos + mvex_length(Ahead) /\ member' = member /\ section' = section /\ found' = found
        /\ report' = [report EXCEPT !.instructions = @ + 1, !.vector = @ + 1] /\ exit' = exit
    BY <1>14 DEF ScanVector
  <2>2. PICK i \in CodedSet :
           /\ i = CardCode[report.instructions + 1] /\ report.instructions \in Nat /\ pos \in Nat
           /\ Decode(Here, pos) = i /\ Here.address \in Nat
           /\ mvex_length(Ahead) = (IF i.kind = "vector" THEN Len(i.bytes) ELSE 0)
           /\ Len(i.bytes) \in Nat /\ Len(i.bytes) >= 1
           /\ Place(Members, report.instructions + 1, member, section, pos + Len(i.bytes))
    BY <1>1, <2>1, ReadNext
  <2>3. i.kind = "vector" /\ mvex_length(Ahead) = Len(i.bytes)
    BY <2>1, <2>2
  <2>4. /\ report' \in [instructions : Nat, vector : Nat, hits : Seq(HitSet)]
        /\ report'.instructions = j + 1 /\ report'.vector = report.vector + 1 /\ report'.hits = report.hits
    <3>1. report' = [instructions |-> report.instructions + 1, vector |-> report.vector + 1, hits |-> report.hits]
      BY <1>8, <2>1, Zenon
    <3>2. PICK v \in Nat, hs \in Seq(HitSet) : v = report.vector /\ hs = report.hits
      BY <1>8
    <3>3. report' = [instructions |-> j + 1, vector |-> v + 1, hits |-> hs] /\ v + 1 \in Nat /\ j + 1 \in Nat
      BY <1>5, <3>1, <3>2
    <3> QED BY <3>2, <3>3
  <2>5. pos' # 0
    BY <2>1, <2>2, <2>3
  <2>6. Place(ms, j + 1, member', section', pos')
    BY <1>4, <1>5, <2>1, <2>2, <2>3
  <2>7. Tells(c, j + 1, report.vector + 1, report.hits, found)
    <3>1. i = c[j + 1]
      BY <1>5, <1>6, <2>2
    <3> QED BY <1>8, <2>3, <3>1, TellVector
  <2>8. Goal
    BY <1>8, <2>1, <2>4, <2>5, <2>6, <2>7
  <2>9. exit = -1
    BY <2>1 DEF Scanning, Running
  <2> QED BY <1>10, <2>1, <2>8, <2>9
<1>15. CASE ScanScalar
  <2>1. /\ Scanning /\ ~Skipped(Here) /\ pos < Len(CodeOf(Here)) /\ mvex_length(Ahead) = 0
        /\ pos' = pos + Len(Decode(Here, pos).bytes) /\ member' = member /\ section' = section
        /\ report' = [report EXCEPT !.instructions = @ + 1] /\ exit' = exit
    BY <1>15 DEF ScanScalar
  <2>2. PICK i \in CodedSet :
           /\ i = CardCode[report.instructions + 1] /\ report.instructions \in Nat /\ pos \in Nat
           /\ Decode(Here, pos) = i /\ Here.address \in Nat
           /\ mvex_length(Ahead) = (IF i.kind = "vector" THEN Len(i.bytes) ELSE 0)
           /\ Len(i.bytes) \in Nat /\ Len(i.bytes) >= 1
           /\ Place(Members, report.instructions + 1, member, section, pos + Len(i.bytes))
    BY <1>1, <2>1, ReadNext
  <2>3. i.kind # "vector"
    BY <2>1, <2>2
  <2>4. /\ report' \in [instructions : Nat, vector : Nat, hits : Seq(HitSet)]
        /\ report'.instructions = j + 1 /\ report'.vector = report.vector /\ report'.hits = report.hits
    BY <1>5, <1>8, <2>1
  <2>5. pos' # 0
    BY <2>1, <2>2
  <2>6. Place(ms, j + 1, member', section', pos')
    BY <1>4, <1>5, <2>1, <2>2
  <2>7. PICK h : h = [severity |-> worst(i).sev, reason |-> worst(i).why, address |-> Here.address + pos]
    OBVIOUS
  <2>10. found' = IF Flagged(i) THEN Append(found, h) ELSE found
    BY <1>15, <2>2, <2>7 DEF ScanScalar
  <2>11. Here.address + pos \in Nat
    BY <2>2
  <2>12. i = c[j + 1]
    BY <1>5, <1>6, <2>2
  <2>8. Goal
    <3>1. CASE Flagged(i)
      <4>1. h \in HitSet /\ Mark(i) = <<h.severity, h.reason>>
        BY <2>7, <2>11, <3>1, HitOf
      <4>2. Tells(c, j + 1, report.vector, report.hits, Append(found, h))
        BY <1>8, <2>3, <2>12, <3>1, <4>1, TellHit
      <4> QED BY <1>8, <2>1, <2>4, <2>5, <2>6, <2>10, <3>1, <4>2
    <3>2. CASE ~Flagged(i)
      <4>1. Tells(c, j + 1, report.vector, report.hits, found)
        BY <1>8, <2>3, <2>12, <3>2, TellPlain
      <4> QED BY <1>8, <2>1, <2>4, <2>5, <2>6, <2>10, <3>2, <4>1
    <3> QED BY <3>1, <3>2
  <2>9. exit = -1
    BY <2>1 DEF Scanning, Running
  <2> QED BY <1>10, <2>1, <2>8, <2>9
<1>16. CASE EndSection
  <2>1. /\ exit = -1 /\ exit' = exit /\ member =< Len(ms) /\ section =< Len(ms[member].sections)
        /\ pos >= Len(CodeOf(ms[member].sections[section]))
        /\ member' = member /\ section' = section + 1 /\ pos' = 0 /\ found' = found /\ report' = report
    BY <1>4, <1>16 DEF EndSection, Scanning, Running, Here, Sections
  <2>2. Place(ms, j, member, section + 1, 0)
    BY <1>7, <1>8, <2>1, PassSection
  <2>3. section \in 1 .. Len(ms[member].sections) + 1 /\ Len(ms[member].sections) \in Nat
    BY <1>7, <1>8, <2>1, PlaceRead
  <2>4. section' # 1
    BY <2>1, <2>3
  <2>5. Goal
    BY <1>5, <1>8, <2>1, <2>2, <2>4
  <2> QED BY <1>10, <2>1, <2>5
<1>17. CASE EndMember
  <2>1. /\ exit = -1 /\ exit' = exit /\ member =< Len(ms) /\ section > Len(ms[member].sections) /\ ms[member].elf
        /\ report' = [report EXCEPT !.hits = @ \o sort_by_key(found)] /\ found' = << >>
        /\ member' = member + 1 /\ section' = 1 /\ pos' = pos
    BY <1>4, <1>17 DEF EndMember, Running, Sections
  <2>2. pos = 0 /\ Place(ms, j, member + 1, 1, 0)
    BY <1>7, <1>8, <2>1, LeaveMember
  <2>3. PICK g : g = report.hits \o sort_by_key(found)
    OBVIOUS
  <2>4. Tells(c, j, report.vector, g, << >>) /\ (report.hits = << >> => Sorted(g))
    BY <1>8, <2>3, TellMember
  <2>5. g \in Seq(HitSet)
    BY <2>4 DEF Tells
  <2>6. /\ report' \in [instructions : Nat, vector : Nat, hits : Seq(HitSet)]
        /\ report'.instructions = j /\ report'.vector = report.vector /\ report'.hits = g
    BY <1>5, <1>8, <2>1, <2>3, <2>5
  <2>7. ~job.file.archive => Sorted(g)
    <3>1. ~job.file.archive => member = 1
      BY <1>7, <1>9, <2>1
    <3> QED BY <1>8, <2>4, <3>1
  <2>8. member' # 1
    BY <1>7, <1>9, <2>1
  <2>9. Goal
    BY <2>1, <2>2, <2>4, <2>6, <2>7, <2>8
  <2> QED BY <1>10, <2>1, <2>9
<1>18. CASE Verdict
  <2>1. /\ member > Len(Members) /\ exit' = IF Fails THEN 1 ELSE 0
        /\ member' = member /\ section' = section /\ pos' = pos /\ found' = found /\ report' = report
    BY <1>18 DEF Verdict, Fails
  <2>2. Fails' = Fails
    BY <1>1, <2>1 DEF Fails, CountOf, Kept, Ignored
  <2> QED BY <1>1, <1>2, <2>1, <2>2 DEF Reported
<1>19. CASE UNCHANGED auditVars
  <2>1. /\ exit' = exit /\ member' = member /\ section' = section /\ pos' = pos /\ found' = found /\ report' = report
    BY <1>19 DEF auditVars
  <2>2. Fails' = Fails
    BY <1>1, <2>1 DEF Fails, CountOf, Kept, Ignored
  <2> QED BY <1>1, <1>2, <2>1, <2>2 DEF Reported
<1> HIDE DEF Goal
<1> QED BY <1>11, <1>12, <1>13, <1>14, <1>15, <1>16, <1>17, <1>18, <1>19 DEF AuditNext, Exited


\* The invariant of the report.
LEMMA ReportHolds == AuditSpec => []ReportInv
<1>1. AuditInit => ReportInv
  <2> SUFFICES ASSUME AuditInit PROVE ReportInv
    OBVIOUS
  <2>1. /\ job \in Jobs /\ member = 1 /\ section = 1 /\ pos = 0 /\ found = << >> /\ exit = -1
        /\ report = [instructions |-> 0, vector |-> 0, hits |-> << >>]
    BY DEF AuditInit
  <2>2. GoodMembers(Members) /\ Len(Members) \in Nat
    BY <2>1, FileFacts DEF GoodMembers
  <2>3. 1 \in 1 .. Len(Members) + 1 /\ 0 = BeforeAt(Members, 1)
    BY <2>2, MembersFromTo
  <2>4. Place(Members, 0, 1, 1, 0)
    BY <2>2, <2>3, EnterMember
  <2>5. << >> \in Seq(HitSet) /\ Len(<< >>) = 0
    OBVIOUS
  <2>6. Tells(CardCode, 0, 0, << >>, << >>)
    <3>1. Marks(<< >>) = {}
      BY <2>5, MarksOf
    <3>2. Flags(CardCode, 0) = {} /\ Cardinality(Vectors(CardCode, 0)) = 0
      BY FlagsNext, VectorsNext
    <3> QED BY <2>5, <3>1, <3>2 DEF Tells
  <2>7. Sorted(<< >>)
    BY <2>5 DEF Sorted
  <2>8. exit \notin {0, 1}
    BY <2>1
  <2>9. report \in [instructions : Nat, vector : Nat, hits : Seq(HitSet)] /\ report.instructions = 0 /\ report.vector = 0
        /\ report.hits = << >>
    BY <2>1, <2>5
  <2>10. Reported
    BY <2>1, <2>4, <2>6, <2>7, <2>8, <2>9 DEF Reported
  <2> QED BY <2>1, <2>10 DEF ReportInv
<1>2. ReportInv /\ [AuditNext]_auditVars => ReportInv'
  BY ReportStep
<1> QED BY <1>1, <1>2, PTL DEF AuditSpec

\* When the status is set, the report is that of the whole file.
LEMMA AtTheEnd ==
  ASSUME ReportInv, exit \in {0, 1}, Sized(CardCode)
  PROVE  /\ report.instructions = Len(CardCode) /\ Tells(CardCode, Len(CardCode), report.vector, report.hits, << >>)
         /\ ~job.file.archive => Sorted(report.hits)
         /\ exit = IF Fails THEN 1 ELSE 0
         /\ CardCode \in Seq(CodedSet)
<1>1. job \in Jobs /\ Reported
  BY DEF ReportInv
<1>2. GoodMembers(Members) /\ CardCode = AllOf(Members) /\ CardCode \in Seq(CodedSet) /\ Len(Members) \in Nat
  BY <1>1, FileFacts DEF GoodMembers
<1>3. /\ member > Len(Members) /\ exit = (IF Fails THEN 1 ELSE 0)
      /\ Place(Members, report.instructions, member, section, pos)
  BY <1>1 DEF Reported
<1>4. member = Len(Members) + 1
  BY <1>2, <1>3 DEF Place
<1>5. report.instructions = Len(AllOf(Members)) /\ section = 1 /\ pos = 0
  BY <1>3, <1>4 DEF Place
<1>6. found = << >>
  BY <1>1, <1>5 DEF Reported
<1> QED BY <1>1, <1>2, <1>3, <1>5, <1>6 DEF Reported

(* Whatever file the tool is run on, if its code has no index without a base,
   the report of an audit that ran to its end counts exactly the instructions
   the card may execute and the vector ones among them, and a lone file's hits
   are in the order of their addresses.                                     *)
THEOREM ReportIsExact == AuditSpec => []ReportExact
<1>1. ReportInv => ReportExact
  <2> SUFFICES ASSUME ReportInv, exit \in {0, 1}, Sized(CardCode)
               PROVE  /\ report.instructions = Len(CardCode)
                      /\ report.vector = Cardinality({k \in 1..Len(CardCode) : CardCode[k].kind = "vector"})
                      /\ ~job.file.archive =>
                           \A a, b \in 1..Len(report.hits) : a < b => report.hits[a].address <= report.hits[b].address
    BY DEF ReportExact
  <2> QED BY AtTheEnd DEF Tells, Vectors, Sorted
<1> QED BY <1>1, ReportHolds, PTL

\* A count is positive if there is something to count.
LEMMA CountPositive ==
  ASSUME NEW x, report.hits \in Seq(HitSet)
  PROVE  CountOf(x) > 0 <=> \E h \in ElemsOf(report.hits) : h.severity = x /\ ~Ignored(h.reason)
<1>1. PICK hs \in Seq(HitSet), n \in Nat : hs = report.hits /\ n = Len(hs)
  BY LenProperties
<1> DEFINE S == {k \in Kept : report.hits[k].severity = x}
<1>2. S \subseteq 1 .. n
  BY <1>1 DEF Kept
<1>3. IsFiniteSet(S)
  <2>1. IsFiniteSet(1 .. n)
    BY FS_Interval
  <2> HIDE DEF S
  <2> QED BY <1>2, <2>1, FS_Subset
<1>4. Cardinality(S) \in Nat /\ (Cardinality(S) = 0 <=> S = {})
  BY <1>3, FS_CardinalityType, FS_EmptySet
<1>5. S # {} <=> \E h \in ElemsOf(report.hits) : h.severity = x /\ ~Ignored(h.reason)
  BY Zenon DEF S, Kept, ElemsOf
<1> HIDE DEF S
<1>6. Cardinality(S) > 0 <=> S # {}
  BY <1>4
<1>7. CountOf(x) = Cardinality(S)
  BY DEF CountOf, S
<1> QED BY <1>5, <1>6, <1>7

\* What is judged bad is flagged, and the other way round.
LEMMA BadIsFlagged ==
  ASSUME NEW i \in CodedSet, NEW w, w = worst(i)
  PROVE  /\ i.card = "faults" => Flagged(i) /\ w.sev = Illegal
         /\ i.card = "unmeasured" /\ i.kind # "invalid" => Flagged(i) /\ w.sev = Suspect
         /\ Flagged(i) => w.why = GivenReason(i) /\ i.kind = "scalar"
         /\ Flagged(i) /\ w.sev = Illegal => i.card = "faults"
         /\ Flagged(i) /\ w.sev = Suspect => i.card = "unmeasured"
<1>1. Judged(i)
  BY DEF CodedSet
<1>2. PICK A, B : A = HasIllegal(i) /\ B = HasSuspect(i)
  OBVIOUS
<1>3. PICK listed : listed = (i.kind = "scalar" /\ ~allowed_despite_feature(i.mnem))
  OBVIOUS
<1>4. i.card = "faults" <=> listed /\ A
  BY <1>1, <1>2, <1>3, Zenon DEF Judged
<1>5. i.card = "unmeasured" <=> i.kind = "invalid" \/ (listed /\ ~A /\ B)
  BY <1>1, <1>2, <1>3, Zenon DEF Judged
<1>6. /\ w.sev = Illegal <=> A
      /\ w.sev = Suspect <=> ~A /\ B
      /\ w.sev # NoHit => w.why = GivenReason(i)
  BY <1>2, WorstFacts
<1>7. Illegal # NoHit /\ Suspect # NoHit
  BY Severities
<1>8. Flagged(i) <=> listed /\ w.sev # NoHit
  BY <1>3, Zenon DEF Flagged
<1>9. listed => i.kind = "scalar"
  BY <1>3, Zenon
<1> QED BY <1>4, <1>5, <1>6, <1>7, <1>8, <1>9, Zenon

(* Whatever file the tool is run on, if its code has no index without a base,
   the tool ends with status 0 exactly if every instruction the card faults
   on, and every unmeasured one unless they are allowed, is reported for a
   reason the caller ignores, the case of its letters aside.                *)
THEOREM VerdictIsSound == AuditSpec => []VerdictSound
<1>1. ReportInv => VerdictSound
  <2> DEFINE bad == {i \in AllCode : \/ i.card = "faults"
                                     \/ i.card = "unmeasured" /\ i.kind # "invalid" /\ ~job.args.allow_suspect}
             ok == job.args.allow_suspect
  <2> SUFFICES ASSUME ReportInv, exit \in {0, 1}, Sized(CardCode)
               PROVE  exit = 0 <=> \A i \in bad : Ignored(GivenReason(i))
    BY DEF VerdictSound
  <2>1. PICK c \in Seq(CodedSet), hs \in Seq(HitSet) :
           c = CardCode /\ hs = report.hits /\ Marks(hs) \cup Marks(<< >>) = Flags(c, Len(c))
    BY AtTheEnd DEF Tells
  <2>2. exit = IF Fails THEN 1 ELSE 0
    BY AtTheEnd
  <2>3. Marks(hs) = Flags(c, Len(c))
    <3>1. Marks(<< >>) = {}
      BY <2>1, MarksOf
    <3> QED BY <2>1, <3>1, Zenon
  <2>4. \A i : i \in AllCode <=> \E k \in 1 .. Len(c) : i = c[k]
    BY <2>1, Zenon DEF AllCode
  <2>5. \A k \in 1 .. Len(c) : c[k] \in CodedSet
    BY <2>1, ElementOfSeq
  <2> DEFINE Hit(x) == \E h \in ElemsOf(hs) : h.severity = x /\ ~Ignored(h.reason)
  <2>6. Fails <=> Hit(Illegal) \/ (Hit(Suspect) /\ ~ok)
    BY <2>1, CountPositive DEF Fails
  <2>7. ASSUME NEW k \in 1 .. Len(c), Flagged(c[k]), NEW x, worst(c[k]).sev = x, ~Hit(x)
        PROVE  Ignored(worst(c[k]).why)
    <3>1. Mark(c[k]) \in Marks(hs)
      BY <2>3, <2>7, Zenon DEF Flags
    <3>2. PICK h \in ElemsOf(hs) : Mark(c[k]) = <<h.severity, h.reason>>
      BY <3>1, Zenon DEF Marks
    <3>3. h.severity = worst(c[k]).sev /\ h.reason = worst(c[k]).why
      BY <3>2 DEF Mark
    <3> QED BY <2>7, <3>3, Zenon
  <2>8. ASSUME NEW x, Hit(x)
        PROVE  \E k \in 1 .. Len(c) : Flagged(c[k]) /\ worst(c[k]).sev = x /\ ~Ignored(worst(c[k]).why)
    <3>1. PICK h \in ElemsOf(hs) : h.severity = x /\ ~Ignored(h.reason)
      BY <2>8
    <3>2. <<h.severity, h.reason>> \in Flags(c, Len(c))
      BY <2>3, <3>1, Zenon DEF Marks
    <3>3. PICK k \in 1 .. Len(c) : Flagged(c[k]) /\ <<h.severity, h.reason>> = Mark(c[k])
      BY <3>2, Zenon DEF Flags
    <3>4. h.severity = worst(c[k]).sev /\ h.reason = worst(c[k]).why
      BY <3>3 DEF Mark
    <3> QED BY <3>1, <3>3, <3>4
  <2> HIDE DEF Hit
  <2>9. ASSUME ~Fails, NEW i \in bad PROVE Ignored(GivenReason(i))
    <3>1. PICK k \in 1 .. Len(c) : i = c[k]
      BY <2>4, <2>9, Zenon DEF bad
    <3>2. i \in CodedSet
      BY <2>5, <3>1
    <3>3. i.card = "faults" \/ (i.card = "unmeasured" /\ i.kind # "invalid" /\ ~ok)
      BY <2>9, Zenon DEF bad
    <3>4. Flagged(i) /\ (worst(i).sev = Illegal \/ (worst(i).sev = Suspect /\ ~ok))
      BY <3>2, <3>3, BadIsFlagged, Zenon
    <3>5. \E x : worst(i).sev = x /\ ~Hit(x)
      BY <2>6, <2>9, <3>4, Zenon
    <3>6. Ignored(worst(i).why)
      BY <2>7, <3>1, <3>4, <3>5, Zenon
    <3>7. worst(i).why = GivenReason(i)
      BY <3>2, <3>4, BadIsFlagged, Zenon
    <3> QED BY <3>6, <3>7, Zenon
  <2>10. ASSUME Fails PROVE \E i \in bad : ~Ignored(GivenReason(i))
    <3>1. PICK x : Hit(x) /\ (x = Illegal \/ (x = Suspect /\ ~ok))
      BY <2>6, <2>10, Zenon
    <3>2. PICK k \in 1 .. Len(c) : Flagged(c[k]) /\ worst(c[k]).sev = x /\ ~Ignored(worst(c[k]).why)
      BY <2>8, <3>1, Zenon
    <3>3. PICK i \in CodedSet : i = c[k]
      BY <2>5
    <3>4. worst(i).why = GivenReason(i) /\ i.kind = "scalar"
      BY <3>2, <3>3, BadIsFlagged, Zenon
    <3>5. i.card = "faults" \/ (i.card = "unmeasured" /\ ~ok)
      BY <3>1, <3>2, <3>3, BadIsFlagged, Zenon
    <3>6. i.kind # "invalid"
      <4>1. "scalar" # "invalid"
        OBVIOUS
      <4> QED BY <3>4, <4>1, Zenon
    <3>7. i \in AllCode
      BY <2>4, <3>3, Zenon
    <3>8. i \in bad
      BY <3>5, <3>6, <3>7, Zenon DEF bad
    <3>9. ~Ignored(worst(i).why)
      BY <3>2, <3>3, Zenon
    <3> QED BY <3>4, <3>8, <3>9, Zenon
  <2>11. exit = 0 => ~Fails
    BY <2>2
  <2>12. exit # 0 => Fails
    BY <2>2
  <2> HIDE DEF bad
  <2> QED BY <2>9, <2>10, <2>11, <2>12
<1> QED BY <1>1, ReportHolds, PTL
=============================================================================
