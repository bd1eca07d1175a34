------------------------------ MODULE MCAudit ------------------------------
(* Files for the audit: every constructor of the encoder with registers on
   both sides of each extension bit, alone in a section; vector code of other
   tools in every addressing form; and files and archives of mixed code.    *)
EXTENDS IsaAudit

Regs == {0, 9, 22, 31}
Operands == {Reg(z) : z \in Regs}
            \cup {Mem(0, 0, 0), Mem(5, -64, 0), Mem(7, 64, 1), Mem(15, 2147483647, 7),
                  Mem(13, -2147483647, 3)}
RegOf(o) == CASE o.reg = "zmm" -> Regs [] o.reg = "mask" -> {0, 2, 7, 9} [] OTHER -> o.ext
ImmOf(o) == IF o.imm = {} THEN {<< >>} ELSE {<<n>> : n \in o.imm \cap {0, 3, 31, 80, 255}}
Asked(name) ==
    LET o == Form(name).base
    IN  {r \in [form : {name}, reg : RegOf(o), v : IF o.v THEN {6, 17, 31} ELSE {0},
                rm : Operands, k : IF o.mask THEN {0, 5} ELSE {0}, imm : ImmOf(o)] : Accepts(r)}
AllAsked == UNION {Asked(name) : name \in FormNames}

\* Vector instructions as a compiler would address memory.
Sib == VectorBytes(<<98, 241, 120, 8, 40, 4, 200>>)
Disp8 == VectorBytes(<<98, 241, 120, 8, 40, 65, 1>>)
Sib8 == VectorBytes(<<98, 241, 120, 8, 40, 68, 200, 2>>)
RipShuf == VectorBytes(<<98, 241, 121, 8, 112, 5, 1, 0, 0, 0, 27>>)
Sib32 == VectorBytes(<<98, 242, 121, 8, 54, 132, 200, 0, 1, 0, 0>>)
\* ... and with an index but no base, which always takes four bytes more.
Indexed == VectorBytes(<<98, 241, 120, 8, 40, 4, 197, 0, 0, 0, 0>>)

Cmove == Scalar(<<15, 68, 193>>, <<"CMOV">>, "Cmove", "faults")
Nopw == Scalar(<<102, 15, 31, 68, 0, 0>>, <<"MULTIBYTENOP">>, "Nop", "unmeasured")
Evex == Scalar(<<98, 241, 124, 72, 40, 7>>, <<"AVX512F">>, "Vmovaps", "faults")
EvexBW == Scalar(<<98, 241, 125, 72, 252, 193>>, <<"AVX512BW">>, "Vpaddb", "faults")
Kmov == Scalar(kmov_k_r32(1, 0), <<"AVX512F">>, "Kmovw", "runs")
Kor == Scalar(kortest(1, 1), <<"AVX512F">>, "Kortestw", "runs")
Port == Scalar(<<236>>, <<"INTEL8086">>, "In", "faults")
\* Two features that are both on the list; a suspect feature before one that is.
Vfma == Scalar(<<196, 226, 121, 184, 193>>, <<"AVX", "FMA">>, "Vfmadd231ps", "faults")
Mixed == Scalar(<<102, 15, 31, 192>>, <<"MULTIBYTENOP", "SSE">>, "Nop", "faults")
Ret == Scalar(<<195>>, <<"INTEL8086">>, "Ret", "runs")
Bad == Invalid(<<6>>)
Shift11 == Vector([form |-> "vpsrld", reg |-> 2, v |-> 2, rm |-> Reg(0), k |-> 0, imm |-> <<11>>])
Store9 == Vector([form |-> "vmovaps_store", reg |-> 9, v |-> 0, rm |-> Mem(0, 576, 0), k |-> 0, imm |-> << >>])
Round == Vector([form |-> "vrndfxpntps", reg |-> 5, v |-> 0, rm |-> Reg(6), k |-> 0, imm |-> <<1>>])

Text(address, code) == [kind |-> "text", alt |-> FALSE, readable |-> TRUE, address |-> address, code |-> code]
Elf(sections) == [elf |-> TRUE, x86 |-> TRUE, sections |-> sections]
Table == [elf |-> FALSE, x86 |-> FALSE, sections |-> << >>]
Foreign == [elf |-> TRUE, x86 |-> FALSE, sections |-> <<Text(0, <<Ret>>)>>]
File(m) == [archive |-> FALSE, members |-> <<m>>]
Archive(ms) == [archive |-> TRUE, members |-> ms]
Job(file, allow, ignore) == [file |-> file, args |-> [allow_suspect |-> allow, ignore |-> ignore]]

Pool == {Cmove, Nopw, Evex, EvexBW, Kmov, Port, Vfma, Mixed, Bad, Shift11, Store9, Round, Sib, Disp8, Sib8,
         RipShuf, Sib32, Indexed}
Flags == {<<FALSE, {}>>, <<TRUE, {}>>, <<FALSE, {"CMOV"}>>, <<TRUE, {"cmov", "Avx"}>>,
          <<FALSE, {"FMA"}>>, <<FALSE, {"MULTIBYTENOP", "in/ins (port I/O)"}>>}
Odd == {[Text(4096, <<Cmove>>) EXCEPT !.kind = "data"], [Text(4096, <<Evex>>) EXCEPT !.alt = TRUE],
        [Text(4096, <<Cmove>>) EXCEPT !.readable = FALSE],
        Text(4096, << >>), Text(16, <<Nopw, Ret>>)}

Files == {File(Elf(<<Text(256, <<a, b, Ret>>)>>)) : a \in Pool, b \in Pool}
         \cup {File(Elf(<<Text(256, <<a>>), s, Text(64, <<Kor, Cmove, Ret>>)>>)) : a \in Pool, s \in Odd}
         \cup {File(Table), File(Foreign)}
         \cup {Archive(<<Table, Elf(<<Text(0, <<a, Ret>>)>>), m>>) :
                  a \in Pool, m \in {Table, Foreign, Elf(<<Text(0, <<Port>>)>>)}}

MCJobs == {Job(File(Elf(<<Text(0, <<Vector(r)>>)>>)), FALSE, {}) : r \in AllAsked}
          \cup {Job(f, fl[1], fl[2]) : f \in Files, fl \in Flags}
=============================================================================
