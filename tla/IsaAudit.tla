------------------------------ MODULE IsaAudit ------------------------------
(***************************************************************************)
(* phi-isa-audit (host/crates/phi-isa-audit/src/lib.rs and main.rs): walk  *)
(* the executable sections of an ELF file, or of every ELF member of an    *)
(* archive, instruction by instruction, and fail when one of them cannot   *)
(* run on the card. It is the gate every binary passes before it is put on *)
(* the card, and it shares no code with the encoder whose output it has to *)
(* step over.                                                              *)
(*                                                                         *)
(* An instruction is its bytes and what the disassembler (iced-x86) says   *)
(* of it: [bytes, kind, features, mnem], kind "vector", "scalar" or        *)
(* "invalid", features in the order the disassembler lists them; and what  *)
(* the card does with it: it "runs", "faults", or it is "unmeasured".      *)
(* A vector instruction of the encoder also carries its request.           *)
(***************************************************************************)
EXTENDS Mvex, Joining, FiniteSets

CONSTANT Jobs       \* what the tool is run on: [file, args]

VARIABLES
    job,        \* [file, args], chosen at the start
    member,     \* the archive member being audited; a plain file is one
    section,    \* the section of it being scanned
    pos,        \* decoder position in that section, in bytes
    found,      \* hits of this member
    report,     \* [instructions, vector, hits]
    exit        \* exit status, -1 while the tool runs

auditVars == <<job, member, section, pos, found, report, exit>>

Instruction(b, kind, features, mnem, card, req) ==
    [bytes |-> b, kind |-> kind, features |-> features, mnem |-> mnem, card |-> card, req |-> req]
Vector(r) == Instruction(Encode(r), "vector", << >>, "", "runs", <<r>>)
\* A vector instruction of another tool, of which only the bytes are known.
VectorBytes(b) == Instruction(b, "vector", << >>, "", "runs", << >>)
Scalar(b, features, mnem, card) == Instruction(b, "scalar", features, mnem, card, << >>)
Invalid(b) == Instruction(b, "invalid", << >>, "", "unmeasured", << >>)

-----------------------------------------------------------------------------
(* Classification *)
IllegalFeatures ==
    {"CMOV", "MMX", "SSE", "SSE2", "SSE3", "SSSE3", "SSE4_1", "SSE4_2", "SSE4A", "AVX", "AVX2",
     "FMA", "F16C", "CMPXCHG16B", "MONITOR", "MWAITX", "PAUSE", "PREFETCHW", "PREFETCHWT1",
     "CLFSH", "CLFLUSHOPT", "CLWB", "RDTSCP", "MOVBE", "POPCNT", "LZCNT", "BMI1", "BMI2",
     "XSAVE", "XSAVEOPT", "XSAVEC", "XSAVES", "AES", "PCLMULQDQ", "SHA", "RDRAND", "RDSEED",
     "ADX", "FSGSBASE", "INVPCID", "RDPID", "SMAP", "CET_IBT", "CET_SS", "MPX", "3DNOW",
     "3DNOWEXT", "TBM", "XOP", "FMA4", "LWP", "ENQCMD", "SERIALIZE", "TSXLDTRK", "WAITPKG",
     "MOVDIRI", "MOVDIR64B", "PTWRITE", "UINTR", "AMX_TILE", "AMX_INT8", "AMX_BF16", "KL",
     "AESKLE", "HRESET", "LAHF_SAHF_64", "RTM", "HLE", "PKU", "OSPKE", "CLDEMOTE", "GFNI",
     "VAES", "VPCLMULQDQ"}
IllegalFamilies == {"AVX512", "AVX_VNNI", "AMX"}
starts_with(name, p) == Len(name) >= Len(p) /\ SubSeq(name, 1, Len(p)) = p

\* Severity is ordered: Illegal is the lesser, and the worse.
Illegal == 0
Suspect == 1
NoHit == 2

\* endbr64 (CET_IBT) is in both lists, and the first decides.
classify_feature(f) ==
    IF (\E p \in IllegalFamilies : starts_with(f, p)) \/ f \in IllegalFeatures THEN Illegal
    ELSE IF f \in {"MULTIBYTENOP", "CET_IBT"} THEN Suspect
    ELSE NoHit

allowed_despite_feature(m) ==
    m \in {"Ldmxcsr", "Stmxcsr", "Kandw", "Kandnw", "Knotw", "Korw", "Kxnorw", "Kxorw",
           "Kmovw", "Kortestw"}

MnemonicRule(m) ==
    CASE m \in {"In", "Insb", "Insw", "Insd"} -> "IN/INS (port I/O)"
      [] m \in {"Out", "Outsb", "Outsw", "Outsd"} -> "OUT/OUTS (port I/O)"
      [] m \in {"Sysenter", "Sysexit", "Sysexitq"} -> "SYSENTER/SYSEXIT"
      [] m \in {"Fcmovb", "Fcmove", "Fcmovbe", "Fcmovu", "Fcmovnb", "Fcmovne", "Fcmovnbe",
                "Fcmovnu"} -> "FCMOVcc"
      [] m \in {"Fcomi", "Fcomip", "Fucomi", "Fucomip"} -> "FCOMI/FUCOMI"
      [] OTHER -> ""
classify_mnemonic(m) == [sev |-> IF MnemonicRule(m) = "" THEN NoHit ELSE Illegal, why |-> MnemonicRule(m)]

\* The first of all, however little it says.
WorseFirst(worst, next) == IF worst.sev # NoHit THEN worst ELSE next
\* The first of the worst: a later reason replaces one that is less severe.
Worse(worst, next) == IF worst.sev <= next.sev THEN worst ELSE next
WorstUpTo(f) ==
    LET upTo[n \in 0..Len(f)] ==
            IF n = 0 THEN [sev |-> NoHit, why |-> ""]
            ELSE Worse(upTo[n - 1], [sev |-> classify_feature(f[n]), why |-> f[n]])
    IN  upTo
worst(i) == Worse(WorstUpTo(i.features)[Len(i.features)], classify_mnemonic(i.mnem))

Flagged(i) == i.kind = "scalar" /\ ~allowed_despite_feature(i.mnem) /\ worst(i).sev # NoHit

\* Whether an immediate follows: all of map 0F3A, and a few opcodes of 0F.
HasImmNoShift(map, op) == map = 3 \/ (map = 1 /\ op \in {112, 194})
HasImm(map, op) == map = 3 \/ (map = 1 /\ op \in {112, 114, 194})

\* How long the vector instruction at the head of b is, 0 if there is none.
mvex_length(b) ==
    IF Len(b) < 6 THEN 0
    ELSE LET map == b[2] % 4
             m == b[6] \div 64
             rm == b[6] % 8
             disp == CASE m = 3 -> 0
                       [] m = 0 -> IF rm = 5 THEN 4 ELSE 0
                       [] m = 1 -> 1
                       [] m = 2 -> 4
             len == 6 + (IF m # 3 /\ rm = 4 THEN 1 ELSE 0) + disp + (IF HasImm(map, b[5]) THEN 1 ELSE 0)
         IN  IF b[1] # 98 \/ Bit(b[3], 4) # 0 \/ map = 0 \/ Len(b) < len THEN 0 ELSE len

-----------------------------------------------------------------------------
(* What the tool may be run on. Whether bytes are a vector instruction, and how
   many they are, is the card's reading of them (327364-001, 3.3): other than
   mvex_length it counts the displacement of an index without a base.        *)
NoBaseBytes(b) == b[6] \div 64 = 0 /\ b[6] % 8 = 4 /\ b[7] % 8 = 5
SibSize(b) == IF b[6] \div 64 # 3 /\ b[6] % 8 = 4 THEN 1 ELSE 0
DispSize(b) ==
    CASE b[6] \div 64 = 3 -> 0
      [] b[6] \div 64 = 2 -> 4
      [] b[6] \div 64 = 1 -> 1
      [] OTHER -> IF b[6] % 8 = 5 \/ NoBaseBytes(b) THEN 4 ELSE 0
ImmSize(b) == IF b[2] % 4 = 3 \/ (b[2] % 4 = 1 /\ b[5] \in {112, 114, 194}) THEN 1 ELSE 0
IsVector(b) ==
    /\ Len(b) >= 6 + SibSize(b)
    /\ b[1] = 98 /\ b[2] % 4 # 0 /\ Bit(b[3], 4) = 0
    /\ Len(b) = 6 + SibSize(b) + DispSize(b) + ImmSize(b)
\* 98 begins nothing else in 64-bit mode but an EVEX prefix, which has the bit set.
IsOther(b) == Len(b) > 0 /\ (b[1] # 98 \/ (Len(b) >= 3 /\ Bit(b[3], 4) = 1))

Requests == [form : FormNames, reg : Zmms, v : Zmms, k : Ks, imm : Seq(0..255),
             rm : [zmm : Zmms] \cup [base : 0..15, disp : Disps, conv : 0..7]]
Instructions ==
    [bytes : Seq(0..255), kind : {"vector", "scalar", "invalid"}, features : Seq(STRING),
     mnem : STRING, card : {"runs", "faults", "unmeasured"}, req : Seq(Requests)]
SectionSet == [kind : STRING, alt : BOOLEAN, readable : BOOLEAN, address : Nat, code : Seq(Instructions)]
MemberSet == [elf : BOOLEAN, x86 : BOOLEAN, sections : Seq(SectionSet)]
JobSet == [file : [archive : BOOLEAN, members : Seq(MemberSet)],
           args : [allow_suspect : BOOLEAN, ignore : SUBSET STRING]]
Coded(i) ==
    /\ IF i.kind = "vector" THEN IsVector(i.bytes) ELSE IsOther(i.bytes)
    /\ i.req # << >> => i.bytes = Encode(i.req[1])

ASSUME JobsTyped ==
    /\ Jobs \subseteq JobSet
    /\ \A j \in Jobs :
          /\ ~j.file.archive => Len(j.file.members) = 1
          /\ \A m \in 1..Len(j.file.members) :
                /\ j.file.members[m].x86 => j.file.members[m].elf
                /\ \A s \in 1..Len(j.file.members[m].sections) :
                      \A k \in 1..Len(j.file.members[m].sections[s].code) :
                          Coded(j.file.members[m].sections[s].code[k])

\* The card and the lists agree: what faults is on a list of the illegal, what
\* nobody has measured on that of the suspect, if a mnemonic does not excuse it.
HasIllegal(i) == (\E n \in DOMAIN i.features : classify_feature(i.features[n]) = Illegal) \/ MnemonicRule(i.mnem) # ""
HasSuspect(i) == \E n \in DOMAIN i.features : classify_feature(i.features[n]) = Suspect
Judged(i) ==
    LET listed == i.kind = "scalar" /\ ~allowed_despite_feature(i.mnem)
    IN  /\ i.card = "faults" <=> listed /\ HasIllegal(i)
        /\ i.card = "unmeasured" <=> i.kind = "invalid" \/ (listed /\ ~HasIllegal(i) /\ HasSuspect(i))

ASSUME JobsJudged ==
    \A j \in Jobs : \A m \in 1..Len(j.file.members) : \A s \in 1..Len(j.file.members[m].sections) :
        \A k \in 1..Len(j.file.members[m].sections[s].code) : Judged(j.file.members[m].sections[s].code[k])

-----------------------------------------------------------------------------
(* The walk *)
Members == job.file.members
Sections == Members[member].sections
Here == Sections[section]
\* The bytes of a section, and where its k-th instruction ends.
BytesOf(code) == [k \in 1..Len(code) |-> code[k].bytes]
CodeOf(s) == Concat(BytesOf(s.code))
EndOf(s, k) == Len(Joined(BytesOf(s.code))[k])
Boundary(s, p) == \E k \in 0..Len(s.code) : p = EndOf(s, k)
\* iced-x86 at position p; away from a boundary it makes rubbish of the bytes.
Decode(s, p) ==
    IF \E k \in DOMAIN s.code : p = EndOf(s, k - 1)
      THEN s.code[CHOOSE k \in DOMAIN s.code : p = EndOf(s, k - 1)]
      ELSE Invalid(<<CodeOf(s)[p + 1]>>)
\* What the decoder has not read yet.
Ahead == SubSeq(CodeOf(Here), pos + 1, Len(CodeOf(Here)))

AuditInit ==
    /\ job \in Jobs
    /\ member = 1
    /\ section = 1
    /\ pos = 0
    /\ found = << >>
    /\ report = [instructions |-> 0, vector |-> 0, hits |-> << >>]
    /\ exit = -1

Running == exit = -1 /\ member <= Len(Members)

\* An archive member that is not ELF is a symbol or string table.
SkipMember ==
    /\ Running /\ section = 1 /\ pos = 0
    /\ job.file.archive /\ ~Members[member].elf
    /\ member' = member + 1
    /\ UNCHANGED <<job, section, pos, found, report, exit>>

\* Not an ELF file, or not for this architecture: the whole audit fails.
RefuseMember ==
    /\ Running /\ section = 1 /\ pos = 0
    /\ ~Members[member].x86 /\ (job.file.archive => Members[member].elf)
    /\ exit' = 2
    /\ UNCHANGED <<job, member, section, pos, found, report>>

Scanning == Running /\ Members[member].elf /\ Members[member].x86 /\ section <= Len(Sections)

\* Data, replacement slots of kernel alternatives, sections whose bytes are not
\* in the file (section.data() fails, and nothing is said), and empty ones.
Skipped(s) == s.kind # "text" \/ s.alt \/ ~s.readable \/ s.code = << >>
SkipSection ==
    /\ Scanning
    /\ Skipped(Here)
    /\ section' = section + 1
    /\ UNCHANGED <<job, member, pos, found, report, exit>>

\* One round of scan_bytes_counting.
ScanVector ==
    LET len == mvex_length(Ahead) IN
    /\ Scanning /\ ~Skipped(Here)
    /\ pos < Len(CodeOf(Here))
    /\ len > 0
    /\ pos' = pos + len
    /\ report' = [report EXCEPT !.instructions = @ + 1, !.vector = @ + 1]
    /\ UNCHANGED <<job, member, section, found, exit>>

ScanScalar ==
    LET i == Decode(Here, pos) IN
    /\ Scanning /\ ~Skipped(Here)
    /\ pos < Len(CodeOf(Here))
    /\ mvex_length(Ahead) = 0
    /\ pos' = pos + Len(i.bytes)
    /\ report' = [report EXCEPT !.instructions = @ + 1]
    /\ found' = IF Flagged(i)
                  THEN Append(found, [severity |-> worst(i).sev, reason |-> worst(i).why,
                                      address |-> Here.address + pos])
                  ELSE found
    /\ UNCHANGED <<job, member, section, exit>>

EndSection ==
    /\ Scanning /\ ~Skipped(Here)
    /\ pos >= Len(CodeOf(Here))
    /\ section' = section + 1
    /\ pos' = 0
    /\ UNCHANGED <<job, member, found, report, exit>>

\* The hits in the order of the sections.
EndMemberUnsorted ==
    /\ Running /\ Members[member].elf /\ Members[member].x86
    /\ section > Len(Sections)
    /\ report' = [report EXCEPT !.hits = @ \o found]
    /\ found' = << >>
    /\ member' = member + 1
    /\ section' = 1
    /\ UNCHANGED <<job, pos, exit>>

\* The hits by address; one goes behind those of its own address.
Insert(hits, h) ==
    LET n == CHOOSE n \in 0..Len(hits) :
                \A k \in 1..Len(hits) : k <= n <=> hits[k].address <= h.address
    IN  SubSeq(hits, 1, n) \o <<h>> \o SubSeq(hits, n + 1, Len(hits))
SortedUpTo(hits) ==
    LET upTo[n \in 0..Len(hits)] == IF n = 0 THEN << >> ELSE Insert(upTo[n - 1], hits[n])
    IN  upTo
sort_by_key(hits) == SortedUpTo(hits)[Len(hits)]

\* audit_one sorts its hits by address (stably), audit_archive collects them.
EndMember ==
    /\ Running /\ Members[member].elf /\ Members[member].x86
    /\ section > Len(Sections)
    /\ report' = [report EXCEPT !.hits = @ \o sort_by_key(found)]
    /\ found' = << >>
    /\ member' = member + 1
    /\ section' = 1
    /\ UNCHANGED <<job, pos, exit>>

\* Names are compared without regard to the case of the letters A to Z.
Upper == "ABCDEFGHIJKLMNOPQRSTUVWXYZ"
Lower == "abcdefghijklmnopqrstuvwxyz"
At(s, n) == SubSeq(s, n, n)
SameLetter(a, b) == a = b \/ \E n \in 1..26 : {a, b} = {At(Upper, n), At(Lower, n)}
eq_ignore_ascii_case(a, b) ==
    Len(a) = Len(b) /\ \A n \in 1..Len(a) : SameLetter(At(a, n), At(b, n))

\* main: the hits of an ignored reason are split off, the rest decide.
Ignored(reason) == \E r \in job.args.ignore : eq_ignore_ascii_case(r, reason)
Kept == {k \in 1..Len(report.hits) : ~Ignored(report.hits[k].reason)}
CountOf(sev) == Cardinality({k \in Kept : report.hits[k].severity = sev})
Verdict ==
    /\ exit = -1 /\ member > Len(Members)
    /\ exit' = IF CountOf(Illegal) > 0 \/ (CountOf(Suspect) > 0 /\ ~job.args.allow_suspect)
                 THEN 1 ELSE 0
    /\ UNCHANGED <<job, member, section, pos, found, report>>

Exited == exit # -1 /\ UNCHANGED auditVars

AuditNext ==
    \/ SkipMember \/ RefuseMember \/ SkipSection \/ ScanVector \/ ScanScalar
    \/ EndSection \/ EndMember \/ Verdict \/ Exited

AuditSpec == AuditInit /\ [][AuditNext]_auditVars

-----------------------------------------------------------------------------
(* Everything in the file that the card may execute, in the order of the file:
   a section whose bytes are not in it gives the card nothing to load.      *)
Executed(s) == IF s.kind = "text" /\ ~s.alt /\ s.readable THEN s.code ELSE << >>
SectionCode(m) == [k \in 1..Len(m.sections) |-> Executed(m.sections[k])]
MemberCode == [k \in 1..Len(Members) |->
                 IF Members[k].elf THEN Concat(SectionCode(Members[k])) ELSE << >>]
CardCode == Concat(MemberCode)
AllCode == {CardCode[k] : k \in 1..Len(CardCode)}
\* The one reason an instruction is reported for: the first illegal feature in
\* the disassembler's order, else its mnemonic, else the first suspect feature.
Listed(i, sev) == {n \in DOMAIN i.features : classify_feature(i.features[n]) = sev}
FirstListed(i, sev) ==
    i.features[CHOOSE n \in Listed(i, sev) : \A m \in Listed(i, sev) : n <= m]
GivenReason(i) ==
    IF Listed(i, Illegal) # {} THEN FirstListed(i, Illegal)
    ELSE IF MnemonicRule(i.mnem) # "" THEN MnemonicRule(i.mnem)
    ELSE FirstListed(i, Suspect)

(* The bytes of every constructor, read back by the layout of the prefix, are
   the request: the opcode of that constructor, each register in its field
   with its inverted extension bits, the mask, the displacement and the
   immediate, and the conversion where the constructor encodes one (the
   compares, vmovapd_load and the immediate shifts drop it). No other
   constructor's instruction has these bytes (mvex and the constructors).   *)
DecodesToRequest ==
    \A i \in AllCode : i.req # << >> =>
        LET r == i.req[1]
            f == Form(r.form)
            d == Fields(i.bytes)
        IN  Accepts(r) =>
              /\ <<d.map, d.pp, d.w, d.op, d.eh>> = <<f.map, f.pp, f.w, f.op, f.base.eh>>
              /\ <<d.reg, d.v, d.k, d.imm>> = <<r.reg, r.v, r.k, r.imm>>
              /\ IF IsReg(r.rm) THEN d.rm = r.rm
                 ELSE d.rm = [base |-> r.rm.base, disp |-> r.rm.disp]
              /\ d.sss = IF f.base.sss THEN src_sss(r.rm) ELSE f.base.fixed
              /\ \A name \in ReadAs(d) : SameMnemonic(name, r.form)

\* An index without a base is followed by a displacement whatever ModRM says,
\* which mvex_length does not count.
NoBase(i) == i.kind = "vector" /\ NoBaseBytes(i.bytes)
Sized(code) == \A k \in 1..Len(code) : ~NoBase(code[k])

(* The walk stands on the first byte of an instruction whenever it decodes:
   it steps over each vector instruction by its exact length, so it neither
   reads rubbish nor misses what follows, in every section without the one
   addressing form whose length mvex_length gets wrong (mvex_length,
   scan_bytes_counting).                                                    *)
InStep == (Scanning /\ ~Skipped(Here) /\ Sized(Here.code)) => Boundary(Here, pos)

(* The exit status is the truth about the file: it is 0 exactly if every
   instruction of it that faults on the card, and every unmeasured one unless
   they are allowed, is reported for a reason the caller ignores, whatever the
   case of its letters. Ignoring another reason of the same instruction does
   not help: an AVX and FMA instruction is reported for AVX, and --ignore FMA
   still fails (audit_elf, scan_bytes_counting, main).                      *)
VerdictSound ==
    (exit \in {0, 1} /\ Sized(CardCode)) =>
        LET bad == {i \in AllCode : \/ i.card = "faults"
                                    \/ i.card = "unmeasured" /\ i.kind # "invalid" /\ ~job.args.allow_suspect}
        IN  exit = 0 <=> \A i \in bad : Ignored(GivenReason(i))

(* The report counts exactly the instructions the card may execute and the
   vector ones among them, and on one file lists its hits in address order
   whatever order its sections come in (audit_one, scan_bytes_counting).    *)
ReportExact ==
    (exit \in {0, 1} /\ Sized(CardCode)) =>
        /\ report.instructions = Len(CardCode)
        /\ report.vector = Cardinality({k \in 1..Len(CardCode) : CardCode[k].kind = "vector"})
        /\ ~job.file.archive =>
              \A a, b \in 1..Len(report.hits) : a < b => report.hits[a].address <= report.hits[b].address
=============================================================================
