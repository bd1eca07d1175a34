------------------------------ MODULE VpuLane ------------------------------
(***************************************************************************)
(* One 32-bit lane of the card's vector unit, running the instructions the *)
(* generator host/crates/knc-mvex/src/main.rs emits.                       *)
(*                                                                         *)
(* The generated kernels never move data between lanes, so one lane        *)
(* carries the whole argument. Its bits are symbolic: 0 and 1 are          *)
(* constants, Junk is a bit nobody can tell, and every other number names  *)
(* one bit of one input word. A run of a kernel on symbolic bits is a run  *)
(* on every input at once. A register or memory word is a formal sum of    *)
(* such words, because the frame-of-reference and delta kernels add and    *)
(* subtract whole words modulo 2^32 after the bit work is done.            *)
(***************************************************************************)
EXTENDS Joining, SequencesExt, TLC

VARIABLES
    job,    \* what was called, with its arguments
    pc,     \* [stage, i, round]: the kernel that runs and where it is in it
    zmm,    \* the lane of the 32 vector registers
    mem     \* buffer -> index -> word; an address is a pair <<buffer, index>>

laneVars == <<job, pc, zmm, mem>>

BitsOfWord == 0..31
Junk == 2
SrcBit(i, b) == 4 + 32 * i + b
Word(i) == [b \in BitsOfWord |-> SrcBit(i, b)]
ZeroWord == [b \in BitsOfWord |-> 0]
JunkWord == [b \in BitsOfWord |-> Junk]
Plain(w) == [plus |-> <<w>>, minus |-> << >>]
AsWord(x) == IF Len(x.plus) = 1 /\ x.minus = << >> THEN x.plus[1] ELSE JunkWord

BitOr(x, y) == CASE x = 0 -> y [] y = 0 -> x [] x = y -> x [] OTHER -> Junk
BitAnd(x, y) ==
    CASE x = 0 \/ y = 0 -> 0 [] x = 1 -> y [] y = 1 -> x [] x = y -> x [] OTHER -> Junk

Shr(w, n) == [b \in BitsOfWord |-> IF b + n < 32 THEN w[b + n] ELSE 0]
Shl(w, n) == [b \in BitsOfWord |-> IF b < n THEN 0 ELSE w[b - n]]
Or(v, w) == [b \in BitsOfWord |-> BitOr(v[b], w[b])]
And(v, w) == [b \in BitsOfWord |-> BitAnd(v[b], w[b])]

(***************************************************************************)
(* The instructions, as the records a kernel is a sequence of.             *)
(***************************************************************************)
Load(d, m)   == [op |-> "load", d |-> d, m |-> m]
Store(m, d)  == [op |-> "store", d |-> d, m |-> m]
Move(d, a)   == [op |-> "move", d |-> d, a |-> a]
Vpsrld(d, a, n) == [op |-> "srl", d |-> d, a |-> a, n |-> n]
Vpslld(d, a, n) == [op |-> "sll", d |-> d, a |-> a, n |-> n]
Vpord(d, a, b)  == [op |-> "or", d |-> d, a |-> a, b |-> b]
Vpandd(d, a, b) == [op |-> "and", d |-> d, a |-> a, b |-> b]
Vpxord(d, a, b) == [op |-> "xor", d |-> d, a |-> a, b |-> b]
Vpaddd(d, a, b) == [op |-> "add", d |-> d, a |-> a, b |-> b]
Vpsubd(d, a, b) == [op |-> "sub", d |-> d, a |-> a, b |-> b]

\* A load outside its buffer reads what nobody can tell; a store outside it
\* widens the buffer, which the properties look for.
Unwritten == Plain(JunkWord)
Fetch(m, a) == IF a[2] \in DOMAIN m[a[1]] THEN m[a[1]][a[2]] ELSE Unwritten
Put(m, a, x) ==
    IF a[2] \in DOMAIN m[a[1]] THEN [m EXCEPT ![a[1]][a[2]] = x]
                               ELSE [m EXCEPT ![a[1]] = (a[2] :> x) @@ @]
Fresh(n) == [k \in 0..n - 1 |-> Unwritten]

\* What a register holds after an instruction that writes one.
Result(z, m, i) ==
    CASE i.op = "load" -> Fetch(m, i.m)
      [] i.op = "move" -> z[i.a]
      [] i.op = "srl"  -> Plain(Shr(AsWord(z[i.a]), i.n))
      [] i.op = "sll"  -> Plain(Shl(AsWord(z[i.a]), i.n))
      [] i.op = "or"   -> Plain(Or(AsWord(z[i.a]), AsWord(z[i.b])))
      [] i.op = "and"  -> Plain(And(AsWord(z[i.a]), AsWord(z[i.b])))
      [] i.op = "xor"  -> Plain(IF i.a = i.b THEN ZeroWord ELSE JunkWord)
      [] i.op = "add"  -> [plus |-> z[i.a].plus \o z[i.b].plus,
                           minus |-> z[i.a].minus \o z[i.b].minus]
      [] i.op = "sub"  -> [plus |-> z[i.a].plus \o z[i.b].minus,
                           minus |-> z[i.a].minus \o z[i.b].plus]

Exec(s, i) ==
    IF i.op = "store" THEN [s EXCEPT !.mem = Put(@, i.m, s.zmm[i.d])]
                      ELSE [s EXCEPT !.zmm[i.d] = Result(s.zmm, s.mem, i)]

\* The state after a straight-line program, and after its first n instructions.
RunUpTo(s, program) ==
    LET after[n \in 0..Len(program)] ==
            IF n = 0 THEN s ELSE Exec(after[n - 1], program[n])
    IN  after
RunFrom(s, program) == RunUpTo(s, program)[Len(program)]

\* On entry every register holds what the caller left in it.
EntryRegisters == [r \in 0..31 |-> Plain(JunkWord)]

\* The program is executed from the registers z, memory included.
Execute(z, program) ==
    LET s == RunFrom([zmm |-> z, mem |-> mem], program)
    IN  zmm' = s.zmm /\ mem' = s.mem

\* Emission helpers: a loop of the generator over 0..n-1, and one it guards.
Loop(n, Emit(_)) == Concat([k \in 1..n |-> Emit(k - 1)])
When(c, insn) == IF c THEN <<insn>> ELSE << >>
=============================================================================
