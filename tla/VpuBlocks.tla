----------------------------- MODULE VpuBlocks -----------------------------
(***************************************************************************)
(* The kernels that move whole 64-byte blocks: knc_memcpy64 and the two    *)
(* knc_memset64 of host/crates/knc-mvex/src/main.rs with the checks of     *)
(* memcpy64 in card/lib/knc-rs/src/lib.rs, and the save and restore of the *)
(* vector state (set_body, get_body, kernel_header), as the kernel's       *)
(* context switch uses them.                                               *)
(***************************************************************************)
EXTENDS VpuLane

CONSTANTS
    MaxBlocks,      \* the largest block count called for
    SliceBytes      \* the lengths of slices, in bytes

ASSUME BlockBounds == MaxBlocks \in Nat /\ SliceBytes \subseteq 0..64 * (MaxBlocks + 1)

UNROLL == 4
GuardBlocks == MaxBlocks + 2            \* blocks of the buffers, two beyond the count
SrcBlock(k) == Plain(Word(k))
OldBlock(k) == Plain(Word(100 + k))

CopyJobs ==
    [kind : {"copy"}, blocks : 0..MaxBlocks, dstLen : SliceBytes, srcLen : SliceBytes,
     aligned : BOOLEAN]
SetJobs == [kind : {"set"}, blocks : 0..MaxBlocks, ngo : BOOLEAN]

\* mem.wc holds the blocks of stores that are not globally ordered yet.
BlocksInit ==
    /\ job \in CopyJobs \cup SetJobs
    /\ pc = [stage |-> "call", i |-> 0, left |-> job.blocks]
    /\ zmm = EntryRegisters
    /\ mem = [src |-> [k \in 0..GuardBlocks - 1 |-> SrcBlock(k)],
              dst |-> [k \in 0..GuardBlocks - 1 |-> OldBlock(k)],
              wc  |-> {}]

\* memcpy64 checks lengths, then alignment; the kernels take what they get.
BlocksCall ==
    LET bytes == job.blocks * 64 IN
    /\ pc.stage = "call"
    /\ job.kind \in {"copy", "set"}
    /\ \/ /\ job.kind = "copy"
          /\ job.dstLen < bytes \/ job.srcLen < bytes \/ ~job.aligned
          /\ pc' = [pc EXCEPT !.stage = "err"]
          /\ UNCHANGED zmm
       \/ /\ job.kind = "copy"
          /\ ~(job.dstLen < bytes \/ job.srcLen < bytes \/ ~job.aligned)
          /\ pc' = [pc EXCEPT !.stage = IF pc.left < UNROLL THEN "tail" ELSE "unrolled"]
          /\ UNCHANGED zmm
       \/ /\ job.kind = "set"
          /\ pc' = [pc EXCEPT !.stage = IF pc.left < UNROLL THEN "tail" ELSE "unrolled"]
          /\ zmm' = Exec([zmm |-> zmm, mem |-> mem], Vpxord(0, 0, 0)).zmm
    /\ UNCHANGED <<job, mem>>

\* n blocks from pc.i on: all loads, then all stores. A vmovnrngoaps store
\* waits in mem.wc.
BlockProgram(n) ==
    IF job.kind = "copy"
      THEN Loop(n, LAMBDA k : <<Load(k, <<"src", pc.i + k>>)>>)
           \o Loop(n, LAMBDA k : <<Store(<<"dst", pc.i + k>>, k)>>)
      ELSE IF job.ngo THEN << >>
      ELSE Loop(n, LAMBDA k : <<Store(<<"dst", pc.i + k>>, 0)>>)

NgoStores(n) ==
    IF job.kind = "set" /\ job.ngo THEN {pc.i + k : k \in 0..n - 1} ELSE {}

MoveBlocks(n) ==
    LET s == RunFrom([zmm |-> zmm, mem |-> mem], BlockProgram(n))
    IN  zmm' = s.zmm /\ mem' = [s.mem EXCEPT !.wc = @ \cup NgoStores(n)]

Unrolled ==
    /\ pc.stage = "unrolled"
    /\ MoveBlocks(UNROLL)
    /\ pc' = [pc EXCEPT !.i = @ + UNROLL, !.left = @ - UNROLL,
                        !.stage = IF pc.left - UNROLL >= UNROLL THEN "unrolled" ELSE "tail"]
    /\ UNCHANGED job

Tail1 ==
    /\ pc.stage = "tail"
    /\ pc.left # 0
    /\ MoveBlocks(1)
    /\ pc' = [pc EXCEPT !.i = @ + 1, !.left = @ - 1]
    /\ UNCHANGED job

\* External: a store that is not globally ordered becomes visible some time.
Settle ==
    /\ job.kind = "set"
    /\ \E k \in mem.wc :
        /\ mem' = [Put(mem, <<"dst", k>>, zmm[0]) EXCEPT !.wc = @ \ {k}]
        /\ UNCHANGED <<job, pc, zmm>>

\* The return without the locked add.
ReturnUnordered ==
    /\ pc.stage = "tail"
    /\ pc.left = 0
    /\ pc' = [pc EXCEPT !.stage = "ret"]
    /\ UNCHANGED <<job, zmm, mem>>

\* The locked add before the return of the ngo variant drains the stores.
Return ==
    /\ pc.stage = "tail"
    /\ pc.left = 0
    /\ (job.kind = "set" /\ job.ngo) => mem.wc = {}
    /\ pc' = [pc EXCEPT !.stage = "ret"]
    /\ UNCHANGED <<job, zmm, mem>>

BlocksNext == BlocksCall \/ Unrolled \/ Tail1 \/ Settle \/ Return
BlocksDone == pc.stage \in {"err", "ret"}

BlocksSpec == BlocksInit /\ [][BlocksNext]_laneVars

(* When a copy or a clear returns, exactly the blocks asked for hold their new
   contents for everyone to see, whatever the count leaves over after the
   unrolled loop, and no block beyond them was written. A copy the slices are
   too short for, or that is not aligned, moves nothing. *)
BlocksExact ==
    job.kind \in {"copy", "set"} =>
        LET new(k) == IF job.kind = "copy" THEN SrcBlock(k) ELSE Plain(ZeroWord)
            done == IF pc.stage = "ret" THEN job.blocks ELSE 0
        IN  /\ DOMAIN mem.dst = 0..GuardBlocks - 1
            /\ mem.src = [k \in 0..GuardBlocks - 1 |-> SrcBlock(k)]
            /\ \A k \in 0..GuardBlocks - 1 :
                  mem.dst[k] \in (IF k < job.blocks /\ pc.stage # "err" THEN {new(k)} ELSE {})
                                 \cup (IF k < done THEN {} ELSE {OldBlock(k)})
            /\ pc.stage = "ret" /\ job.kind = "copy" =>
                  job.blocks * 64 <= job.dstLen /\ job.blocks * 64 <= job.srcLen

-----------------------------------------------------------------------------
(* The vector state of a task: knc_vpu_save and knc_vpu_restore.           *)
KNC_VPU_K_OFFSET == 2048
KNC_VPU_STATE_SIZE == 2112
KReg(k) == 32 + k

vpu_save(area) ==
    Loop(32, LAMBDA r : <<Store(<<area, 64 * r>>, r)>>)
    \o Loop(8, LAMBDA k : <<Store(<<area, KNC_VPU_K_OFFSET + 2 * k>>, KReg(k))>>)
vpu_restore(area) ==
    Loop(32, LAMBDA r : <<Load(r, <<area, 64 * r>>)>>)
    \o Loop(8, LAMBDA k : <<Load(KReg(k), <<area, KNC_VPU_K_OFFSET + 2 * k>>)>>)

\* External: FXRSTOR clears bits 0:127 of every zmm, that is lanes 0 to 3, so
\* the lane that is followed loses its register when it is one of them.
Fxrstor(z) == [r \in DOMAIN z |-> IF job.low /\ r < 32 THEN Plain(ZeroWord) ELSE z[r]]

Tasks == {"a", "b"}
TaskWord(t, r, n) == Plain(Word(200 * n + r + IF t = "a" THEN 0 ELSE 100))

\* pc.task runs; job.gen counts how often each task has changed its registers.
CtxInit ==
    /\ job \in [kind : {"ctx"}, low : BOOLEAN, gen : {[t \in Tasks |-> 0]}]
    /\ pc = [stage |-> "run", task |-> "a"]
    /\ zmm = [r \in 0..39 |-> TaskWord("a", r, 0)]
    /\ mem = [t \in Tasks |-> [o \in {64 * r : r \in 0..31} \cup {KNC_VPU_K_OFFSET + 2 * k : k \in 0..7} |->
                 TaskWord(t, IF o < KNC_VPU_K_OFFSET THEN o \div 64 ELSE 32 + (o - KNC_VPU_K_OFFSET) \div 2, 0)]]

MaxCtxGen == 2
\* The running task changes every register.
CtxWork ==
    /\ job.kind = "ctx"
    /\ job.gen[pc.task] < MaxCtxGen
    /\ job' = [job EXCEPT !.gen[pc.task] = @ + 1]
    /\ zmm' = [r \in 0..39 |-> TaskWord(pc.task, r, job.gen[pc.task] + 1)]
    /\ UNCHANGED <<pc, mem>>

\* The vector state restored first, the legacy state after it.
CtxSwitchFxrstorLast ==
    /\ job.kind = "ctx"
    /\ \E t \in Tasks \ {pc.task} :
          LET saved == RunFrom([zmm |-> zmm, mem |-> mem], vpu_save(pc.task))
              loaded == RunFrom(saved, vpu_restore(t))
          IN  /\ zmm' = Fxrstor(loaded.zmm)
              /\ mem' = loaded.mem
              /\ pc' = [pc EXCEPT !.task = t]
    /\ UNCHANGED job

\* save_fpregs_to_fpstate of one task, then restore_fpregs_from_fpstate of
\* the other: fxrstor first, the vector state after it.
CtxSwitch ==
    /\ job.kind = "ctx"
    /\ \E t \in Tasks \ {pc.task} :
          LET saved == RunFrom([zmm |-> zmm, mem |-> mem], vpu_save(pc.task))
              loaded == RunFrom([zmm |-> Fxrstor(saved.zmm), mem |-> saved.mem], vpu_restore(t))
          IN  /\ zmm' = loaded.zmm
              /\ mem' = loaded.mem
              /\ pc' = [pc EXCEPT !.task = t]
    /\ UNCHANGED job

CtxNext == CtxWork \/ CtxSwitch

CtxSpec == CtxInit /\ [][CtxNext]_laneVars

(* A task always finds in the vector and mask registers what it last put
   there, however often it was switched out: every register has a place of its
   own inside the KNC_VPU_STATE_SIZE bytes, and the restore is not undone by
   the FXRSTOR that clears the low lanes. *)
TaskKeepsRegisters ==
    job.kind = "ctx" =>
        /\ \A r \in 0..39 : zmm[r] = TaskWord(pc.task, r, job.gen[pc.task])
        /\ \A t \in Tasks : \A o \in DOMAIN mem[t] :
              o + (IF o < KNC_VPU_K_OFFSET THEN 64 ELSE 2) <= KNC_VPU_STATE_SIZE
=============================================================================
