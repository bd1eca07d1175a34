------------------------------- MODULE Mandel -------------------------------
(***************************************************************************)
(* mandel8_vpu, the masked escape-time loop mandel() of                    *)
(* host/crates/knc-mvex/src/main.rs generates. Lanes leave the loop one by *)
(* one: the mask k1 keeps their registers as they were when they escaped.  *)
(*                                                                         *)
(* The arithmetic is that of the integers modulo Prime, with the order of  *)
(* 0..Prime-1 for the comparison: the kernel and the reference below only  *)
(* have to agree on what they compute from what, not on what it means.     *)
(***************************************************************************)
EXTENDS VpuLane

CONSTANTS
    Prime,
    MaxIters,   \* the limits a caller may give
    Lanes       \* the lanes of a vector register, eight of them

ASSUME PrimeBig == Prime \in Nat /\ Prime > 4 /\ MaxIters \subseteq Nat \ {0}

Field == 0..Prime - 1

\* Registers: 0 cr, 1 ci, 2 zr, 3 zi, 4 zr2, 5 zi2, 6 n, 7 two, 8 four, 9 one,
\* 10 |z|^2, 11 2*zr.
MandelInit ==
    /\ job \in [kind : {"mandel"}, c : [Lanes -> Field \X Field], maxiter : MaxIters]
    /\ pc = [stage |-> "test", i |-> 0]
    /\ zmm = [l \in Lanes |-> [r \in 0..11 |->
                CASE r = 0 -> job.c[l][1] [] r = 1 -> job.c[l][2]
                  [] r = 7 -> 2 [] r = 8 -> 4 [] r = 9 -> 1 [] OTHER -> 0]]
    /\ mem = [k1 |-> Lanes, n |-> << >>, mag |-> << >>]

\* One lane's result of an instruction <<op, destination, first, second>>.
LaneResult(r, i) ==
    (CASE i[1] = "add" -> r[i[3]] + r[i[4]]
       [] i[1] = "sub" -> r[i[3]] - r[i[4]]
       [] i[1] = "mul" -> r[i[3]] * r[i[4]]
       [] i[1] = "fmadd213" -> r[i[3]] * r[i[2]] + r[i[4]]) % Prime

\* A program under a mask, up to its n-th instruction: lanes outside the mask
\* keep their registers.
MaskedUpTo(z, k, program) ==
    LET after[n \in 0..Len(program)] ==
            IF n = 0 THEN z
            ELSE [l \in Lanes |-> IF l \notin k THEN z[l]
                    ELSE [after[n - 1][l] EXCEPT ![program[n][2]] =
                             LaneResult(after[n - 1][l], program[n])]]
    IN  after
Masked(z, k, program) == MaskedUpTo(z, k, program)[Len(program)]

Magnitude == <<<<"add", 10, 4, 5>>>>
Iterate == <<<<"mul", 11, 2, 7>>, <<"fmadd213", 3, 11, 1>>, <<"sub", 2, 4, 5>>,
             <<"add", 2, 2, 0>>, <<"mul", 4, 2, 2>>, <<"mul", 5, 3, 3>>, <<"add", 6, 6, 9>>>>

\* vcmppd under the mask it writes: a lane that has left stays out.
CompareLt(z, k) == {l \in k : z[l][10] < z[l][8]}

MandelTest ==
    LET z == Masked(zmm, Lanes, Magnitude)
        k == CompareLt(z, mem.k1)
    IN  /\ job.kind = "mandel"
        /\ pc.stage = "test"
        /\ zmm' = z
        /\ mem' = [mem EXCEPT !.k1 = k]
        /\ pc' = [pc EXCEPT !.stage = IF k = {} THEN "store" ELSE "iterate"]
        /\ UNCHANGED job

\* The iteration without its mask: lanes that have left go on.
MandelIterateAll ==
    /\ job.kind = "mandel"
    /\ pc.stage = "iterate"
    /\ zmm' = Masked(zmm, Lanes, Iterate)
    /\ pc' = [stage |-> IF pc.i + 1 < job.maxiter THEN "test" ELSE "store", i |-> pc.i + 1]
    /\ UNCHANGED <<job, mem>>

MandelIterate ==
    /\ job.kind = "mandel"
    /\ pc.stage = "iterate"
    /\ zmm' = Masked(zmm, mem.k1, Iterate)
    /\ pc' = [stage |-> IF pc.i + 1 < job.maxiter THEN "test" ELSE "store", i |-> pc.i + 1]
    /\ UNCHANGED <<job, mem>>

MandelStore ==
    LET z == Masked(zmm, Lanes, Magnitude)
    IN  /\ job.kind = "mandel"
        /\ pc.stage = "store"
        /\ zmm' = z
        /\ mem' = [mem EXCEPT !.n = [l \in Lanes |-> zmm[l][6]], !.mag = [l \in Lanes |-> z[l][10]]]
        /\ pc' = [pc EXCEPT !.stage = "ret"]
        /\ UNCHANGED job

MandelNext == MandelTest \/ MandelIterate \/ MandelStore
MandelDone == pc.stage = "ret"

MandelSpec == MandelInit /\ [][MandelNext]_laneVars

\* The scalar iteration z := z^2 + c, how far z is out, and where it stops.
Orbit(c, max) ==
    LET z[n \in 0..max] ==
            IF n = 0 THEN <<0, 0>>
            ELSE <<(z[n-1][1] * z[n-1][1] - z[n-1][2] * z[n-1][2] + c[1]) % Prime,
                   (2 * z[n-1][1] * z[n-1][2] + c[2]) % Prime>>
    IN  z
Out(z) == (z[1] * z[1] + z[2] * z[2]) % Prime
Stops(c, max) == {n \in 0..max : n = max \/ ~(Out(Orbit(c, max)[n]) < 4)}

(* The counts and magnitudes stored are those of the scalar iteration
   z := z^2 + c, stopped at the first |z|^2 that is not below 4 or after maxiter
   steps, for each lane by itself: a lane's result does not depend on when
   another one escapes, and an escaped lane is never taken up again. *)
LanesIndependent ==
    (job.kind = "mandel" /\ pc.stage = "ret") =>
        \A l \in Lanes :
            LET n == Min(Stops(job.c[l], job.maxiter))
            IN  /\ mem.n[l] = n % Prime
                /\ mem.mag[l] = Out(Orbit(job.c[l], job.maxiter)[n])
=============================================================================
