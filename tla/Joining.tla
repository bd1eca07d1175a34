------------------------------ MODULE Joining ------------------------------
(* Sequences one after another: messages of parts, streams of frames, code of
   instructions.                                                            *)
EXTENDS Integers, Sequences

\* The first n of some sequences, one after another, and all of them.
Joined(seqs) ==
    LET upTo[n \in 0..Len(seqs)] == IF n = 0 THEN << >> ELSE upTo[n - 1] \o seqs[n]
    IN  upTo
Concat(seqs) == Joined(seqs)[Len(seqs)]
=============================================================================
