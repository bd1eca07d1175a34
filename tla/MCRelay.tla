------------------------------ MODULE MCRelay ------------------------------
(* Relay with two connections, which are alike.                            *)
EXTENDS Relay, SequencesExt

CONSTANTS c1, c2

TwoConn == {c1, c2}

\* What pick_holder does to the session with a whole queue is what
\* forward_frame does with its frames one after the other.
ASSUME ReplayAssumption ==
  \A s \in {"none", "execOpen", "putOpen"} :
    \A tags \in UNION {[1 .. n -> SessionRequest \cup Stream] : n \in 0 .. 4} :
      SessionAfterAll(s, [i \in DOMAIN tags |-> [tag |-> tags[i]]])
        = FoldLeft(SessionAfter, s, tags)

Symmetry2 == Permutations(TwoConn)
=============================================================================
