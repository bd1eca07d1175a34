------------------------ MODULE BlockChannelProofs ------------------------
(***************************************************************************)
(* Proofs about the block channel, for every number of tags, of requests   *)
(* and of segments, and rings of every size.                               *)
(***************************************************************************)
EXTENDS BlockChannel, SequenceTheorems, FunctionTheorems, FiniteSetTheorems,
        WellFoundedInduction, TLAPS

(* What is under way, queue by queue.                                      *)

\* The constants, as numbers.
LEMMA Caps ==
  /\ TxCap \in Nat \ {0} /\ RxCap \in Nat \ {0} /\ MaxInFlight \in Nat \ {0}
  /\ MaxDepth \in Nat /\ MaxReqs \in Nat
  /\ \A q \in Request : q # NoReq
<1>1. /\ TxCap \in Nat \ {0} /\ RxCap \in Nat \ {0} /\ MaxInFlight \in Nat \ {0}
      /\ MaxDepth \in Nat /\ MaxReqs \in Nat
  BY BoundAssumption
<1>2. Request \subseteq [id : Nat, pending : Nat, ok : BOOLEAN]
  BY <1>1 DEF Request
<1> QED BY <1>1, <1>2, BoundAssumption

\* Nothing is under way in an empty queue.
LEMMA StubsNone == Stubs(<<>>) = {}
  BY DEF Stubs

\* One record, or one answer.
LEMMA StubsOne == \A e : Stubs(<<e>>) = {Stub(e)}
  BY DEF Stubs

\* Taking the head of a queue.
LEMMA StubsTail ==
  ASSUME NEW S, NEW q \in Seq(S), q # <<>>
  PROVE  /\ Stubs(q) = {Stub(Head(q))} \cup Stubs(Tail(q))
         /\ Head(q) \in S /\ Tail(q) \in Seq(S) /\ Len(q) \in Nat \ {0} /\ Len(Tail(q)) = Len(q) - 1
<1>1. /\ Head(q) \in S /\ Tail(q) \in Seq(S) /\ Len(q) \in Nat \ {0} /\ Len(Tail(q)) = Len(q) - 1
      /\ Head(q) = q[1] /\ \A i \in 1 .. Len(q) - 1 : Tail(q)[i] = q[i + 1]
  BY EmptySeq, HeadTailProperties, LenProperties
<1> DEFINE n == Len(q)
<1>2. \A i \in 1 .. n : i = 1 \/ (i - 1 \in 1 .. n - 1 /\ (i - 1) + 1 = i)
  BY <1>1
<1>3. 1 \in 1 .. n /\ \A i \in 1 .. n - 1 : i + 1 \in 1 .. n
  BY <1>1
<1>4. Stubs(q) \subseteq {Stub(Head(q))} \cup Stubs(Tail(q))
  <2> SUFFICES ASSUME NEW i \in 1 .. n PROVE Stub(q[i]) \in {Stub(Head(q))} \cup Stubs(Tail(q))
    BY DEF Stubs
  <2>1. CASE i = 1
    BY <1>1, <2>1
  <2>2. CASE i # 1
    <3>1. i - 1 \in 1 .. n - 1 /\ q[i] = Tail(q)[i - 1]
      BY <1>1, <1>2, <2>2
    <3> QED BY <1>1, <3>1 DEF Stubs
  <2> QED BY <2>1, <2>2
<1>5. {Stub(Head(q))} \cup Stubs(Tail(q)) \subseteq Stubs(q)
  <2>1. Stub(Head(q)) \in Stubs(q)
    BY <1>1, <1>3 DEF Stubs
  <2>2. ASSUME NEW i \in 1 .. Len(Tail(q)) PROVE Stub(Tail(q)[i]) \in Stubs(q)
    <3>1. i + 1 \in 1 .. n /\ Tail(q)[i] = q[i + 1]
      BY <1>1, <1>3
    <3> QED BY <3>1 DEF Stubs
  <2> QED BY <2>1, <2>2 DEF Stubs
<1> QED BY <1>1, <1>4, <1>5

\* Queues in a row.
LEMMA StubsConcat ==
  ASSUME NEW S, NEW q \in Seq(S), NEW r \in Seq(S)
  PROVE  Stubs(q \o r) = Stubs(q) \cup Stubs(r) /\ q \o r \in Seq(S) /\ Len(q \o r) = Len(q) + Len(r)
<1> DEFINE a == Len(q)
           b == Len(r)
           w == q \o r
<1>1. /\ a \in Nat /\ b \in Nat /\ w \in Seq(S) /\ Len(w) = a + b
      /\ \A i \in 1 .. a + b : w[i] = IF i =< a THEN q[i] ELSE r[i - a]
  BY ConcatProperties, LenProperties
<1> HIDE DEF w, a, b
<1>2. \A i \in 1 .. a + b : i \in 1 .. a \/ (i - a \in 1 .. b /\ ~(i =< a))
  BY <1>1
<1>3. /\ \A i \in 1 .. a : i \in 1 .. a + b /\ i =< a
      /\ \A i \in 1 .. b : i + a \in 1 .. a + b /\ ~(i + a =< a) /\ (i + a) - a = i
  BY <1>1
<1>4. \A i \in 1 .. a + b : (\E j \in 1 .. a : w[i] = q[j]) \/ (\E j \in 1 .. b : w[i] = r[j])
  <2>1. TAKE i \in 1 .. a + b
  <2>2. CASE i \in 1 .. a
    BY <1>1, <1>3, <2>2
  <2>3. CASE i - a \in 1 .. b /\ ~(i =< a)
    BY <1>1, <2>3
  <2> QED BY <1>2, <2>2, <2>3
<1>5. /\ \A j \in 1 .. a : \E i \in 1 .. a + b : w[i] = q[j]
      /\ \A j \in 1 .. b : \E i \in 1 .. a + b : w[i] = r[j]
  BY <1>1, <1>3
<1>6. Stubs(w) = Stubs(q) \cup Stubs(r)
  <2>1. Stubs(w) \subseteq Stubs(q) \cup Stubs(r)
    BY <1>1, <1>4 DEF Stubs, a, b
  <2>2. Stubs(q) \cup Stubs(r) \subseteq Stubs(w)
    BY <1>1, <1>5 DEF Stubs, a, b
  <2> QED BY <2>1, <2>2
<1> QED BY <1>1, <1>6 DEF a, b, w

\* One more at the end.
LEMMA StubsAppend ==
  ASSUME NEW S, NEW q \in Seq(S), NEW e \in S
  PROVE  /\ Stubs(Append(q, e)) = Stubs(q) \cup {Stub(e)}
         /\ Append(q, e) \in Seq(S) /\ Len(Append(q, e)) = Len(q) + 1
<1>1. Append(q, e) = q \o <<e>> /\ <<e>> \in Seq(S) /\ Len(<<e>>) = 1
  BY AppendIsConcat
<1>2. Stubs(q \o <<e>>) = Stubs(q) \cup Stubs(<<e>>) /\ q \o <<e>> \in Seq(S)
      /\ Len(q \o <<e>>) = Len(q) + Len(<<e>>)
  BY <1>1, StubsConcat
<1> QED BY <1>1, <1>2, StubsOne

\* Cutting a queue in two.
LEMMA StubsSplit ==
  ASSUME NEW S, NEW q \in Seq(S), NEW k \in 0 .. Len(q)
  PROVE  /\ Stubs(q) = Stubs(SubSeq(q, 1, k)) \cup Stubs(SubSeq(q, k + 1, Len(q)))
         /\ SubSeq(q, 1, k) \in Seq(S) /\ Len(SubSeq(q, 1, k)) = k
         /\ SubSeq(q, k + 1, Len(q)) \in Seq(S) /\ Len(SubSeq(q, k + 1, Len(q))) = Len(q) - k
         /\ \A i \in 1 .. k : SubSeq(q, 1, k)[i] = q[i]
         /\ \A i \in 1 .. Len(q) - k : SubSeq(q, k + 1, Len(q))[i] = q[k + i]
<1> DEFINE n == Len(q)
           x == SubSeq(q, 1, k)
           y == SubSeq(q, k + 1, n)
<1>1. n \in Nat /\ k \in Nat /\ k =< n /\ k + 1 \in Nat \ {0}
  BY LenProperties
<1>2. x \in Seq(S) /\ Len(x) = k /\ \A i \in 1 .. k : x[i] = q[i]
  <2>1. \A i \in 1 .. k : i \in 1 .. n
    BY <1>1
  <2>2. x = [i \in 1 .. k |-> q[i]]
    BY <1>1 DEF x
  <2>3. Len(x) = k /\ \A i \in 1 .. k : x[i] = q[i]
    BY <1>1, <2>2
  <2>4. \A i \in 1 .. k : q[i] \in S
    BY <2>1, ElementOfSeq
  <2> QED BY <1>1, <2>2, <2>3, <2>4, IsASeq
<1>3. y \in Seq(S) /\ Len(y) = n - k /\ \A i \in 1 .. n - k : y[i] = q[k + i]
  <2>1. n - k \in Nat /\ \A i \in 1 .. n - k : k + i \in 1 .. n
    BY <1>1
  <2>2. y = [i \in 1 .. n - k |-> q[k + i]]
    BY <1>1 DEF y
  <2>3. Len(y) = n - k /\ \A i \in 1 .. n - k : y[i] = q[k + i]
    BY <2>1, <2>2
  <2>4. \A i \in 1 .. n - k : q[k + i] \in S
    BY <2>1, ElementOfSeq
  <2> QED BY <2>1, <2>2, <2>3, <2>4, IsASeq
<1> HIDE DEF x, y
<1>4. /\ \A i \in 1 .. n : i \in 1 .. k \/ (i - k \in 1 .. n - k /\ k + (i - k) = i)
      /\ \A i \in 1 .. k : i \in 1 .. n
      /\ \A i \in 1 .. n - k : k + i \in 1 .. n
  BY <1>1
<1> HIDE DEF n
<1>5. Stubs(q) \subseteq Stubs(x) \cup Stubs(y)
  <2> SUFFICES ASSUME NEW i \in 1 .. n PROVE Stub(q[i]) \in Stubs(x) \cup Stubs(y)
    BY DEF Stubs, n
  <2>1. CASE i \in 1 .. k
    BY <1>2, <2>1 DEF Stubs
  <2>2. CASE i - k \in 1 .. n - k /\ k + (i - k) = i
    BY <1>3, <2>2 DEF Stubs
  <2> QED BY <1>4, <2>1, <2>2
<1>6. Stubs(x) \subseteq Stubs(q)
  BY <1>2, <1>4 DEF Stubs, n
<1>7. Stubs(y) \subseteq Stubs(q)
  BY <1>3, <1>4 DEF Stubs, n
<1> QED BY <1>2, <1>3, <1>5, <1>6, <1>7 DEF x, y, n

\* Two queues of the same records.
LEMMA StubsSame ==
  ASSUME NEW q, NEW r, Len(q) = Len(r), \A i \in 1 .. Len(r) : Stub(q[i]) = Stub(r[i])
  PROVE  Stubs(q) = Stubs(r)
  BY DEF Stubs

\* There are no more records in a queue than places.
LEMMA StubsFinite ==
  ASSUME NEW S, NEW q \in Seq(S)
  PROVE  IsFiniteSet(Stubs(q)) /\ Cardinality(Stubs(q)) =< Len(q) /\ Cardinality(Stubs(q)) \in Nat
<1> DEFINE f == [i \in 1 .. Len(q) |-> Stub(q[i])]
<1>1. Len(q) \in Nat /\ 1 \in Int
  BY LenProperties
<1>2. f \in Surjection(1 .. Len(q), Stubs(q))
  BY DEF Surjection, Stubs
<1>3. IsFiniteSet(1 .. Len(q)) /\ Cardinality(1 .. Len(q)) = IF 1 > Len(q) THEN 0 ELSE Len(q) - 1 + 1
  BY <1>1, FS_Interval
<1>4. Cardinality(1 .. Len(q)) = Len(q)
  BY <1>1, <1>3
<1> HIDE DEF f
<1>5. IsFiniteSet(Stubs(q)) /\ Cardinality(Stubs(q)) =< Len(q)
  BY <1>2, <1>3, <1>4, FS_Surjection
<1> QED BY <1>5, FS_CardinalityType

\* The five queues a record can be in.
LEMMA Shapes ==
  ASSUME TypeOK
  PROVE  /\ rx \in Seq(Reply) /\ ans \in Seq(Reply) /\ tx \in Seq(Record)
         /\ Piped \in Seq(Record) /\ Len(Piped) = Len(ifq)
         /\ \A i \in 1 .. Len(ifq) : Piped[i] = ifq[i].rec
         /\ Held \in Seq(Record) /\ Len(Held) = IF Holding THEN 1 ELSE 0
         /\ Len(rx) \in Nat /\ Len(ans) \in Nat /\ Len(tx) \in Nat /\ Len(ifq) \in Nat
         /\ Len(Held) \in Nat
         /\ Stubs(Held) = IF Holding THEN {Stub(rec)} ELSE {}
<1>1. rx \in Seq(Reply) /\ ans \in Seq(Reply) /\ tx \in Seq(Record) /\ rec \in Record
      /\ ifq \in Seq([rec : Record, seq : Nat])
  BY DEF TypeOK, CardType, HostType
<1>2. Len(rx) \in Nat /\ Len(ans) \in Nat /\ Len(tx) \in Nat /\ Len(ifq) \in Nat
  BY <1>1, LenProperties
<1>3. \A i \in 1 .. Len(ifq) : ifq[i] \in [rec : Record, seq : Nat]
  BY <1>1, ElementOfSeq
<1>4. \A i \in 1 .. Len(ifq) : ifq[i].rec \in Record
  BY <1>3
<1>5. Piped \in Seq(Record) /\ Len(Piped) = Len(ifq) /\ \A i \in 1 .. Len(ifq) : Piped[i] = ifq[i].rec
  BY <1>2, <1>4, IsASeq DEF Piped
<1>6. /\ Held \in Seq(Record) /\ Len(Held) = IF Holding THEN 1 ELSE 0
      /\ Stubs(Held) = IF Holding THEN {Stub(rec)} ELSE {}
  <2>1. CASE Holding
    BY <1>1, <2>1, StubsOne DEF Held
  <2>2. CASE ~Holding
    BY <2>2, StubsNone, EmptySeq DEF Held
  <2> QED BY <2>1, <2>2
<1> QED BY <1>1, <1>2, <1>5, <1>6

\* All that the queues hold, counted by places.
Places == Len(rx) + Len(ans) + Len(Piped) + Len(Held) + Len(tx)

\* What is under way is a finite set, no larger than the places it is in.
LEMMA OutFinite ==
  ASSUME TypeOK
  PROVE  IsFiniteSet(Out) /\ Cardinality(Out) \in Nat /\ Cardinality(Out) =< Places /\ Places \in Nat
<1>1. /\ rx \in Seq(Reply) /\ ans \in Seq(Reply) /\ tx \in Seq(Record)
      /\ Piped \in Seq(Record) /\ Held \in Seq(Record)
      /\ Len(rx) \in Nat /\ Len(ans) \in Nat /\ Len(tx) \in Nat /\ Len(Piped) \in Nat
      /\ Len(Held) \in Nat
  BY Shapes
<1> DEFINE A == Stubs(rx)
           B == Stubs(ans)
           C == Stubs(Piped)
           E == Stubs(Held)
           F == Stubs(tx)
<1>2. /\ IsFiniteSet(A) /\ Cardinality(A) =< Len(rx) /\ Cardinality(A) \in Nat
      /\ IsFiniteSet(B) /\ Cardinality(B) =< Len(ans) /\ Cardinality(B) \in Nat
      /\ IsFiniteSet(C) /\ Cardinality(C) =< Len(Piped) /\ Cardinality(C) \in Nat
      /\ IsFiniteSet(E) /\ Cardinality(E) =< Len(Held) /\ Cardinality(E) \in Nat
      /\ IsFiniteSet(F) /\ Cardinality(F) =< Len(tx) /\ Cardinality(F) \in Nat
  BY <1>1, StubsFinite
<1> HIDE DEF A, B, C, E, F
<1>3. \A S, T : IsFiniteSet(S) /\ IsFiniteSet(T) =>
        /\ IsFiniteSet(S \cup T) /\ Cardinality(S \cup T) \in Nat
        /\ Cardinality(S) \in Nat /\ Cardinality(T) \in Nat
        /\ Cardinality(S \cup T) =< Cardinality(S) + Cardinality(T)
  <2> SUFFICES ASSUME NEW S, NEW T, IsFiniteSet(S), IsFiniteSet(T)
               PROVE  /\ IsFiniteSet(S \cup T) /\ Cardinality(S \cup T) \in Nat
                      /\ Cardinality(S) \in Nat /\ Cardinality(T) \in Nat
                      /\ Cardinality(S \cup T) =< Cardinality(S) + Cardinality(T)
    OBVIOUS
  <2>1. /\ IsFiniteSet(S \cup T)
        /\ Cardinality(S \cup T) = Cardinality(S) + Cardinality(T) - Cardinality(S \cap T)
    BY FS_Union
  <2>2. IsFiniteSet(S \cap T)
    BY FS_Intersection
  <2>3. Cardinality(S) \in Nat /\ Cardinality(T) \in Nat /\ Cardinality(S \cap T) \in Nat
        /\ Cardinality(S \cup T) \in Nat
    BY <2>1, <2>2, FS_CardinalityType
  <2> QED BY <2>1, <2>3
<1>4. /\ IsFiniteSet(A \cup B) /\ Cardinality(A \cup B) \in Nat
      /\ Cardinality(A \cup B) =< Cardinality(A) + Cardinality(B)
  BY <1>2, <1>3
<1>5. /\ IsFiniteSet((A \cup B) \cup C) /\ Cardinality((A \cup B) \cup C) \in Nat
      /\ Cardinality((A \cup B) \cup C) =< Cardinality(A \cup B) + Cardinality(C)
  BY <1>2, <1>3, <1>4
<1>6. /\ IsFiniteSet(((A \cup B) \cup C) \cup E) /\ Cardinality(((A \cup B) \cup C) \cup E) \in Nat
      /\ Cardinality(((A \cup B) \cup C) \cup E) =< Cardinality((A \cup B) \cup C) + Cardinality(E)
  BY <1>2, <1>3, <1>5
<1>7. /\ IsFiniteSet((((A \cup B) \cup C) \cup E) \cup F)
      /\ Cardinality((((A \cup B) \cup C) \cup E) \cup F) \in Nat
      /\ Cardinality((((A \cup B) \cup C) \cup E) \cup F)
           =< Cardinality(((A \cup B) \cup C) \cup E) + Cardinality(F)
  BY <1>2, <1>3, <1>6
<1>8. Out = (((A \cup B) \cup C) \cup E) \cup F
  BY DEF Out, A, B, C, E, F
<1>9. Cardinality((((A \cup B) \cup C) \cup E) \cup F) =< Places
  BY <1>1, <1>2, <1>4, <1>5, <1>6, <1>7 DEF Places
<1>10. Places \in Nat
  BY <1>1 DEF Places
<1> QED BY <1>7, <1>8, <1>9, <1>10

\* The books of the requests.
Ledger == Once /\ (\A s \in Out : Owned(s)) /\ PendingCounts /\ Tagged

\* The host moves records from place to place; the books are the driver's.
LEMMA LedgerKept ==
  ASSUME Ledger, Out' = Out, Places' = Places, UNCHANGED <<reqs, issued, disk, direct, svc>>
  PROVE  Ledger'
<1>1. Once'
  BY DEF Ledger, Once, Places
<1>2. (\A s \in Out : Owned(s))'
  BY DEF Ledger, Owned, Depth
<1>3. PendingCounts'
  BY DEF Ledger, PendingCounts
<1>4. Tagged'
  BY DEF Ledger, Tagged
<1> QED BY <1>1, <1>2, <1>3, <1>4 DEF Ledger

\* complete_done, fail_all and complete answer records, one for one.
LEMMA AnswersOf ==
  ASSUME HostType, NEW list, Len(list) \in Nat, \A i \in 1 .. Len(list) : list[i].rec \in Record,
         NEW st \in {0, 5, 22}, NEW next \in {"poll", "pop", "serve"}, Answer(list, st, next)
  PROVE  /\ ans' \in Seq(Reply) /\ Len(ans') = Len(list)
         /\ \A i \in 1 .. Len(list) : ans'[i] = Completion(list[i].rec, st)
         /\ \A i \in 1 .. Len(list) : Stub(ans'[i]) = Stub(list[i].rec)
         /\ hpc' = "answer" /\ then' = next
<1>1. ans' = [i \in 1 .. Len(list) |-> Completion(list[i].rec, st)] /\ hpc' = "answer" /\ then' = next
  BY DEF Answer
<1>2. svc.bounce \in BOOLEAN
  BY ServiceAssumption DEF HostType
<1>3. \A r \in Record : Completion(r, st) \in Reply /\ Stub(Completion(r, st)) = Stub(r)
  BY <1>2 DEF Completion, Reply, Record, Stub
<1>4. \A i \in 1 .. Len(list) : Completion(list[i].rec, st) \in Reply
  BY <1>3
<1>5. ans' \in Seq(Reply) /\ Len(ans') = Len(list)
  BY <1>1, <1>4, IsASeq
<1> QED BY <1>1, <1>3, <1>5

\* A single answer.
LEMMA AnswersThis ==
  ASSUME HostType, NEW st \in {0, 5, 22}, AnswerThis(st)
  PROVE  /\ ans' = <<Completion(rec, st)>> /\ ans' \in Seq(Reply) /\ Len(ans') = 1
         /\ Stubs(ans') = {Stub(rec)} /\ hpc' = "answer" /\ then' = "poll" /\ ~Holding'
<1> DEFINE list == <<[rec |-> rec]>>
<1>1. Len(list) = 1 /\ list[1].rec = rec /\ rec \in Record
  BY DEF HostType
<1>2. \A i \in 1 .. Len(list) : list[i].rec \in Record
  BY <1>1
<1>3. Answer(list, st, "poll")
  BY DEF AnswerThis
<1> HIDE DEF list
<1>4. /\ ans' \in Seq(Reply) /\ Len(ans') = 1 /\ ans'[1] = Completion(rec, st)
      /\ Stub(ans'[1]) = Stub(rec) /\ hpc' = "answer" /\ then' = "poll"
  BY <1>1, <1>2, <1>3, AnswersOf
<1>5. ans' = <<ans'[1]>>
  BY <1>4
<1>6. Stubs(ans') = {Stub(ans'[1])}
  BY <1>5, StubsOne
<1> QED BY <1>4, <1>5, <1>6 DEF Holding

----------------------------------------------------------------------------
(* The engine's ring and the two counters.                                 *)

\* The numbers, and what follows for the descriptor ring.
LEMMA EngineFacts ==
  ASSUME TypeOK, EngineInv
  PROVE  /\ submitted \in Nat /\ completed \in Nat /\ pending \in Nat /\ hostWord \in Nat
         /\ cardWord \in Nat /\ Len(eq) \in Nat /\ Position \in Nat /\ InFlight \in Nat
         /\ Len(eq) =< MaxInFlight /\ Word \in Nat /\ Word =< Position /\ hostWord =< Position
         /\ cardWord =< Position /\ completed =< Position /\ Position =< submitted
<1>1. /\ submitted \in Nat /\ completed \in Nat /\ pending \in Nat /\ hostWord \in Nat
      /\ cardWord \in Nat /\ eq \in Seq([rec : Record, seq : Nat, copied : BOOLEAN])
  BY DEF TypeOK, EngineType
<1>2. Len(eq) \in Nat /\ MaxInFlight \in Nat
  BY <1>1, Caps, LenProperties
<1>3. /\ Larger(hostWord, cardWord) = submitted - Len(eq) /\ completed =< submitted - Len(eq)
      /\ submitted - completed =< MaxInFlight
  BY DEF EngineInv, Position, InFlight
<1>4. /\ submitted - Len(eq) \in Nat /\ hostWord =< submitted - Len(eq)
      /\ cardWord =< submitted - Len(eq)
  BY <1>1, <1>2, <1>3 DEF Larger
<1>5. Len(eq) =< MaxInFlight /\ submitted - Len(eq) =< submitted /\ submitted - completed \in Nat
  BY <1>1, <1>2, <1>3
<1>6. Word \in Nat /\ Word =< submitted - Len(eq)
  BY <1>1, <1>3, <1>4 DEF Word
<1> QED BY <1>1, <1>2, <1>3, <1>4, <1>5, <1>6 DEF Position, InFlight

\* dma_poll never gets ahead of the engine.
LEMMA PollKeeps ==
  ASSUME TypeOK, EngineInv, PollUpdate, UNCHANGED engineVars
  PROVE  /\ EngineInv' /\ submitted' = submitted /\ completed' \in Nat /\ pending' \in Nat
         /\ late' \in BOOLEAN /\ completed =< completed' /\ completed' =< Position
<1>1. /\ submitted \in Nat /\ completed \in Nat /\ pending \in Nat /\ Position \in Nat
      /\ Word \in Nat /\ Word =< Position /\ completed =< Position /\ InFlight \in Nat
      /\ InFlight =< MaxInFlight /\ MaxInFlight \in Nat
  BY EngineFacts, Caps DEF EngineInv
<1>2. /\ completed' = Larger(completed, Word) /\ submitted' = submitted
      /\ pending' = IF Word > completed /\ pending =< Word THEN 0 ELSE pending
      /\ late' = (late /\ Word =< completed)
  BY DEF PollUpdate
<1>3. UNCHANGED <<eq, hostWord, cardWord, Position>>
  BY <1>2 DEF engineVars, Position
<1>4. completed' \in Nat /\ completed =< completed' /\ completed' =< Position /\ pending' \in Nat
  BY <1>1, <1>2 DEF Larger
<1>5. InFlight' =< MaxInFlight
  BY <1>1, <1>2, <1>4 DEF InFlight
<1>6. Larger(hostWord', cardWord') = Position' /\ completed' =< Position'
  BY <1>3, <1>4 DEF EngineInv
<1>7. \A i \in 1 .. Len(eq') : eq'[i].seq = Position' + i /\ (eq'[i].copied => i = 1)
  BY <1>3 DEF EngineInv
<1>8. EngineInv'
  BY <1>5, <1>6, <1>7 DEF EngineInv
<1>9. late' \in BOOLEAN
  BY <1>2
<1> QED BY <1>2, <1>4, <1>8, <1>9

\* A step that does not touch the channel.
LEMMA EngineStays ==
  ASSUME EngineInv, UNCHANGED <<submitted, completed, eq, hostWord, cardWord>>
  PROVE  EngineInv'
  BY DEF EngineInv, Position, InFlight

\* dma_submit puts one line behind the others.
LEMMA SubmitKeeps ==
  ASSUME TypeOK, EngineInv, ~RingFull, Submit(rec)
  PROVE  /\ EngineInv' /\ submitted' = submitted + 1 /\ completed' = completed
         /\ pending' \in Nat /\ late' = late /\ UNCHANGED <<hostWord, cardWord>>
         /\ eq' \in Seq([rec : Record, seq : Nat, copied : BOOLEAN])
         /\ Position' = Position /\ Len(eq') = Len(eq) + 1 /\ eq'[Len(eq) + 1].rec = rec
         /\ ~eq'[Len(eq) + 1].copied
         /\ \A i \in 1 .. Len(eq) : eq'[i] = eq[i]
<1>1. /\ submitted \in Nat /\ completed \in Nat /\ pending \in Nat /\ Len(eq) \in Nat
      /\ InFlight \in Nat /\ MaxInFlight \in Nat /\ Position \in Nat
  BY EngineFacts, Caps
<1>2. /\ eq \in Seq([rec : Record, seq : Nat, copied : BOOLEAN]) /\ rec \in Record
  BY DEF TypeOK, EngineType, HostType
<1> DEFINE l == Line(rec)
           n == Len(eq)
<1>3. l \in [rec : Record, seq : Nat, copied : BOOLEAN] /\ l.rec = rec /\ ~l.copied
      /\ l.seq = submitted + 1
  BY <1>1, <1>2 DEF Line
<1>4. /\ eq' = Append(eq, l) /\ submitted' = submitted + 1 /\ completed' = completed
      /\ pending' = (IF rec.op = "read" THEN submitted + 1 ELSE pending) /\ late' = late
      /\ UNCHANGED <<hostWord, cardWord>>
  BY DEF Submit
<1> HIDE DEF l
<1>5. /\ eq' \in Seq([rec : Record, seq : Nat, copied : BOOLEAN]) /\ Len(eq') = n + 1
      /\ eq'[n + 1] = l /\ \A i \in 1 .. n : eq'[i] = eq[i]
  BY <1>2, <1>3, <1>4, AppendProperties
<1> HIDE DEF n
<1>6. Position' = Position
  BY <1>1, <1>4, <1>5 DEF Position, n
<1>7. pending' \in Nat
  BY <1>1, <1>4
<1>8. InFlight' =< MaxInFlight
  BY <1>1, <1>4 DEF InFlight, RingFull
<1>9. Larger(hostWord', cardWord') = Position' /\ completed' =< Position'
  BY <1>4, <1>6 DEF EngineInv
<1>10. \A i \in 1 .. n + 1 : eq'[i].seq = Position + i /\ (eq'[i].copied => i = 1)
  <2>1. \A i \in 1 .. n + 1 : i \in 1 .. n \/ i = n + 1
    BY <1>1 DEF n
  <2>2. l.seq = Position + (n + 1)
    BY <1>1, <1>3 DEF Position, n
  <2>3. \A i \in 1 .. n : eq'[i].seq = Position + i /\ (eq'[i].copied => i = 1)
    BY <1>5 DEF EngineInv, n
  <2> QED BY <1>3, <1>5, <2>1, <2>2, <2>3
<1>11. EngineInv'
  BY <1>5, <1>6, <1>8, <1>9, <1>10 DEF EngineInv
<1> QED BY <1>3, <1>4, <1>5, <1>6, <1>7, <1>11 DEF n

\* A step that does not touch the host's queues.
LEMMA QueuesStay ==
  ASSUME UNCHANGED <<rx, tx, ans, ifq, rec, hpc, then>>
  PROVE  UNCHANGED <<Out, Places, Holding, Held, Piped>>
<1>1. UNCHANGED <<Holding, Piped>>
  BY DEF Holding, Piped
<1>2. Held' = Held
  BY <1>1 DEF Held
<1> QED BY <1>1, <1>2 DEF Out, Places, Stubs, Stub

\* ... and leaves the pipeline as it is.
LEMMA PipeStays ==
  ASSUME PipeInv, UNCHANGED <<submitted, svc, ans, ifq, rec, hpc, then>>
  PROVE  PipeInv'
<1>1. UNCHANGED Holding /\ \A r : Pipelined(r)' <=> Pipelined(r)
  BY DEF Holding, Pipelined, OnEngine
<1> QED BY <1>1 DEF PipeInv, OnEngine, Pipelined

\* The engine moves data.
LEMMA EngineCopyBooks == ASSUME Books, EngineCopy PROVE Books' /\ Out' = Out
<1> DEFINE E == [rec : Record, seq : Nat, copied : BOOLEAN]
<1>1. /\ eq # <<>> /\ eq' = [eq EXCEPT ![1].copied = TRUE]
      /\ staging' = (IF svc.backend = "file" /\ Head(eq).rec.op = "write"
                     THEN {Head(eq).rec} ELSE staging)
      /\ landed' = landed \cup (IF svc.backend # "file" THEN {Head(eq).rec}
                                ELSE IF Head(eq).rec.op = "read" THEN staging ELSE {})
      /\ UNCHANGED <<svc, cardVars, tx, rx, hostVars, dmaVars, hostWord, cardWord, abandoned>>
  BY DEF EngineCopy
<1>2. /\ UNCHANGED <<disk, direct, reqs, outstanding, issued, hpc, rec, ans, then, ifq,
                     submitted, completed, pending, late, svc, tx, rx>>
  BY <1>1 DEF cardVars, hostVars, dmaVars
<1>3. TypeOK /\ EngineInv /\ PipeInv /\ Ledger /\ RingsHold
  BY DEF Books, Ledger
<1>4. eq \in Seq(E) /\ staging \subseteq Record /\ landed \subseteq Record
      /\ {submitted, completed, pending, hostWord, cardWord} \subseteq Nat /\ late \in BOOLEAN
      /\ abandoned \in BOOLEAN
  BY <1>3 DEF TypeOK, EngineType
<1>5. Len(eq) \in Nat \ {0} /\ Head(eq) = eq[1] /\ eq[1] \in E /\ 1 \in 1 .. Len(eq)
  <2>1. Len(eq) \in Nat \ {0} /\ Head(eq) = eq[1]
    BY <1>1, <1>4, EmptySeq, LenProperties
  <2>2. 1 \in 1 .. Len(eq)
    BY <2>1
  <2> QED BY <1>4, <2>1, <2>2, ElementOfSeq
<1>6. /\ eq' \in Seq(E) /\ Len(eq') = Len(eq)
      /\ \A i \in 1 .. Len(eq) : eq'[i].seq = eq[i].seq /\ (i # 1 => eq'[i] = eq[i])
  <2> DEFINE l == [eq[1] EXCEPT !.copied = TRUE]
  <2>1. eq' = [eq EXCEPT ![1] = l]
    BY <1>1
  <2>2. l \in E /\ l.seq = eq[1].seq
    BY <1>5
  <2> HIDE DEF l
  <2>3. /\ eq' \in Seq(E) /\ Len(eq') = Len(eq)
        /\ \A i \in 1 .. Len(eq) : eq'[i] = IF i = 1 THEN l ELSE eq[i]
    BY <1>4, <1>5, <2>1, <2>2, ExceptSeq
  <2> QED BY <2>2, <2>3
<1>7. Position' = Position /\ InFlight' = InFlight
  BY <1>2, <1>6 DEF Position, InFlight
<1>8. EngineInv'
  <2>1. \A i \in 1 .. Len(eq') : eq'[i].seq = Position' + i /\ (eq'[i].copied => i = 1)
    BY <1>3, <1>6, <1>7 DEF EngineInv
  <2>2. Larger(hostWord', cardWord') = Position' /\ completed' =< Position' /\ InFlight' =< MaxInFlight
    BY <1>1, <1>2, <1>3, <1>7 DEF EngineInv
  <2> QED BY <2>1, <2>2 DEF EngineInv
<1>9. EngineType'
  <2>1. staging' \subseteq Record /\ landed' \subseteq Record
    <3>1. Head(eq).rec \in Record
      BY <1>5
    <3> QED BY <1>1, <1>4, <3>1
  <2> QED BY <1>1, <1>2, <1>4, <1>6, <2>1 DEF EngineType
<1>10. CardType' /\ HostType'
  BY <1>2, <1>3 DEF TypeOK, CardType, HostType
<1>11. PipeInv'
  BY <1>2, <1>3, PipeStays
<1>12. Ledger' /\ Out' = Out
  BY <1>2, <1>3, QueuesStay, LedgerKept
<1>13. RingsHold'
  BY <1>2, <1>3, <1>6 DEF RingsHold
<1> QED BY <1>8, <1>9, <1>10, <1>11, <1>12, <1>13 DEF Books, Ledger, TypeOK

\* The engine says where it is.
LEMMA EngineStatusBooks == ASSUME Books, EngineStatus PROVE Books' /\ Out' = Out
<1> DEFINE E == [rec : Record, seq : Nat, copied : BOOLEAN]
<1>1. /\ eq # <<>> /\ eq' = Tail(eq)
      /\ \/ cardWord' = Head(eq).seq /\ hostWord' = hostWord
         \/ hostWord' = Head(eq).seq /\ cardWord' = cardWord
      /\ UNCHANGED <<svc, cardVars, tx, rx, hostVars, dmaVars, staging, landed, abandoned>>
  BY DEF EngineStatus
<1>2. /\ UNCHANGED <<disk, direct, reqs, outstanding, issued, hpc, rec, ans, then, ifq,
                     submitted, completed, pending, late, svc, tx, rx>>
  BY <1>1 DEF cardVars, hostVars, dmaVars
<1>3. TypeOK /\ EngineInv /\ PipeInv /\ Ledger /\ RingsHold
  BY DEF Books, Ledger
<1>4. eq \in Seq(E) /\ staging \subseteq Record /\ landed \subseteq Record
      /\ {submitted, completed, pending, hostWord, cardWord} \subseteq Nat /\ late \in BOOLEAN
      /\ abandoned \in BOOLEAN
  BY <1>3 DEF TypeOK, EngineType
<1>5. /\ Len(eq) \in Nat \ {0} /\ Head(eq) = eq[1] /\ Tail(eq) \in Seq(E)
      /\ Len(Tail(eq)) = Len(eq) - 1 /\ \A i \in 1 .. Len(eq) - 1 : Tail(eq)[i] = eq[i + 1]
  BY <1>1, <1>4, EmptySeq, HeadTailProperties, LenProperties
<1>6. /\ submitted \in Nat /\ completed \in Nat /\ hostWord \in Nat /\ cardWord \in Nat
      /\ Position \in Nat /\ hostWord =< Position /\ cardWord =< Position
      /\ completed =< Position
  BY <1>3, EngineFacts
<1>7. Head(eq).seq = Position + 1
  <2>1. 1 \in 1 .. Len(eq)
    BY <1>5
  <2> QED BY <1>3, <1>5, <2>1 DEF EngineInv
<1>8. Position' = Position + 1
  BY <1>1, <1>2, <1>5, <1>6 DEF Position
<1>9. EngineInv'
  <2>1. Larger(hostWord', cardWord') = Position' /\ completed' =< Position'
    BY <1>1, <1>2, <1>6, <1>7, <1>8 DEF Larger
  <2>2. InFlight' =< MaxInFlight
    BY <1>2, <1>3 DEF EngineInv, InFlight
  <2>3. \A i \in 1 .. Len(eq) - 1 : /\ i + 1 \in 1 .. Len(eq) /\ i + 1 # 1
                                    /\ Position + (i + 1) = (Position + 1) + i
    BY <1>5, <1>6
  <2>4. \A i \in 1 .. Len(eq) - 1 : Tail(eq)[i].seq = (Position + 1) + i /\ ~Tail(eq)[i].copied
    BY <1>3, <1>5, <2>3 DEF EngineInv
  <2>5. \A i \in 1 .. Len(eq') : eq'[i].seq = Position' + i /\ (eq'[i].copied => i = 1)
    BY <1>1, <1>5, <1>8, <2>4
  <2> QED BY <2>1, <2>2, <2>5 DEF EngineInv
<1>10. EngineType'
  <2>1. hostWord' \in Nat /\ cardWord' \in Nat
    BY <1>1, <1>6, <1>7
  <2> QED BY <1>1, <1>2, <1>4, <1>5, <2>1 DEF EngineType
<1>11. CardType' /\ HostType'
  BY <1>2, <1>3 DEF TypeOK, CardType, HostType
<1>12. PipeInv'
  BY <1>2, <1>3, PipeStays
<1>13. Ledger' /\ Out' = Out
  BY <1>2, <1>3, QueuesStay, LedgerKept
<1>14. RingsHold'
  <2>1. Len(eq') =< MaxInFlight
    <3>1. Len(eq) =< MaxInFlight /\ MaxInFlight \in Nat
      BY <1>3, EngineFacts, Caps
    <3> QED BY <1>1, <1>5, <3>1
  <2> QED BY <1>2, <1>3, <2>1 DEF RingsHold
<1> QED BY <1>9, <1>10, <1>11, <1>12, <1>13, <1>14 DEF Books, Ledger, TypeOK

\* A timeout, and the registration of the disk.
LEMMA QuietBooks == ASSUME Books, TimePasses \/ Register PROVE Books' /\ Out' = Out
<1>1. TypeOK /\ EngineInv /\ PipeInv /\ Ledger /\ RingsHold
  BY DEF Books, Ledger
<1>2. UNCHANGED <<direct, reqs, outstanding, issued, hpc, rec, ans, then, ifq, submitted,
                  completed, pending, svc, tx, rx, eq, hostWord, cardWord, staging, landed,
                  abandoned>>
  BY DEF TimePasses, Register, cardVars, hostVars, engineVars, dmaVars
<1>3. /\ late' \in BOOLEAN /\ disk' \in {"none", "registering", "ready", "absent"}
      /\ disk' = "none" => disk = "none"
  BY <1>1 DEF TimePasses, Register, TypeOK, CardType, EngineType, cardVars, dmaVars
<1>4. TypeOK'
  BY <1>1, <1>2, <1>3 DEF TypeOK, CardType, HostType, EngineType
<1>5. EngineInv' /\ PipeInv' /\ RingsHold'
  BY <1>1, <1>2, EngineStays, PipeStays DEF RingsHold
<1>6. UNCHANGED <<Out, Places>>
  BY <1>2, QueuesStay
<1>7. Ledger'
  BY <1>1, <1>2, <1>3, <1>6 DEF Ledger, Once, Places, Owned, Depth, PendingCounts, Tagged
<1> QED BY <1>4, <1>5, <1>6, <1>7 DEF Books, Ledger

----------------------------------------------------------------------------
(* The host's steps.                                                       *)

\* What is under way after a step, queue by queue.
LEMMA OutNext ==
  /\ Out' = Stubs(rx') \cup Stubs(ans') \cup Stubs(Piped') \cup Stubs(Held') \cup Stubs(tx')
  /\ Places' = Len(rx') + Len(ans') + Len(Piped') + Len(Held') + Len(tx')
  /\ Holding' => Held' = <<rec'>> /\ Stubs(Held') = {Stub(rec')} /\ Len(Held') = 1
  /\ ~Holding' => Held' = <<>> /\ Stubs(Held') = {} /\ Len(Held') = 0
  /\ Piped' = [i \in 1 .. Len(ifq') |-> ifq'[i].rec]
  /\ ifq' = ifq => Piped' = Piped
<1>1. Out' = Stubs(rx') \cup Stubs(ans') \cup Stubs(Piped') \cup Stubs(Held') \cup Stubs(tx')
  BY DEF Out, Stubs, Stub
<1>2. Places' = Len(rx') + Len(ans') + Len(Piped') + Len(Held') + Len(tx')
  BY DEF Places
<1>3. Piped' = [i \in 1 .. Len(ifq') |-> ifq'[i].rec]
  BY DEF Piped
<1>4. ifq' = ifq => Piped' = Piped
  BY DEF Piped
<1>5. Holding' => Held' = <<rec'>> /\ Stubs(Held') = {Stub(rec')} /\ Len(Held') = 1
  <2> SUFFICES ASSUME Holding' PROVE Held' = <<rec'>> /\ Stubs(Held') = {Stub(rec')} /\ Len(Held') = 1
    OBVIOUS
  <2>1. Held' = <<rec'>>
    BY DEF Held
  <2> QED BY <2>1, StubsOne
<1>6. ~Holding' => Held' = <<>> /\ Stubs(Held') = {} /\ Len(Held') = 0
  BY StubsNone DEF Held
<1> QED BY <1>1, <1>2, <1>3, <1>4, <1>5, <1>6

\* blk_step takes the next record, or finds none.
LEMMA HostPopBooks == ASSUME Books, HostPop PROVE Books' /\ Out' = Out
<1>1. TypeOK /\ EngineInv /\ PipeInv /\ Ledger /\ RingsHold
  BY DEF Books, Ledger
<1>2. /\ hpc = "pop"
      /\ UNCHANGED <<svc, disk, direct, reqs, outstanding, issued, rx, ans, then, ifq, submitted,
                     completed, pending, late, eq, hostWord, cardWord, staging, landed, abandoned>>
  BY DEF HostPop, hostFrame, cardVars, dmaVars, engineVars
<1>3. EngineInv' /\ EngineType'
  BY <1>1, <1>2, EngineStays DEF TypeOK, EngineType
<1>4. /\ ans = <<>> /\ ~Holding /\ Len(ifq) =< MaxInFlight /\ tx \in Seq(Record)
      /\ Len(tx) \in Nat /\ Len(tx) =< TxCap /\ TxCap \in Nat
  BY <1>1, <1>2, Shapes, Caps DEF PipeInv, Holding, TypeOK, CardType
<1>5. Stubs(Held) = {} /\ Len(Held) = 0 /\ Len(rx) \in Nat /\ Len(ans) \in Nat /\ Len(Piped) \in Nat
  BY <1>1, <1>4, Shapes
<1>6. UNCHANGED <<Piped>> /\ \A r : (Pipelined(r))' <=> Pipelined(r)
  BY <1>2 DEF Piped, Pipelined, OnEngine
<1>7. CASE tx = <<>>
  <2>1. hpc' = "poll" /\ UNCHANGED <<tx, rec>>
    BY <1>7 DEF HostPop
  <2>2. TypeOK'
    BY <1>1, <1>2, <1>3, <2>1 DEF TypeOK, CardType, HostType
  <2>3. ~Holding'
    BY <2>1 DEF Holding
  <2>4. PipeInv' /\ RingsHold'
    BY <1>1, <1>2, <1>4, <1>6, <2>1, <2>3 DEF PipeInv, RingsHold
  <2>5. Out' = Out /\ Places' = Places
    BY <1>2, <1>5, <1>6, <2>1, <2>3, OutNext DEF Out, Places
  <2>6. Ledger'
    BY <1>1, <1>2, <2>5, LedgerKept
  <2> QED BY <1>3, <2>2, <2>4, <2>5, <2>6 DEF Books, Ledger
<1>8. CASE tx # <<>>
  <2>1. tx' = Tail(tx) /\ rec' = Head(tx) /\ hpc' = Route(Head(tx))
    BY <1>8 DEF HostPop
  <2>2. /\ Stubs(tx) = {Stub(rec')} \cup Stubs(tx') /\ rec' \in Record /\ tx' \in Seq(Record)
        /\ Len(tx') = Len(tx) - 1 /\ Len(tx) \in Nat \ {0}
    BY <1>4, <1>8, <2>1, StubsTail
  <2>3. hpc' = IF Pipelined(rec') THEN "submit" ELSE IF ifq = <<>> THEN "serve" ELSE "drain"
    BY <2>1 DEF Route
  <2>4. Len(tx') =< TxCap
    BY <1>4, <2>2
  <2>5. TypeOK'
    BY <1>1, <1>2, <1>3, <2>2, <2>3, <2>4 DEF TypeOK, CardType, HostType
  <2>6. Holding'
    BY <2>3 DEF Holding
  <2>7. PipeInv' /\ RingsHold'
    <3>1. \A i \in 1 .. Len(ifq') : ifq'[i].seq = submitted' - Len(ifq') + i /\ (Pipelined(ifq[i].rec))'
      BY <1>1, <1>2, <1>6 DEF PipeInv
    <3>2. Len(ifq') =< MaxInFlight /\ ans' = <<>>
      BY <1>2, <1>4
    <3>3. /\ hpc' # "submit" => ~(Pipelined(rec))'
          /\ hpc' \in {"submit", "wait"} => OnEngine' /\ rec'.op \in Data
          /\ hpc' = "drain" => ifq' # <<>>
      <4>1. (Pipelined(rec))' <=> Pipelined(rec')
        BY <1>2 DEF Pipelined, OnEngine
      <4> QED BY <1>2, <2>3, <4>1 DEF Pipelined, OnEngine
    <3>4. PipeInv'
      BY <3>1, <3>2, <3>3 DEF PipeInv
    <3> QED BY <1>1, <1>2, <3>4 DEF RingsHold
  <2>8. Out' = Out
    BY <1>2, <1>5, <1>6, <2>2, <2>6, OutNext DEF Out
  <2>9. Places' = Places
    <3>1. Len(Held') = 1 /\ Len(tx') = Len(tx) - 1
      BY <2>2, <2>6, OutNext
    <3>2. Places' = Len(rx) + Len(ans) + Len(Piped) + 1 + (Len(tx) - 1)
      BY <1>2, <1>6, <3>1, OutNext
    <3> QED BY <1>4, <1>5, <3>2 DEF Places
  <2>10. Ledger'
    BY <1>1, <1>2, <2>8, <2>9, LedgerKept
  <2> QED BY <1>3, <2>5, <2>7, <2>8, <2>10 DEF Books, Ledger
<1> QED BY <1>7, <1>8

\* complete waits for room, and gives the oldest answer.
LEMMA HostAnswerBooks == ASSUME Books, HostAnswer PROVE Books' /\ Out' = Out
<1>1. TypeOK /\ EngineInv /\ PipeInv /\ Ledger /\ RingsHold
  BY DEF Books, Ledger
<1>2. /\ hpc = "answer"
      /\ UNCHANGED <<svc, disk, direct, reqs, outstanding, issued, tx, rec, then, ifq, submitted,
                     completed, pending, late, eq, hostWord, cardWord, staging, landed, abandoned>>
  BY DEF HostAnswer, cardVars, dmaVars, engineVars
<1>3. EngineInv' /\ EngineType'
  BY <1>1, <1>2, EngineStays DEF TypeOK, EngineType
<1>4. /\ Len(ifq) =< MaxInFlight /\ rx \in Seq(Reply) /\ ans \in Seq(Reply)
      /\ Len(rx) \in Nat /\ Len(ans) \in Nat /\ Len(rx) =< RxCap /\ RxCap \in Nat
      /\ Len(Piped) \in Nat /\ Len(Held) \in Nat /\ Len(tx) \in Nat
  BY <1>1, <1>2, Shapes, Caps DEF PipeInv, TypeOK, CardType
<1>5. UNCHANGED <<Piped, OnEngine>> /\ \A r : (Pipelined(r))' <=> Pipelined(r)
  BY <1>2 DEF Piped, Pipelined, OnEngine
<1>6. CASE ans = <<>>
  <2>1. hpc' = then /\ UNCHANGED <<ans, rx>> /\ then \in {"poll", "pop", "serve"}
    BY <1>1, <1>6 DEF HostAnswer, TypeOK, HostType
  <2>2. TypeOK'
    BY <1>1, <1>2, <1>3, <2>1 DEF TypeOK, CardType, HostType
  <2>3. Holding' = Holding
    BY <1>2, <2>1 DEF Holding
  <2>4. Held' = Held
    BY <1>2, <2>3 DEF Held
  <2>5. PipeInv' /\ RingsHold'
    BY <1>1, <1>2, <1>4, <1>5, <1>6, <2>1, <2>3 DEF PipeInv, RingsHold, Holding, Pipelined, OnEngine
  <2>6. Out' = Out /\ Places' = Places
    BY <1>2, <1>5, <2>1, <2>4, OutNext DEF Out, Places
  <2>7. Ledger'
    BY <1>1, <1>2, <2>6, LedgerKept
  <2> QED BY <1>3, <2>2, <2>5, <2>6, <2>7 DEF Books, Ledger
<1>7. CASE ans # <<>>
  <2>1. rx' = Append(rx, Head(ans)) /\ ans' = Tail(ans) /\ hpc' = hpc /\ Len(rx) < RxCap
    BY <1>7 DEF HostAnswer
  <2>2. /\ Stubs(ans) = {Stub(Head(ans))} \cup Stubs(ans') /\ Head(ans) \in Reply
        /\ ans' \in Seq(Reply) /\ Len(ans') = Len(ans) - 1
    BY <1>4, <1>7, <2>1, StubsTail
  <2>3. Stubs(rx') = Stubs(rx) \cup {Stub(Head(ans))} /\ rx' \in Seq(Reply) /\ Len(rx') = Len(rx) + 1
    BY <1>4, <2>1, <2>2, StubsAppend
  <2>4. Len(rx') =< RxCap
    BY <1>4, <2>1, <2>3
  <2>5. TypeOK'
    BY <1>1, <1>2, <1>3, <2>1, <2>2, <2>3, <2>4 DEF TypeOK, CardType, HostType
  <2>6. Holding' = Holding
    BY <1>2, <2>1 DEF Holding
  <2>7. Held' = Held
    BY <1>2, <2>6 DEF Held
  <2>8. PipeInv' /\ RingsHold'
    BY <1>1, <1>2, <1>4, <1>5, <2>1, <2>6 DEF PipeInv, RingsHold, Pipelined, OnEngine
  <2>9. Out' = Out
    BY <1>2, <1>5, <2>2, <2>3, <2>7, OutNext DEF Out
  <2>10. Places' = Places
    <3>1. Places' = (Len(rx) + 1) + (Len(ans) - 1) + Len(Piped) + Len(Held) + Len(tx)
      BY <1>2, <1>5, <2>2, <2>3, <2>7, OutNext
    <3> QED BY <1>4, <3>1 DEF Places
  <2>11. Ledger'
    BY <1>1, <1>2, <2>9, <2>10, LedgerKept
  <2> QED BY <1>3, <2>5, <2>8, <2>9, <2>11 DEF Books, Ledger
<1> QED BY <1>6, <1>7

\* The record in hand is answered.
LEMMA GivesAnswer ==
  ASSUME TypeOK, PipeInv, Ledger, Holding, hpc # "answer", NEW st \in {0, 5, 22}, AnswerThis(st),
         Len(ifq) =< MaxInFlight,
         UNCHANGED <<svc, disk, direct, reqs, outstanding, issued, tx, rx, rec, ifq, submitted>>
  PROVE  CardType' /\ HostType' /\ PipeInv' /\ Ledger' /\ Out' = Out
<1>1. /\ ans' \in Seq(Reply) /\ Len(ans') = 1 /\ Stubs(ans') = {Stub(rec)}
      /\ hpc' = "answer" /\ then' = "poll" /\ ~Holding'
  BY AnswersThis DEF TypeOK
<1>2. CardType' /\ HostType'
  BY <1>1 DEF TypeOK, CardType, HostType
<1>3. PipeInv'
  BY <1>1 DEF PipeInv, Pipelined, OnEngine
<1>4. ans = <<>> /\ Stubs(Held) = {Stub(rec)} /\ Len(Held) = 1
      /\ Len(rx) \in Nat /\ Len(Piped) \in Nat /\ Len(tx) \in Nat
  BY Shapes DEF PipeInv
<1>5. Out' = Out
  <2>1. Stubs(ans) = {}
    BY <1>4, StubsNone
  <2> QED BY <1>1, <1>4, <2>1, OutNext DEF Out
<1>6. Places' = Places
  <2>1. Places' = Len(rx) + 1 + Len(Piped) + 0 + Len(tx)
    BY <1>1, OutNext
  <2>2. Len(ans) = 0
    BY <1>4
  <2> QED BY <1>4, <2>1, <2>2 DEF Places
<1>7. Ledger'
  BY <1>5, <1>6, LedgerKept
<1> QED BY <1>2, <1>3, <1>5, <1>7

\* The oldest k records of the pipeline are answered.
LEMMA GivesAnswers ==
  ASSUME TypeOK, PipeInv, Ledger, ans = <<>>, NEW k \in 0 .. Len(ifq), NEW st \in {0, 5},
         NEW next \in {"pop", "serve"}, Answer(SubSeq(ifq, 1, k), st, next),
         ifq' = SubSeq(ifq, k + 1, Len(ifq)), Holding' <=> Holding,
         UNCHANGED <<svc, disk, direct, reqs, outstanding, issued, tx, rx, rec, submitted>>
  PROVE  /\ CardType' /\ HostType' /\ Ledger' /\ Out' = Out /\ hpc' = "answer" /\ then' = next
         /\ Len(ifq') = Len(ifq) - k /\ Len(ans') = k
         /\ \A i \in 1 .. k : ans'[i] = Completion(ifq[i].rec, st)
         /\ \A i \in 1 .. Len(ifq') : k + i \in 1 .. Len(ifq) /\ ifq'[i] = ifq[k + i]
         /\ \A i \in 1 .. Len(ifq') : /\ ifq'[i].seq = submitted' - Len(ifq') + i
                                      /\ Pipelined(ifq'[i].rec)
<1> DEFINE I == [rec : Record, seq : Nat]
           n == Len(ifq)
           list == SubSeq(ifq, 1, k)
<1>1. /\ ifq \in Seq(I) /\ n \in Nat /\ k \in Nat /\ k =< n /\ submitted \in Nat
      /\ Piped \in Seq(Record) /\ Len(Piped) = n /\ \A i \in 1 .. n : Piped[i] = ifq[i].rec
      /\ Len(rx) \in Nat /\ Len(tx) \in Nat /\ Len(Held) \in Nat
  BY Shapes DEF TypeOK, HostType, EngineType
<1>2. /\ list \in Seq(I) /\ Len(list) = k /\ ifq' \in Seq(I) /\ Len(ifq') = n - k
      /\ \A i \in 1 .. k : list[i] = ifq[i]
      /\ \A i \in 1 .. n - k : ifq'[i] = ifq[k + i]
  <2>1. ifq \in Seq(I)
    BY <1>1
  <2> HIDE DEF I
  <2> QED BY <2>1, StubsSplit
<1> HIDE DEF list
<1>3. \A i \in 1 .. k : i \in 1 .. n /\ list[i].rec \in Record
  <2>1. \A i \in 1 .. k : i \in 1 .. n
    BY <1>1
  <2>2. \A i \in 1 .. k : list[i] \in I
    BY <1>2, ElementOfSeq
  <2> QED BY <2>1, <2>2
<1>4. /\ ans' \in Seq(Reply) /\ Len(ans') = k /\ hpc' = "answer" /\ then' = next
      /\ \A i \in 1 .. k : ans'[i] = Completion(list[i].rec, st)
      /\ \A i \in 1 .. k : Stub(ans'[i]) = Stub(list[i].rec)
  <2>1. Len(list) \in Nat /\ Answer(list, st, next)
    BY <1>1, <1>2 DEF list
  <2> QED BY <1>2, <1>3, <2>1, AnswersOf DEF TypeOK
<1>5. CardType' /\ HostType'
  BY <1>2, <1>4 DEF TypeOK, CardType, HostType
<1> DEFINE front == SubSeq(Piped, 1, k)
           back == SubSeq(Piped, k + 1, n)
<1>6. /\ Stubs(Piped) = Stubs(front) \cup Stubs(back) /\ Len(front) = k /\ Len(back) = n - k
      /\ \A i \in 1 .. k : front[i] = Piped[i]
      /\ \A i \in 1 .. n - k : back[i] = Piped[k + i]
  <2>1. Piped \in Seq(Record) /\ Len(Piped) = n /\ k \in 0 .. n
    BY <1>1
  <2> HIDE DEF n
  <2> QED BY <2>1, StubsSplit
<1>7. \A i \in 1 .. n - k : k + i \in 1 .. n /\ back[i] = Piped[k + i]
  <2>1. \A i \in 1 .. n - k : k + i \in 1 .. n
    <3>1. n \in Nat /\ k \in 0 .. n
      BY <1>1
    <3> HIDE DEF n, front, back
    <3> QED BY <3>1
  <2> QED BY <1>6, <2>1
<1> HIDE DEF front, back
<1>8. Stubs(ans') = Stubs(front)
  <2>1. \A i \in 1 .. k : Stub(ans'[i]) = Stub(front[i])
    <3>1. \A i \in 1 .. k : front[i] = list[i].rec
      BY <1>1, <1>2, <1>3, <1>6
    <3> QED BY <1>4, <3>1
  <2> QED BY <1>4, <1>6, <2>1, StubsSame
<1>9. Piped' = back /\ Len(Piped') = n - k
  <2>1. Piped' = [i \in 1 .. n - k |-> ifq'[i].rec]
    BY <1>2, OutNext
  <2>2. Len(Piped') = n - k
    BY <1>1, <2>1
  <2>3. back = [i \in 1 .. n - k |-> Piped[k + i]]
    BY <1>1 DEF back
  <2>4. \A i \in 1 .. n - k : ifq'[i].rec = Piped[k + i]
    BY <1>1, <1>2, <1>7
  <2> QED BY <2>1, <2>2, <2>3, <2>4
<1>10. Held' = Held
  BY DEF Held
<1>11. Out' = Out
  <2>1. Stubs(ans) = {}
    BY StubsNone
  <2> QED BY <1>6, <1>8, <1>9, <1>10, <2>1, OutNext DEF Out
<1>12. Places' = Places
  <2>1. Places' = Len(rx) + k + (n - k) + Len(Held) + Len(tx)
    BY <1>4, <1>9, <1>10, OutNext
  <2>2. Places = Len(rx) + 0 + n + Len(Held) + Len(tx)
    BY <1>1 DEF Places
  <2> QED BY <1>1, <2>1, <2>2
<1>13. Ledger'
  BY <1>11, <1>12, LedgerKept
<1>14. \A i \in 1 .. n - k : ifq'[i].seq = submitted - (n - k) + i /\ Pipelined(ifq'[i].rec)
  <2>1. \A i \in 1 .. n - k : submitted - n + (k + i) = submitted - (n - k) + i
    <3>1. n \in Nat /\ k \in Nat /\ submitted \in Nat
      BY <1>1
    <3> HIDE DEF n
    <3> QED BY <3>1
  <2>2. \A i \in 1 .. n - k : ifq[k + i].seq = submitted - n + (k + i) /\ Pipelined(ifq[k + i].rec)
    BY <1>7 DEF PipeInv
  <2> QED BY <1>2, <2>1, <2>2
<1> QED BY <1>2, <1>3, <1>4, <1>5, <1>7, <1>11, <1>13, <1>14

\* complete_done stops at the first record that is not done, and there all
\* that are done are behind it.
LEMMA FinishedFacts ==
  ASSUME TypeOK, PipeInv, NEW seq \in Int
  PROVE  /\ Finished(seq) \in 0 .. Len(ifq)
         /\ \A i \in 1 .. Finished(seq) : ifq[i].seq =< seq
         /\ Finished(seq) # Len(ifq) => submitted - Len(ifq) + (Finished(seq) + 1) > seq
<1> DEFINE n == Len(ifq)
           base == submitted - n
           counts == {m \in 0 .. n : \A i \in 1 .. m : ifq[i].seq =< seq}
           k == IF seq =< base THEN 0 ELSE IF seq >= submitted THEN n ELSE seq - base
<1>1. n \in Nat /\ submitted \in Nat
  BY Shapes DEF TypeOK, EngineType
<1>2. \A i \in 1 .. n : ifq[i].seq = base + i
  BY DEF PipeInv
<1> HIDE DEF n
<1>3. k \in 0 .. n /\ \A i \in 1 .. k : i \in 1 .. n /\ base + i =< seq
  BY <1>1
<1>4. k # n => base + (k + 1) > seq
  BY <1>1
<1>5. \A m \in 0 .. n : m > k => k + 1 \in 1 .. m /\ k + 1 \in 1 .. n /\ base + (k + 1) > seq
  BY <1>1
<1> HIDE DEF k
<1>6. k \in counts
  BY <1>2, <1>3
<1>7. \A m \in counts : m =< k
  <2> SUFFICES ASSUME NEW m \in 0 .. n, \A i \in 1 .. m : ifq[i].seq =< seq, m > k PROVE FALSE
    BY <1>1, <1>3
  <2>1. k + 1 \in 1 .. m /\ k + 1 \in 1 .. n /\ base + (k + 1) > seq
    BY <1>5
  <2>2. ifq[k + 1].seq = base + (k + 1) /\ ifq[k + 1].seq =< seq
    BY <1>2, <2>1
  <2>3. base + (k + 1) \in Int
    BY <1>1, <1>3
  <2> HIDE DEF base
  <2> QED BY <2>1, <2>2, <2>3
<1>8. Finished(seq) = CHOOSE m \in counts : \A j \in counts : j =< m
  BY DEF Finished, n
<1>9. counts \subseteq Int
  OBVIOUS
<1> DEFINE f == Finished(seq)
<1>10. f \in counts /\ \A j \in counts : j =< f
  <2> HIDE DEF counts
  <2> QED BY <1>6, <1>7, <1>8
<1>11. f = k
  <2> HIDE DEF counts, f
  <2>1. k =< f /\ f =< k /\ f \in Int /\ k \in Int
    BY <1>6, <1>7, <1>9, <1>10
  <2> QED BY <2>1
<1> HIDE DEF f
<1>12. \A i \in 1 .. k : ifq[i].seq =< seq
  BY <1>2, <1>3
<1> QED BY <1>3, <1>4, <1>11, <1>12 DEF f, n

\* The whole pipeline is its oldest Len(ifq) records.
LEMMA AllOfIt ==
  ASSUME TypeOK
  PROVE  /\ SubSeq(ifq, 1, Len(ifq)) = ifq /\ SubSeq(ifq, Len(ifq) + 1, Len(ifq)) = <<>>
         /\ Len(ifq) \in 0 .. Len(ifq)
<1>1. ifq \in Seq([rec : Record, seq : Nat]) /\ Len(ifq) \in Nat
  BY Shapes DEF TypeOK, HostType
<1>2. SubSeq(ifq, 1, Len(ifq)) = ifq
  BY <1>1, SubSeqFull
<1>3. Len(ifq) \in 0 .. Len(ifq)
  BY <1>1
<1>4. /\ SubSeq(ifq, Len(ifq) + 1, Len(ifq)) \in Seq([rec : Record, seq : Nat])
      /\ Len(SubSeq(ifq, Len(ifq) + 1, Len(ifq))) = Len(ifq) - Len(ifq)
  BY <1>1, <1>3, StubsSplit
<1>5. Len(ifq) - Len(ifq) = 0
  BY <1>1
<1> QED BY <1>2, <1>3, <1>4, <1>5, EmptySeq

\* Only host memory over the engine has a pipeline.
LEMMA PipeNeedsEngine ==
  ASSUME TypeOK, PipeInv, ifq # <<>>
  PROVE  /\ OnEngine /\ svc.backend = "ram" /\ Len(ifq) \in Nat \ {0}
         /\ ifq[Len(ifq)].seq = submitted
<1>1. ifq \in Seq([rec : Record, seq : Nat]) /\ Len(ifq) \in Nat /\ submitted \in Nat
  BY Shapes DEF TypeOK, HostType, EngineType
<1>2. Len(ifq) \in Nat \ {0}
  BY <1>1, EmptySeq
<1>3. 1 \in 1 .. Len(ifq) /\ Len(ifq) \in 1 .. Len(ifq)
  BY <1>2
<1>4. Pipelined(ifq[1].rec) /\ ifq[Len(ifq)].seq = submitted - Len(ifq) + Len(ifq)
  BY <1>3 DEF PipeInv
<1>5. submitted - Len(ifq) + Len(ifq) = submitted
  BY <1>1
<1> QED BY <1>2, <1>4, <1>5 DEF Pipelined

\* blk_step first answers what the engine has finished.
LEMMA HostPollBooks == ASSUME Books, HostPoll PROVE Books' /\ Out' = Out
<1>1. TypeOK /\ EngineInv /\ PipeInv /\ Ledger /\ RingsHold
  BY DEF Books, Ledger
<1>2. /\ hpc = "poll" /\ ans = <<>> /\ ~Holding
      /\ UNCHANGED <<svc, disk, direct, reqs, outstanding, issued, tx, rx, rec, eq, hostWord,
                     cardWord, staging, landed, abandoned>>
  BY <1>1 DEF HostPoll, hostFrame, cardVars, engineVars, PipeInv, Holding
<1>3. /\ Len(ifq) \in Nat /\ MaxInFlight \in Nat /\ submitted \in Nat /\ completed \in Nat
      /\ Len(eq) =< MaxInFlight /\ Len(ifq) =< MaxInFlight + 1
      /\ staging \subseteq Record /\ landed \subseteq Record /\ abandoned \in BOOLEAN
      /\ hostWord \in Nat /\ cardWord \in Nat /\ pending \in Nat /\ late \in BOOLEAN
      /\ eq \in Seq([rec : Record, seq : Nat, copied : BOOLEAN])
  BY <1>1, Shapes, Caps DEF TypeOK, EngineType, RingsHold
<1>4. CASE (~OnEngine \/ ifq = <<>>) /\ hpc' = "pop" /\ UNCHANGED <<ans, then, ifq, dmaVars>>
  <2>1. UNCHANGED <<ans, then, ifq, submitted, completed, pending, late>> /\ hpc' = "pop"
    BY <1>4 DEF dmaVars
  <2>2. ifq = <<>>
    BY <1>1, <1>4, PipeNeedsEngine
  <2>3. Len(ifq) = 0
    BY <2>2
  <2>4. ~Holding'
    BY <2>1 DEF Holding
  <2>5. TypeOK'
    BY <1>1, <1>2, <2>1 DEF TypeOK, CardType, HostType, EngineType
  <2>6. EngineInv'
    BY <1>1, <1>2, <2>1, EngineStays
  <2>7. PipeInv'
    BY <1>2, <1>3, <2>1, <2>3, <2>4 DEF PipeInv
  <2>8. Held' = Held /\ Piped' = Piped
    BY <1>2, <2>1, <2>4 DEF Held, Piped
  <2>9. Out' = Out /\ Places' = Places
    BY <1>2, <2>1, <2>8, OutNext DEF Out, Places
  <2>10. Ledger'
    BY <1>1, <1>2, <2>9, LedgerKept
  <2>11. RingsHold'
    BY <1>1, <1>2, <2>1 DEF RingsHold
  <2> QED BY <2>5, <2>6, <2>7, <2>9, <2>10, <2>11 DEF Books, Ledger
<1>5. CASE /\ PollUpdate /\ Answer(Done(completed'), 0, "pop") /\ ifq' = NotDone(completed')
  <2>1. /\ EngineInv' /\ submitted' = submitted /\ completed' \in Nat /\ pending' \in Nat
        /\ late' \in BOOLEAN
    BY <1>1, <1>2, <1>5, PollKeeps DEF engineVars
  <2> DEFINE k == Finished(completed')
  <2>2. /\ k \in 0 .. Len(ifq)
        /\ k # Len(ifq) => submitted - Len(ifq) + (k + 1) > completed'
    BY <1>1, <2>1, FinishedFacts
  <2>3. Answer(SubSeq(ifq, 1, k), 0, "pop") /\ ifq' = SubSeq(ifq, k + 1, Len(ifq))
    BY <1>5 DEF Done, NotDone
  <2>4. ~Holding'
    BY <1>5 DEF Holding, Answer
  <2> HIDE DEF k
  <2>5. /\ CardType' /\ HostType' /\ Ledger' /\ Out' = Out /\ hpc' = "answer" /\ then' = "pop"
        /\ Len(ifq') = Len(ifq) - k
        /\ \A i \in 1 .. Len(ifq') : /\ ifq'[i].seq = submitted' - Len(ifq') + i
                                     /\ Pipelined(ifq'[i].rec)
    BY <1>1, <1>2, <2>1, <2>2, <2>3, <2>4, GivesAnswers
  <2>6. Len(ifq') =< MaxInFlight
    <3>1. submitted - completed' =< MaxInFlight
      BY <2>1 DEF EngineInv, InFlight
    <3>2. CASE k = Len(ifq)
      BY <1>3, <2>5, <3>2
    <3>3. CASE k # Len(ifq)
      <4>1. submitted - Len(ifq) + (k + 1) > completed' /\ Len(ifq') = Len(ifq) - k
        BY <2>2, <2>5, <3>3
      <4>2. k \in Nat /\ Len(ifq) \in Nat /\ submitted \in Nat /\ completed' \in Nat /\ MaxInFlight \in Nat
        BY <1>3, <2>1, <2>2
      <4>3. \A a, b, c, d, m \in Nat : a - b + (d + 1) > c /\ a - c =< m => b - d =< m
        OBVIOUS
      <4>4. Len(ifq) - k =< MaxInFlight
        BY <3>1, <4>1, <4>2, <4>3
      <4> QED BY <4>1, <4>4
    <3> QED BY <3>2, <3>3
  <2>7. PipeInv'
    BY <1>2, <2>4, <2>5, <2>6 DEF PipeInv, Pipelined, OnEngine
  <2>8. EngineType'
    BY <1>2, <1>3, <2>1 DEF EngineType
  <2>9. RingsHold'
    <3>1. Len(ifq') \in Nat
      BY <1>3, <2>2, <2>5
    <3>2. Len(ifq') =< MaxInFlight + 1
      BY <1>3, <2>6, <3>1
    <3> QED BY <1>2, <1>3, <3>2 DEF RingsHold
  <2> QED BY <2>1, <2>5, <2>7, <2>8, <2>9 DEF Books, Ledger, TypeOK
<1>6. CASE Answer(ifq, 5, "pop") /\ ifq' = <<>> /\ UNCHANGED dmaVars
  <2>1. UNCHANGED <<submitted, completed, pending, late>> /\ ~Holding'
    BY <1>6 DEF dmaVars, Holding, Answer
  <2> DEFINE k == Len(ifq)
  <2>2. k \in 0 .. Len(ifq) /\ Answer(SubSeq(ifq, 1, k), 5, "pop") /\ ifq' = SubSeq(ifq, k + 1, Len(ifq))
    BY <1>1, <1>6, AllOfIt
  <2> HIDE DEF k
  <2>3. /\ CardType' /\ HostType' /\ Ledger' /\ Out' = Out /\ hpc' = "answer" /\ then' = "pop"
    BY <1>1, <1>2, <2>1, <2>2, GivesAnswers
  <2>4. Len(ifq') = 0
    BY <1>6
  <2>5. PipeInv'
    BY <1>3, <2>1, <2>3, <2>4 DEF PipeInv
  <2>6. EngineType' /\ EngineInv'
    BY <1>1, <1>2, <1>3, <2>1, EngineStays DEF EngineType
  <2>7. RingsHold'
    BY <1>2, <1>3, <2>4 DEF RingsHold
  <2> QED BY <2>3, <2>5, <2>6, <2>7 DEF Books, Ledger, TypeOK
<1> QED BY <1>4, <1>5, <1>6 DEF HostPoll


\* What the steps of the record in hand have in common.
LEMMA HoldingFacts ==
  ASSUME Books, hpc \in {"submit", "drain", "serve", "wait"}
  PROVE  /\ TypeOK /\ EngineInv /\ PipeInv /\ Ledger /\ RingsHold /\ Holding /\ ans = <<>>
         /\ Len(ifq) \in Nat /\ MaxInFlight \in Nat /\ submitted \in Nat /\ completed \in Nat
         /\ Len(eq) =< MaxInFlight /\ Len(ifq) =< MaxInFlight
         /\ staging \subseteq Record /\ landed \subseteq Record /\ abandoned \in BOOLEAN
         /\ hostWord \in Nat /\ cardWord \in Nat /\ pending \in Nat /\ late \in BOOLEAN
         /\ eq \in Seq([rec : Record, seq : Nat, copied : BOOLEAN]) /\ rec \in Record
         /\ hpc # "submit" => ~Pipelined(rec)
         /\ hpc \in {"submit", "wait"} => OnEngine /\ rec.op \in Data
         /\ hpc = "drain" => ifq # <<>>
         /\ InPlace \/ (rec.op \in Data /\ ~Pipelined(rec) /\ OnEngine) => ifq = <<>>
<1>1. TypeOK /\ EngineInv /\ PipeInv /\ Ledger /\ RingsHold /\ Holding
  BY DEF Books, Ledger, Holding
<1>2. /\ ans = <<>> /\ Len(ifq) =< MaxInFlight
      /\ hpc # "submit" => ~Pipelined(rec)
      /\ hpc \in {"submit", "wait"} => OnEngine /\ rec.op \in Data
      /\ hpc = "drain" => ifq # <<>>
  BY <1>1 DEF PipeInv
<1>3. InPlace \/ (rec.op \in Data /\ ~Pipelined(rec) /\ OnEngine) => ifq = <<>>
  BY <1>1, PipeNeedsEngine DEF InPlace, Pipelined
<1> QED BY <1>1, <1>2, <1>3, Shapes, Caps DEF TypeOK, HostType, EngineType, RingsHold

\* The record in hand is answered, and nothing else changes but the counters
\* and where data is.
LEMMA AnswerBooks ==
  ASSUME Books, hpc \in {"submit", "serve", "wait"}, NEW st \in {0, 5, 22}, AnswerThis(st),
         UNCHANGED <<svc, disk, direct, reqs, outstanding, issued, tx, rx, rec, ifq, eq,
                     hostWord, cardWord>>,
         PollUpdate \/ UNCHANGED <<submitted, completed, pending, late>>,
         staging' \subseteq Record, landed' \subseteq Record, abandoned' \in BOOLEAN
  PROVE  Books' /\ Out' = Out
<1>1. /\ TypeOK /\ EngineInv /\ PipeInv /\ Ledger /\ RingsHold /\ Holding
      /\ Len(ifq) =< MaxInFlight /\ submitted \in Nat /\ completed \in Nat /\ pending \in Nat
      /\ late \in BOOLEAN /\ hostWord \in Nat /\ cardWord \in Nat
      /\ eq \in Seq([rec : Record, seq : Nat, copied : BOOLEAN])
  BY HoldingFacts
<1>2. /\ EngineInv' /\ submitted' = submitted /\ completed' \in Nat /\ pending' \in Nat
      /\ late' \in BOOLEAN
  <2>1. CASE PollUpdate
    BY <1>1, <2>1, PollKeeps DEF engineVars
  <2>2. CASE UNCHANGED <<submitted, completed, pending, late>>
    BY <1>1, <2>2, EngineStays
  <2> QED BY <2>1, <2>2
<1>3. EngineType'
  BY <1>1, <1>2 DEF EngineType
<1>4. CardType' /\ HostType' /\ PipeInv' /\ Ledger' /\ Out' = Out
  BY <1>1, <1>2, GivesAnswer
<1>5. RingsHold'
  BY <1>1 DEF RingsHold
<1> QED BY <1>2, <1>3, <1>4, <1>5 DEF Books, Ledger, TypeOK

\* The record in hand stays there, and only the counters and the place of
\* data may change.
LEMMA StayBooks ==
  ASSUME Books, hpc \in {"submit", "drain", "serve", "wait"},
         UNCHANGED <<svc, disk, direct, reqs, outstanding, issued, tx, rx, rec, ans, then, ifq, eq,
                     hostWord, cardWord>>,
         hpc' = hpc \/ (hpc = "serve" /\ hpc' = "submit" /\ OnEngine /\ rec.op \in Data),
         PollUpdate \/ UNCHANGED <<submitted, completed, pending, late>>,
         staging' \subseteq Record, landed' \subseteq Record, abandoned' \in BOOLEAN
  PROVE  Books' /\ Out' = Out
<1>1. /\ TypeOK /\ EngineInv /\ PipeInv /\ Ledger /\ RingsHold /\ Holding
      /\ Len(ifq) =< MaxInFlight /\ submitted \in Nat /\ completed \in Nat /\ pending \in Nat
      /\ late \in BOOLEAN /\ hostWord \in Nat /\ cardWord \in Nat /\ ans = <<>>
      /\ eq \in Seq([rec : Record, seq : Nat, copied : BOOLEAN])
  BY HoldingFacts
<1>2. /\ EngineInv' /\ submitted' = submitted /\ completed' \in Nat /\ pending' \in Nat
      /\ late' \in BOOLEAN
  <2>1. CASE PollUpdate
    BY <1>1, <2>1, PollKeeps DEF engineVars
  <2>2. CASE UNCHANGED <<submitted, completed, pending, late>>
    BY <1>1, <2>2, EngineStays
  <2> QED BY <2>1, <2>2
<1>3. EngineType'
  BY <1>1, <1>2 DEF EngineType
<1>4. hpc' \in {"submit", "drain", "serve", "wait"} /\ Holding'
  BY DEF Holding
<1>5. CardType' /\ HostType'
  BY <1>1, <1>4 DEF TypeOK, CardType, HostType
<1>6. Held' = Held /\ Piped' = Piped
  BY <1>1, <1>4 DEF Held, Piped
<1>7. Out' = Out /\ Places' = Places
  BY <1>6, OutNext DEF Out, Places
<1>8. Ledger'
  BY <1>1, <1>7, LedgerKept
<1>9. PipeInv'
  <2>1. \A r : (Pipelined(r))' <=> Pipelined(r)
    BY DEF Pipelined, OnEngine
  <2>2. /\ hpc' # "submit" => ~(Pipelined(rec))'
        /\ hpc' \in {"submit", "wait"} => OnEngine' /\ rec'.op \in Data
        /\ hpc' = "drain" => ifq' # <<>>
    <3>1. (Pipelined(rec))' <=> Pipelined(rec)
      BY DEF Pipelined, OnEngine
    <3>2. OnEngine' <=> OnEngine
      BY DEF OnEngine
    <3> QED BY <1>1, <3>1, <3>2, HoldingFacts
  <2>3. \A i \in 1 .. Len(ifq') : ifq'[i].seq = submitted' - Len(ifq') + i /\ (Pipelined(ifq[i].rec))'
    BY <1>1, <1>2, <2>1 DEF PipeInv
  <2> QED BY <1>1, <2>2, <2>3 DEF PipeInv
<1>10. RingsHold'
  BY <1>1 DEF RingsHold
<1> QED BY <1>2, <1>3, <1>5, <1>7, <1>8, <1>9, <1>10 DEF Books, Ledger, TypeOK


\* serve_one.
LEMMA HostServeBooks == ASSUME Books, HostServe PROVE Books' /\ Out' = Out
<1>1. /\ hpc = "serve"
      /\ UNCHANGED <<svc, disk, direct, reqs, outstanding, issued, tx, rx, rec, ifq, submitted,
                     completed, pending, late, eq, hostWord, cardWord, abandoned>>
  BY DEF HostServe, cardVars, dmaVars, engineVars
<1>2. rec \in Record /\ staging \subseteq Record /\ landed \subseteq Record /\ abandoned \in BOOLEAN
  BY <1>1, HoldingFacts
<1>3. CASE (\E st \in {0, 5, 22} : AnswerThis(st)) /\ staging' \subseteq Record /\ landed' \subseteq Record
  BY <1>1, <1>2, <1>3, AnswerBooks
<1>4. CASE /\ hpc' = "submit" /\ OnEngine /\ rec.op \in Data /\ UNCHANGED <<ans, then>>
           /\ staging' \subseteq Record /\ landed' \subseteq Record
  BY <1>1, <1>2, <1>4, StayBooks
<1>5. CASE \/ rec.op = "ident" /\ AnswerThis(0) /\ UNCHANGED <<staging, landed>>
           \/ /\ rec.op = "flush"
              /\ \E st \in {0, 5} : (st = 5 => svc.backend = "file") /\ AnswerThis(st)
              /\ UNCHANGED <<staging, landed>>
           \/ rec.op \in Data /\ ~Valid(rec) /\ AnswerThis(22) /\ UNCHANGED <<staging, landed>>
  BY <1>2, <1>3, <1>5
<1>6. CASE /\ \/ AnswerThis(0) /\ landed' = landed \cup {rec}
              \/ svc.backend = "file" /\ AnswerThis(5) /\ landed' = landed
           /\ staging' = staging
  BY <1>2, <1>3, <1>6
<1>7. CASE /\ rec.op \in Data /\ Valid(rec) /\ OnEngine
           /\ \/ /\ hpc' = "submit"
                 /\ staging' = IF rec.op = "read" THEN {rec} ELSE staging
                 /\ UNCHANGED <<ans, then>>
              \/ rec.op = "read" /\ AnswerThis(5) /\ staging' \in {staging, {}}
           /\ landed' = landed
  BY <1>2, <1>3, <1>4, <1>7
<1> QED BY <1>5, <1>6, <1>7 DEF HostServe

\* dma_copy waits for its own copy.
LEMMA HostWaitBooks == ASSUME Books, HostWait PROVE Books' /\ Out' = Out
<1>1. /\ hpc = "wait"
      /\ UNCHANGED <<svc, disk, direct, reqs, outstanding, issued, tx, rx, rec, ifq, eq,
                     hostWord, cardWord, staging>>
  BY DEF HostWait, cardVars, engineVars
<1>2. staging \subseteq Record /\ landed \subseteq Record /\ abandoned \in BOOLEAN
  BY <1>1, HoldingFacts
<1>3. CASE AnswerThis(5) /\ abandoned' = TRUE /\ UNCHANGED <<dmaVars, landed>>
  BY <1>1, <1>2, <1>3, AnswerBooks DEF dmaVars
<1>4. CASE PollUpdate /\ abandoned' = abandoned /\ UNCHANGED <<hpc, ans, then, landed>>
  BY <1>1, <1>2, <1>4, StayBooks
<1>5. CASE /\ PollUpdate /\ abandoned' = abandoned
           /\ \/ /\ AnswerThis(0)
                 /\ landed' = IF rec.op = "write" THEN landed \cup staging ELSE landed
              \/ AnswerThis(5) /\ landed' = landed
  <2>1. landed' \subseteq Record /\ staging' \subseteq Record /\ abandoned' \in BOOLEAN
    BY <1>1, <1>2, <1>5
  <2> QED BY <1>1, <1>5, <2>1, AnswerBooks
<1> QED BY <1>3, <1>4, <1>5 DEF HostWait

\* submit_ram and dma_submit.
LEMMA HostSubmitBooks == ASSUME Books, HostSubmit PROVE Books' /\ Out' = Out
<1>1. /\ hpc = "submit"
      /\ UNCHANGED <<svc, disk, direct, reqs, outstanding, issued, tx, rx, rec, staging, landed,
                     abandoned>>
  BY DEF HostSubmit, cardVars
<1>2. /\ TypeOK /\ EngineInv /\ PipeInv /\ Ledger /\ RingsHold /\ Holding /\ ans = <<>>
      /\ Len(ifq) \in Nat /\ MaxInFlight \in Nat /\ submitted \in Nat /\ completed \in Nat
      /\ Len(eq) =< MaxInFlight /\ Len(ifq) =< MaxInFlight /\ late \in BOOLEAN
      /\ staging \subseteq Record /\ landed \subseteq Record /\ abandoned \in BOOLEAN
      /\ rec \in Record /\ hostWord \in Nat /\ cardWord \in Nat
      /\ OnEngine /\ rec.op \in Data /\ (Pipelined(rec) \/ ifq = <<>>)
  BY <1>1, HoldingFacts
<1>3. CASE /\ AnswerThis(22) \/ AnswerThis(5)
           /\ UNCHANGED <<ifq, dmaVars, engineVars>>
  BY <1>1, <1>2, <1>3, AnswerBooks DEF dmaVars, engineVars
<1>4. CASE PollUpdate /\ UNCHANGED <<hpc, ans, then, ifq, engineVars>>
  BY <1>1, <1>2, <1>4, StayBooks DEF engineVars
<1>5. CASE /\ ~RingFull /\ Submit(rec) /\ UNCHANGED <<ans, then>>
           /\ IF Pipelined(rec)
              THEN hpc' = "poll" /\ ifq' = Append(ifq, [rec |-> rec, seq |-> submitted + 1])
              ELSE hpc' = "wait" /\ ifq' = ifq
  <2>1. /\ EngineInv' /\ submitted' = submitted + 1 /\ completed' = completed
        /\ pending' \in Nat /\ late' = late /\ UNCHANGED <<hostWord, cardWord>>
        /\ eq' \in Seq([rec : Record, seq : Nat, copied : BOOLEAN])
        /\ Position' = Position
    BY <1>2, <1>5, SubmitKeeps
  <2>2. EngineType'
    BY <1>1, <1>2, <2>1 DEF EngineType
  <2>3. CardType' /\ svc' \in Services /\ rec' \in Record /\ ans' \in Seq(Reply)
        /\ then' \in {"poll", "pop", "serve"}
    BY <1>1, <1>2, <1>5 DEF TypeOK, CardType, HostType
  <2>4. \A r : (Pipelined(r))' <=> Pipelined(r)
    BY <1>1 DEF Pipelined, OnEngine
  <2>5. /\ Len(rx) \in Nat /\ Len(tx) \in Nat /\ Len(Piped) = Len(ifq) /\ Piped \in Seq(Record)
        /\ Len(Held) = 1 /\ Stubs(Held) = {Stub(rec)} /\ Len(ans) = 0 /\ Stubs(ans) = {}
        /\ \A i \in 1 .. Len(ifq) : Piped[i] = ifq[i].rec
    BY <1>2, Shapes, StubsNone
  <2>6. Len(eq') =< MaxInFlight
    <3>1. Len(eq') = Len(eq) + 1 /\ Len(eq) \in Nat /\ completed =< Position /\ InFlight' =< MaxInFlight
      BY <1>2, <1>5, <2>1, SubmitKeeps, EngineFacts DEF EngineInv
    <3>2. (submitted + 1) - completed =< MaxInFlight /\ completed =< submitted - Len(eq)
      BY <2>1, <3>1 DEF InFlight, Position
    <3> QED BY <1>2, <3>1, <3>2
  <2>7. CASE Pipelined(rec)
    <3>1. hpc' = "poll" /\ ifq' = Append(ifq, [rec |-> rec, seq |-> submitted + 1]) /\ ~Holding'
      BY <1>5, <2>7 DEF Holding
    <3> DEFINE I == [rec : Record, seq : Nat]
               e == [rec |-> rec, seq |-> submitted + 1]
               n == Len(ifq)
    <3>2. e \in I /\ ifq \in Seq(I) /\ e.rec = rec /\ e.seq = submitted + 1
      BY <1>2 DEF TypeOK, HostType
    <3> HIDE DEF I, e
    <3>3. /\ ifq' \in Seq(I) /\ Len(ifq') = n + 1 /\ ifq'[n + 1] = e
          /\ \A i \in 1 .. n : ifq'[i] = ifq[i]
      BY <3>1, <3>2, AppendProperties DEF e
    <3>4. HostType'
      BY <2>3, <3>1, <3>3 DEF HostType, I
    <3>5. n \in Nat /\ \A i \in 1 .. n + 1 : i \in 1 .. n \/ i = n + 1
      BY <1>2
    <3> HIDE DEF n
    <3>6. \A i \in 1 .. n + 1 : ifq'[i].seq = (submitted + 1) - (n + 1) + i /\ Pipelined(ifq'[i].rec)
      <4>1. \A i \in 1 .. n + 1 : submitted - n + i = (submitted + 1) - (n + 1) + i
        BY <1>2, <3>5
      <4>2. submitted + 1 = (submitted + 1) - (n + 1) + (n + 1)
        BY <1>2, <3>5
      <4>3. \A i \in 1 .. n : ifq[i].seq = submitted - n + i /\ Pipelined(ifq[i].rec)
        BY <1>2 DEF PipeInv, n
      <4>4. TAKE i \in 1 .. n + 1
      <4>5. CASE i \in 1 .. n
        BY <3>3, <4>1, <4>3, <4>5
      <4>6. CASE i = n + 1
        BY <2>7, <3>2, <3>3, <4>2, <4>6
      <4> QED BY <3>5, <4>5, <4>6
    <3>7. \A i \in 1 .. Len(ifq') : ifq'[i].seq = submitted' - Len(ifq') + i /\ Pipelined(ifq'[i].rec)
      BY <2>1, <3>3, <3>6
    <3>8. PipeInv'
      <4>1. \A i \in 1 .. Len(ifq') : (Pipelined(ifq[i].rec))'
        BY <1>1, <3>7 DEF Pipelined, OnEngine
      <4> QED BY <1>2, <1>5, <3>1, <3>7, <4>1 DEF PipeInv
    <3>9. RingsHold'
      <4>1. Len(ifq') =< MaxInFlight + 1
        BY <1>2, <3>3 DEF n
      <4> QED BY <2>6, <4>1 DEF RingsHold
    <3>10. Piped' = Append(Piped, rec)
      <4>1. Piped' = [i \in 1 .. n + 1 |-> ifq'[i].rec]
        BY <3>3, OutNext
      <4>2. /\ Append(Piped, rec) \in Seq(Record) /\ Len(Append(Piped, rec)) = n + 1
            /\ Append(Piped, rec)[n + 1] = rec
            /\ \A i \in 1 .. n : Append(Piped, rec)[i] = Piped[i]
        BY <1>2, <2>5, AppendProperties DEF n
      <4> DEFINE p == Append(Piped, rec)
      <4>3. \A i \in 1 .. n + 1 : p[i] = ifq'[i].rec
        BY <2>5, <3>2, <3>3, <3>5, <4>2 DEF n
      <4>4. p = [i \in 1 .. n + 1 |-> p[i]]
        <5> HIDE DEF p
        <5>1. p \in Seq(Record) /\ Len(p) = n + 1
          BY <4>2 DEF p
        <5> QED BY <5>1
      <4> HIDE DEF p
      <4> QED BY <4>1, <4>3, <4>4 DEF p
    <3>11. Stubs(Piped') = Stubs(Piped) \cup {Stub(rec)} /\ Len(Piped') = n + 1
      BY <1>2, <2>5, <3>10, StubsAppend DEF n
    <3>12. Out' = Out
      BY <1>1, <1>5, <2>5, <3>1, <3>11, OutNext DEF Out
    <3>13. Places' = Places
      <4>1. Places' = Len(rx) + 0 + (n + 1) + 0 + Len(tx)
        BY <1>1, <1>5, <2>5, <3>1, <3>11, OutNext
      <4>2. Places = Len(rx) + 0 + n + 1 + Len(tx)
        BY <2>5 DEF Places, n
      <4> QED BY <2>5, <3>5, <4>1, <4>2
    <3>14. Ledger'
      BY <1>1, <1>2, <3>12, <3>13, LedgerKept
    <3> QED BY <2>1, <2>2, <2>3, <3>4, <3>8, <3>9, <3>12, <3>14 DEF Books, Ledger, TypeOK
  <2>8. CASE ~Pipelined(rec)
    <3>1. hpc' = "wait" /\ ifq' = ifq /\ ifq = <<>>
      BY <1>2, <1>5, <2>8
    <3>2. Holding' /\ HostType'
      BY <1>2, <2>3, <3>1 DEF Holding, HostType, TypeOK
    <3>3. Len(ifq') = 0
      BY <3>1
    <3>4. PipeInv'
      <4>1. ~(Pipelined(rec))' /\ OnEngine' /\ rec'.op \in Data
        BY <1>1, <1>2, <2>8 DEF Pipelined, OnEngine
      <4>2. \A i \in 1 .. Len(ifq') : FALSE
        BY <3>3
      <4> QED BY <1>2, <1>5, <3>1, <3>3, <4>1, <4>2 DEF PipeInv
    <3>5. RingsHold'
      BY <1>2, <2>6, <3>3 DEF RingsHold
    <3>6. Held' = Held /\ Piped' = Piped
      BY <1>1, <1>2, <3>1, <3>2 DEF Held, Piped
    <3>7. Out' = Out /\ Places' = Places
      BY <1>1, <1>5, <3>6, OutNext DEF Out, Places
    <3>8. Ledger'
      BY <1>1, <1>2, <3>7, LedgerKept
    <3> QED BY <2>1, <2>2, <2>3, <3>2, <3>4, <3>5, <3>7, <3>8 DEF Books, Ledger, TypeOK
  <2> QED BY <2>7, <2>8
<1> QED BY <1>3, <1>4, <1>5 DEF HostSubmit

\* dma_wait, before a record that is served in place: it goes on, or the
\* oldest k records are answered, with success only if their copies are done.
LEMMA DrainAnswers ==
  ASSUME Books, HostDrain
  PROVE  \/ PollUpdate /\ UNCHANGED <<hpc, ans, then, ifq>>
         \/ \E k \in 0 .. Len(ifq), st \in {0, 5} :
              /\ PollUpdate \/ UNCHANGED <<submitted, completed, pending, late>>
              /\ Answer(SubSeq(ifq, 1, k), st, "serve") /\ ifq' = SubSeq(ifq, k + 1, Len(ifq))
              /\ st = 0 => \A i \in 1 .. k : ifq[i].seq =< Position
<1>1. TypeOK /\ EngineInv /\ PipeInv /\ ifq # <<>> /\ UNCHANGED engineVars
  BY HoldingFacts DEF HostDrain, hostFrame
<1>2. CASE Answer(ifq, 5, "serve") /\ ifq' = <<>> /\ UNCHANGED dmaVars
  <2> DEFINE k == Len(ifq)
  <2>1. /\ k \in 0 .. Len(ifq) /\ Answer(SubSeq(ifq, 1, k), 5, "serve")
        /\ ifq' = SubSeq(ifq, k + 1, Len(ifq))
    BY <1>1, <1>2, AllOfIt
  <2>2. UNCHANGED <<submitted, completed, pending, late>>
    BY <1>2 DEF dmaVars
  <2> HIDE DEF k
  <2> QED BY <2>1, <2>2
<1>3. CASE /\ PollUpdate /\ completed' >= LastTaken
           /\ Answer(Done(LastTaken), 0, "serve") /\ ifq' = NotDone(LastTaken)
  <2> DEFINE w == LastTaken
             k == Finished(w)
  <2>1. completed' \in Nat /\ completed' =< Position /\ Position \in Nat
    BY <1>1, <1>3, PollKeeps, EngineFacts
  <2>2. ifq \in Seq([rec : Record, seq : Nat]) /\ Len(ifq) \in Nat \ {0} /\ Head(ifq) = ifq[1]
    BY <1>1, PipeNeedsEngine DEF TypeOK, HostType
  <2>3. \A i \in 1 .. Len(ifq) : ifq[i].seq \in Nat
    <3>1. \A i \in 1 .. Len(ifq) : ifq[i] \in [rec : Record, seq : Nat]
      BY <2>2, ElementOfSeq
    <3> QED BY <3>1
  <2>4. w \in Int
    <3>1. 1 \in 1 .. Len(ifq)
      BY <2>2
    <3>2. Head(ifq).seq \in Nat
      BY <2>2, <2>3, <3>1
    <3> QED BY <3>2 DEF LastTaken
  <2>5. completed' >= w
    BY <1>3
  <2>6. Answer(SubSeq(ifq, 1, k), 0, "serve") /\ ifq' = SubSeq(ifq, k + 1, Len(ifq))
    BY <1>3 DEF Done, NotDone
  <2> HIDE DEF w
  <2>7. k \in 0 .. Len(ifq) /\ \A i \in 1 .. k : ifq[i].seq =< w
    BY <1>1, <2>4, FinishedFacts
  <2> HIDE DEF k
  <2>8. \A i \in 1 .. k : i \in 1 .. Len(ifq)
    BY <2>2, <2>7
  <2>9. \A i \in 1 .. k : ifq[i].seq =< Position
    BY <2>1, <2>3, <2>4, <2>5, <2>7, <2>8
  <2> QED BY <1>3, <2>6, <2>7, <2>9
<1> QED BY <1>2, <1>3 DEF HostDrain

\* ... and the books stay right.
LEMMA HostDrainBooks == ASSUME Books, HostDrain PROVE Books' /\ Out' = Out
<1>1. /\ hpc = "drain"
      /\ UNCHANGED <<svc, disk, direct, reqs, outstanding, issued, tx, rx, rec, eq, hostWord,
                     cardWord, staging, landed, abandoned>>
  BY DEF HostDrain, hostFrame, cardVars, engineVars
<1>2. /\ TypeOK /\ EngineInv /\ PipeInv /\ Ledger /\ RingsHold /\ Holding /\ ans = <<>>
      /\ Len(ifq) \in Nat /\ MaxInFlight \in Nat /\ submitted \in Nat /\ completed \in Nat
      /\ Len(eq) =< MaxInFlight /\ Len(ifq) =< MaxInFlight /\ late \in BOOLEAN /\ pending \in Nat
      /\ staging \subseteq Record /\ landed \subseteq Record /\ abandoned \in BOOLEAN
      /\ rec \in Record /\ hostWord \in Nat /\ cardWord \in Nat /\ ~Pipelined(rec)
      /\ eq \in Seq([rec : Record, seq : Nat, copied : BOOLEAN])
  BY <1>1, HoldingFacts
<1>3. CASE PollUpdate /\ UNCHANGED <<hpc, ans, then, ifq>>
  BY <1>1, <1>2, <1>3, StayBooks
<1>4. ASSUME NEW k \in 0 .. Len(ifq), NEW st \in {0, 5},
             PollUpdate \/ UNCHANGED <<submitted, completed, pending, late>>,
             Answer(SubSeq(ifq, 1, k), st, "serve"), ifq' = SubSeq(ifq, k + 1, Len(ifq))
      PROVE  Books' /\ Out' = Out
  <2>1. /\ EngineInv' /\ submitted' = submitted /\ completed' \in Nat /\ pending' \in Nat
        /\ late' \in BOOLEAN
    <3>1. CASE PollUpdate
      BY <1>1, <1>2, <3>1, PollKeeps DEF engineVars
    <3>2. CASE UNCHANGED <<submitted, completed, pending, late>>
      BY <1>1, <1>2, <3>2, EngineStays
    <3> QED BY <1>4, <3>1, <3>2
  <2>2. EngineType'
    BY <1>1, <1>2, <2>1 DEF EngineType
  <2>3. Holding'
    BY <1>4 DEF Answer, Holding
  <2>4. /\ CardType' /\ HostType' /\ Ledger' /\ Out' = Out /\ hpc' = "answer" /\ then' = "serve"
        /\ Len(ifq') = Len(ifq) - k
        /\ \A i \in 1 .. Len(ifq') : /\ ifq'[i].seq = submitted' - Len(ifq') + i
                                     /\ Pipelined(ifq'[i].rec)
    BY <1>1, <1>2, <1>4, <2>1, <2>3, GivesAnswers
  <2>5. Len(ifq') =< MaxInFlight /\ Len(ifq') =< MaxInFlight + 1
    BY <1>2, <2>4
  <2>6. PipeInv'
    <3>1. ~(Pipelined(rec))' /\ \A r : (Pipelined(r))' <=> Pipelined(r)
      BY <1>1, <1>2 DEF Pipelined, OnEngine
    <3>2. \A i \in 1 .. Len(ifq') : (Pipelined(ifq[i].rec))'
      BY <1>1, <2>4 DEF Pipelined, OnEngine
    <3> QED BY <2>4, <2>5, <3>1, <3>2 DEF PipeInv
  <2>7. RingsHold'
    BY <1>1, <1>2, <2>5 DEF RingsHold
  <2> QED BY <2>1, <2>2, <2>4, <2>6, <2>7 DEF Books, Ledger, TypeOK
<1> QED BY <1>3, <1>4, DrainAnswers


----------------------------------------------------------------------------
(* The card's steps.                                                       *)

\* The driver takes a completion out of the ring: it was nowhere else.
LEMMA TakesOne ==
  ASSUME TypeOK, TypeOK', Once, rx # <<>>, rx' = Tail(rx), UNCHANGED <<tx, hostVars>>
  PROVE  /\ Once' /\ Out' = Out \ {Stub(Head(rx))} /\ Stub(Head(rx)) \in Out
         /\ IsFiniteSet(Out) /\ Head(rx) \in Reply
<1>1. rx \in Seq(Reply)
  BY DEF TypeOK, CardType
<1>2. /\ Stubs(rx) = {Stub(Head(rx))} \cup Stubs(rx') /\ Len(rx) \in Nat \ {0}
      /\ Len(rx') = Len(rx) - 1 /\ Head(rx) \in Reply
  BY <1>1, StubsTail
<1>3. UNCHANGED <<Held, Piped, ans, tx>>
  BY DEF hostVars, Held, Holding, Piped
<1> DEFINE s == Stub(Head(rx))
<1>4. Out = {s} \cup Out'
  BY <1>2, <1>3, OutNext DEF Out
<1>5. Places' = Places - 1
  <2>1. Places' = (Len(rx) - 1) + Len(ans) + Len(Piped) + Len(Held) + Len(tx)
    BY <1>2, <1>3, OutNext
  <2>2. Len(ans) \in Nat /\ Len(Piped) \in Nat /\ Len(Held) \in Nat /\ Len(tx) \in Nat
    BY Shapes
  <2> QED BY <1>2, <2>1, <2>2 DEF Places
<1>6. /\ IsFiniteSet(Out) /\ Cardinality(Out) \in Nat /\ Places \in Nat
      /\ Cardinality(Out) = Places
  BY OutFinite DEF Once, Places
<1>7. (IsFiniteSet(Out) /\ Cardinality(Out) \in Nat /\ Cardinality(Out) =< Places)'
  BY OutFinite, PTL
<1> HIDE DEF s
<1>8. s \notin Out'
  <2> SUFFICES ASSUME s \in Out' PROVE FALSE
    OBVIOUS
  <2>1. Out' = Out
    BY <1>4
  <2>2. Cardinality(Out) =< Places - 1
    BY <1>5, <1>7, <2>1
  <2> QED BY <1>6, <2>2
<1>9. Out' = Out \ {s} /\ s \in Out
  BY <1>4, <1>8
<1>10. Cardinality(Out') = Cardinality(Out) - 1
  BY <1>6, <1>9, FS_RemoveElement
<1>11. Once'
  BY <1>5, <1>6, <1>10 DEF Once, Places
<1> QED BY <1>2, <1>6, <1>9, <1>11 DEF s

\* knc_blk_complete_one.
LEMMA CompleteOneBooks == ASSUME Books, CompleteOne PROVE Books'
<1> DEFINE c == Head(rx)
           s == Stub(c)
<1>1. TypeOK /\ EngineInv /\ PipeInv /\ Ledger /\ RingsHold
  BY DEF Books, Ledger
<1>2. /\ rx # <<>> /\ rx' = Tail(rx)
      /\ UNCHANGED <<svc, tx, hpc, rec, ans, then, ifq, submitted, completed, pending, late, eq,
                     hostWord, cardWord, staging, landed, abandoned>>
      /\ UNCHANGED hostVars
      /\ \/ c.op = "ident" /\ CompleteIdent(c)
         \/ c.op # "ident" /\ IF Stray(c) THEN UNCHANGED cardVars ELSE CompleteRecord(c)
  BY DEF CompleteOne, hostVars, dmaVars, engineVars
<1>3. HostType' /\ EngineType' /\ EngineInv' /\ PipeInv' /\ RingsHold'
  BY <1>1, <1>2, EngineStays, PipeStays DEF TypeOK, HostType, EngineType, RingsHold
<1>4. /\ c \in Reply /\ rx' \in Seq(Reply) /\ Len(rx') =< RxCap /\ s \in Out
  <2>1. rx \in Seq(Reply) /\ Len(rx) =< RxCap /\ RxCap \in Nat
    BY <1>1, Caps DEF TypeOK, CardType
  <2>2. /\ c \in Reply /\ rx' \in Seq(Reply) /\ Len(rx') = Len(rx) - 1 /\ Len(rx) \in Nat
        /\ Stubs(rx) = {s} \cup Stubs(rx')
    BY <1>2, <2>1, StubsTail
  <2>3. Len(rx') =< RxCap
    BY <2>1, <2>2
  <2> QED BY <2>2, <2>3 DEF Out
<1>5. /\ tx' \in Seq(Record) /\ Len(tx') =< TxCap
  BY <1>1, <1>2 DEF TypeOK, CardType
<1>6. Owned(s) /\ s.op = c.op /\ s.tag = c.tag /\ s.id = c.id /\ s.seg = c.seg
  BY <1>1, <1>4 DEF Ledger, Stub
<1>7. /\ disk \in {"none", "registering", "ready", "absent"} /\ direct \in BOOLEAN
      /\ reqs \in [1 .. MaxDepth -> Request \cup {NoReq}] /\ outstanding \in Int
      /\ issued \in Seq(Issued) /\ Len(issued) =< MaxReqs /\ MaxDepth \in Nat /\ MaxReqs \in Nat
      /\ Len(issued) \in Nat
  BY <1>1, Caps, LenProperties DEF TypeOK, CardType
<1>8. \A t \in 1 .. MaxDepth : reqs[t] # NoReq =>
        /\ reqs[t] \in Request /\ reqs[t].id \in 1 .. Len(issued) /\ reqs[t].pending \in Nat \ {0}
        /\ reqs[t].ok \in BOOLEAN
  <2> SUFFICES ASSUME NEW t \in 1 .. MaxDepth, reqs[t] # NoReq
               PROVE  /\ reqs[t] \in Request /\ reqs[t].id \in 1 .. Len(issued)
                      /\ reqs[t].pending \in Nat \ {0} /\ reqs[t].ok \in BOOLEAN
    OBVIOUS
  <2>1. reqs[t] \in Request
    BY <1>7
  <2>2. reqs[t].id \in 1 .. MaxReqs /\ reqs[t].pending \in Nat \ {0} /\ reqs[t].ok \in BOOLEAN
    BY <2>1 DEF Request
  <2>3. reqs[t].id =< Len(issued)
    BY <1>1 DEF Ledger, Tagged
  <2> QED BY <1>7, <2>1, <2>2, <2>3
<1> HIDE DEF c, s
<1>9. CASE c.op = "ident"
  <2>1. /\ UNCHANGED <<reqs, outstanding, issued>>
        /\ UNCHANGED <<disk, direct>> \/ (disk = "none" /\ disk' = "registering" /\ direct' = ~c.bounce)
    BY <1>2, <1>9 DEF CompleteIdent
  <2>2. c.bounce \in BOOLEAN
    BY <1>4 DEF Reply
  <2>3. CardType'
    BY <1>4, <1>5, <1>7, <2>1, <2>2 DEF CardType
  <2>4. TypeOK'
    BY <1>3, <2>3 DEF TypeOK
  <2>5. Once' /\ Out' = Out \ {s}
    BY <1>1, <1>2, <2>4, TakesOne DEF Ledger, s, c
  <2>6. s.id = 0
    BY <1>6, <1>9 DEF Owned
  <2>7. (\A x \in Out : Owned(x))'
    <3>1. CASE UNCHANGED <<disk, direct>>
      BY <1>1, <1>2, <2>1, <2>5, <3>1 DEF Ledger, Owned, Depth
    <3>2. CASE disk = "none"
      <4>1. issued = <<>> /\ Len(issued) = 0
        BY <1>1, <3>2 DEF Ledger, Tagged
      <4>2. \A t \in 1 .. MaxDepth : reqs[t] = NoReq
        BY <1>8, <4>1
      <4>3. Depth \in 0 .. MaxDepth
        BY <1>1, <1>7, ServiceAssumption DEF Depth, TypeOK, HostType
      <4>4. \A t \in 1 .. Depth : t \in 1 .. MaxDepth
        BY <1>7, <4>3
      <4>5. \A x \in Out : x.op = "ident" /\ x.id = 0
        BY <1>1, <4>2, <4>4 DEF Ledger, Owned
      <4> QED BY <2>5, <4>5 DEF Owned
    <3> QED BY <2>1, <3>1, <3>2
  <2>8. PendingCounts'
    <3>1. \A t \in 1 .. MaxDepth : reqs[t] # NoReq =>
            {x \in Out' : x.id = reqs[t].id} = {x \in Out : x.id = reqs[t].id}
      <4> SUFFICES ASSUME NEW t \in 1 .. MaxDepth, reqs[t] # NoReq
                   PROVE  {x \in Out' : x.id = reqs[t].id} = {x \in Out : x.id = reqs[t].id}
        OBVIOUS
      <4>1. reqs[t].id # 0
        BY <1>8
      <4> QED BY <2>5, <2>6, <4>1
    <3> QED BY <1>1, <2>1, <3>1 DEF Ledger, PendingCounts
  <2>9. Tagged'
    BY <1>1, <2>1 DEF Ledger, Tagged
  <2> QED BY <1>3, <2>4, <2>5, <2>7, <2>8, <2>9 DEF Books, Ledger
<1>10. CASE c.op # "ident"
  <2> DEFINE t == c.tag
             id == c.id
             ok == reqs[t].ok /\ c.status = 0
             P == {x \in Out : x.id = id}
  <2>1. /\ t \in 1 .. Depth /\ reqs[t] # NoReq /\ reqs[t].id = id
    BY <1>6, <1>10 DEF Owned
  <2>2. t \in 1 .. MaxDepth
    <3>1. Depth \in 0 .. MaxDepth
      BY <1>1, <1>7, ServiceAssumption DEF Depth, TypeOK, HostType
    <3> QED BY <1>7, <2>1, <3>1
  <2>3. ~Stray(c)
    <3>1. t =< Depth /\ ~(t > Depth)
      <4>1. Depth \in 0 .. MaxDepth
        BY <1>1, <1>7, ServiceAssumption DEF Depth, TypeOK, HostType
      <4> QED BY <1>7, <2>1, <4>1
    <3> QED BY <2>1, <3>1 DEF Stray
  <2>4. CompleteRecord(c) /\ UNCHANGED <<disk, direct>>
    BY <1>2, <1>10, <2>3 DEF CompleteRecord
  <2>5. /\ reqs[t] \in Request /\ id \in 1 .. Len(issued) /\ reqs[t].pending \in Nat \ {0}
        /\ ok \in BOOLEAN
    BY <1>8, <2>1, <2>2
  <2>6. reqs[t].pending = Cardinality(P)
    BY <1>1, <2>1, <2>2 DEF Ledger, PendingCounts
  <2>7. issued[id] \in Issued
    BY <1>7, <2>5, ElementOfSeq
  <2>8. CardType'
    <3>1. CASE LastRecord(t)
      <4> DEFINE e == [issued[id] EXCEPT !.end = IF ok THEN "ok" ELSE "error"]
      <4>1. /\ reqs' = [reqs EXCEPT ![t] = NoReq] /\ outstanding' = outstanding - 1
            /\ issued' = [issued EXCEPT ![id] = e]
        BY <2>1, <2>4, <3>1 DEF CompleteRecord
      <4>2. e \in Issued
        BY <2>7 DEF Issued
      <4> HIDE DEF e
      <4>3. issued' \in Seq(Issued) /\ Len(issued') = Len(issued)
        BY <1>7, <2>5, <4>1, <4>2, ExceptSeq
      <4>4. reqs' \in [1 .. MaxDepth -> Request \cup {NoReq}]
        BY <1>7, <4>1 DEF t
      <4>5. outstanding' \in Int
        <5>1. outstanding \in Int
          BY <1>7
        <5> QED BY <4>1, <5>1
      <4> QED BY <1>4, <1>5, <1>7, <2>4, <4>3, <4>4, <4>5 DEF CardType
    <3>2. CASE ~LastRecord(t)
      <4> DEFINE e == [reqs[t] EXCEPT !.pending = @ - 1, !.ok = ok]
      <4>1. reqs' = [reqs EXCEPT ![t] = e] /\ UNCHANGED <<outstanding, issued>>
        BY <2>4, <3>2 DEF CompleteRecord
      <4>2. reqs[t].pending # 1
        BY <3>2 DEF LastRecord
      <4>3. reqs[t].pending - 1 \in Nat \ {0}
        BY <2>5, <4>2
      <4>4. e \in Request
        BY <2>5, <4>3 DEF Request
      <4> HIDE DEF e
      <4>5. reqs' \in [1 .. MaxDepth -> Request \cup {NoReq}]
        BY <1>7, <4>1, <4>4
      <4> QED BY <1>4, <1>5, <1>7, <2>4, <4>1, <4>5 DEF CardType
    <3> QED BY <3>1, <3>2
  <2>9. TypeOK'
    BY <1>3, <2>8 DEF TypeOK
  <2>10. Once' /\ Out' = Out \ {s} /\ IsFiniteSet(Out)
    BY <1>1, <1>2, <2>9, TakesOne DEF Ledger, s, c
  <2>11. IsFiniteSet(P) /\ s \in P /\ {x \in Out' : x.id = id} = P \ {s}
    <3>1. P \subseteq Out
      OBVIOUS
    <3>2. IsFiniteSet(P)
      BY <2>10, <3>1, FS_Subset
    <3> QED BY <1>4, <1>6, <2>10, <3>2
  <2>12. /\ Cardinality(P \ {s}) = Cardinality(P) - 1 /\ IsFiniteSet(P \ {s})
    <3> HIDE DEF P
    <3> QED BY <2>11, FS_RemoveElement
  <2>13. \A u \in 1 .. MaxDepth : u # t /\ reqs[u] # NoReq =>
           /\ reqs[u].id # id
           /\ {x \in Out' : x.id = reqs[u].id} = {x \in Out : x.id = reqs[u].id}
    <3> SUFFICES ASSUME NEW u \in 1 .. MaxDepth, u # t, reqs[u] # NoReq
                 PROVE  /\ reqs[u].id # id
                        /\ {x \in Out' : x.id = reqs[u].id} = {x \in Out : x.id = reqs[u].id}
      OBVIOUS
    <3>1. reqs[u].id # id
      BY <1>1, <2>1, <2>2 DEF Ledger, Tagged
    <3> QED BY <1>6, <2>10, <3>1
  <2>14. Depth' = Depth
    BY <1>2, <2>4 DEF Depth
  <2>15. \A x \in Out : x.op # "ident" => x.tag \in 1 .. MaxDepth /\ (x.id # id => x.tag # t)
    <3>1. Depth \in 0 .. MaxDepth
      BY <1>1, <1>7, ServiceAssumption DEF Depth, TypeOK, HostType
    <3>2. \A u \in 1 .. Depth : u \in 1 .. MaxDepth
      BY <1>7, <3>1
    <3> QED BY <1>1, <2>1, <3>2 DEF Ledger, Owned
  <2> HIDE DEF t, id, ok
  <2>16. CASE LastRecord(t)
    <3> DEFINE e == [issued[id] EXCEPT !.end = IF ok THEN "ok" ELSE "error"]
    <3>1. reqs' = [reqs EXCEPT ![t] = NoReq] /\ issued' = [issued EXCEPT ![id] = e]
      BY <2>1, <2>4, <2>16 DEF CompleteRecord, t, id, ok
    <3>2. e \in Issued /\ e.op = issued[id].op /\ e.n = issued[id].n /\ e.end # "none"
      BY <2>7 DEF Issued
    <3> HIDE DEF e
    <3>3. /\ Len(issued') = Len(issued)
          /\ \A i \in 1 .. Len(issued) : issued'[i] = IF i = id THEN e ELSE issued[i]
      BY <1>7, <2>5, <3>1, <3>2, ExceptSeq
    <3>4. \A u \in 1 .. MaxDepth : reqs'[u] = IF u = t THEN NoReq ELSE reqs[u]
      BY <1>7, <2>2, <3>1
    <3>5. P \ {s} = {}
      <4>1. Cardinality(P) = 1
        BY <2>6, <2>16 DEF LastRecord, P
      <4>2. Cardinality(P \ {s}) = 0
        BY <2>12, <4>1
      <4> QED BY <2>12, <4>2, FS_EmptySet
    <3>6. \A x \in Out' : x \in Out /\ x.id # id
      BY <2>10, <2>11, <3>5
    <3>7. \A x \in Out' : Owned(x)'
      <4> SUFFICES ASSUME NEW x \in Out' PROVE Owned(x)'
        OBVIOUS
      <4>1. x \in Out /\ x.id # id /\ Owned(x)
        BY <1>1, <3>6 DEF Ledger
      <4>2. CASE x.op = "ident"
        BY <4>1, <4>2 DEF Owned
      <4>3. CASE x.op # "ident"
        <5>1. /\ x.tag \in 1 .. Depth /\ reqs[x.tag] # NoReq /\ reqs[x.tag].id = x.id
              /\ x.op = issued[x.id].op /\ x.seg \in 1 .. issued[x.id].n
          BY <4>1, <4>3 DEF Owned
        <5>2. x.tag \in 1 .. MaxDepth /\ x.tag # t
          BY <2>15, <4>1, <4>3
        <5>3. reqs'[x.tag] = reqs[x.tag]
          BY <3>4, <5>2
        <5>4. x.id \in 1 .. Len(issued)
          BY <1>8, <5>1, <5>2
        <5>5. issued'[x.id] = issued[x.id]
          BY <3>3, <4>1, <5>4
        <5>6. /\ x.tag \in 1 .. Depth' /\ reqs'[x.tag] # NoReq /\ reqs'[x.tag].id = x.id
              /\ x.op = issued'[x.id].op /\ x.seg \in 1 .. issued'[x.id].n
          BY <2>14, <5>1, <5>3, <5>5, Zenon
        <5> QED BY <4>3, <5>6, Zenon DEF Owned
      <4> QED BY <4>2, <4>3
    <3>8. PendingCounts'
      <4>1. \A u \in 1 .. MaxDepth : reqs'[u] # NoReq =>
              u # t /\ reqs'[u] = reqs[u] /\ reqs[u] # NoReq
        BY <3>4
      <4> QED BY <1>1, <2>13, <4>1 DEF Ledger, PendingCounts
    <3>9. Tagged'
      <4>1. disk' = "none" => issued' = <<>>
        <5>1. disk # "none"
          <6>1. Len(issued) # 0
            BY <1>7, <2>5
          <6> QED BY <1>1, <6>1 DEF Ledger, Tagged
        <5> QED BY <2>4, <5>1
      <4>2. \A i \in 1 .. Len(issued) :
              issued'[i].end = "none" <=> \E u \in 1 .. MaxDepth : reqs'[u] # NoReq /\ reqs'[u].id = i
        <5> SUFFICES ASSUME NEW i \in 1 .. Len(issued)
                     PROVE  issued'[i].end = "none" <=>
                              \E u \in 1 .. MaxDepth : reqs'[u] # NoReq /\ reqs'[u].id = i
          OBVIOUS
        <5>1. CASE i = id
          <6>1. ~ \E u \in 1 .. MaxDepth : reqs'[u] # NoReq /\ reqs'[u].id = i
            BY <2>13, <3>4, <5>1
          <6> QED BY <3>2, <3>3, <5>1, <6>1
        <5>2. CASE i # id
          <6>1. issued[i].end = "none" <=> \E u \in 1 .. MaxDepth : reqs[u] # NoReq /\ reqs[u].id = i
            BY <1>1 DEF Ledger, Tagged
          <6>2. reqs[t].id # i
            BY <2>1, <5>2 DEF t, id
          <6> QED BY <3>3, <3>4, <5>2, <6>1, <6>2
        <5> QED BY <5>1, <5>2
      <4>3. \A u, v \in 1 .. MaxDepth :
              reqs'[u] # NoReq /\ reqs'[v] # NoReq /\ reqs'[u].id = reqs'[v].id => u = v
        BY <1>1, <3>4 DEF Ledger, Tagged
      <4>4. \A u \in 1 .. MaxDepth : reqs'[u] # NoReq => reqs'[u].id =< Len(issued)
        BY <1>1, <3>4 DEF Ledger, Tagged
      <4> QED BY <3>3, <4>1, <4>2, <4>3, <4>4 DEF Tagged
    <3> QED BY <1>3, <2>9, <2>10, <3>7, <3>8, <3>9 DEF Books, Ledger
  <2>17. CASE ~LastRecord(t)
    <3> DEFINE e == [reqs[t] EXCEPT !.pending = @ - 1, !.ok = ok]
    <3>1. reqs' = [reqs EXCEPT ![t] = e] /\ UNCHANGED <<outstanding, issued>>
      BY <2>4, <2>17 DEF CompleteRecord, t, ok
    <3>2. e.id = id /\ e.pending = reqs[t].pending - 1 /\ e # NoReq
      <4>1. e.id = id /\ e.pending = reqs[t].pending - 1
        BY <2>1, <2>5 DEF Request, t, id
      <4>2. reqs[t].pending # 1
        BY <2>17 DEF LastRecord
      <4>3. reqs[t].pending - 1 \in Nat \ {0}
        BY <2>5, <4>2 DEF t
      <4>4. e \in Request
        BY <2>5, <4>3 DEF Request, t, ok
      <4> QED BY <4>1, <4>4, Caps
    <3> HIDE DEF e
    <3>3. \A u \in 1 .. MaxDepth : reqs'[u] = IF u = t THEN e ELSE reqs[u]
      BY <1>7, <2>2, <3>1
    <3>4. \A u \in 1 .. MaxDepth :
            (reqs'[u] # NoReq <=> reqs[u] # NoReq) /\ (reqs[u] # NoReq => reqs'[u].id = reqs[u].id)
      BY <2>1, <3>2, <3>3 DEF t, id
    <3>5. \A x \in Out' : Owned(x)'
      <4> SUFFICES ASSUME NEW x \in Out' PROVE Owned(x)'
        OBVIOUS
      <4>1. x \in Out /\ Owned(x)
        BY <1>1, <2>10 DEF Ledger
      <4>2. CASE x.op = "ident"
        BY <4>1, <4>2 DEF Owned
      <4>3. CASE x.op # "ident"
        <5>1. /\ x.tag \in 1 .. Depth /\ reqs[x.tag] # NoReq /\ reqs[x.tag].id = x.id
              /\ x.op = issued[x.id].op /\ x.seg \in 1 .. issued[x.id].n
          BY <4>1, <4>3 DEF Owned
        <5>2. x.tag \in 1 .. MaxDepth
          BY <2>15, <4>1, <4>3
        <5>3. reqs'[x.tag] # NoReq /\ reqs'[x.tag].id = x.id
          BY <3>4, <5>1, <5>2
        <5>4. /\ x.tag \in 1 .. Depth' /\ reqs'[x.tag] # NoReq /\ reqs'[x.tag].id = x.id
              /\ x.op = issued'[x.id].op /\ x.seg \in 1 .. issued'[x.id].n
          BY <2>14, <3>1, <5>1, <5>3, Zenon
        <5> QED BY <4>3, <5>4, Zenon DEF Owned
      <4> QED BY <4>2, <4>3
    <3>6. PendingCounts'
      <4> SUFFICES ASSUME NEW u \in 1 .. MaxDepth, reqs'[u] # NoReq
                   PROVE  reqs'[u].pending = Cardinality({x \in Out' : x.id = reqs'[u].id})
        BY DEF PendingCounts
      <4>1. CASE u = t
        <5>1. {x \in Out' : x.id = reqs'[u].id} = P \ {s} /\ reqs'[u].pending = reqs[t].pending - 1
          BY <2>11, <3>2, <3>3, <4>1
        <5> QED BY <2>6, <2>12, <5>1 DEF t
      <4>2. CASE u # t
        <5>1. reqs'[u] = reqs[u]
          BY <3>3, <4>2
        <5> QED BY <1>1, <2>13, <4>2, <5>1 DEF Ledger, PendingCounts
      <4> QED BY <4>1, <4>2
    <3>7. Tagged'
      <4>1. disk' = "none" => issued' = <<>>
        BY <1>1, <2>4, <3>1 DEF Ledger, Tagged
      <4>2. \A i \in 1 .. Len(issued) :
              issued'[i].end = "none" <=> \E u \in 1 .. MaxDepth : reqs'[u] # NoReq /\ reqs'[u].id = i
        BY <1>1, <3>1, <3>4 DEF Ledger, Tagged
      <4>3. \A u, v \in 1 .. MaxDepth :
              reqs'[u] # NoReq /\ reqs'[v] # NoReq /\ reqs'[u].id = reqs'[v].id => u = v
        BY <1>1, <3>4 DEF Ledger, Tagged
      <4>4. \A u \in 1 .. MaxDepth : reqs'[u] # NoReq => reqs'[u].id =< Len(issued)
        BY <1>1, <3>4 DEF Ledger, Tagged
      <4> QED BY <3>1, <4>1, <4>2, <4>3, <4>4 DEF Tagged
    <3> QED BY <1>3, <2>9, <2>10, <3>5, <3>6, <3>7 DEF Books, Ledger
  <2> QED BY <2>16, <2>17
<1> QED BY <1>9, <1>10


----------------------------------------------------------------------------
(* The records of a request.                                               *)

\* Counting up from nought, a set that is never left holds all the numbers.
LEMMA CountUp ==
  ASSUME NEW n \in Nat, NEW S, 0 \in S, \A i \in 0 .. n - 1 : i \in S => i + 1 \in S
  PROVE  \A i \in 0 .. n : i \in S
<1> SUFFICES ASSUME (0 .. n) \ S # {} PROVE FALSE
  OBVIOUS
<1> DEFINE R == OpToRel(<, Nat)
           T == (0 .. n) \ S
<1>1. IsWellFoundedOn(R, Nat)
  BY NatLessThanWellFounded
<1>2. \A x, y \in Nat : y < x => <<y, x>> \in R
  BY DEF OpToRel
<1>3. T \subseteq Nat /\ T # {}
  OBVIOUS
<1> HIDE DEF R, T
<1>4. PICK m \in T : \A y \in T : ~(<<y, m>> \in R)
  BY <1>1, <1>3, WFMin, Zenon
<1>5. m \in 0 .. n /\ m \notin S /\ \A y \in T : ~(y < m)
  <2>1. m \in 0 .. n /\ m \notin S
    BY DEF T
  <2> QED BY <1>2, <1>3, <1>4, <2>1
<1>6. m # 0
  BY <1>5
<1>7. m - 1 \in 0 .. n - 1 /\ m - 1 \in 0 .. n /\ m - 1 < m /\ (m - 1) + 1 = m
  BY <1>5, <1>6
<1>8. m - 1 \in S
  BY <1>5, <1>7 DEF T
<1> QED BY <1>5, <1>7, <1>8

\* The recursion of Sums has a solution: each number extends the one before.
LEMMA SumsDefined ==
  ASSUME NEW l \in Seq(Nat)
  PROVE  Sums(l) = [i \in 0 .. Len(l) |-> IF i = 0 THEN 0 ELSE Sums(l)[i - 1] + l[i]]
<1> DEFINE n == Len(l)
           Solves(m, g) == g = [i \in 0 .. m |-> IF i = 0 THEN 0 ELSE g[i - 1] + l[i]]
           S == {m \in 0 .. n : \E g : Solves(m, g)}
<1>1. n \in Nat
  BY LenProperties
<1> HIDE DEF n
<1>2. 0 \in S
  <2> DEFINE g == [i \in 0 .. 0 |-> 0]
  <2>1. Solves(0, g)
    OBVIOUS
  <2>2. 0 \in 0 .. n
    BY <1>1
  <2> HIDE DEF g, Solves
  <2> QED BY <2>1, <2>2
<1>3. ASSUME NEW m \in 0 .. n - 1, m \in S PROVE m + 1 \in S
  <2>1. PICK g : Solves(m, g)
    BY <1>3
  <2> DEFINE h == [i \in 0 .. m + 1 |-> IF i = m + 1 THEN g[m] + l[m + 1] ELSE g[i]]
  <2>2. m \in Nat /\ m + 1 \in 0 .. n
    BY <1>1
  <2>3. \A i \in 0 .. m + 1 : h[i] = IF i = 0 THEN 0 ELSE h[i - 1] + l[i]
    <3>1. TAKE i \in 0 .. m + 1
    <3>2. CASE i = m + 1
      <4>1. i # 0 /\ i - 1 = m /\ m \in 0 .. m + 1 /\ m # m + 1
        BY <2>2, <3>2
      <4> QED BY <3>2, <4>1
    <3>3. CASE i # m + 1
      <4>1. i \in 0 .. m /\ (i # 0 => i - 1 \in 0 .. m + 1 /\ i - 1 # m + 1)
        BY <2>2, <3>3
      <4>2. g[i] = IF i = 0 THEN 0 ELSE g[i - 1] + l[i]
        BY <2>1, <4>1
      <4> QED BY <3>3, <4>1, <4>2
    <3> QED BY <3>2, <3>3
  <2>4. Solves(m + 1, h)
    <3>1. h = [i \in 0 .. m + 1 |-> h[i]]
      OBVIOUS
    <3> HIDE DEF h
    <3> QED BY <2>3, <3>1
  <2> QED BY <2>2, <2>4
<1> HIDE DEF S
<1>4. \A i \in 0 .. n : i \in S
  BY <1>1, <1>2, <1>3, CountUp
<1>5. n \in S
  BY <1>1, <1>4
<1>6. \E g : Solves(n, g)
  BY <1>5 DEF S
<1>7. Sums(l) = CHOOSE g : Solves(n, g)
  BY DEF Sums, n
<1> HIDE DEF Solves
<1>8. Solves(n, Sums(l))
  BY <1>6, <1>7
<1> QED BY <1>8 DEF Solves, n

\* They are sums.
LEMMA SumsFacts ==
  ASSUME NEW l \in Seq(Nat)
  PROVE  /\ Sums(l)[0] = 0
         /\ \A i \in 0 .. Len(l) : Sums(l)[i] \in Nat
         /\ \A i \in 1 .. Len(l) : Sums(l)[i] = Sums(l)[i - 1] + l[i]
<1> DEFINE n == Len(l)
           f == Sums(l)
           S == {i \in 0 .. n : f[i] \in Nat}
<1>1. n \in Nat /\ \A i \in 1 .. n : l[i] \in Nat
  BY LenProperties, ElementOfSeq
<1>2. f = [i \in 0 .. n |-> IF i = 0 THEN 0 ELSE f[i - 1] + l[i]]
  BY SumsDefined
<1> HIDE DEF n, f
<1>3. f[0] = 0
  <2>1. 0 \in 0 .. n
    BY <1>1
  <2> QED BY <1>2, <2>1
<1>4. \A i \in 1 .. n : f[i] = f[i - 1] + l[i]
  <2>1. \A i \in 1 .. n : i \in 0 .. n /\ i # 0
    BY <1>1
  <2> QED BY <1>2, <2>1
<1>5. \A i \in 0 .. n - 1 : i \in S => i + 1 \in S
  <2> SUFFICES ASSUME NEW i \in 0 .. n - 1, f[i] \in Nat PROVE i + 1 \in 0 .. n /\ f[i + 1] \in Nat
    OBVIOUS
  <2>1. i + 1 \in 1 .. n /\ i + 1 \in 0 .. n /\ (i + 1) - 1 = i
    BY <1>1
  <2>2. f[i + 1] = f[i] + l[i + 1] /\ l[i + 1] \in Nat
    BY <1>1, <1>4, <2>1
  <2> QED BY <2>1, <2>2
<1>6. 0 \in S
  BY <1>1, <1>3
<1> HIDE DEF S
<1>7. \A i \in 0 .. n : i \in S
  BY <1>1, <1>5, <1>6, CountUp
<1>8. \A i \in 0 .. n : f[i] \in Nat
  BY <1>7 DEF S
<1> QED BY <1>3, <1>4, <1>8 DEF n, f


\* A request is cut into records numbered from one, all with its tag.
LEMMA RecordsFacts ==
  ASSUME NEW tag \in 1 .. MaxDepth, NEW id \in 1 .. MaxReqs, NEW op \in Data \cup {"flush"},
         NEW segs \in SegLists \cup {<<>>}, op \in Data => segs \in SegLists
  PROVE  /\ RecordsOf(tag, id, op, segs) \in Seq(Record)
         /\ Len(RecordsOf(tag, id, op, segs)) \in Nat \ {0}
         /\ op \notin Data => Len(RecordsOf(tag, id, op, segs)) = 1
         /\ \A i \in 1 .. Len(RecordsOf(tag, id, op, segs)) :
              Stub(RecordsOf(tag, id, op, segs)[i])
                = [op |-> op, tag |-> tag, id |-> id, seg |-> i]
<1> DEFINE R == RecordsOf(tag, id, op, segs)
           N == Len(segs)
           halves == [j \in 1 .. N |-> segs[j] \div 2]
<1>1. segs \in Seq(Nat) /\ N \in Nat /\ (op \in Data => N # 0)
  <2>1. CASE segs \in SegLists
    <3>1. segs \in Seq(Nat \ {0}) /\ segs # <<>>
      BY <2>1, SegAssumption
    <3>2. N \in Nat /\ N # 0 /\ \A i \in 1 .. N : segs[i] \in Nat
      BY <3>1, LenProperties, EmptySeq, ElementOfSeq
    <3>3. segs = [i \in 1 .. N |-> segs[i]]
      BY <3>1
    <3>4. [i \in 1 .. N |-> segs[i]] \in Seq(Nat)
      BY <3>2, IsASeq
    <3> QED BY <3>2, <3>3, <3>4
  <2>2. CASE segs = <<>> /\ op \notin Data
    BY <2>2, EmptySeq
  <2> QED BY <2>1, <2>2
<1>2. halves \in Seq(Nat) /\ Len(halves) = N
  <2>1. \A j \in 1 .. N : segs[j] \in Nat
    BY <1>1, ElementOfSeq
  <2>2. \A j \in 1 .. N : segs[j] \div 2 \in Nat
    BY <2>1
  <2> QED BY <1>1, <2>2, IsASeq
<1> HIDE DEF N, halves
<1>3. \A i \in 0 .. N : Sums(segs)[i] \in Nat /\ Sums(halves)[i] \in Nat
  BY <1>1, <1>2, SumsFacts DEF N
<1>4. tag \in 0 .. MaxDepth /\ id \in 0 .. MaxReqs
  BY Caps
<1>5. CASE direct /\ op \in Data
  <2>1. R = [i \in 1 .. N |->
               [tag |-> tag, id |-> id, op |-> op, seg |-> i, len |-> segs[i],
                mem |-> Sums(segs)[i - 1], sector |-> Sums(halves)[i - 1]]]
    BY <1>5 DEF RecordsOf, N, halves
  <2>2. \A i \in 1 .. N : R[i] = [tag |-> tag, id |-> id, op |-> op, seg |-> i, len |-> segs[i],
                                  mem |-> Sums(segs)[i - 1], sector |-> Sums(halves)[i - 1]]
    BY <2>1
  <2>3. \A i \in 1 .. N : i \in Nat /\ i - 1 \in 0 .. N
    BY <1>1
  <2>4. \A i \in 1 .. N : segs[i] \in Nat
    BY <1>1, ElementOfSeq DEF N
  <2>5. \A i \in 1 .. N : [tag |-> tag, id |-> id, op |-> op, seg |-> i, len |-> segs[i],
                           mem |-> Sums(segs)[i - 1], sector |-> Sums(halves)[i - 1]] \in Record
    BY <1>3, <1>4, <2>3, <2>4 DEF Record
  <2>6. R \in Seq(Record) /\ Len(R) = N
    BY <1>1, <2>1, <2>5, IsASeq
  <2>7. \A i \in 1 .. N : Stub(R[i]) = [op |-> op, tag |-> tag, id |-> id, seg |-> i]
    <3>1. \A a, b, c, i : Stub([tag |-> tag, id |-> id, op |-> op, seg |-> i, len |-> a,
                                mem |-> b, sector |-> c])
                           = [op |-> op, tag |-> tag, id |-> id, seg |-> i]
      BY DEF Stub
    <3>2. TAKE i \in 1 .. N
    <3>3. R[i] = [tag |-> tag, id |-> id, op |-> op, seg |-> i, len |-> segs[i],
                  mem |-> Sums(segs)[i - 1], sector |-> Sums(halves)[i - 1]]
      BY <2>2
    <3> HIDE DEF R
    <3> QED BY <3>1, <3>3
  <2> QED BY <1>1, <1>5, <2>6, <2>7
<1>6. CASE ~(direct /\ op \in Data)
  <2> DEFINE e == [tag |-> tag, id |-> id, op |-> op, seg |-> 1,
                   len |-> Sums(segs)[N], mem |-> 0, sector |-> 0]
  <2>1. R = <<e>>
    BY <1>6 DEF RecordsOf, N
  <2>2. Sums(segs)[N] \in Nat
    BY <1>1, <1>3
  <2>3. e \in Record /\ Stub(e) = [op |-> op, tag |-> tag, id |-> id, seg |-> 1]
    BY <1>4, <2>2 DEF Record, Stub
  <2> HIDE DEF e
  <2>4. R \in Seq(Record) /\ Len(R) = 1 /\ R[1] = e
    BY <2>1, <2>3
  <2>5. \A i \in 1 .. Len(R) : i = 1
    BY <2>4
  <2> HIDE DEF R
  <2>6. \A i \in 1 .. Len(R) : Stub(R[i]) = [op |-> op, tag |-> tag, id |-> id, seg |-> i]
    BY <2>3, <2>4, <2>5
  <2>7. Len(R) \in Nat \ {0}
    BY <2>4
  <2> QED BY <2>4, <2>6, <2>7 DEF R
<1> QED BY <1>5, <1>6

\* knc_blk_queue_rq.
LEMMA QueueRqBooks ==
  ASSUME Books, NEW tag \in 1 .. MaxDepth, NEW op \in Data \cup {"flush"},
         NEW segs \in SegLists \cup {<<>>}, op \in Data => segs \in SegLists,
         QueueRq(tag, op, segs)
  PROVE  Books'
<1> DEFINE id == Len(issued) + 1
           R == RecordsOf(tag, id, op, segs)
           n == Len(R)
           new == [op |-> op, segs |-> segs, n |-> n, end |-> "none"]
           q == [id |-> id, pending |-> n, ok |-> TRUE]
           New == Stubs(R)
<1>1. TypeOK /\ EngineInv /\ PipeInv /\ Ledger /\ RingsHold
  BY DEF Books, Ledger
<1>2. /\ disk = "ready" /\ tag =< Depth /\ reqs[tag] = NoReq /\ id =< MaxReqs
      /\ Len(tx) + n =< TxCap /\ reqs' = [reqs EXCEPT ![tag] = q]
      /\ outstanding' = outstanding + Counted(op)
      /\ issued' = Append(issued, new) /\ tx' = tx \o R
      /\ UNCHANGED <<svc, disk, direct, rx, hpc, rec, ans, then, ifq, submitted, completed, pending,
                     late, eq, hostWord, cardWord, staging, landed, abandoned>>
  BY DEF QueueRq, hostVars, dmaVars, engineVars
<1>3. /\ direct \in BOOLEAN /\ reqs \in [1 .. MaxDepth -> Request \cup {NoReq}]
      /\ outstanding \in Int /\ issued \in Seq(Issued) /\ Len(issued) \in Nat
      /\ tx \in Seq(Record) /\ rx \in Seq(Reply) /\ Len(rx) =< RxCap
      /\ MaxDepth \in Nat /\ MaxReqs \in Nat
  BY <1>1, Caps, LenProperties DEF TypeOK, CardType
<1>4. id \in 1 .. MaxReqs
  BY <1>2, <1>3
<1> HIDE DEF id
<1>5. /\ R \in Seq(Record) /\ n \in Nat \ {0}
      /\ \A i \in 1 .. n : Stub(R[i]) = [op |-> op, tag |-> tag, id |-> id, seg |-> i]
  BY <1>4, RecordsFacts
<1> HIDE DEF R, n
<1>6. HostType' /\ EngineType' /\ EngineInv' /\ PipeInv' /\ RingsHold'
  BY <1>1, <1>2, EngineStays, PipeStays DEF TypeOK, HostType, EngineType, RingsHold
<1>7. new \in Issued /\ new.op = op /\ new.n = n /\ new.end = "none"
  BY <1>5 DEF Issued
<1>8. q \in Request /\ q # NoReq /\ q.id = id /\ q.pending = n
  <2>1. q \in Request
    BY <1>4, <1>5 DEF Request
  <2> QED BY <2>1, Caps
<1> HIDE DEF new, q
<1>9. /\ issued' \in Seq(Issued) /\ Len(issued') = id /\ issued'[id] = new
      /\ \A i \in 1 .. Len(issued) : issued'[i] = issued[i]
  BY <1>2, <1>3, <1>7, AppendProperties DEF id
<1>10. /\ Stubs(tx') = Stubs(tx) \cup New /\ tx' \in Seq(Record) /\ Len(tx') = Len(tx) + n
  BY <1>2, <1>3, <1>5, StubsConcat DEF n
<1>11. \A u \in 1 .. MaxDepth : reqs'[u] = IF u = tag THEN q ELSE reqs[u]
  BY <1>2, <1>3
<1>12. CardType'
  <2>1. reqs' \in [1 .. MaxDepth -> Request \cup {NoReq}]
    BY <1>2, <1>3, <1>8
  <2>2. outstanding' \in Int
    <3>1. Counted(op) \in Int
      BY DEF Counted
    <3> QED BY <1>2, <1>3, <3>1
  <2>3. disk' \in {"none", "registering", "ready", "absent"}
    BY <1>2
  <2> QED BY <1>2, <1>3, <1>9, <1>10, <2>1, <2>2, <2>3 DEF CardType
<1>13. TypeOK'
  BY <1>6, <1>12 DEF TypeOK
<1>14. \A i \in 1 .. id : i \in 1 .. Len(issued) \/ i = id
  BY <1>3 DEF id
<1>15. \A u \in 1 .. MaxDepth : reqs[u] # NoReq => reqs[u].id \in 1 .. Len(issued) /\ reqs[u].id # id
  <2> SUFFICES ASSUME NEW u \in 1 .. MaxDepth, reqs[u] # NoReq
               PROVE  reqs[u].id \in 1 .. Len(issued) /\ reqs[u].id # id
    OBVIOUS
  <2>1. reqs[u] \in Request
    BY <1>3
  <2>2. reqs[u].id \in 1 .. MaxReqs
    BY <2>1 DEF Request
  <2>3. reqs[u].id =< Len(issued)
    BY <1>1 DEF Ledger, Tagged
  <2> QED BY <1>3, <2>2, <2>3 DEF id
<1>16. Depth \in 0 .. MaxDepth /\ \A u \in 1 .. Depth : u \in 1 .. MaxDepth
  <2>1. Depth \in 0 .. MaxDepth
    BY <1>1, <1>3, ServiceAssumption DEF Depth, TypeOK, HostType
  <2> QED BY <1>3, <2>1
<1>17. \A x \in Out : x.id # id /\ (x.op # "ident" => x.tag # tag /\ x.tag \in 1 .. MaxDepth
                                                      /\ x.id \in 1 .. Len(issued))
  <2> SUFFICES ASSUME NEW x \in Out
               PROVE  x.id # id /\ (x.op # "ident" => x.tag # tag /\ x.tag \in 1 .. MaxDepth
                                                      /\ x.id \in 1 .. Len(issued))
    OBVIOUS
  <2>1. Owned(x)
    BY <1>1 DEF Ledger
  <2>2. CASE x.op = "ident"
    <3>1. id # 0
      BY <1>4
    <3> QED BY <2>1, <2>2, <3>1 DEF Owned
  <2>3. CASE x.op # "ident"
    BY <1>2, <1>15, <1>16, <2>1, <2>3 DEF Owned
  <2> QED BY <2>2, <2>3
<1>18. New = {[op |-> op, tag |-> tag, id |-> id, seg |-> i] : i \in 1 .. n}
  BY <1>5 DEF Stubs, n
<1>19. IsFiniteSet(New) /\ Cardinality(New) = n
  <2> DEFINE f == [i \in 1 .. n |-> [op |-> op, tag |-> tag, id |-> id, seg |-> i]]
  <2>1. f \in Bijection(1 .. n, New)
    <3>1. f \in [1 .. n -> New]
      BY <1>18
    <3>2. \A i, j \in 1 .. n : f[i] = f[j] => i = j
      <4> SUFFICES ASSUME NEW i \in 1 .. n, NEW j \in 1 .. n, f[i] = f[j] PROVE i = j
        OBVIOUS
      <4>1. f[i].seg = i /\ f[j].seg = j
        OBVIOUS
      <4> HIDE DEF f
      <4> QED BY <4>1
    <3>3. \A y \in New : \E i \in 1 .. n : f[i] = y
      BY <1>18
    <3> HIDE DEF f, New
    <3> QED BY <3>1, <3>2, <3>3 DEF Bijection, Injection, Surjection, IsInjective
  <2>2. IsFiniteSet(1 .. n) /\ Cardinality(1 .. n) = IF 1 > n THEN 0 ELSE n - 1 + 1
    BY <1>5, FS_Interval
  <2>3. Cardinality(1 .. n) = n
    BY <1>5, <2>2
  <2> HIDE DEF f, New
  <2> QED BY <2>1, <2>2, <2>3, FS_Bijection DEF ExistsBijection
<1>20. UNCHANGED <<Held, Piped>>
  BY <1>2 DEF Held, Holding, Piped
<1>21. Out' = Out \cup New
  BY <1>2, <1>10, <1>20, OutNext DEF Out
<1>22. Places' = Places + n
  <2>1. Places' = Len(rx) + Len(ans) + Len(Piped) + Len(Held) + (Len(tx) + n)
    BY <1>2, <1>10, <1>20, OutNext
  <2>2. /\ Len(rx) \in Nat /\ Len(ans) \in Nat /\ Len(Piped) \in Nat /\ Len(Held) \in Nat
        /\ Len(tx) \in Nat
    BY <1>1, Shapes
  <2> QED BY <1>5, <2>1, <2>2 DEF Places
<1>23. \A x \in New : x.id = id /\ x.op = op /\ x.tag = tag /\ x.seg \in 1 .. n
  BY <1>18
<1> HIDE DEF New
<1>24. Out \cap New = {}
  BY <1>17, <1>23
<1>25. Once'
  <2>1. IsFiniteSet(Out) /\ Cardinality(Out) = Places /\ Cardinality(Out) \in Nat
    BY <1>1, OutFinite DEF Ledger, Once, Places
  <2>2. Cardinality(Out') = Cardinality(Out) + Cardinality(New) - Cardinality(Out \cap New)
    BY <1>19, <1>21, <2>1, FS_Union
  <2>3. Cardinality(Out \cap New) = 0
    BY <1>24, FS_EmptySet
  <2>4. Cardinality(Out') = Places + n
    BY <1>5, <1>19, <2>1, <2>2, <2>3
  <2> QED BY <1>22, <2>4 DEF Once, Places
<1>26. \A x \in Out' : Owned(x)'
  <2> SUFFICES ASSUME NEW x \in Out' PROVE Owned(x)'
    OBVIOUS
  <2>1. Depth' = Depth
    BY <1>2 DEF Depth
  <2>2. CASE x \in New
    <3>1. x.id = id /\ x.op = op /\ x.tag = tag /\ x.seg \in 1 .. n
      BY <1>23, <2>2
    <3>2. tag \in 1 .. Depth
      BY <1>2, <1>16
    <3>3. reqs'[tag] = q /\ issued'[id] = new
      BY <1>9, <1>11
    <3>4. x.op # "ident"
      BY <3>1 DEF Data
    <3>5. /\ x.tag \in 1 .. Depth' /\ reqs'[x.tag] # NoReq /\ reqs'[x.tag].id = x.id
          /\ x.op = issued'[x.id].op /\ x.seg \in 1 .. issued'[x.id].n
      BY <1>7, <1>8, <2>1, <3>1, <3>2, <3>3, Zenon
    <3> QED BY <3>4, <3>5, Zenon DEF Owned
  <2>3. CASE x \in Out /\ x.op = "ident"
    BY <1>1, <2>3 DEF Ledger, Owned
  <2>4. CASE x \in Out /\ x.op # "ident"
    <3>1. /\ x.tag \in 1 .. Depth /\ reqs[x.tag] # NoReq /\ reqs[x.tag].id = x.id
          /\ x.op = issued[x.id].op /\ x.seg \in 1 .. issued[x.id].n
      BY <1>1, <2>4 DEF Ledger, Owned
    <3>2. reqs'[x.tag] = reqs[x.tag] /\ issued'[x.id] = issued[x.id]
      BY <1>9, <1>11, <1>17, <2>4
    <3>3. /\ x.tag \in 1 .. Depth' /\ reqs'[x.tag] # NoReq /\ reqs'[x.tag].id = x.id
          /\ x.op = issued'[x.id].op /\ x.seg \in 1 .. issued'[x.id].n
      BY <2>1, <3>1, <3>2, Zenon
    <3> QED BY <2>4, <3>3, Zenon DEF Owned
  <2> QED BY <1>21, <2>2, <2>3, <2>4
<1>27. PendingCounts'
  <2> SUFFICES ASSUME NEW u \in 1 .. MaxDepth, reqs'[u] # NoReq
               PROVE  reqs'[u].pending = Cardinality({x \in Out' : x.id = reqs'[u].id})
    BY DEF PendingCounts
  <2>1. CASE u = tag
    <3>1. reqs'[u] = q
      BY <1>11, <2>1
    <3>2. {x \in Out' : x.id = id} = New
      BY <1>17, <1>21, <1>23
    <3> QED BY <1>8, <1>19, <3>1, <3>2
  <2>2. CASE u # tag
    <3>1. reqs'[u] = reqs[u] /\ reqs[u] # NoReq /\ reqs[u].id # id
      BY <1>11, <1>15, <2>2
    <3>2. {x \in Out' : x.id = reqs[u].id} = {x \in Out : x.id = reqs[u].id}
      BY <1>21, <1>23, <3>1
    <3> QED BY <1>1, <3>1, <3>2 DEF Ledger, PendingCounts
  <2> QED BY <2>1, <2>2
<1>28. Tagged'
  <2>1. disk' # "none"
    BY <1>2
  <2>2. \A i \in 1 .. id :
          issued'[i].end = "none" <=> \E u \in 1 .. MaxDepth : reqs'[u] # NoReq /\ reqs'[u].id = i
    <3> SUFFICES ASSUME NEW i \in 1 .. id
                 PROVE  issued'[i].end = "none" <=>
                          \E u \in 1 .. MaxDepth : reqs'[u] # NoReq /\ reqs'[u].id = i
      OBVIOUS
    <3>1. CASE i = id
      BY <1>7, <1>8, <1>9, <1>11, <3>1
    <3>2. CASE i \in 1 .. Len(issued)
      <4>1. issued[i].end = "none" <=> \E u \in 1 .. MaxDepth : reqs[u] # NoReq /\ reqs[u].id = i
        BY <1>1, <3>2 DEF Ledger, Tagged
      <4>2. i # id
        BY <1>3, <3>2 DEF id
      <4>3. issued'[i] = issued[i]
        BY <1>9, <3>2
      <4>4. (\E u \in 1 .. MaxDepth : reqs'[u] # NoReq /\ reqs'[u].id = i)
              <=> \E u \in 1 .. MaxDepth : reqs[u] # NoReq /\ reqs[u].id = i
        BY <1>2, <1>8, <1>11, <4>2
      <4> QED BY <4>1, <4>3, <4>4
    <3> QED BY <1>14, <3>1, <3>2
  <2>3. \A u, v \in 1 .. MaxDepth :
          reqs'[u] # NoReq /\ reqs'[v] # NoReq /\ reqs'[u].id = reqs'[v].id => u = v
    BY <1>1, <1>8, <1>11, <1>15 DEF Ledger, Tagged
  <2>4. \A u \in 1 .. MaxDepth : reqs'[u] # NoReq => reqs'[u].id =< id
    <3>1. \A i \in 1 .. Len(issued) : i =< id
      BY <1>3 DEF id
    <3>2. id =< id
      BY <1>4
    <3> QED BY <1>8, <1>11, <1>15, <3>1, <3>2
  <2> QED BY <1>9, <2>1, <2>2, <2>3, <2>4 DEF Tagged
<1> QED BY <1>6, <1>13, <1>25, <1>26, <1>27, <1>28 DEF Books, Ledger

\* Both ends are up, and nothing but identify is under way.
LEMMA InitBooks == ASSUME Init PROVE Books
<1>1. /\ svc \in Services /\ disk = "none" /\ direct = FALSE
      /\ reqs = [t \in 1 .. MaxDepth |-> NoReq] /\ outstanding = 0 /\ issued = <<>>
      /\ tx = <<IdentRecord>> /\ rx = <<>>
      /\ hpc = "poll" /\ rec = IdentRecord /\ ans = <<>> /\ then = "poll" /\ ifq = <<>>
      /\ submitted = 0 /\ completed = 0 /\ pending = 0 /\ late = FALSE
      /\ eq = <<>> /\ hostWord = 0 /\ cardWord = 0
      /\ staging = {} /\ landed = {} /\ abandoned = FALSE
  BY DEF Init
<1>2. IdentRecord \in Record /\ Stub(IdentRecord) = [op |-> "ident", tag |-> 0, id |-> 0, seg |-> 1]
  BY Caps DEF IdentRecord, Record, Stub
<1>3. Len(tx) = 1 /\ tx \in Seq(Record) /\ Len(rx) = 0 /\ Len(ans) = 0 /\ Len(ifq) = 0 /\ Len(eq) = 0
      /\ Len(issued) = 0
  BY <1>1, <1>2
<1>4. reqs \in [1 .. MaxDepth -> Request \cup {NoReq}] /\ \A t \in 1 .. MaxDepth : reqs[t] = NoReq
  BY <1>1
<1>5. CardType
  <2>1. issued \in Seq(Issued) /\ rx \in Seq(Reply)
    BY <1>1, EmptySeq
  <2>2. Len(tx) =< TxCap /\ Len(rx) =< RxCap /\ Len(issued) =< MaxReqs
    BY <1>3, Caps
  <2>3. disk \in {"none", "registering", "ready", "absent"} /\ direct \in BOOLEAN
    BY <1>1
  <2>4. outstanding \in Int
    BY <1>1
  <2> QED BY <1>3, <1>4, <2>1, <2>2, <2>3, <2>4 DEF CardType
<1>6. HostType
  BY <1>1, <1>2, EmptySeq DEF HostType
<1>7. EngineType
  <2>1. {submitted, completed, pending, hostWord, cardWord} \subseteq Nat
    BY <1>1
  <2>2. late \in BOOLEAN /\ abandoned \in BOOLEAN /\ staging \subseteq Record /\ landed \subseteq Record
    BY <1>1
  <2>3. eq \in Seq([rec : Record, seq : Nat, copied : BOOLEAN])
    BY <1>1, EmptySeq
  <2> QED BY <2>1, <2>2, <2>3 DEF EngineType
<1>8. EngineInv /\ RingsHold
  <2>1. Position = 0 /\ InFlight = 0 /\ Larger(hostWord, cardWord) = 0 /\ completed = 0
    <3>1. submitted = 0 /\ completed = 0 /\ hostWord = 0 /\ cardWord = 0
      BY <1>1
    <3> QED BY <1>3, <3>1 DEF Position, InFlight, Larger
  <2>2. 0 =< MaxInFlight /\ 0 =< MaxInFlight + 1 /\ \A i \in 1 .. 0 : FALSE
    BY Caps
  <2> QED BY <1>3, <2>1, <2>2 DEF EngineInv, RingsHold
<1>9. ~Holding
  BY <1>1 DEF Holding
<1>10. PipeInv
  BY <1>1, <1>3, <1>9, Caps DEF PipeInv
<1>11. Stubs(Held) = {} /\ Len(Held) = 0 /\ Stubs(rx) = {} /\ Stubs(ans) = {} /\ Len(Piped) = 0
       /\ Stubs(Piped) = {} /\ Stubs(tx) = {Stub(IdentRecord)}
  BY <1>1, <1>3, <1>9, StubsNone, StubsOne DEF Held, Piped
<1>12. Out = {Stub(IdentRecord)}
  BY <1>11 DEF Out
<1>13. Once
  <2>1. Cardinality(Out) = 1
    BY <1>12, FS_Singleton
  <2> QED BY <1>3, <1>11, <2>1 DEF Once
<1>14. \A x \in Out : Owned(x)
  BY <1>2, <1>12 DEF Owned
<1>15. PendingCounts
  BY <1>4 DEF PendingCounts
<1>16. Tagged
  BY <1>1, <1>3, <1>4 DEF Tagged
<1> QED BY <1>5, <1>6, <1>7, <1>8, <1>10, <1>13, <1>14, <1>15, <1>16 DEF Books, TypeOK

\* One step of anybody keeps the books.
LEMMA NextBooks == ASSUME Books, [Next]_vars PROVE Books'
<1>1. CASE Queue
  <2>1. PICK tag \in 1 .. MaxDepth :
          \/ \E op \in Data, segs \in SegLists : QueueRq(tag, op, segs)
          \/ QueueRq(tag, "flush", <<>>)
    BY <1>1 DEF Queue
  <2>2. CASE \E op \in Data, segs \in SegLists : QueueRq(tag, op, segs)
    BY <2>2, QueueRqBooks
  <2>3. CASE QueueRq(tag, "flush", <<>>)
    <3>1. "flush" \notin Data
      BY DEF Data
    <3> QED BY <2>3, <3>1, QueueRqBooks
  <2> QED BY <2>1, <2>2, <2>3
<1>2. CASE Host
  BY <1>2, HostPollBooks, HostPopBooks, HostAnswerBooks, HostSubmitBooks, HostDrainBooks,
     HostServeBooks, HostWaitBooks DEF Host
<1>3. CASE Engine
  BY <1>3, EngineCopyBooks, EngineStatusBooks DEF Engine
<1>4. CASE UNCHANGED vars
  <2>1. TypeOK /\ EngineInv /\ PipeInv /\ Ledger /\ RingsHold
    BY DEF Books, Ledger
  <2>2. UNCHANGED <<svc, disk, direct, reqs, outstanding, issued, tx, rx, hpc, rec, ans, then, ifq,
                    submitted, completed, pending, late, eq, hostWord, cardWord, staging, landed,
                    abandoned>>
    BY <1>4 DEF vars, cardVars, hostVars, dmaVars, engineVars
  <2>3. TypeOK' /\ EngineInv' /\ PipeInv' /\ RingsHold'
    BY <2>1, <2>2, EngineStays, PipeStays DEF TypeOK, CardType, HostType, EngineType, RingsHold
  <2>4. Ledger'
    BY <2>1, <2>2, QueuesStay, LedgerKept
  <2> QED BY <2>3, <2>4 DEF Books, Ledger
<1> QED BY <1>1, <1>2, <1>3, <1>4, CompleteOneBooks, QuietBooks DEF Next


\* The books are right in every state: rings and pipeline keep their bounds
\* whatever the engine does, no record is in two places or nowhere, and every
\* request counts the completions it is still to get (knc_blk_queue_rq,
\* knc_blk_complete_one, blk_step, dma_submit, dma_poll).
THEOREM BooksRight == Spec => []Books
<1>1. Init => Books
  BY InitBooks
<1>2. Books /\ [Next]_vars => Books'
  BY NextBooks
<1> QED BY <1>1, <1>2, PTL DEF Spec

\* No two answers are for the same record.
LEMMA RepliesDiffer ==
  ASSUME TypeOK, Once
  PROVE  /\ Replies \in Seq(Reply) /\ Len(Replies) \in Nat /\ Len(Replies) = Len(rx) + Len(ans)
         /\ Stubs(Replies) = Stubs(rx) \cup Stubs(ans)
         /\ \A i, j \in 1 .. Len(Replies) : Stub(Replies[i]) = Stub(Replies[j]) => i = j
<1> DEFINE E == Reply \cup Record
           rest == (Piped \o Held) \o tx
           all == Replies \o rest
<1>1. rx \in Seq(Reply) /\ ans \in Seq(Reply)
  BY Shapes
<1>2. /\ Stubs(Replies) = Stubs(rx) \cup Stubs(ans) /\ Replies \in Seq(Reply)
      /\ Len(Replies) = Len(rx) + Len(ans)
  BY <1>1, StubsConcat DEF Replies
<1>3. /\ Piped \in Seq(Record) /\ Held \in Seq(Record) /\ tx \in Seq(Record)
      /\ Len(Piped) \in Nat /\ Len(Held) \in Nat /\ Len(tx) \in Nat /\ Len(rx) \in Nat
      /\ Len(ans) \in Nat
  BY Shapes
<1>4. /\ Stubs(Piped \o Held) = Stubs(Piped) \cup Stubs(Held) /\ Piped \o Held \in Seq(Record)
      /\ Len(Piped \o Held) = Len(Piped) + Len(Held)
  BY <1>3, StubsConcat
<1>5. /\ Stubs(rest) = Stubs(Piped) \cup Stubs(Held) \cup Stubs(tx) /\ rest \in Seq(Record)
      /\ Len(rest) = Len(Piped) + Len(Held) + Len(tx)
  <2> DEFINE ph == Piped \o Held
  <2>1. ph \in Seq(Record) /\ rest = ph \o tx
    BY <1>4
  <2> HIDE DEF ph, rest
  <2>2. Stubs(rest) = Stubs(ph) \cup Stubs(tx) /\ rest \in Seq(Record) /\ Len(rest) = Len(ph) + Len(tx)
    BY <1>3, <2>1, StubsConcat
  <2> QED BY <1>4, <2>2 DEF ph
<1> HIDE DEF rest
<1>6. Replies \in Seq(E) /\ rest \in Seq(E)
  <2>1. \A S, T : S \subseteq T => Seq(S) \subseteq Seq(T)
    <3> SUFFICES ASSUME NEW S, NEW T, S \subseteq T, NEW q \in Seq(S) PROVE q \in Seq(T)
      OBVIOUS
    <3>1. Len(q) \in Nat /\ \A i \in 1 .. Len(q) : q[i] \in T
      BY LenProperties, ElementOfSeq
    <3>2. q = [i \in 1 .. Len(q) |-> q[i]]
      OBVIOUS
    <3>3. [i \in 1 .. Len(q) |-> q[i]] \in Seq(T)
      BY <3>1, IsASeq
    <3> QED BY <3>2, <3>3
  <2> QED BY <1>2, <1>5, <2>1
<1> HIDE DEF E
<1>7. Stubs(all) = Stubs(Replies) \cup Stubs(rest) /\ all \in Seq(E) /\ Len(all) = Len(Replies) + Len(rest)
  BY <1>6, StubsConcat
<1>8. Stubs(all) = Out
  BY <1>2, <1>5, <1>7 DEF Out
<1>9. Len(all) = Cardinality(Out)
  <2>1. Len(all) = Places
    BY <1>2, <1>3, <1>5, <1>7 DEF Places
  <2> QED BY <2>1 DEF Once, Places
<1>10. \A i, j \in 1 .. Len(all) : Stub(all[i]) = Stub(all[j]) => i = j
  <2> DEFINE f == [i \in 1 .. Len(all) |-> Stub(all[i])]
  <2>1. Len(all) \in Nat /\ 1 \in Int
    BY <1>7, LenProperties
  <2>2. f \in Surjection(1 .. Len(all), Stubs(all))
    BY DEF Surjection, Stubs
  <2>3. IsFiniteSet(1 .. Len(all))
        /\ Cardinality(1 .. Len(all)) = IF 1 > Len(all) THEN 0 ELSE Len(all) - 1 + 1
    BY <2>1, FS_Interval
  <2>4. Cardinality(1 .. Len(all)) = Len(all)
    BY <2>1, <2>3
  <2>5. Cardinality(Stubs(all)) = Cardinality(1 .. Len(all))
    BY <1>8, <1>9, <2>4
  <2> HIDE DEF f
  <2>6. f \in Injection(1 .. Len(all), Stubs(all))
    BY <2>2, <2>3, <2>5, FS_Surjection
  <2>7. \A i, j \in 1 .. Len(all) : f[i] = f[j] => i = j
    BY <2>6 DEF Injection, IsInjective
  <2> QED BY <2>7 DEF f
<1>11. /\ Len(Replies) \in Nat /\ Len(rest) \in Nat
       /\ \A i \in 1 .. Len(Replies) : i \in 1 .. Len(all) /\ all[i] = Replies[i]
  <2>1. Len(Replies) \in Nat /\ Len(rest) \in Nat
    BY <1>2, <1>3, <1>5
  <2>2. \A i \in 1 .. Len(Replies) : i \in 1 .. Len(Replies) + Len(rest)
    BY <2>1
  <2>3. \A i \in 1 .. Len(Replies) : all[i] = Replies[i]
    BY <1>6, <2>1, <2>2, ConcatProperties
  <2> QED BY <1>7, <2>1, <2>2, <2>3
<1> HIDE DEF all
<1>12. \A i, j \in 1 .. Len(Replies) : Stub(Replies[i]) = Stub(Replies[j]) => i = j
  BY <1>10, <1>11
<1> QED BY <1>2, <1>11, <1>12

\* The answers of the books' records are the ones the driver waits for.
LEMMA BooksMatch == Books => CompletionsMatch
<1> SUFFICES ASSUME Books PROVE CompletionsMatch
  OBVIOUS
<1>1. TypeOK /\ Once /\ PipeInv /\ Tagged /\ \A s \in Out : Owned(s)
  BY DEF Books
<1>2. /\ Replies \in Seq(Reply) /\ Len(Replies) \in Nat
      /\ Stubs(Replies) = Stubs(rx) \cup Stubs(ans)
      /\ \A i, j \in 1 .. Len(Replies) : Stub(Replies[i]) = Stub(Replies[j]) => i = j
  BY <1>1, RepliesDiffer
<1>3. (rx \o (IF hpc = "answer" THEN ans ELSE <<>>)) = Replies
  BY <1>1 DEF PipeInv, Replies
<1>4. Depth \in 0 .. MaxDepth /\ MaxDepth \in Nat
  BY <1>1, Caps, ServiceAssumption DEF Depth, TypeOK, HostType, CardType
<1>5. \A u \in 1 .. Depth : u \in 1 .. MaxDepth /\ u =< Depth /\ ~(u > Depth)
  BY <1>4
<1>6. \A i \in 1 .. Len(Replies) : Stub(Replies[i]) \in Out
  BY <1>2 DEF Stubs, Out
<1>7. \A i \in 1 .. Len(Replies) : IF Replies[i].op = "ident" THEN Replies[i].id = 0
        ELSE /\ Replies[i].tag \in 1 .. Depth /\ reqs[Replies[i].tag] # NoReq
             /\ reqs[Replies[i].tag].id = Replies[i].id
             /\ Replies[i].op = issued[Replies[i].id].op
  <2> SUFFICES ASSUME NEW i \in 1 .. Len(Replies)
               PROVE  IF Replies[i].op = "ident" THEN Replies[i].id = 0
                      ELSE /\ Replies[i].tag \in 1 .. Depth /\ reqs[Replies[i].tag] # NoReq
                           /\ reqs[Replies[i].tag].id = Replies[i].id
                           /\ Replies[i].op = issued[Replies[i].id].op
    OBVIOUS
  <2>1. Owned(Stub(Replies[i]))
    BY <1>1, <1>6
  <2> QED BY <2>1 DEF Owned, Stub
<1>8. ASSUME NEW i \in 1 .. Len(Replies), Replies[i].op # "ident"
      PROVE  /\ ~Stray(Replies[i]) /\ reqs[Replies[i].tag].id = Replies[i].id
             /\ \A j \in 1 .. Len(Replies) :
                  <<Replies[i].id, Replies[i].seg>> = <<Replies[j].id, Replies[j].seg>> => i = j
  <2>1. /\ Replies[i].tag \in 1 .. Depth /\ reqs[Replies[i].tag] # NoReq
        /\ reqs[Replies[i].tag].id = Replies[i].id /\ Replies[i].op = issued[Replies[i].id].op
    BY <1>7, <1>8
  <2>2. ~Stray(Replies[i])
    BY <1>5, <2>1 DEF Stray
  <2>3. ASSUME NEW j \in 1 .. Len(Replies),
               <<Replies[i].id, Replies[i].seg>> = <<Replies[j].id, Replies[j].seg>>
        PROVE  i = j
    <3>1. Replies[i].id = Replies[j].id /\ Replies[i].seg = Replies[j].seg
      BY <2>3
    <3>2. reqs[Replies[i].tag] \in Request
      BY <1>1, <1>5, <2>1 DEF TypeOK, CardType
    <3>3. Replies[i].id # 0
      <4>1. reqs[Replies[i].tag].id \in 1 .. MaxReqs
        BY <3>2 DEF Request
      <4> QED BY <2>1, <4>1
    <3>4. /\ Replies[j].tag \in 1 .. Depth /\ reqs[Replies[j].tag] # NoReq
          /\ reqs[Replies[j].tag].id = Replies[j].id /\ Replies[j].op = issued[Replies[j].id].op
      BY <1>7, <3>1, <3>3
    <3>5. Replies[i].tag = Replies[j].tag
      BY <1>1, <1>5, <2>1, <3>1, <3>4 DEF Tagged
    <3>6. Stub(Replies[i]) = Stub(Replies[j])
      BY <2>1, <3>1, <3>4, <3>5 DEF Stub
    <3> QED BY <1>2, <3>6
  <2> QED BY <2>1, <2>2, <2>3
<1> QED BY <1>3, <1>8 DEF CompletionsMatch

\* The driver never meets a completion for an idle or unknown tag, none is
\* counted twice, and none is counted for the tag's next user
\* (knc_blk_complete_one's checks never find anything).
THEOREM CompletionsFit == Spec => []CompletionsMatch
  BY BooksRight, BooksMatch, PTL


----------------------------------------------------------------------------
(* The order a flush can see.                                              *)

\* What the host has not answered yet.
Rest == Stubs(Piped) \cup Stubs(Held) \cup Stubs(tx)

\* The two halves of FlushOrder: the order of the ring, and what may be
\* behind a flush that is answered where there is no pipeline.
InLine ==
  /\ \A i, j \in 1 .. Len(tx) : i < j => Before(tx[i], tx[j])
  /\ Holding => \A i \in 1 .. Len(tx) : Before(rec, tx[i])
BehindFlush ==
  InPlace =>
    \A i \in 1 .. Len(Replies) : Replies[i].op = "flush" =>
      /\ \A j \in i + 1 .. Len(Replies) : Before(Replies[i], Replies[j])
      /\ \A s \in Rest : Before(Replies[i], s)

\* They are its two halves.
LEMMA FlushHalves == (FlushOrder <=> InLine /\ BehindFlush) /\ (FlushOrder' <=> InLine' /\ BehindFlush')
  BY DEF FlushOrder, InLine, BehindFlush, Rest

\* A service keeps its backing store and its path.
LEMMA InPlaceStays == ASSUME svc' = svc PROVE InPlace' <=> InPlace
  BY DEF InPlace, OnEngine

\* Only the operation and the request count for the order.
LEMMA BeforeStub ==
  \A a, b : /\ Before(a, Stub(b)) <=> Before(a, b)
            /\ Before(Stub(a), b) <=> Before(a, b)
  BY DEF Before, Stub

\* The host goes on with the same records in the same places.
LEMMA InLineKept ==
  ASSUME InLine, UNCHANGED <<tx, rec>>, Holding' => Holding
  PROVE  InLine'
  BY DEF InLine, Before

\* ... and with the same answers.
LEMMA BehindKept ==
  ASSUME BehindFlush, svc' = svc, Replies' = Replies, Rest' \subseteq Rest
  PROVE  BehindFlush'
  BY InPlaceStays DEF BehindFlush, Before

\* What is left after a step, queue by queue.
LEMMA RestNext ==
  /\ Rest' = Stubs(Piped') \cup Stubs(Held') \cup Stubs(tx')
  /\ Replies' = rx' \o ans'
  BY DEF Rest, Replies, Stubs, Stub

\* Records are answered: what is answered was there, and a flush is answered
\* alone, when nothing that came before it is left.
LEMMA BehindAnswers ==
  ASSUME TypeOK, BehindFlush, svc' = svc, ans = <<>>, rx' = rx, ans' \in Seq(Reply), Rest' \subseteq Rest,
         \A i \in 1 .. Len(ans') : Stub(ans'[i]) \in Rest,
         \/ \A i \in 1 .. Len(ans') : ans'[i].op # "flush"
         \/ Len(ans') = 1 /\ (InPlace => \A s \in Rest' : Before(ans'[1], s))
  PROVE  BehindFlush'
<1> DEFINE a == Len(rx)
           b == Len(ans')
           w == rx \o ans'
<1>1. rx \in Seq(Reply) /\ a \in Nat /\ b \in Nat
  BY Shapes, LenProperties
<1>2. Replies = rx
  BY <1>1, ConcatEmptySeq DEF Replies
<1>3. /\ Len(w) = a + b /\ \A i \in 1 .. a + b : w[i] = IF i =< a THEN rx[i] ELSE ans'[i - a]
  BY <1>1, ConcatProperties
<1>4. Replies' = w
  BY RestNext
<1> HIDE DEF w, a, b
<1>5. \A i \in 1 .. a + b : /\ i =< a => i \in 1 .. a /\ w[i] = rx[i]
                            /\ ~(i =< a) => i - a \in 1 .. b /\ w[i] = ans'[i - a]
  <2>1. \A i \in 1 .. a + b : (i =< a => i \in 1 .. a) /\ (~(i =< a) => i - a \in 1 .. b)
    BY <1>1
  <2> QED BY <1>3, <2>1
<1> SUFFICES ASSUME InPlace, NEW i \in 1 .. a + b, w[i].op = "flush"
             PROVE  /\ \A j \in i + 1 .. a + b : Before(w[i], w[j])
                    /\ \A s \in Rest' : Before(w[i], s)
  BY <1>3, <1>4, InPlaceStays DEF BehindFlush, Before
<1>6. CASE i =< a
  <2>1. i \in 1 .. a /\ w[i] = rx[i]
    BY <1>5, <1>6
  <2>2. /\ \A j \in i + 1 .. a : Before(rx[i], rx[j])
        /\ \A s \in Rest : Before(rx[i], s)
    BY <1>2, <2>1 DEF BehindFlush, a
  <2>3. ASSUME NEW j \in i + 1 .. a + b PROVE Before(w[i], w[j])
    <3>1. j \in 1 .. a + b /\ (j =< a => j \in i + 1 .. a)
      BY <1>1, <2>1
    <3>2. CASE j =< a
      BY <1>5, <2>1, <2>2, <3>1, <3>2
    <3>3. CASE ~(j =< a)
      <4>1. j - a \in 1 .. b /\ w[j] = ans'[j - a]
        BY <1>5, <3>1, <3>3
      <4>2. Before(rx[i], Stub(ans'[j - a]))
        BY <2>2, <4>1 DEF b
      <4> QED BY <2>1, <4>1, <4>2, BeforeStub
    <3> QED BY <3>2, <3>3
  <2> QED BY <2>1, <2>2, <2>3
<1>7. CASE ~(i =< a)
  <2>1. i - a \in 1 .. b /\ w[i] = ans'[i - a]
    BY <1>5, <1>7
  <2>2. Len(ans') = 1 /\ \A s \in Rest' : Before(ans'[1], s)
    BY <2>1 DEF b
  <2>3. i - a = 1 /\ \A j \in i + 1 .. a + b : FALSE
    BY <1>1, <2>1, <2>2 DEF b
  <2> QED BY <2>1, <2>2, <2>3
<1> QED BY <1>6, <1>7

\* The record in hand is answered.
LEMMA AnswerThisFlush ==
  ASSUME Books, FlushOrder, hpc \in {"submit", "serve", "wait"}, NEW st \in {0, 5, 22},
         AnswerThis(st), UNCHANGED <<svc, tx, rx, rec, ifq>>
  PROVE  FlushOrder'
<1>1. /\ TypeOK /\ Holding /\ ans = <<>> /\ rec \in Record
      /\ hpc \in {"submit", "wait"} => rec.op \in Data
      /\ InPlace => ifq = <<>>
  BY HoldingFacts
<1>2. /\ ans' = <<Completion(rec, st)>> /\ ans' \in Seq(Reply) /\ Len(ans') = 1 /\ ~Holding'
  BY <1>1, AnswersThis DEF TypeOK
<1>3. ans'[1] = Completion(rec, st) /\ Stub(ans'[1]) = Stub(rec) /\ ans'[1].op = rec.op
  BY <1>2 DEF Completion, Stub
<1>4. /\ Stubs(Held) = {Stub(rec)} /\ Stubs(Held') = {} /\ Piped' = Piped
  BY <1>1, <1>2, Shapes, OutNext
<1>5. Rest' \subseteq Rest /\ Stub(rec) \in Rest /\ Rest' = Stubs(Piped) \cup Stubs(tx)
  BY <1>4, RestNext DEF Rest
<1>6. InLine /\ BehindFlush
  BY FlushHalves
<1>7. InLine'
  BY <1>1, <1>6, InLineKept
<1>8. rec.op = "flush" => (InPlace => \A s \in Rest' : Before(ans'[1], s))
  <2> SUFFICES ASSUME rec.op = "flush", InPlace, NEW s \in Rest' PROVE Before(ans'[1], s)
    OBVIOUS
  <2>2. Stubs(Piped) = {}
    BY <1>1, StubsNone DEF Piped
  <2>3. PICK i \in 1 .. Len(tx) : s = Stub(tx[i])
    BY <1>5, <2>2 DEF Stubs
  <2>4. Before(rec, tx[i])
    BY <1>1, <1>6 DEF InLine
  <2>5. Before(Stub(rec), Stub(tx[i]))
    BY <2>4, BeforeStub
  <2> QED BY <1>3, <2>3, <2>5, BeforeStub
<1>9. \A i \in 1 .. Len(ans') : i = 1
  BY <1>2
<1>10. BehindFlush'
  BY <1>1, <1>2, <1>3, <1>5, <1>6, <1>8, <1>9, BehindAnswers
<1> QED BY <1>7, <1>10, FlushHalves

\* The oldest records of the pipeline are answered; none is a flush.
LEMMA AnswersFlush ==
  ASSUME Books, FlushOrder, ans = <<>>, NEW k \in 0 .. Len(ifq), NEW st \in {0, 5},
         NEW next \in {"pop", "serve"}, Answer(SubSeq(ifq, 1, k), st, next),
         ifq' = SubSeq(ifq, k + 1, Len(ifq)), Holding' <=> Holding,
         UNCHANGED <<svc, disk, direct, reqs, outstanding, issued, tx, rx, rec, submitted>>
  PROVE  FlushOrder'
<1>1. TypeOK /\ PipeInv /\ Ledger
  BY DEF Books, Ledger
<1>2. /\ HostType' /\ Len(ifq') = Len(ifq) - k /\ Len(ans') = k
      /\ \A i \in 1 .. k : ans'[i] = Completion(ifq[i].rec, st)
      /\ \A i \in 1 .. Len(ifq') : k + i \in 1 .. Len(ifq) /\ ifq'[i] = ifq[k + i]
  BY <1>1, GivesAnswers
<1>3. /\ Len(Piped) = Len(ifq) /\ Len(ifq) \in Nat /\ \A i \in 1 .. Len(ifq) : Piped[i] = ifq[i].rec
  BY <1>1, Shapes
<1>4. \A i \in 1 .. k : i \in 1 .. Len(ifq)
  BY <1>3
<1>5. \A i \in 1 .. k : Stub(ans'[i]) \in Stubs(Piped) /\ ans'[i].op # "flush"
  <2> SUFFICES ASSUME NEW i \in 1 .. k PROVE Stub(ans'[i]) \in Stubs(Piped) /\ ans'[i].op # "flush"
    OBVIOUS
  <2>1. ans'[i] = Completion(Piped[i], st) /\ i \in 1 .. Len(Piped) /\ Pipelined(Piped[i])
    BY <1>1, <1>2, <1>3, <1>4 DEF PipeInv
  <2>2. Stub(ans'[i]) = Stub(Piped[i]) /\ ans'[i].op = Piped[i].op
    BY <2>1 DEF Completion, Stub
  <2> QED BY <2>1, <2>2 DEF Stubs, Pipelined, Data
<1>6. Stubs(Piped') \subseteq Stubs(Piped)
  <2>1. Piped' = [i \in 1 .. Len(ifq') |-> ifq'[i].rec]
    BY OutNext
  <2>2. Len(ifq') \in Nat
    BY <1>2, <1>3
  <2>3. Len(Piped') = Len(ifq') /\ \A i \in 1 .. Len(ifq') : Piped'[i] = ifq'[i].rec
    BY <2>1, <2>2
  <2>4. \A i \in 1 .. Len(Piped') : k + i \in 1 .. Len(Piped) /\ Piped'[i] = Piped[k + i]
    <3> SUFFICES ASSUME NEW i \in 1 .. Len(ifq')
                 PROVE  k + i \in 1 .. Len(ifq) /\ Piped'[i] = Piped[k + i]
      BY <1>3, <2>3, Zenon
    <3>1. k + i \in 1 .. Len(ifq) /\ ifq'[i] = ifq[k + i] /\ Piped'[i] = ifq'[i].rec
      BY <1>2, <2>3, Zenon
    <3>2. Piped[k + i] = ifq[k + i].rec
      BY <1>3, <3>1, Zenon
    <3> QED BY <3>1, <3>2, Zenon
  <2> SUFFICES ASSUME NEW s \in Stubs(Piped') PROVE s \in Stubs(Piped)
    OBVIOUS
  <2>5. PICK i \in 1 .. Len(Piped') : s = Stub(Piped'[i])
    BY DEF Stubs
  <2> QED BY <2>4, <2>5 DEF Stubs
<1>7. Held' = Held
  BY DEF Held
<1>8. Rest' \subseteq Rest
  BY <1>6, <1>7, RestNext DEF Rest
<1>9. InLine /\ BehindFlush
  BY FlushHalves
<1>10. InLine'
  BY <1>9, InLineKept
<1>11. ans' \in Seq(Reply)
  BY <1>2 DEF HostType
<1>12. BehindFlush'
  BY <1>1, <1>2, <1>5, <1>8, <1>9, <1>11, BehindAnswers DEF Rest
<1> QED BY <1>10, <1>12, FlushHalves


\* The head of one queue becomes the end of the other.
LEMMA MovesOver ==
  ASSUME NEW S, NEW q \in Seq(S), NEW r \in Seq(S), r # <<>>
  PROVE  Append(q, Head(r)) \o Tail(r) = q \o r
<1>1. Head(r) \in S /\ Tail(r) \in Seq(S) /\ <<Head(r)>> \in Seq(S) /\ r = <<Head(r)>> \o Tail(r)
  BY HeadTailProperties
<1>2. Append(q, Head(r)) = q \o <<Head(r)>>
  BY <1>1, AppendIsConcat
<1>3. (q \o <<Head(r)>>) \o Tail(r) = q \o (<<Head(r)>> \o Tail(r))
  BY <1>1, ConcatAssociative
<1> QED BY <1>1, <1>2, <1>3

\* blk_step's steps.
LEMMA HostFlush == ASSUME Books, FlushOrder, Host PROVE FlushOrder'
<1>1. /\ TypeOK /\ EngineInv /\ PipeInv /\ Ledger /\ InLine /\ BehindFlush
      /\ svc' = svc /\ disk' = disk /\ direct' = direct /\ reqs' = reqs
      /\ outstanding' = outstanding /\ issued' = issued
  BY FlushHalves DEF Books, Ledger, Host, HostPoll, HostPop, HostAnswer, HostSubmit, HostDrain, HostServe,
     HostWait, hostFrame, cardVars
\* Nothing moves but the counters.
<1>2. ASSUME UNCHANGED <<tx, rx, rec, ans, ifq>>, Holding' => Holding PROVE FlushOrder'
  <2>1. InLine'
    BY <1>1, <1>2, InLineKept
  <2>2. Replies' = Replies
    BY <1>2 DEF Replies
  <2>3. Stubs(Held') \subseteq Stubs(Held)
    BY <1>1, <1>2, OutNext, Shapes
  <2>4. Rest' \subseteq Rest
    BY <1>2, <2>3, RestNext, OutNext DEF Rest
  <2> QED BY <1>1, <2>1, <2>2, <2>4, BehindKept, FlushHalves
<1>3. CASE HostPoll
  <2>1. hpc = "poll" /\ ans = <<>> /\ ~Holding /\ UNCHANGED <<tx, rx, rec, svc>>
    BY <1>1, <1>3 DEF HostPoll, hostFrame, cardVars, PipeInv, Holding
  <2>2. CASE hpc' = "pop" /\ UNCHANGED <<ans, then, ifq, dmaVars>>
    <3>1. ~Holding'
      BY <2>2 DEF Holding
    <3> QED BY <1>2, <2>1, <2>2, <3>1
  <2>3. CASE /\ PollUpdate /\ Answer(Done(completed'), 0, "pop") /\ ifq' = NotDone(completed')
    <3> DEFINE k == Finished(completed')
    <3>1. UNCHANGED engineVars
      BY <1>3 DEF HostPoll, hostFrame
    <3>2. completed' \in Nat /\ submitted' = submitted
      BY <1>1, <2>3, <3>1, PollKeeps
    <3>3. k \in 0 .. Len(ifq)
      BY <1>1, <3>2, FinishedFacts
    <3>4. Answer(SubSeq(ifq, 1, k), 0, "pop") /\ ifq' = SubSeq(ifq, k + 1, Len(ifq))
      BY <2>3 DEF Done, NotDone
    <3>5. ~Holding'
      BY <2>3 DEF Holding, Answer
    <3> HIDE DEF k
    <3> QED BY <1>1, <2>1, <3>2, <3>3, <3>4, <3>5, AnswersFlush
  <2>4. CASE Answer(ifq, 5, "pop") /\ ifq' = <<>> /\ UNCHANGED dmaVars
    <3> DEFINE k == Len(ifq)
    <3>1. k \in 0 .. Len(ifq) /\ Answer(SubSeq(ifq, 1, k), 5, "pop") /\ ifq' = SubSeq(ifq, k + 1, Len(ifq))
      BY <1>1, <2>4, AllOfIt
    <3>2. ~Holding' /\ submitted' = submitted
      BY <2>4 DEF Holding, Answer, dmaVars
    <3> HIDE DEF k
    <3> QED BY <1>1, <2>1, <3>1, <3>2, AnswersFlush
  <2> QED BY <1>3, <2>2, <2>3, <2>4 DEF HostPoll
<1>4. CASE HostPop
  <2>1. hpc = "pop" /\ ~Holding /\ UNCHANGED <<rx, ans, ifq, svc>>
    BY <1>4 DEF HostPop, hostFrame, Holding
  <2>2. CASE tx = <<>>
    <3>1. hpc' = "poll" /\ UNCHANGED <<tx, rec>>
      BY <1>4, <2>2 DEF HostPop
    <3>2. ~Holding'
      BY <3>1 DEF Holding
    <3> QED BY <1>2, <2>1, <3>1, <3>2
  <2>3. CASE tx # <<>>
    <3>1. tx' = Tail(tx) /\ rec' = Head(tx) /\ hpc' = Route(Head(tx)) /\ tx \in Seq(Record)
      BY <1>1, <1>4, <2>3 DEF HostPop, TypeOK, CardType
    <3>2. Holding'
      BY <3>1 DEF Route, Holding
    <3>3. Stubs(tx) = {Stub(rec')} \cup Stubs(tx')
      BY <2>3, <3>1, StubsTail
    <3>4. Rest' = Rest /\ Replies' = Replies
      <4>1. Stubs(Held) = {} /\ Piped' = Piped /\ Stubs(Held') = {Stub(rec')}
        BY <1>1, <2>1, <3>2, Shapes, OutNext
      <4> QED BY <2>1, <3>3, <4>1, RestNext DEF Rest, Replies
    <3>5. /\ Len(tx) \in Nat \ {0} /\ Len(tx') = Len(tx) - 1 /\ rec' = tx[1]
          /\ \A i \in 1 .. Len(tx) - 1 : tx'[i] = tx[i + 1]
      BY <2>3, <3>1, EmptySeq, HeadTailProperties, LenProperties
    <3>6. /\ 1 \in 1 .. Len(tx)
          /\ \A i \in 1 .. Len(tx) - 1 : i + 1 \in 1 .. Len(tx) /\ 1 < i + 1
          /\ \A i, j \in 1 .. Len(tx) - 1 : i < j => i + 1 < j + 1
      BY <3>5
    <3>7. /\ \A i, j \in 1 .. Len(tx') : i < j => Before(tx'[i], tx'[j])
          /\ \A i \in 1 .. Len(tx') : Before(rec', tx'[i])
      BY <1>1, <3>5, <3>6 DEF InLine
    <3>8. InLine'
      BY <3>7 DEF InLine, Before
    <3> QED BY <1>1, <3>4, <3>8, BehindKept, FlushHalves
  <2> QED BY <2>2, <2>3
<1>5. CASE HostAnswer
  <2>1. UNCHANGED <<tx, rec, then, ifq, svc>> /\ hpc = "answer"
    BY <1>5 DEF HostAnswer
  <2>2. Holding' <=> Holding
    BY <1>1, <1>5 DEF HostAnswer, Holding, TypeOK, HostType
  <2>3. CASE ans = <<>>
    <3>1. UNCHANGED <<rx, ans>>
      BY <1>5, <2>3 DEF HostAnswer
    <3> QED BY <1>2, <2>1, <2>2, <3>1
  <2>4. CASE ans # <<>>
    <3>1. rx' = Append(rx, Head(ans)) /\ ans' = Tail(ans) /\ rx \in Seq(Reply) /\ ans \in Seq(Reply)
      BY <1>1, <1>5, <2>4, Shapes DEF HostAnswer
    <3>2. Replies' = Replies
      <4>1. rx' \o ans' = rx \o ans
        BY <2>4, <3>1, MovesOver
      <4> QED BY <4>1, RestNext DEF Replies
    <3>3. Rest' = Rest
      <4>1. Held' = Held /\ Piped' = Piped
        BY <2>1, <2>2 DEF Held, Piped
      <4> QED BY <2>1, <4>1, RestNext DEF Rest
    <3>4. InLine'
      BY <1>1, <2>1, <2>2, InLineKept
    <3> QED BY <1>1, <3>2, <3>3, <3>4, BehindKept, FlushHalves
  <2> QED BY <2>3, <2>4
<1>6. CASE HostSubmit
  <2>1. hpc = "submit" /\ Holding /\ UNCHANGED <<tx, rx, rec, svc>>
    BY <1>6 DEF HostSubmit, Holding
  <2>2. CASE (AnswerThis(22) \/ AnswerThis(5)) /\ ifq' = ifq
    BY <2>1, <2>2, AnswerThisFlush
  <2>3. CASE UNCHANGED <<ans, ifq>>
    BY <1>2, <2>1, <2>3
  <2>4. CASE hpc' = "poll" /\ ifq' = Append(ifq, [rec |-> rec, seq |-> submitted + 1]) /\ ans' = ans
    <3> DEFINE e == [rec |-> rec, seq |-> submitted + 1]
               I == [rec : Record, seq : Nat]
    <3>1. e \in I /\ ifq \in Seq(I) /\ e.rec = rec
      BY <1>1 DEF TypeOK, HostType, EngineType
    <3> HIDE DEF e, I
    <3>2. /\ Len(ifq') = Len(ifq) + 1 /\ ifq'[Len(ifq) + 1] = e /\ \A i \in 1 .. Len(ifq) : ifq'[i] = ifq[i]
      BY <2>4, <3>1, AppendProperties DEF e
    <3>3. /\ Len(ifq) \in Nat /\ Len(Piped) = Len(ifq) /\ \A i \in 1 .. Len(ifq) : Piped[i] = ifq[i].rec
          /\ Stubs(Held) = {Stub(rec)}
      BY <1>1, <2>1, Shapes
    <3>4. Piped' = [i \in 1 .. Len(ifq') |-> ifq'[i].rec]
      BY OutNext
    <3>5. Len(Piped') = Len(ifq) + 1 /\ \A i \in 1 .. Len(ifq) + 1 : Piped'[i] = ifq'[i].rec
      BY <3>2, <3>3, <3>4
    <3>6. \A i \in 1 .. Len(ifq) + 1 : i \in 1 .. Len(ifq) \/ i = Len(ifq) + 1
      BY <3>3
    <3>7. \A i \in 1 .. Len(Piped') : (i \in 1 .. Len(Piped) /\ Piped'[i] = Piped[i]) \/ Piped'[i] = rec
      BY <3>1, <3>2, <3>3, <3>5, <3>6
    <3>8. Stubs(Piped') \subseteq Stubs(Piped) \cup {Stub(rec)}
      <4> SUFFICES ASSUME NEW s \in Stubs(Piped') PROVE s \in Stubs(Piped) \cup {Stub(rec)}
        OBVIOUS
      <4>1. PICK i \in 1 .. Len(Piped') : s = Stub(Piped'[i])
        BY DEF Stubs
      <4> QED BY <3>7, <4>1 DEF Stubs
    <3>9. ~Holding'
      BY <2>4 DEF Holding
    <3>10. Rest' \subseteq Rest
      BY <2>1, <3>3, <3>8, <3>9, RestNext, OutNext DEF Rest
    <3>11. InLine' /\ Replies' = Replies
      BY <1>1, <2>1, <2>4, <3>9, InLineKept DEF Replies
    <3> QED BY <1>1, <3>10, <3>11, BehindKept, FlushHalves
  <2> QED BY <1>6, <2>2, <2>3, <2>4 DEF HostSubmit
<1>7. CASE HostDrain
  <2>1. hpc = "drain" /\ Holding /\ ans = <<>> /\ UNCHANGED <<tx, rx, rec, svc, engineVars>>
    BY <1>1, <1>7 DEF HostDrain, hostFrame, Holding, PipeInv
  <2>2. CASE UNCHANGED <<hpc, ans, then, ifq>>
    BY <1>2, <2>1, <2>2
  <2>3. ASSUME NEW k \in 0 .. Len(ifq), NEW st \in {0, 5},
               Answer(SubSeq(ifq, 1, k), st, "serve"), ifq' = SubSeq(ifq, k + 1, Len(ifq))
        PROVE  FlushOrder'
    <3>1. Holding' /\ submitted' = submitted
      BY <1>7, <2>3 DEF Holding, Answer, HostDrain, dmaVars, PollUpdate
    <3> QED BY <1>1, <2>1, <2>3, <3>1, AnswersFlush
  <2> QED BY <1>7, <2>2, <2>3, DrainAnswers
<1>8. CASE HostServe
  <2>1. hpc = "serve" /\ Holding /\ UNCHANGED <<tx, rx, rec, svc, ifq>>
    BY <1>8 DEF HostServe, Holding
  <2>2. CASE \E st \in {0, 5, 22} : AnswerThis(st)
    BY <2>1, <2>2, AnswerThisFlush
  <2>3. CASE UNCHANGED <<ans, then>>
    BY <1>2, <2>1, <2>3
  <2> QED BY <1>8, <2>2, <2>3 DEF HostServe
<1>9. CASE HostWait
  <2>1. hpc = "wait" /\ Holding /\ UNCHANGED <<tx, rx, rec, svc, ifq>>
    BY <1>9 DEF HostWait, Holding
  <2>2. CASE \E st \in {0, 5, 22} : AnswerThis(st)
    BY <2>1, <2>2, AnswerThisFlush
  <2>3. CASE UNCHANGED <<hpc, ans, then>>
    BY <1>2, <2>1, <2>3
  <2> QED BY <1>9, <2>2, <2>3 DEF HostWait
<1> QED BY <1>3, <1>4, <1>5, <1>6, <1>7, <1>8, <1>9 DEF Host


\* Everything under way belongs to a request that was started.
LEMMA OutIds ==
  ASSUME Books, NEW s \in Out
  PROVE  /\ s.id \in 0 .. Len(issued) /\ Len(issued) \in Nat
         /\ s.op # "ident" => /\ s.id \in 1 .. Len(issued) /\ s.tag \in 1 .. MaxDepth
                              /\ reqs[s.tag] # NoReq /\ reqs[s.tag].id = s.id
                              /\ s.op = issued[s.id].op /\ s.seg \in 1 .. issued[s.id].n
<1>1. TypeOK /\ Tagged /\ Owned(s)
  BY DEF Books
<1>2. Depth \in 0 .. MaxDepth /\ MaxDepth \in Nat /\ Len(issued) \in Nat /\ MaxReqs \in Nat
  BY <1>1, Caps, ServiceAssumption, LenProperties DEF Depth, TypeOK, HostType, CardType
<1>3. CASE s.op = "ident"
  <2>1. s.id = 0
    BY <1>1, <1>3 DEF Owned
  <2> QED BY <1>2, <1>3, <2>1
<1>4. CASE s.op # "ident"
  <2>1. /\ s.tag \in 1 .. Depth /\ reqs[s.tag] # NoReq /\ reqs[s.tag].id = s.id
        /\ s.op = issued[s.id].op /\ s.seg \in 1 .. issued[s.id].n
    BY <1>1, <1>4 DEF Owned
  <2>2. s.tag \in 1 .. MaxDepth
    BY <1>2, <2>1
  <2>3. reqs[s.tag] \in Request
    BY <1>1, <2>1, <2>2 DEF TypeOK, CardType
  <2>4. reqs[s.tag].id \in 1 .. MaxReqs
    BY <2>3 DEF Request
  <2>5. reqs[s.tag].id =< Len(issued)
    BY <1>1, <2>1, <2>2 DEF Tagged
  <2>6. s.id \in 1 .. Len(issued) /\ s.id \in 0 .. Len(issued)
    BY <1>2, <2>1, <2>4, <2>5
  <2> QED BY <1>2, <2>1, <2>2, <2>6
<1> QED BY <1>3, <1>4

\* The oldest answer is taken: the others move up.
LEMMA TakesOldest ==
  ASSUME NEW S, NEW q \in Seq(S), NEW r \in Seq(S), q # <<>>
  PROVE  /\ Len(q \o r) \in Nat \ {0} /\ Len(Tail(q) \o r) = Len(q \o r) - 1
         /\ (q \o r)[1] = Head(q)
         /\ \A i \in 1 .. Len(q \o r) - 1 : (Tail(q) \o r)[i] = (q \o r)[i + 1]
<1> DEFINE h == <<Head(q)>>
           t == Tail(q)
           w == t \o r
<1>1. Head(q) \in S /\ t \in Seq(S) /\ h \in Seq(S) /\ q = h \o t /\ Len(h) = 1 /\ h[1] = Head(q)
  BY HeadTailProperties
<1>2. w \in Seq(S) /\ Len(w) \in Nat
  BY <1>1, ConcatProperties, LenProperties
<1> HIDE DEF h, t
<1>3. q \o r = h \o w
  BY <1>1, ConcatAssociative, SMTT(30)
<1> HIDE DEF w
<1>4. /\ Len(h \o w) = 1 + Len(w)
      /\ \A i \in 1 .. 1 + Len(w) : (h \o w)[i] = IF i =< 1 THEN h[i] ELSE w[i - 1]
  <2>1. /\ Len(h \o w) = Len(h) + Len(w)
        /\ \A i \in 1 .. Len(h) + Len(w) : (h \o w)[i] = IF i =< Len(h) THEN h[i] ELSE w[i - Len(h)]
    BY <1>1, <1>2, ConcatProperties
  <2> QED BY <1>1, <2>1
<1>5. /\ 1 \in 1 .. 1 + Len(w) /\ 1 + Len(w) \in Nat \ {0} /\ Len(w) = (1 + Len(w)) - 1
      /\ \A i \in 1 .. (1 + Len(w)) - 1 : i + 1 \in 1 .. 1 + Len(w) /\ ~(i + 1 =< 1) /\ (i + 1) - 1 = i
  BY <1>2
<1>6. (h \o w)[1] = Head(q)
  BY <1>1, <1>4, <1>5
<1>7. \A i \in 1 .. (1 + Len(w)) - 1 : w[i] = (h \o w)[i + 1]
  BY <1>4, <1>5
<1> QED BY <1>3, <1>4, <1>5, <1>6, <1>7 DEF w, t

\* knc_blk_complete_one takes the oldest answer.
LEMMA CompleteOneFlush == ASSUME Books, FlushOrder, CompleteOne PROVE FlushOrder'
<1>1. TypeOK /\ InLine /\ BehindFlush
  BY FlushHalves DEF Books
<1>2. rx # <<>> /\ rx' = Tail(rx) /\ UNCHANGED <<svc, tx, hpc, rec, ans, then, ifq>>
  BY DEF CompleteOne, hostVars
<1>3. /\ Len(Replies) \in Nat \ {0} /\ Len(Replies') = Len(Replies) - 1
      /\ \A i \in 1 .. Len(Replies) - 1 : Replies'[i] = Replies[i + 1]
  <2>1. rx \in Seq(Reply) /\ ans \in Seq(Reply)
    BY <1>1, Shapes
  <2>2. Replies' = Tail(rx) \o ans
    BY <1>2, RestNext
  <2> QED BY <1>2, <2>1, <2>2, TakesOldest DEF Replies
<1>4. Holding' <=> Holding
  BY <1>2 DEF Holding
<1>5. InLine'
  BY <1>1, <1>2, <1>4, InLineKept
<1>6. Rest' = Rest
  <2>1. Held' = Held /\ Piped' = Piped
    BY <1>2, <1>4 DEF Held, Piped
  <2> QED BY <1>2, <2>1, RestNext DEF Rest
<1>7. \A i \in 1 .. Len(Replies) - 1 :
        /\ i + 1 \in 1 .. Len(Replies)
        /\ \A j \in i + 1 .. Len(Replies) - 1 :
             j \in 1 .. Len(Replies) - 1 /\ j + 1 \in (i + 1) + 1 .. Len(Replies)
  BY <1>3
<1>8. BehindFlush'
  <2> SUFFICES ASSUME InPlace, NEW i \in 1 .. Len(Replies) - 1, Replies'[i].op = "flush"
               PROVE  /\ \A j \in i + 1 .. Len(Replies) - 1 : Before(Replies'[i], Replies'[j])
                      /\ \A s \in Rest : Before(Replies'[i], s)
    BY <1>2, <1>3, <1>6, InPlaceStays DEF BehindFlush, Before
  <2>1. Replies'[i] = Replies[i + 1] /\ i + 1 \in 1 .. Len(Replies)
    BY <1>3, <1>7
  <2>2. /\ \A j \in (i + 1) + 1 .. Len(Replies) : Before(Replies[i + 1], Replies[j])
        /\ \A s \in Rest : Before(Replies[i + 1], s)
    BY <1>1, <2>1 DEF BehindFlush
  <2>3. ASSUME NEW j \in i + 1 .. Len(Replies) - 1 PROVE Before(Replies'[i], Replies'[j])
    <3>1. j \in 1 .. Len(Replies) - 1 /\ j + 1 \in (i + 1) + 1 .. Len(Replies)
      BY <1>7
    <3>2. Replies'[j] = Replies[j + 1]
      BY <1>3, <3>1
    <3> QED BY <2>1, <2>2, <3>1, <3>2
  <2> QED BY <2>1, <2>2, <2>3
<1> QED BY <1>5, <1>8, FlushHalves

\* knc_blk_queue_rq puts a request behind all others.
LEMMA QueueRqFlush ==
  ASSUME Books, FlushOrder, NEW tag \in 1 .. MaxDepth, NEW op \in Data \cup {"flush"},
         NEW segs \in SegLists \cup {<<>>}, op \in Data => segs \in SegLists,
         QueueRq(tag, op, segs)
  PROVE  FlushOrder'
<1> DEFINE id == Len(issued) + 1
           R == RecordsOf(tag, id, op, segs)
           a == Len(tx)
           n == Len(R)
<1>1. TypeOK /\ InLine /\ BehindFlush
  BY FlushHalves DEF Books
<1>2. /\ id =< MaxReqs /\ tx' = tx \o R /\ UNCHANGED <<svc, rx, hpc, rec, ans, then, ifq>>
  BY DEF QueueRq, hostVars
<1>3. Len(issued) \in Nat /\ tx \in Seq(Record) /\ MaxReqs \in Nat /\ a \in Nat
  BY <1>1, Caps, LenProperties DEF TypeOK, CardType
<1>4. id \in 1 .. MaxReqs /\ id \in Nat /\ \A i \in 0 .. Len(issued) : i =< id /\ i < id
  BY <1>2, <1>3
<1>5. \A s \in Out : s.id =< id /\ s.id < id
  BY <1>4, OutIds
<1> HIDE DEF id
<1>6. /\ R \in Seq(Record) /\ n \in Nat \ {0} /\ (op \notin Data => n = 1)
      /\ \A i \in 1 .. n : Stub(R[i]) = [op |-> op, tag |-> tag, id |-> id, seg |-> i]
  BY <1>4, RecordsFacts
<1> HIDE DEF R
<1>7. \A i \in 1 .. n : R[i].id = id /\ R[i].op = op
  <2>1. \A e : Stub(e).id = e.id /\ Stub(e).op = e.op
    BY DEF Stub
  <2> TAKE i \in 1 .. n
  <2>2. Stub(R[i]) = [op |-> op, tag |-> tag, id |-> id, seg |-> i]
    BY <1>6
  <2>3. Stub(R[i]).id = id /\ Stub(R[i]).op = op
    BY <2>2
  <2> QED BY <2>1, <2>3
<1>8. /\ Len(tx') = a + n /\ \A i \in 1 .. a + n : tx'[i] = IF i =< a THEN tx[i] ELSE R[i - a]
  BY <1>2, <1>3, <1>6, ConcatProperties
<1> HIDE DEF n, a
<1>9. \A i \in 1 .. a + n : /\ i =< a => i \in 1 .. a /\ tx'[i] = tx[i]
                            /\ ~(i =< a) => i - a \in 1 .. n /\ tx'[i] = R[i - a]
  <2>1. \A i \in 1 .. a + n : (i =< a => i \in 1 .. a) /\ (~(i =< a) => i - a \in 1 .. n)
    BY <1>3, <1>6
  <2> QED BY <1>8, <2>1
<1>10. \A i \in 1 .. a + n : ~(i =< a) => tx'[i].id = id /\ tx'[i].op = op
  BY <1>7, <1>9
\* Whatever is under way is before the new records.
<1>11. \A e, f : e.id =< id /\ e.id < id /\ f.id = id => Before(e, f)
  BY DEF Before
<1>12. \A i \in 1 .. a : tx[i].id =< id /\ tx[i].id < id
  <2> TAKE i \in 1 .. a
  <2>1. Stub(tx[i]) \in Out
    BY DEF Out, Stubs, a
  <2>2. Stub(tx[i]).id = tx[i].id
    BY DEF Stub
  <2> QED BY <1>5, <2>1, <2>2
<1>13. \A i, j \in 1 .. a + n : i < j => Before(tx'[i], tx'[j])
  <2> SUFFICES ASSUME NEW i \in 1 .. a + n, NEW j \in 1 .. a + n, i < j
               PROVE  Before(tx'[i], tx'[j])
    OBVIOUS
  <2>1. CASE j =< a
    <3>1. i =< a
      BY <1>3, <1>6, <2>1
    <3> QED BY <1>1, <1>9, <2>1, <3>1 DEF InLine, a
  <2>2. CASE ~(j =< a) /\ i =< a
    BY <1>9, <1>10, <1>11, <1>12, <2>2
  <2>3. CASE ~(j =< a) /\ ~(i =< a)
    <3>1. op \in Data
      <4> SUFFICES ASSUME n = 1 PROVE FALSE
        BY <1>6
      <4> QED BY <1>3, <2>3
    <3>2. op # "flush" /\ id =< id
      BY <1>4, <3>1 DEF Data
    <3> QED BY <1>10, <2>3, <3>2 DEF Before
  <2> QED BY <2>1, <2>2, <2>3
<1>14. Holding => \A i \in 1 .. a + n : Before(rec, tx'[i])
  <2> SUFFICES ASSUME Holding, NEW i \in 1 .. a + n PROVE Before(rec, tx'[i])
    OBVIOUS
  <2>1. Stub(rec) \in Out
    BY <1>1, Shapes DEF Out
  <2>2. rec.id =< id /\ rec.id < id
    <3>1. Stub(rec).id = rec.id
      BY DEF Stub
    <3> QED BY <1>5, <2>1, <3>1
  <2>3. CASE i =< a
    BY <1>1, <1>9, <2>3 DEF InLine, a
  <2>4. CASE ~(i =< a)
    BY <1>10, <1>11, <2>2, <2>4
  <2> QED BY <2>3, <2>4
<1>15. Holding' <=> Holding
  BY <1>2 DEF Holding
<1>16. InLine'
  BY <1>2, <1>8, <1>13, <1>14, <1>15 DEF InLine, Before
<1>17. Replies' = Replies
  BY <1>2 DEF Replies
<1>18. \A s \in Rest' : s \in Rest \/ s.id = id
  <2> TAKE s \in Rest'
  <2>1. Held' = Held /\ Piped' = Piped
    BY <1>2, <1>15 DEF Held, Piped
  <2>2. CASE s \in Stubs(tx')
    <3>1. PICK i \in 1 .. a + n : s = Stub(tx'[i])
      BY <1>8, <2>2 DEF Stubs
    <3>2. CASE i =< a
      BY <1>9, <3>1, <3>2 DEF Rest, Stubs, a
    <3>3. CASE ~(i =< a)
      BY <1>10, <3>1, <3>3 DEF Stub
    <3> QED BY <3>2, <3>3
  <2>3. CASE s \notin Stubs(tx')
    BY <2>1, <2>3, RestNext DEF Rest
  <2> QED BY <2>2, <2>3
<1>19. BehindFlush'
  <2> SUFFICES ASSUME InPlace, NEW i \in 1 .. Len(Replies), Replies[i].op = "flush"
               PROVE  /\ \A j \in i + 1 .. Len(Replies) : Before(Replies[i], Replies[j])
                      /\ \A s \in Rest' : Before(Replies[i], s)
    BY <1>2, <1>17, InPlaceStays DEF BehindFlush, Before
  <2>1. Replies[i].id =< id /\ Replies[i].id < id
    <3>1. Stub(Replies[i]) \in Out
      BY <1>1, RepliesDiffer DEF Stubs, Out, Books
    <3>2. Stub(Replies[i]).id = Replies[i].id
      BY DEF Stub
    <3> QED BY <1>5, <3>1, <3>2
  <2>2. \A s \in Rest' : Before(Replies[i], s)
    BY <1>1, <1>11, <1>18, <2>1 DEF BehindFlush
  <2> QED BY <1>1, <2>2 DEF BehindFlush
<1> QED BY <1>16, <1>19, FlushHalves

\* One step of anybody keeps the order.
LEMMA NextFlush == ASSUME Books, FlushOrder, [Next]_vars PROVE FlushOrder'
<1>1. CASE Queue
  <2>1. PICK tag \in 1 .. MaxDepth :
          \/ \E op \in Data, segs \in SegLists : QueueRq(tag, op, segs)
          \/ QueueRq(tag, "flush", <<>>)
    BY <1>1 DEF Queue
  <2>2. CASE \E op \in Data, segs \in SegLists : QueueRq(tag, op, segs)
    BY <2>2, QueueRqFlush
  <2>3. CASE QueueRq(tag, "flush", <<>>)
    <3>1. "flush" \notin Data
      BY DEF Data
    <3> QED BY <2>3, <3>1, QueueRqFlush
  <2> QED BY <2>1, <2>2, <2>3
<1>2. CASE UNCHANGED <<svc, rx, tx, ans, ifq, rec, hpc, then>>
  <2>1. UNCHANGED <<Holding, Held, Piped>>
    BY <1>2, QueuesStay
  <2>2. Replies' = Replies /\ Rest' = Rest
    BY <1>2, <2>1, RestNext DEF Replies, Rest
  <2>3. InLine /\ BehindFlush
    BY FlushHalves
  <2>4. InLine'
    BY <1>2, <2>1, <2>3, InLineKept
  <2> QED BY <1>2, <2>2, <2>3, <2>4, BehindKept, FlushHalves
<1>3. CASE Register \/ TimePasses \/ Engine \/ UNCHANGED vars
  BY <1>2, <1>3 DEF Register, TimePasses, Engine, EngineCopy, EngineStatus, vars, hostVars
<1> QED BY <1>1, <1>3, HostFlush, CompleteOneFlush DEF Next

\* An answered flush is the only thing of its request, and all that was
\* started before it has ended.
LEMMA NextFlushed ==
  ASSUME Books, FlushOrder, InPlace, FlushNeverOvertakes, [Next]_vars
  PROVE  FlushNeverOvertakes'
<1>1. TypeOK /\ Tagged /\ PendingCounts /\ Once /\ BehindFlush /\ issued \in Seq(Issued)
      /\ Len(issued) \in Nat
  BY FlushHalves, LenProperties DEF Books, TypeOK, CardType
<1>2. CASE UNCHANGED issued
  BY <1>2 DEF FlushNeverOvertakes
<1>3. CASE Queue
  <2>1. PICK new : issued' = Append(issued, new) /\ new.end = "none"
    <3>1. PICK tag, op, segs : QueueRq(tag, op, segs)
      BY <1>3 DEF Queue
    <3> DEFINE new == [op |-> op, segs |-> segs, n |-> Len(RecordsOf(tag, Len(issued) + 1, op, segs)),
                       end |-> "none"]
    <3>2. issued' = Append(issued, new) /\ new.end = "none"
      BY <3>1 DEF QueueRq
    <3> QED BY <3>2
  <2>2. /\ Len(issued') = Len(issued) + 1 /\ issued'[Len(issued) + 1] = new
        /\ \A i \in 1 .. Len(issued) : issued'[i] = issued[i]
    BY <1>1, <2>1
  <2>3. \A f \in 1 .. Len(issued) + 1 :
          /\ f \in 1 .. Len(issued) \/ f = Len(issued) + 1
          /\ \A id \in 1 .. f - 1 : id \in 1 .. Len(issued)
    BY <1>1
  <2> SUFFICES ASSUME NEW f \in 1 .. Len(issued) + 1, issued'[f].op = "flush", issued'[f].end = "ok",
                      NEW id \in 1 .. f - 1, issued'[id].op = "write"
               PROVE  issued'[id].end # "none"
    BY <2>2 DEF FlushNeverOvertakes
  <2>4. f \in 1 .. Len(issued)
    BY <2>1, <2>2, <2>3
  <2>5. issued'[f] = issued[f] /\ issued'[id] = issued[id]
    BY <2>2, <2>3, <2>4
  <2> QED BY <2>4, <2>5 DEF FlushNeverOvertakes
<1>4. CASE CompleteOne /\ issued' # issued
  <2> DEFINE c == Head(rx)
             g == reqs[c.tag].id
             e == [issued[g] EXCEPT !.end = IF reqs[c.tag].ok /\ c.status = 0 THEN "ok" ELSE "error"]
  <2>1. /\ rx # <<>> /\ c.op # "ident" /\ ~Stray(c) /\ CompleteRecord(c)
        /\ LastRecord(c.tag) /\ issued' = [issued EXCEPT ![g] = e]
    BY <1>4 DEF CompleteOne, CompleteIdent, CompleteRecord, cardVars
  <2>2. /\ Len(Replies) \in Nat \ {0} /\ Replies[1] = c
    BY <1>1, <2>1, Shapes, TakesOldest DEF Replies
  <2>3. 1 \in 1 .. Len(Replies)
    BY <2>2
  <2>4. Stub(c) \in Out /\ Stub(c).op = c.op /\ Stub(c).tag = c.tag /\ Stub(c).id = c.id
    BY <1>1, <2>2, <2>3, RepliesDiffer DEF Stubs, Out, Stub
  <2>5. g \in 1 .. Len(issued) /\ g = c.id /\ c.op = issued[g].op
    BY <2>1, <2>4, OutIds
  <2> HIDE DEF c, g
  <2>6. issued[g] \in Issued /\ e \in Issued /\ e.op = issued[g].op /\ e.end # "none"
    <3>1. issued[g] \in Issued
      BY <1>1, <2>5, ElementOfSeq
    <3> QED BY <3>1 DEF Issued
  <2> HIDE DEF e
  <2>7. /\ Len(issued') = Len(issued)
        /\ \A i \in 1 .. Len(issued) : issued'[i] = IF i = g THEN e ELSE issued[i]
    BY <1>1, <2>1, <2>5, <2>6, ExceptSeq
  <2> SUFFICES ASSUME NEW f \in 1 .. Len(issued), issued'[f].op = "flush", issued'[f].end = "ok",
                      NEW id \in 1 .. f - 1, issued'[id].op = "write", issued'[id].end = "none"
               PROVE  FALSE
    BY <2>7 DEF FlushNeverOvertakes
  <2>8. id \in 1 .. Len(issued) /\ id # f /\ id < f
    BY <1>1
  <2>9. id # g /\ issued'[id] = issued[id]
    BY <2>6, <2>7, <2>8
  <2>10. CASE f # g
    BY <2>7, <2>9, <2>10 DEF FlushNeverOvertakes
  <2>11. CASE f = g
    <3>1. c.op = "flush"
      BY <2>5, <2>6, <2>7, <2>11
    <3>2. PICK t \in 1 .. MaxDepth : reqs[t] # NoReq /\ reqs[t].id = id
      BY <1>1, <2>8, <2>9 DEF Tagged
    <3> DEFINE P == {s \in Out : s.id = reqs[t].id}
    <3>3. reqs[t].pending = Cardinality(P) /\ reqs[t].pending \in Nat \ {0}
      <4>1. reqs[t] \in Request
        BY <1>1, <3>2 DEF TypeOK, CardType
      <4>2. reqs[t].pending \in Nat \ {0}
        BY <4>1 DEF Request
      <4> QED BY <1>1, <3>2, <4>2 DEF PendingCounts
    <3>4. P # {}
      <4> HIDE DEF P
      <4> SUFFICES ASSUME P = {} PROVE FALSE
        OBVIOUS
      <4>1. Cardinality(P) = 0
        BY FS_EmptySet
      <4> QED BY <3>3, <4>1
    <3>5. PICK s \in Out : s.id = id
      BY <3>2, <3>4
    <3>6. /\ \A j \in 2 .. Len(Replies) : Before(c, Replies[j])
          /\ \A x \in Rest : Before(c, x)
      BY <1>1, <2>2, <2>3, <3>1 DEF BehindFlush
    <3>7. CASE s \in Rest
      <4>1. c.id < s.id
        BY <3>1, <3>6, <3>7 DEF Before
      <4> QED BY <1>1, <2>5, <2>8, <2>11, <3>5, <4>1
    <3>8. CASE s \notin Rest
      <4>1. s \in Stubs(Replies)
        BY <1>1, <3>8, RepliesDiffer DEF Out, Rest
      <4>2. PICK j \in 1 .. Len(Replies) : s = Stub(Replies[j])
        BY <4>1 DEF Stubs
      <4>3. s.id = Replies[j].id
        BY <4>2 DEF Stub
      <4>4. CASE j = 1
        BY <1>1, <2>2, <2>5, <2>8, <2>11, <3>5, <4>3, <4>4
      <4>5. CASE j # 1
        <5>1. j \in 2 .. Len(Replies)
          BY <2>2, <4>5
        <5>2. c.id < Replies[j].id
          BY <3>1, <3>6, <5>1 DEF Before
        <5> QED BY <1>1, <2>5, <2>8, <2>11, <3>5, <4>3, <5>2
      <4> QED BY <4>4, <4>5
    <3> QED BY <3>7, <3>8
  <2> QED BY <2>10, <2>11
<1>5. CASE Host \/ Engine \/ TimePasses \/ Register \/ UNCHANGED vars
  <2>1. issued' = issued
    BY <1>5 DEF Host, HostPoll, HostPop, HostAnswer, HostSubmit, HostDrain, HostServe, HostWait, hostFrame,
       Engine, EngineCopy, EngineStatus, TimePasses, Register, vars, cardVars
  <2> QED BY <1>2, <2>1
<1> QED BY <1>2, <1>3, <1>4, <1>5 DEF Next

\* Nothing is flushed, or posted behind anything, at the start.
LEMMA InitFlush == ASSUME Init PROVE FlushOrder /\ FlushAfterWrites
<1>1. Len(tx) = 1 /\ rx = <<>> /\ ans = <<>> /\ Len(issued) = 0 /\ hpc = "poll"
  BY DEF Init
<1>2. Replies = <<>> /\ Len(Replies) = 0 /\ ~Holding
  BY <1>1 DEF Replies, Holding
<1>3. \A i, j \in 1 .. Len(tx) : ~(i < j)
  BY <1>1
<1>4. FlushOrder
  BY <1>2, <1>3 DEF FlushOrder
<1> QED BY <1>1, <1>4 DEF FlushAfterWrites, FlushNeverOvertakes

\* Every step is of the service's own kind.
LEMMA SvcStays == ASSUME [Next]_vars PROVE svc' = svc
  BY DEF Next, Queue, QueueRq, CompleteOne, Register, Host, HostPoll, HostPop, HostAnswer, HostSubmit,
     HostDrain, HostServe, HostWait, hostFrame, Engine, EngineCopy, EngineStatus, TimePasses, vars

\* A flush of the image, or of a disk behind the aperture, that has ended well
\* ended after every write started before it: it overtakes nothing in the
\* ring, in the host's hands or among the answers (blk_step, serve_one).  Of
\* host memory over the engine only the order in which records are taken up
\* is proved: there a flush may overtake (FlushNeverOvertakes, disk.S:521).
THEOREM FlushIsLast == Spec => [](FlushOrder /\ FlushAfterWrites)
<1> DEFINE I == Books /\ FlushOrder /\ FlushAfterWrites
<1>1. Init => I
  BY InitBooks, InitFlush
<1>2. I /\ [Next]_vars => I'
  BY NextBooks, NextFlush, NextFlushed, SvcStays, InPlaceStays DEF FlushAfterWrites
<1> QED BY <1>1, <1>2, PTL DEF Spec

-----------------------------------------------------------------------------
(***************************************************************************)
(* What a good answer of the block service says about the data: a request  *)
(* that ended well moved every segment to its place.  The books above say  *)
(* where every record is; here is where its data is.                       *)
(***************************************************************************)

(* The parts of the invariant.                                             *)

\* Every record is a part of its request, and what moves data is no identify.
KnownInv ==
  /\ \A r \in Known : OfRequest(r)
  /\ \A r \in landed \cup staging \cup Copies : r.id # 0

\* They make up LandInv.
LEMMA LandParts ==
  /\ LandInv <=> KnownInv /\ (~abandoned => PipeLands /\ StageLands /\ Lands)
  /\ LandInv' <=> KnownInv' /\ (~abandoned' => PipeLands' /\ StageLands' /\ Lands')
  BY DEF LandInv, KnownInv

\* The same request is cut into the same records, as long as the card moves
\* data the same way.
LEMMA SameRecords ==
  ASSUME direct' = direct, NEW tag, NEW id, NEW op, NEW segs
  PROVE  RecordsOf(tag, id, op, segs)' = RecordsOf(tag, id, op, segs)
  BY DEF RecordsOf, Sums

\* A record stays a part of its request.
LEMMA OfRequestStays ==
  ASSUME direct' = direct, NEW r, OfRequest(r),
         \A id \in 1 .. Len(issued) : /\ id \in 1 .. Len(issued') /\ issued'[id].op = issued[id].op
                                      /\ issued'[id].segs = issued[id].segs
                                      /\ issued'[id].n = issued[id].n
  PROVE  OfRequest(r)'
<1> SUFFICES ASSUME r.id # 0 PROVE OfRequest(r)'
  BY DEF OfRequest
<1> DEFINE all == RecordsOf(r.tag, r.id, issued[r.id].op, issued[r.id].segs)
<1>1. r.id \in 1 .. Len(issued) /\ issued[r.id].n = Len(all) /\ r.seg \in 1 .. Len(all) /\ r = all[r.seg]
  BY DEF OfRequest
<1>2. \A op, segs : RecordsOf(r.tag, r.id, op, segs)' = RecordsOf(r.tag, r.id, op, segs)
  BY SameRecords
<1>3. RecordsOf(r.tag, r.id, issued[r.id].op, issued[r.id].segs)' = all
  <2>1. issued'[r.id].op = issued[r.id].op /\ issued'[r.id].segs = issued[r.id].segs
    BY <1>1
  <2> QED BY <2>1 DEF RecordsOf, Sums
<1>4. r.id \in 1 .. Len(issued') /\ issued'[r.id].n = issued[r.id].n
  BY <1>1
<1> QED BY <1>1, <1>3, <1>4 DEF OfRequest

\* Nobody learns of a new record.
LEMMA KnownKept ==
  ASSUME KnownInv, Known' \subseteq Known, UNCHANGED <<direct, issued>>,
         \A r \in (landed \cup staging \cup Copies)' : r.id # 0
  PROVE  KnownInv'
<1>1. \A r \in Known : OfRequest(r)'
  BY OfRequestStays DEF KnownInv
<1> QED BY <1>1 DEF KnownInv

\* What everybody knows after a step.
LEMMA KnownNext ==
  /\ Copies' = {eq'[i].rec : i \in 1 .. Len(eq')}
  /\ Known' = landed' \cup staging' \cup Copies' \cup {rec'} \cup {tx'[i] : i \in 1 .. Len(tx')}
                \cup {ifq'[i].rec : i \in 1 .. Len(ifq')}
  BY DEF Copies, Known

\* The data of a segment has arrived after a step.
Came(id, seg) == \E r \in landed' : r.id = id /\ r.seg = seg /\ Valid(r)

\* Data that has arrived stays.
LEMMA ArrivedStays ==
  ASSUME landed \subseteq landed', NEW id, NEW seg, Arrived(id, seg)
  PROVE  Came(id, seg)
  BY DEF Arrived, Came

\* What Lands says after a step.
LEMMA LandsNext ==
  ASSUME \A i \in 1 .. Len(Replies') : Replies'[i].op \in Data /\ Replies'[i].status = 0 =>
           Came(Replies'[i].id, Replies'[i].seg),
         \A t \in 1 .. MaxDepth :
           reqs'[t] # NoReq /\ reqs'[t].ok /\ issued'[reqs'[t].id].op \in Data =>
             \A seg \in 1 .. issued'[reqs'[t].id].n :
               Came(reqs'[t].id, seg) \/ \E s \in Out' : s.id = reqs'[t].id /\ s.seg = seg,
         \A id \in 1 .. Len(issued') : issued'[id].op \in Data /\ issued'[id].end = "ok" =>
           \A seg \in 1 .. issued'[id].n : Came(id, seg)
  PROVE  Lands'
  BY DEF Lands, Good, Came, Arrived, Valid, Data

\* The host's steps do not touch the driver's requests.
LEMMA RequestsLand ==
  ASSUME Lands, landed \subseteq landed', Out' = Out, UNCHANGED <<reqs, issued>>,
         \A i \in 1 .. Len(Replies') : Replies'[i].op \in Data /\ Replies'[i].status = 0 =>
           Came(Replies'[i].id, Replies'[i].seg)
  PROVE  Lands'
<1>1. \A t \in 1 .. MaxDepth :
        reqs[t] # NoReq /\ reqs[t].ok /\ issued[reqs[t].id].op \in Data =>
          \A seg \in 1 .. issued[reqs[t].id].n :
            Came(reqs[t].id, seg) \/ \E s \in Out : s.id = reqs[t].id /\ s.seg = seg
  BY ArrivedStays DEF Lands, Good
<1>2. \A id \in 1 .. Len(issued) : issued[id].op \in Data /\ issued[id].end = "ok" =>
        \A seg \in 1 .. issued[id].n : Came(id, seg)
  BY ArrivedStays DEF Lands
<1> QED BY <1>1, <1>2, LandsNext

\* ... and neither do they lose an answer.
LEMMA LandsKept ==
  ASSUME Lands, landed \subseteq landed', Out' = Out, UNCHANGED <<reqs, issued, Replies>>
  PROVE  Lands'
<1>1. \A i \in 1 .. Len(Replies) : Replies[i].op \in Data /\ Replies[i].status = 0 =>
        Came(Replies[i].id, Replies[i].seg)
  BY ArrivedStays DEF Lands
<1> QED BY <1>1, RequestsLand

\* New answers.
LEMMA LandsAnswers ==
  ASSUME TypeOK, Lands, landed \subseteq landed', Out' = Out, UNCHANGED <<reqs, issued, rx>>,
         ans = <<>>, ans' \in Seq(Reply),
         \A i \in 1 .. Len(ans') : ans'[i].op \in Data /\ ans'[i].status = 0 =>
           Came(ans'[i].id, ans'[i].seg)
  PROVE  Lands'
<1> DEFINE a == Len(rx)
           b == Len(ans')
           w == rx \o ans'
<1>1. rx \in Seq(Reply) /\ a \in Nat /\ b \in Nat
  BY Shapes, LenProperties
<1>2. Replies = rx
  BY <1>1, ConcatEmptySeq DEF Replies
<1>3. /\ Len(w) = a + b /\ \A i \in 1 .. a + b : w[i] = IF i =< a THEN rx[i] ELSE ans'[i - a]
  BY <1>1, ConcatProperties
<1>4. Replies' = w
  BY RestNext
<1> HIDE DEF w, a, b
<1>5. \A i \in 1 .. a + b : (i =< a => i \in 1 .. a) /\ (~(i =< a) => i - a \in 1 .. b)
  BY <1>1
<1>6. \A i \in 1 .. a : rx[i].op \in Data /\ rx[i].status = 0 => Came(rx[i].id, rx[i].seg)
  BY <1>2, ArrivedStays DEF Lands, a
<1>7. \A i \in 1 .. a + b : w[i].op \in Data /\ w[i].status = 0 => Came(w[i].id, w[i].seg)
  <2> SUFFICES ASSUME NEW i \in 1 .. a + b, w[i].op \in Data, w[i].status = 0
               PROVE  Came(w[i].id, w[i].seg)
    OBVIOUS
  <2>1. CASE i =< a
    BY <1>3, <1>5, <1>6, <2>1
  <2>2. CASE ~(i =< a)
    BY <1>3, <1>5, <2>2 DEF b
  <2> QED BY <2>1, <2>2
<1> QED BY <1>3, <1>4, <1>7, RequestsLand

\* The pipeline stays as it is.
LEMMA PipeLandsKept ==
  ASSUME PipeLands, UNCHANGED <<ifq, eq, submitted, svc>>, landed \subseteq landed'
  PROVE  PipeLands'
<1>1. Position' = Position
  BY DEF Position
<1>2. \A i \in 1 .. Len(ifq) : /\ Valid(ifq[i].rec)
                               /\ IF ifq[i].seq =< Position THEN ifq[i].rec \in landed
                                  ELSE eq[ifq[i].seq - Position].rec = ifq[i].rec
  BY DEF PipeLands
<1>3. \A i \in 1 .. Len(ifq') : /\ Valid(ifq'[i].rec)
                                /\ IF ifq'[i].seq =< Position' THEN ifq'[i].rec \in landed'
                                   ELSE eq'[ifq'[i].seq - Position'].rec = ifq'[i].rec
  BY <1>1, <1>2
<1>4. svc'.backend = "ram" /\ eq' # <<>> /\ eq'[1].copied => eq'[1].rec \in landed'
  BY DEF PipeLands
<1> QED BY <1>3, <1>4 DEF PipeLands, Valid

\* No staged copy is under way, and none is begun.
LEMMA StageIdle ==
  ASSUME StageLands, svc' = svc, hpc' \notin {"wait", "submit"},
         svc.backend = "file" => hpc # "wait" /\ UNCHANGED <<eq, completed, submitted>>
  PROVE  StageLands'
  BY DEF StageLands

\* Host memory needs no staging buffer.
LEMMA StageRam ==
  ASSUME svc' = svc, svc.backend # "file"
  PROVE  StageLands'
  BY DEF StageLands


----------------------------------------------------------------------------
(* The host's steps.                                                       *)

\* The record in hand, if it moves data, belongs to a request.
LEMMA DataRecord ==
  ASSUME Books, Holding, rec.op \in Data
  PROVE  rec.id # 0
<1>1. Stub(rec) \in Out /\ Stub(rec).op = rec.op /\ Stub(rec).id = rec.id
  BY Shapes DEF Books, Out, Stub
<1>2. rec.id \in 1 .. Len(issued)
  BY <1>1, OutIds DEF Data
<1> QED BY <1>2

\* The record in hand is answered.
LEMMA AnswerLand ==
  ASSUME Books, LandInv, hpc \in {"submit", "serve", "wait"}, NEW st \in {0, 5, 22}, AnswerThis(st),
         Out' = Out, UNCHANGED <<svc, direct, reqs, issued, tx, rx, rec, ifq, eq, submitted>>,
         landed \subseteq landed', landed' \subseteq landed \cup staging \cup {rec},
         staging' \subseteq staging, landed' # landed => rec.op \in Data, abandoned => abandoned',
         ~abandoned' /\ svc.backend = "file" => eq = <<>> /\ completed' = submitted,
         ~abandoned' /\ st = 0 /\ rec.op \in Data => rec \in landed' /\ Valid(rec)
  PROVE  LandInv'
<1>1. TypeOK /\ Holding /\ ans = <<>> /\ KnownInv
  BY HoldingFacts, LandParts
<1>2. /\ ans' = <<Completion(rec, st)>> /\ ans' \in Seq(Reply) /\ Len(ans') = 1 /\ hpc' = "answer"
  BY <1>1, AnswersThis DEF TypeOK
<1>3. KnownInv'
  <2>1. Copies' = Copies /\ Known' \subseteq Known
    BY KnownNext DEF Known, Copies
  <2>2. \A r \in landed' \cup staging' \cup Copies' : r.id # 0
    <3>1. rec \in landed' => rec.id # 0
      BY <1>1, DataRecord DEF KnownInv
    <3> QED BY <1>1, <2>1, <3>1 DEF KnownInv
  <2> QED BY <1>1, <2>1, <2>2, KnownKept
<1>4. ASSUME ~abandoned' PROVE PipeLands' /\ StageLands' /\ Lands'
  <2>1. PipeLands /\ StageLands /\ Lands
    BY <1>4, LandParts
  <2>2. PipeLands'
    BY <2>1, PipeLandsKept
  <2>3. StageLands'
    BY <1>2, <1>4 DEF StageLands
  <2>4. \A i \in 1 .. Len(ans') : ans'[i].op \in Data /\ ans'[i].status = 0 =>
          Came(ans'[i].id, ans'[i].seg)
    <3> SUFFICES ASSUME NEW i \in 1 .. Len(ans'), ans'[i].op \in Data, ans'[i].status = 0
                 PROVE  Came(ans'[i].id, ans'[i].seg)
      OBVIOUS
    <3>1. ans'[i] = Completion(rec, st)
      BY <1>2
    <3>2. ans'[i].op = rec.op /\ ans'[i].status = st /\ ans'[i].id = rec.id /\ ans'[i].seg = rec.seg
      BY <3>1 DEF Completion
    <3>3. rec \in landed' /\ Valid(rec)
      BY <1>4, <3>2
    <3> QED BY <3>2, <3>3 DEF Came
  <2>5. Lands'
    BY <1>1, <1>2, <2>1, <2>4, LandsAnswers
  <2> QED BY <2>2, <2>3, <2>5
<1> QED BY <1>3, <1>4, LandParts

\* The oldest records of the pipeline are answered, well only if the engine
\* is past them.
LEMMA AnswersLand ==
  ASSUME Books, LandInv, ans = <<>>, ifq # <<>>, NEW k \in 0 .. Len(ifq), NEW st \in {0, 5},
         NEW next \in {"pop", "serve"}, Answer(SubSeq(ifq, 1, k), st, next),
         ifq' = SubSeq(ifq, k + 1, Len(ifq)), Holding' <=> Holding,
         UNCHANGED <<svc, disk, direct, reqs, outstanding, issued, tx, rx, rec, submitted, eq, landed,
                     staging, abandoned>>,
         st = 0 => \A i \in 1 .. k : ifq[i].seq =< Position
  PROVE  LandInv'
<1>1. TypeOK /\ PipeInv /\ Ledger /\ KnownInv
  BY LandParts DEF Books, Ledger
<1>2. /\ HostType' /\ Out' = Out /\ Len(ans') = k
      /\ \A i \in 1 .. k : ans'[i] = Completion(ifq[i].rec, st)
      /\ \A i \in 1 .. Len(ifq') : k + i \in 1 .. Len(ifq) /\ ifq'[i] = ifq[k + i]
  BY <1>1, GivesAnswers
<1>3. svc.backend = "ram" /\ Len(ifq) \in Nat
  BY <1>1, PipeNeedsEngine
<1>4. KnownInv'
  <2>1. Copies' = Copies
    BY DEF Copies
  <2>2. {ifq'[i].rec : i \in 1 .. Len(ifq')} \subseteq {ifq[i].rec : i \in 1 .. Len(ifq)}
    BY <1>2
  <2>3. Known' \subseteq Known
    BY <2>1, <2>2, KnownNext DEF Known
  <2> QED BY <1>1, <2>1, <2>3, KnownKept DEF KnownInv
<1>5. ASSUME ~abandoned' PROVE PipeLands' /\ StageLands' /\ Lands'
  <2>1. PipeLands /\ StageLands /\ Lands
    BY <1>5, LandParts
  <2>2. StageLands'
    BY <1>3, StageRam
  <2>3. Position' = Position
    BY DEF Position
  <2>4. \A i \in 1 .. Len(ifq) : /\ Valid(ifq[i].rec)
                                 /\ IF ifq[i].seq =< Position THEN ifq[i].rec \in landed
                                    ELSE eq[ifq[i].seq - Position].rec = ifq[i].rec
    BY <2>1 DEF PipeLands
  <2>5. \A i \in 1 .. Len(ifq') : /\ Valid(ifq'[i].rec)
                                  /\ IF ifq'[i].seq =< Position' THEN ifq'[i].rec \in landed'
                                     ELSE eq'[ifq'[i].seq - Position'].rec = ifq'[i].rec
    BY <1>2, <2>3, <2>4
  <2>6. svc'.backend = "ram" /\ eq' # <<>> /\ eq'[1].copied => eq'[1].rec \in landed'
    BY <2>1 DEF PipeLands
  <2>7. PipeLands'
    BY <2>5, <2>6 DEF PipeLands, Valid
  <2>8. \A i \in 1 .. Len(ans') : ans'[i].op \in Data /\ ans'[i].status = 0 =>
          Came(ans'[i].id, ans'[i].seg)
    <3> SUFFICES ASSUME NEW i \in 1 .. k, ans'[i].status = 0 PROVE Came(ans'[i].id, ans'[i].seg)
      BY <1>2
    <3>1. ans'[i] = Completion(ifq[i].rec, st) /\ i \in 1 .. Len(ifq)
      BY <1>2, <1>3
    <3>2. ans'[i].status = st /\ ans'[i].id = ifq[i].rec.id /\ ans'[i].seg = ifq[i].rec.seg
      BY <3>1 DEF Completion
    <3>3. ifq[i].seq =< Position
      BY <3>2
    <3>4. ifq[i].rec \in landed' /\ Valid(ifq[i].rec)
      BY <2>4, <3>1, <3>3
    <3> QED BY <3>2, <3>4 DEF Came
  <2>9. Lands'
    <3>1. ans' \in Seq(Reply)
      BY <1>2 DEF HostType
    <3> QED BY <1>1, <1>2, <2>1, <2>8, <3>1, LandsAnswers
  <2> QED BY <2>2, <2>7, <2>9
<1> QED BY <1>4, <1>5, LandParts

\* blk_step first answers what the engine has finished.
LEMMA HostPollLand == ASSUME Books, LandInv, HostPoll PROVE LandInv'
<1>1. TypeOK /\ EngineInv /\ PipeInv /\ KnownInv
  BY LandParts DEF Books
<1>2. /\ hpc = "poll" /\ ans = <<>> /\ ~Holding
      /\ UNCHANGED <<svc, disk, direct, reqs, outstanding, issued, tx, rx, rec, eq, hostWord,
                     cardWord, staging, landed, abandoned>>
  BY <1>1 DEF HostPoll, hostFrame, cardVars, engineVars, PipeInv, Holding
<1>3. Out' = Out
  BY HostPollBooks
<1>4. CASE hpc' = "pop" /\ UNCHANGED <<ans, then, ifq, dmaVars>>
  <2>1. UNCHANGED <<ans, ifq, submitted, completed>> /\ hpc' = "pop"
    BY <1>4 DEF dmaVars
  <2>2. KnownInv'
    <3>1. Copies' = Copies /\ Known' = Known
      BY <1>2, <2>1 DEF Copies, Known
    <3> QED BY <1>1, <1>2, <3>1, KnownKept DEF KnownInv
  <2>3. Replies' = Replies
    BY <1>2, <2>1 DEF Replies
  <2>4. ASSUME ~abandoned' PROVE PipeLands' /\ StageLands' /\ Lands'
    <3>1. PipeLands /\ StageLands /\ Lands
      BY <1>2, <2>4, LandParts
    <3> QED BY <1>2, <1>3, <2>1, <2>3, <3>1, PipeLandsKept, StageIdle, LandsKept
  <2> QED BY <2>2, <2>4, LandParts
<1>5. CASE /\ ifq # <<>> /\ PollUpdate
           /\ Answer(Done(completed'), 0, "pop") /\ ifq' = NotDone(completed')
  <2> DEFINE k == Finished(completed')
  <2>1. completed' \in Nat /\ submitted' = submitted /\ completed' =< Position /\ Position \in Nat
    BY <1>1, <1>2, <1>5, PollKeeps, EngineFacts DEF engineVars
  <2>2. k \in 0 .. Len(ifq) /\ \A i \in 1 .. k : ifq[i].seq =< completed'
    <3>1. completed' \in Int
      BY <2>1
    <3> QED BY <1>1, <3>1, FinishedFacts
  <2>3. Answer(SubSeq(ifq, 1, k), 0, "pop") /\ ifq' = SubSeq(ifq, k + 1, Len(ifq))
    BY <1>5 DEF Done, NotDone
  <2>4. ~Holding'
    BY <1>5 DEF Holding, Answer
  <2> HIDE DEF k
  <2>5. \A i \in 1 .. k : ifq[i].seq =< Position
    <3> TAKE i \in 1 .. k
    <3>1. i \in 1 .. Len(ifq)
      BY <1>1, <2>2, Shapes
    <3>2. ifq[i].seq \in Nat
      <4>1. ifq[i] \in [rec : Record, seq : Nat]
        BY <1>1, <3>1, ElementOfSeq DEF TypeOK, HostType
      <4> QED BY <4>1
    <3>3. ifq[i].seq =< completed'
      BY <2>2
    <3> QED BY <2>1, <3>2, <3>3
  <2> QED BY <1>2, <1>5, <2>1, <2>2, <2>3, <2>4, <2>5, AnswersLand
<1>6. CASE ifq # <<>> /\ Answer(ifq, 5, "pop") /\ ifq' = <<>> /\ UNCHANGED dmaVars
  <2> DEFINE k == Len(ifq)
  <2>1. k \in 0 .. Len(ifq) /\ Answer(SubSeq(ifq, 1, k), 5, "pop") /\ ifq' = SubSeq(ifq, k + 1, Len(ifq))
    BY <1>1, <1>6, AllOfIt
  <2>2. ~Holding' /\ submitted' = submitted
    BY <1>6 DEF Holding, Answer, dmaVars
  <2> HIDE DEF k
  <2> QED BY <1>2, <1>6, <2>1, <2>2, AnswersLand
<1> QED BY <1>4, <1>5, <1>6 DEF HostPoll

\* dma_wait, before a record that is served in place.
LEMMA HostDrainLand == ASSUME Books, LandInv, HostDrain PROVE LandInv'
<1>1. TypeOK /\ EngineInv /\ PipeInv /\ KnownInv
  BY LandParts DEF Books
<1>2. /\ hpc = "drain" /\ ans = <<>> /\ Holding /\ ifq # <<>>
      /\ UNCHANGED <<svc, disk, direct, reqs, outstanding, issued, tx, rx, rec, eq, hostWord,
                     cardWord, staging, landed, abandoned>>
  BY HoldingFacts DEF HostDrain, hostFrame, cardVars, engineVars
<1>3. svc.backend = "ram" /\ Len(ifq) \in Nat \ {0} /\ ifq[Len(ifq)].seq = submitted
  BY <1>1, <1>2, PipeNeedsEngine
<1>4. submitted' = submitted
  BY DEF HostDrain, dmaVars, PollUpdate
<1>5. CASE UNCHANGED <<hpc, ans, then, ifq>>
  <2>1. Out' = Out
    BY HostDrainBooks
  <2>2. KnownInv'
    <3>1. Copies' = Copies /\ Known' = Known
      BY <1>2, <1>5 DEF Copies, Known
    <3> QED BY <1>1, <1>2, <3>1, KnownKept DEF KnownInv
  <2>3. Replies' = Replies
    BY <1>2, <1>5 DEF Replies
  <2>4. ASSUME ~abandoned' PROVE PipeLands' /\ StageLands' /\ Lands'
    <3>1. PipeLands /\ StageLands /\ Lands
      BY <1>2, <2>4, LandParts
    <3> QED BY <1>2, <1>3, <1>4, <1>5, <2>1, <2>3, <3>1, PipeLandsKept, StageRam, LandsKept
  <2> QED BY <2>2, <2>4, LandParts
<1>6. ASSUME NEW k \in 0 .. Len(ifq), NEW st \in {0, 5},
             Answer(SubSeq(ifq, 1, k), st, "serve"), ifq' = SubSeq(ifq, k + 1, Len(ifq)),
             st = 0 => \A i \in 1 .. k : ifq[i].seq =< Position
      PROVE  LandInv'
  <2>1. Holding'
    BY <1>6 DEF Holding, Answer
  <2> QED BY <1>2, <1>4, <1>6, <2>1, AnswersLand
<1> QED BY <1>5, <1>6, DrainAnswers

\* A step that moves no data and answers nothing.
LEMMA LandKept ==
  ASSUME LandInv, Out' = Out, Replies' = Replies, Known' \subseteq Known,
         UNCHANGED <<svc, direct, reqs, issued, ifq, eq, submitted, landed, staging, abandoned>>,
         ~abandoned /\ StageLands => StageLands'
  PROVE  LandInv'
<1>1. KnownInv'
  <2>1. Copies' = Copies
    BY DEF Copies
  <2> QED BY <2>1, LandParts, KnownKept DEF KnownInv
<1>2. ASSUME ~abandoned' PROVE PipeLands' /\ StageLands' /\ Lands'
  <2>1. ~abandoned /\ PipeLands /\ StageLands /\ Lands
    BY <1>2, LandParts
  <2>2. PipeLands'
    BY <2>1, PipeLandsKept
  <2>3. Lands'
    BY <2>1, LandsKept
  <2> QED BY <2>1, <2>2, <2>3
<1> QED BY <1>1, <1>2, LandParts

\* Time passes, the workqueue registers the disk, or nothing happens.
LEMMA QuietLand == ASSUME Books, LandInv, TimePasses \/ Register \/ UNCHANGED vars PROVE LandInv'
<1>1. UNCHANGED <<svc, direct, reqs, issued, tx, rx, hpc, rec, ans, then, ifq, submitted, completed,
                  eq, landed, staging, abandoned>>
  BY DEF TimePasses, Register, vars, cardVars, hostVars, dmaVars, engineVars
<1>2. Out' = Out
  BY <1>1, QueuesStay
<1>3. Replies' = Replies /\ Known' = Known
  BY <1>1 DEF Replies, Known, Copies
<1>4. StageLands => StageLands'
  BY <1>1 DEF StageLands, Valid
<1> QED BY <1>1, <1>2, <1>3, <1>4, LandKept

\* The host takes the next record.
LEMMA HostPopLand == ASSUME Books, LandInv, HostPop PROVE LandInv'
<1>1. TypeOK /\ Out' = Out
  BY HostPopBooks DEF Books
<1>2. /\ hpc = "pop"
      /\ UNCHANGED <<svc, direct, reqs, issued, rx, ans, ifq, submitted, completed, eq, landed,
                     staging, abandoned>>
  BY DEF HostPop, hostFrame, cardVars, engineVars, dmaVars
<1>3. Replies' = Replies /\ Copies' = Copies
  BY <1>2 DEF Replies, Copies
<1>4. CASE tx = <<>>
  <2>1. UNCHANGED <<tx, rec>> /\ hpc' = "poll"
    BY <1>4 DEF HostPop
  <2>2. Known' = Known
    BY <1>2, <2>1 DEF Known, Copies
  <2>3. StageLands => StageLands'
    BY <1>2, <2>1, StageIdle
  <2> QED BY <1>1, <1>2, <1>3, <2>2, <2>3, LandKept
<1>5. CASE tx # <<>>
  <2>1. tx' = Tail(tx) /\ rec' = Head(tx) /\ hpc' = Route(Head(tx))
    BY <1>5 DEF HostPop
  <2>2. tx \in Seq(Record)
    BY <1>1, Shapes
  <2>3. /\ Len(tx) \in Nat \ {0} /\ Head(tx) = tx[1] /\ Len(tx') = Len(tx) - 1
        /\ \A i \in 1 .. Len(tx') : tx'[i] = tx[i + 1]
    BY <1>5, <2>1, <2>2, HeadTailProperties, EmptySeq, LenProperties
  <2>4. {tx'[i] : i \in 1 .. Len(tx')} \subseteq {tx[i] : i \in 1 .. Len(tx)}
    <3>1. \A i \in 1 .. Len(tx') : i + 1 \in 1 .. Len(tx)
      BY <2>3
    <3> QED BY <2>3, <3>1
  <2>5. rec' \in {tx[i] : i \in 1 .. Len(tx)}
    BY <2>1, <2>3
  <2>6. Known' \subseteq Known
    BY <1>2, <1>3, <2>4, <2>5, KnownNext DEF Known
  <2>7. StageLands => StageLands'
    <3>1. svc.backend = "file" => hpc' \in {"serve", "drain"}
      BY <2>1 DEF Route, Pipelined
    <3> QED BY <1>2, <3>1, StageIdle, StageRam
  <2> QED BY <1>1, <1>2, <1>3, <2>6, <2>7, LandKept
<1> QED BY <1>4, <1>5

\* The host posts an answer.
LEMMA HostAnswerLand == ASSUME Books, LandInv, HostAnswer PROVE LandInv'
<1>1. TypeOK /\ Out' = Out
  BY HostAnswerBooks DEF Books
<1>2. /\ hpc = "answer"
      /\ UNCHANGED <<svc, direct, reqs, issued, tx, rec, then, ifq, submitted, completed, eq, landed,
                     staging, abandoned>>
  BY DEF HostAnswer, cardVars, engineVars, dmaVars
<1>3. rx \in Seq(Reply) /\ ans \in Seq(Reply) /\ then \in {"poll", "pop", "serve"}
  BY <1>1, Shapes DEF TypeOK, HostType
<1>4. Replies' = Replies
  <2>1. CASE UNCHANGED <<ans, rx>>
    BY <2>1 DEF Replies
  <2>2. CASE ans # <<>> /\ rx' = Append(rx, Head(ans)) /\ ans' = Tail(ans)
    <3>1. Append(rx, Head(ans)) \o Tail(ans) = rx \o ans
      BY <1>3, <2>2, MovesOver
    <3> QED BY <2>2, <3>1, RestNext DEF Replies
  <2> QED BY <2>1, <2>2 DEF HostAnswer
<1>5. Known' = Known
  BY <1>2 DEF Known, Copies
<1>6. StageLands => StageLands'
  <2>1. hpc' \notin {"wait", "submit"}
    BY <1>2, <1>3 DEF HostAnswer
  <2> QED BY <1>2, <2>1, StageIdle
<1> QED BY <1>1, <1>2, <1>4, <1>5, <1>6, LandKept

\* Before a staged copy goes to the engine, the engine is idle.
LEMMA StageClear ==
  ASSUME Books, LandInv, ~abandoned, svc.backend = "file", hpc # "wait"
  PROVE  /\ eq = <<>> /\ completed = submitted /\ Len(eq) = 0 /\ ~RingFull
         /\ hpc = "submit" /\ rec.op = "read" => staging = {rec}
<1>1. /\ eq = <<>> /\ completed = submitted
      /\ hpc = "submit" /\ rec.op = "read" => staging = {rec}
  BY LandParts DEF StageLands
<1>2. submitted \in Nat /\ MaxInFlight \in Nat \ {0}
  BY EngineFacts, Caps DEF Books
<1>3. ~RingFull
  BY <1>1, <1>2 DEF RingFull, InFlight
<1> QED BY <1>1, <1>3

\* A copy goes into the engine's ring.
LEMMA SubmitLand ==
  ASSUME Books, LandInv, hpc = "submit", Out' = Out, Valid(rec), ~RingFull, Submit(rec),
         IF Pipelined(rec)
         THEN hpc' = "poll" /\ ifq' = Append(ifq, [rec |-> rec, seq |-> submitted + 1])
         ELSE hpc' = "wait" /\ ifq' = ifq,
         UNCHANGED <<svc, direct, reqs, issued, tx, rx, rec, ans, landed, staging, abandoned>>
  PROVE  LandInv'
<1>1. /\ TypeOK /\ EngineInv /\ PipeInv /\ Holding /\ KnownInv /\ rec.op \in Data /\ OnEngine
      /\ ifq \in Seq([rec : Record, seq : Nat]) /\ rec \in Record /\ svc.backend \in {"ram", "file"}
  BY HoldingFacts, LandParts, ServiceAssumption DEF TypeOK, HostType
<1> DEFINE a == Len(eq)
           b == Len(ifq)
<1>2. /\ submitted' = submitted + 1 /\ Position' = Position /\ Len(eq') = a + 1
      /\ eq'[a + 1].rec = rec /\ ~eq'[a + 1].copied /\ \A i \in 1 .. a : eq'[i] = eq[i]
      /\ completed' = completed
  BY <1>1, SubmitKeeps
<1>3. /\ a \in Nat /\ b \in Nat /\ Position \in Nat /\ submitted \in Nat /\ Position = submitted - a
      /\ Position =< submitted
  BY <1>1, EngineFacts, Shapes DEF Position
<1>4. /\ Pipelined(rec) => /\ Len(ifq') = b + 1 /\ ifq'[b + 1] = [rec |-> rec, seq |-> submitted + 1]
                           /\ \A i \in 1 .. b : ifq'[i] = ifq[i]
      /\ ~Pipelined(rec) => ifq' = ifq
  <2>1. [rec |-> rec, seq |-> submitted + 1] \in [rec : Record, seq : Nat]
    BY <1>1, <1>3
  <2> QED BY <1>1, <2>1, AppendProperties
<1> HIDE DEF a, b
<1>5. KnownInv'
  <2>1. Copies' \subseteq Copies \cup {rec}
    <3> SUFFICES ASSUME NEW i \in 1 .. Len(eq') PROVE eq'[i].rec \in Copies \cup {rec}
      BY KnownNext
    <3>1. CASE i = a + 1
      BY <1>2, <3>1
    <3>2. CASE i # a + 1
      <4>1. i \in 1 .. a
        BY <1>2, <1>3, <3>2
      <4> QED BY <1>2, <4>1 DEF Copies, a
    <3> QED BY <3>1, <3>2
  <2>2. {ifq'[i].rec : i \in 1 .. Len(ifq')} \subseteq {ifq[i].rec : i \in 1 .. Len(ifq)} \cup {rec}
    <3> SUFFICES ASSUME NEW i \in 1 .. Len(ifq')
                 PROVE  ifq'[i].rec \in {ifq[j].rec : j \in 1 .. Len(ifq)} \cup {rec}
      OBVIOUS
    <3>1. CASE ~Pipelined(rec)
      BY <1>4, <3>1
    <3>2. CASE Pipelined(rec) /\ i = b + 1
      BY <1>4, <3>2
    <3>3. CASE Pipelined(rec) /\ i # b + 1
      <4>1. i \in 1 .. b
        BY <1>3, <1>4, <3>3
      <4> QED BY <1>4, <3>3, <4>1 DEF b
    <3> QED BY <3>1, <3>2, <3>3
  <2>3. Known' \subseteq Known
    BY <2>1, <2>2, KnownNext DEF Known
  <2>4. rec.id # 0
    BY <1>1, DataRecord
  <2>5. \A r \in landed' \cup staging' \cup Copies' : r.id # 0
    BY <1>1, <2>1, <2>4 DEF KnownInv
  <2> QED BY <1>1, <2>3, <2>5, KnownKept
<1>6. ASSUME ~abandoned' PROVE PipeLands' /\ StageLands' /\ Lands'
  <2>1. ~abandoned /\ PipeLands /\ StageLands /\ Lands
    BY <1>6, LandParts
  <2>2. Lands'
    <3>1. Replies' = Replies
      BY DEF Replies
    <3> QED BY <2>1, <3>1, LandsKept
  <2>3. \A i \in 1 .. b : /\ Valid(ifq[i].rec)
                          /\ IF ifq[i].seq =< Position THEN ifq[i].rec \in landed
                             ELSE eq[ifq[i].seq - Position].rec = ifq[i].rec
    BY <2>1 DEF PipeLands, b
  <2>4. \A i \in 1 .. b : ~(ifq[i].seq =< Position) => ifq[i].seq - Position \in 1 .. a
    <3> SUFFICES ASSUME NEW i \in 1 .. b, ~(ifq[i].seq =< Position)
                 PROVE  ifq[i].seq - Position \in 1 .. a
      OBVIOUS
    <3>1. ifq[i].seq = submitted - b + i
      BY <1>1 DEF PipeInv, b
    <3> QED BY <1>3, <3>1
  <2>5. \A i \in 1 .. Len(ifq') : /\ Valid(ifq'[i].rec)
                                  /\ IF ifq'[i].seq =< Position' THEN ifq'[i].rec \in landed'
                                     ELSE eq'[ifq'[i].seq - Position'].rec = ifq'[i].rec
    <3>1. \A i \in 1 .. b : /\ Valid(ifq[i].rec)
                            /\ IF ifq[i].seq =< Position THEN ifq[i].rec \in landed
                               ELSE eq'[ifq[i].seq - Position].rec = ifq[i].rec
      BY <1>2, <2>3, <2>4
    <3>2. CASE ~Pipelined(rec)
      BY <1>2, <1>4, <3>1, <3>2 DEF b
    <3>3. CASE Pipelined(rec)
      <4> TAKE i \in 1 .. Len(ifq')
      <4>1. CASE i = b + 1
        <5>1. ifq'[i].rec = rec /\ ifq'[i].seq = submitted + 1
          BY <1>4, <3>3, <4>1
        <5>2. ~(submitted + 1 =< Position) /\ (submitted + 1) - Position = a + 1
          BY <1>3
        <5>3. ~(ifq'[i].seq =< Position') /\ ifq'[i].seq - Position' = a + 1
          <6>1. Position' = Position /\ ifq'[i].seq = submitted + 1
            BY <1>2, <5>1, Zenon
          <6> QED BY <5>2, <6>1, Zenon
        <5> QED BY <1>2, <5>1, <5>3, Zenon
      <4>2. CASE i # b + 1
        <5>1. i \in 1 .. b
          BY <1>3, <1>4, <3>3, <4>2
        <5> QED BY <1>2, <1>4, <3>1, <3>3, <5>1
      <4> QED BY <4>1, <4>2
    <3> QED BY <3>2, <3>3
  <2>6. svc'.backend = "ram" /\ eq' # <<>> /\ eq'[1].copied => eq'[1].rec \in landed'
    <3>1. CASE a = 0
      BY <1>2, <3>1
    <3>2. CASE a # 0
      <4>1. 1 \in 1 .. a
        BY <1>3, <3>2
      <4>2. eq'[1] = eq[1] /\ eq # <<>>
        BY <1>2, <4>1 DEF a
      <4> QED BY <2>1, <4>2 DEF PipeLands
    <3> QED BY <3>1, <3>2
  <2>7. PipeLands'
    BY <2>5, <2>6 DEF PipeLands, Valid
  <2>8. StageLands'
    <3>1. CASE svc.backend # "file"
      BY <3>1, StageRam
    <3>2. CASE svc.backend = "file"
      <4>1. a = 0 /\ (rec.op = "read" => staging = {rec}) /\ hpc' = "wait"
        BY <2>1, <3>2, StageClear DEF Pipelined, a
      <4>2. Len(eq') = 1 /\ eq'[1].rec = rec /\ ~eq'[1].copied /\ eq' # <<>>
        BY <1>2, <4>1
      <4> QED BY <4>1, <4>2 DEF StageLands, Valid
    <3> QED BY <3>1, <3>2
  <2> QED BY <2>2, <2>7, <2>8
<1> QED BY <1>5, <1>6, LandParts

\* submit_ram, and the copies of do_read and do_write.
LEMMA HostSubmitLand == ASSUME Books, LandInv, HostSubmit PROVE LandInv'
<1>1. Out' = Out /\ Holding /\ ans = <<>> /\ rec.op \in Data /\ TypeOK /\ EngineInv
  BY HostSubmitBooks, HoldingFacts DEF HostSubmit
<1>2. /\ hpc = "submit"
      /\ UNCHANGED <<svc, direct, reqs, issued, tx, rx, rec, landed, staging, abandoned>>
  BY DEF HostSubmit, cardVars
<1>3. ~abandoned /\ svc.backend = "file" => eq = <<>> /\ completed = submitted /\ ~RingFull
  BY <1>2, StageClear
<1>4. CASE \E st \in {5, 22} : AnswerThis(st) /\ UNCHANGED <<ifq, dmaVars, engineVars>>
  <2>1. PICK st \in {5, 22} : AnswerThis(st)
    BY <1>4
  <2>2. UNCHANGED <<ifq, submitted, completed, eq>>
    BY <1>4 DEF dmaVars, engineVars
  <2>3. st \in {0, 5, 22} /\ st # 0
    OBVIOUS
  <2> QED BY <1>1, <1>2, <1>3, <2>1, <2>2, <2>3, AnswerLand
<1>5. CASE RingFull /\ PollUpdate /\ UNCHANGED <<hpc, ans, then, ifq, engineVars>>
  <2>1. UNCHANGED <<hpc, ans, ifq, eq, submitted>>
    BY <1>5 DEF engineVars, PollUpdate
  <2>2. Replies' = Replies /\ Known' = Known
    BY <1>2, <2>1 DEF Replies, Known, Copies
  <2>3. ~abandoned => StageLands'
    BY <1>2, <1>3, <1>5, StageRam
  <2> QED BY <1>1, <1>2, <2>1, <2>2, <2>3, LandKept
<1>6. CASE Valid(rec) /\ ~RingFull
  <2>1. Submit(rec) /\ ans' = ans
    BY <1>6 DEF HostSubmit
  <2>2. IF Pipelined(rec)
        THEN hpc' = "poll" /\ ifq' = Append(ifq, [rec |-> rec, seq |-> submitted + 1])
        ELSE hpc' = "wait" /\ ifq' = ifq
    BY <1>6 DEF HostSubmit
  <2> QED BY <1>1, <1>2, <1>6, <2>1, <2>2, SubmitLand
<1> QED BY <1>4, <1>5, <1>6 DEF HostSubmit

\* serve_one.
LEMMA HostServeLand == ASSUME Books, LandInv, HostServe PROVE LandInv'
<1>1. /\ Out' = Out /\ Holding /\ ans = <<>> /\ TypeOK /\ ~Pipelined(rec) /\ KnownInv
      /\ svc.backend \in {"ram", "file"}
  BY HostServeBooks, HoldingFacts, LandParts, ServiceAssumption DEF HostServe, TypeOK, HostType
<1>2. /\ hpc = "serve"
      /\ UNCHANGED <<svc, direct, reqs, issued, tx, rx, rec, ifq, submitted, completed, eq, abandoned>>
  BY DEF HostServe, cardVars, dmaVars, engineVars
<1>3. ~abandoned /\ svc.backend = "file" => eq = <<>> /\ completed = submitted
  BY <1>2, StageClear
<1>4. CASE /\ staging' \subseteq staging /\ landed \subseteq landed' /\ landed' \subseteq landed \cup {rec}
           /\ landed' # landed => rec.op \in Data
           /\ \E st \in {0, 5, 22} : /\ AnswerThis(st)
                                     /\ st = 0 /\ rec.op \in Data => rec \in landed' /\ Valid(rec)
  <2>1. PICK st \in {0, 5, 22} : /\ AnswerThis(st)
                                 /\ st = 0 /\ rec.op \in Data => rec \in landed' /\ Valid(rec)
    BY <1>4
  <2> QED BY <1>1, <1>2, <1>3, <1>4, <2>1, AnswerLand
<1>5. CASE /\ rec.op \in Data /\ OnEngine /\ hpc' = "submit"
           /\ staging' = (IF rec.op = "read" THEN {rec} ELSE staging)
           /\ landed' = landed /\ ans' = ans
  <2>1. svc.backend = "file"
    BY <1>1, <1>5 DEF Pipelined
  <2>2. Copies' = Copies /\ Replies' = Replies
    BY <1>2, <1>5 DEF Copies, Replies
  <2>3. KnownInv'
    <3>1. Known' \subseteq Known
      BY <1>2, <1>5, <2>2, KnownNext DEF Known
    <3>2. rec.id # 0
      BY <1>1, <1>5, DataRecord
    <3>3. \A r \in landed' \cup staging' \cup Copies' : r.id # 0
      BY <1>1, <1>5, <2>2, <3>2 DEF KnownInv
    <3> QED BY <1>1, <1>2, <3>1, <3>3, KnownKept
  <2>4. ASSUME ~abandoned' PROVE PipeLands' /\ StageLands' /\ Lands'
    <3>1. ~abandoned /\ PipeLands /\ StageLands /\ Lands
      BY <1>2, <2>4, LandParts
    <3>2. PipeLands'
      BY <1>2, <1>5, <3>1, PipeLandsKept
    <3>3. Lands'
      BY <1>1, <1>2, <1>5, <2>2, <3>1, LandsKept
    <3>4. StageLands'
      BY <1>2, <1>3, <1>5, <2>1, <3>1 DEF StageLands
    <3> QED BY <3>2, <3>3, <3>4
  <2> QED BY <2>3, <2>4, LandParts
<1> QED BY <1>4, <1>5 DEF HostServe, Data

\* dma_copy's wait, and the image's part of a write.
LEMMA HostWaitLand == ASSUME Books, LandInv, HostWait PROVE LandInv'
<1>1. /\ Out' = Out /\ Holding /\ ans = <<>> /\ TypeOK /\ EngineInv /\ KnownInv
      /\ rec.op \in Data /\ svc.backend = "file"
  <2>1. hpc = "wait" /\ Out' = Out
    BY HostWaitBooks DEF HostWait
  <2>2. svc.backend \in {"ram", "file"}
    BY ServiceAssumption DEF Books, TypeOK, HostType
  <2> QED BY <2>1, <2>2, HoldingFacts, LandParts DEF Pipelined
<1>2. /\ hpc = "wait"
      /\ UNCHANGED <<svc, direct, reqs, issued, tx, rx, rec, ifq, hostWord, cardWord, eq, staging>>
  BY DEF HostWait, cardVars, engineVars
<1>3. CASE PollFails /\ AnswerThis(5) /\ abandoned' = TRUE /\ UNCHANGED <<dmaVars, landed>>
  <2>1. submitted' = submitted /\ landed' = landed /\ 5 \in {0, 5, 22}
    BY <1>3 DEF dmaVars
  <2> QED BY <1>1, <1>2, <1>3, <2>1, AnswerLand
<1>4. CASE /\ PollUpdate /\ abandoned' = abandoned /\ UNCHANGED <<hpc, ans, then, landed>>
  <2>1. submitted' = submitted
    BY <1>4 DEF PollUpdate
  <2>2. Replies' = Replies /\ Known' = Known
    BY <1>2, <1>4 DEF Replies, Known, Copies
  <2>3. StageLands => StageLands'
    BY <1>2, <1>4 DEF StageLands, Valid
  <2> QED BY <1>1, <1>2, <1>4, <2>1, <2>2, <2>3, LandKept
<1>5. CASE /\ PollUpdate /\ abandoned' = abandoned /\ completed' = submitted
           /\ \/ AnswerThis(0) /\ landed' = (IF rec.op = "write" THEN landed \cup staging ELSE landed)
              \/ AnswerThis(5) /\ landed' = landed
  <2>1. eq = <<>> /\ submitted' = submitted
    <3>1. /\ completed' =< Position /\ submitted' = submitted /\ submitted \in Nat /\ Len(eq) \in Nat
          /\ eq \in Seq([rec : Record, seq : Nat, copied : BOOLEAN])
      BY <1>1, <1>2, <1>5, PollKeeps, EngineFacts DEF TypeOK, EngineType, engineVars
    <3>2. Len(eq) = 0
      BY <1>5, <3>1 DEF Position
    <3> QED BY <3>1, <3>2, EmptySeq
  <2>2. ~abandoned => /\ Valid(rec)
                      /\ IF rec.op = "read" THEN rec \in landed ELSE staging = {rec}
    BY <1>1, <1>2, <2>1, LandParts DEF StageLands
  <2>3. PICK st \in {0, 5, 22} :
          /\ AnswerThis(st)
          /\ landed' = (IF rec.op = "write" /\ st = 0 THEN landed \cup staging ELSE landed)
    BY <1>5
  <2>4. ~abandoned' /\ st = 0 => rec \in landed' /\ Valid(rec)
    BY <1>1, <1>5, <2>2, <2>3 DEF Data
  <2> QED BY <1>1, <1>2, <1>5, <2>1, <2>3, <2>4, AnswerLand
<1> QED BY <1>3, <1>4, <1>5 DEF HostWait

----------------------------------------------------------------------------
(* The engine.                                                             *)

\* The copy at the front of the engine's ring is done.
LEMMA EngineCopyLand == ASSUME Books, LandInv, EngineCopy PROVE LandInv'
<1> DEFINE r == Head(eq).rec
           new == [eq[1] EXCEPT !.copied = TRUE]
<1>1. TypeOK /\ EngineInv /\ Out' = Out /\ KnownInv
  BY EngineCopyBooks, LandParts DEF Books
<1>2. /\ eq # <<>>
      /\ UNCHANGED <<svc, direct, reqs, issued, tx, rx, hpc, rec, ans, then, ifq, submitted, completed,
                     abandoned>>
      /\ staging' = (IF svc.backend = "file" /\ r.op = "write" THEN {r} ELSE staging)
      /\ landed' = landed \cup (IF svc.backend # "file" THEN {r}
                                ELSE IF r.op = "read" THEN staging ELSE {})
  BY DEF EngineCopy, cardVars, hostVars, dmaVars
<1>3. /\ eq \in Seq([rec : Record, seq : Nat, copied : BOOLEAN]) /\ Len(eq) \in Nat \ {0}
      /\ Head(eq) = eq[1]
  BY <1>1, <1>2, EmptySeq, LenProperties, HeadTailProperties DEF TypeOK, EngineType
<1>4. 1 \in 1 .. Len(eq) /\ eq[1] \in [rec : Record, seq : Nat, copied : BOOLEAN]
  <2>1. 1 \in 1 .. Len(eq)
    BY <1>3
  <2> QED BY <1>3, <2>1, ElementOfSeq
<1>5. /\ Len(eq') = Len(eq) /\ eq'[1].rec = r /\ eq'[1].copied
      /\ \A i \in 1 .. Len(eq) : eq'[i].rec = eq[i].rec
  <2>1. eq' = [eq EXCEPT ![1] = new]
    BY DEF EngineCopy
  <2>2. new.rec = eq[1].rec /\ new.copied /\ new \in [rec : Record, seq : Nat, copied : BOOLEAN]
    BY <1>4
  <2> HIDE DEF new
  <2>3. Len(eq') = Len(eq) /\ \A i \in 1 .. Len(eq) : eq'[i] = IF i = 1 THEN new ELSE eq[i]
    BY <1>3, <1>4, <2>1, <2>2, ExceptSeq
  <2> QED BY <1>3, <1>4, <2>2, <2>3
<1>6. r \in Copies
  BY <1>3, <1>4 DEF Copies
<1> HIDE DEF r, new
<1>7. Copies' = Copies
  BY <1>5, KnownNext DEF Copies
<1>8. KnownInv'
  <2>1. Known' \subseteq Known
    BY <1>2, <1>6, <1>7, KnownNext DEF Known
  <2>2. \A x \in landed' \cup staging' \cup Copies' : x.id # 0
    BY <1>1, <1>2, <1>6, <1>7 DEF KnownInv
  <2> QED BY <1>1, <1>2, <2>1, <2>2, KnownKept
<1>9. ASSUME ~abandoned' PROVE PipeLands' /\ StageLands' /\ Lands'
  <2>1. ~abandoned /\ PipeLands /\ StageLands /\ Lands /\ landed \subseteq landed'
    BY <1>2, <1>9, LandParts
  <2>2. Lands'
    <3>1. Replies' = Replies
      BY <1>2 DEF Replies
    <3> QED BY <1>1, <1>2, <2>1, <3>1, LandsKept
  <2>3. Position' = Position /\ Position \in Nat /\ submitted \in Nat /\ Len(ifq) \in Nat
    BY <1>1, <1>2, <1>5, EngineFacts, Shapes DEF Position
  <2>4. \A i \in 1 .. Len(ifq) : ~(ifq[i].seq =< Position) => ifq[i].seq - Position \in 1 .. Len(eq)
    <3> SUFFICES ASSUME NEW i \in 1 .. Len(ifq), ~(ifq[i].seq =< Position)
                 PROVE  ifq[i].seq - Position \in 1 .. Len(eq)
      OBVIOUS
    <3>1. ifq[i].seq = submitted - Len(ifq) + i
      BY DEF Books, PipeInv
    <3> QED BY <1>3, <2>3, <3>1 DEF Position
  <2>5. \A i \in 1 .. Len(ifq) : /\ Valid(ifq[i].rec)
                                 /\ IF ifq[i].seq =< Position THEN ifq[i].rec \in landed
                                    ELSE eq[ifq[i].seq - Position].rec = ifq[i].rec
    BY <2>1 DEF PipeLands
  <2>6. \A i \in 1 .. Len(ifq') : /\ Valid(ifq'[i].rec)
                                  /\ IF ifq'[i].seq =< Position' THEN ifq'[i].rec \in landed'
                                     ELSE eq'[ifq'[i].seq - Position'].rec = ifq'[i].rec
    BY <1>2, <1>5, <2>1, <2>3, <2>4, <2>5
  <2>7. svc'.backend = "ram" /\ eq' # <<>> /\ eq'[1].copied => eq'[1].rec \in landed'
    BY <1>2, <1>5
  <2>8. PipeLands'
    BY <2>6, <2>7 DEF PipeLands, Valid
  <2>9. StageLands'
    <3>1. CASE svc.backend # "file"
      BY <1>2, <3>1, StageRam
    <3>2. CASE svc.backend = "file"
      <4>1. /\ hpc = "wait" /\ Valid(rec) /\ Len(eq) =< 1 /\ eq[1].rec = rec
            /\ rec.op = "read" => staging = {rec}
        BY <1>2, <2>1, <3>2 DEF StageLands
      <4>2. r = rec
        BY <1>3, <4>1 DEF r
      <4>3. Len(eq') =< 1 /\ eq'[1].rec = rec
        BY <1>5, <4>1, <4>2
      <4>4. rec.op \in Data
        BY <4>1, HoldingFacts
      <4>5. rec.op = "read" => staging' = {rec} /\ rec \in landed'
        BY <1>2, <3>2, <4>1, <4>2
      <4>6. rec.op # "read" => staging' = {rec}
        BY <1>2, <3>2, <4>2, <4>4 DEF Data
      <4> QED BY <1>2, <4>1, <4>3, <4>5, <4>6 DEF StageLands, Valid
    <3> QED BY <3>1, <3>2
  <2> QED BY <2>2, <2>8, <2>9
<1> QED BY <1>8, <1>9, LandParts

\* ... and reported.
LEMMA EngineStatusLand == ASSUME Books, LandInv, EngineStatus PROVE LandInv'
<1>1. TypeOK /\ EngineInv /\ PipeInv /\ Out' = Out /\ KnownInv
  BY EngineStatusBooks, LandParts DEF Books
<1>2. /\ eq # <<>> /\ Head(eq).copied /\ eq' = Tail(eq)
      /\ UNCHANGED <<svc, direct, reqs, issued, tx, rx, hpc, rec, ans, then, ifq, submitted, completed,
                     landed, staging, abandoned>>
  BY DEF EngineStatus, cardVars, hostVars, dmaVars
<1>3. /\ eq \in Seq([rec : Record, seq : Nat, copied : BOOLEAN]) /\ Len(eq) \in Nat \ {0}
      /\ Head(eq) = eq[1] /\ Len(eq') = Len(eq) - 1
      /\ \A i \in 1 .. Len(eq') : eq'[i] = eq[i + 1]
  BY <1>1, <1>2, EmptySeq, LenProperties, HeadTailProperties DEF TypeOK, EngineType
<1> DEFINE a == Len(eq)
<1>4. \A i \in 1 .. Len(eq') : i + 1 \in 1 .. a
  BY <1>3
<1>5. Copies' \subseteq Copies
  <2> SUFFICES ASSUME NEW i \in 1 .. Len(eq') PROVE eq'[i].rec \in Copies
    BY KnownNext
  <2> QED BY <1>3, <1>4 DEF Copies
<1>6. KnownInv'
  <2>1. Known' \subseteq Known
    BY <1>2, <1>5, KnownNext DEF Known
  <2>2. \A x \in landed' \cup staging' \cup Copies' : x.id # 0
    BY <1>1, <1>2, <1>5 DEF KnownInv
  <2> QED BY <1>1, <1>2, <2>1, <2>2, KnownKept
<1>7. ASSUME ~abandoned' PROVE PipeLands' /\ StageLands' /\ Lands'
  <2>1. ~abandoned /\ PipeLands /\ StageLands /\ Lands
    BY <1>2, <1>7, LandParts
  <2>2. Lands'
    <3>1. Replies' = Replies
      BY <1>2 DEF Replies
    <3> QED BY <1>1, <1>2, <2>1, <3>1, LandsKept
  <2>3. /\ Position' = Position + 1 /\ Position = submitted - a
        /\ Position \in Nat /\ submitted \in Nat /\ Len(ifq) \in Nat /\ a \in Nat
    <3>1. Position \in Nat /\ submitted \in Nat /\ Len(ifq) \in Nat
      BY <1>1, EngineFacts, Shapes
    <3> QED BY <1>2, <1>3, <3>1 DEF Position
  <2> HIDE DEF a
  <2>4. \A i \in 1 .. Len(ifq) : /\ Valid(ifq[i].rec)
                                 /\ IF ifq[i].seq =< Position + 1 THEN ifq[i].rec \in landed
                                    ELSE eq'[ifq[i].seq - (Position + 1)].rec = ifq[i].rec
    <3> TAKE i \in 1 .. Len(ifq)
    <3>1. /\ Valid(ifq[i].rec)
          /\ IF ifq[i].seq =< Position THEN ifq[i].rec \in landed
             ELSE eq[ifq[i].seq - Position].rec = ifq[i].rec
      BY <2>1 DEF PipeLands
    <3>2. ifq[i].seq = submitted - Len(ifq) + i /\ svc.backend = "ram"
      BY <1>1 DEF PipeInv, Pipelined
    <3> DEFINE q == ifq[i].seq
    <3>3. q \in Int /\ q =< Position + a
      BY <2>3, <3>2
    <3> HIDE DEF q
    <3>4. CASE q =< Position
      <4>1. q =< Position + 1
        BY <2>3, <3>3, <3>4
      <4> QED BY <3>1, <3>4, <4>1 DEF q
    <3>5. CASE ~(q =< Position) /\ q =< Position + 1
      <4>1. q - Position = 1
        BY <2>3, <3>3, <3>5
      <4>2. eq[1].rec = ifq[i].rec
        BY <3>1, <3>5, <4>1 DEF q
      <4>3. eq[1].rec \in landed
        BY <1>2, <1>3, <2>1, <3>2 DEF PipeLands
      <4> QED BY <3>1, <3>5, <4>2, <4>3 DEF q
    <3>6. CASE ~(q =< Position + 1)
      <4>1. ~(q =< Position) /\ q - (Position + 1) \in 1 .. a - 1 /\ (q - (Position + 1)) + 1 = q - Position
        BY <2>3, <3>3, <3>6
      <4>2. eq'[q - (Position + 1)] = eq[q - Position]
        <5>1. eq'[q - (Position + 1)] = eq[(q - (Position + 1)) + 1]
          BY <1>3, <4>1 DEF a
        <5> QED BY <4>1, <5>1
      <4>3. eq[q - Position].rec = ifq[i].rec
        BY <3>1, <4>1 DEF q
      <4> QED BY <3>1, <3>6, <4>2, <4>3 DEF q
    <3> QED BY <3>4, <3>5, <3>6
  <2>5. \A i \in 1 .. Len(ifq') : /\ Valid(ifq'[i].rec)
                                  /\ IF ifq'[i].seq =< Position' THEN ifq'[i].rec \in landed'
                                     ELSE eq'[ifq'[i].seq - Position'].rec = ifq'[i].rec
    BY <1>2, <2>3, <2>4
  <2>6. eq' # <<>> => ~eq'[1].copied
    <3> SUFFICES ASSUME eq' # <<>> PROVE ~eq'[1].copied
      OBVIOUS
    <3>1. eq' \in Seq([rec : Record, seq : Nat, copied : BOOLEAN])
      BY <1>2, <1>3, HeadTailProperties
    <3>2. 1 \in 1 .. Len(eq')
      BY <3>1, EmptySeq, LenProperties
    <3>3. eq'[1] = eq[2] /\ 2 \in 1 .. Len(eq)
      BY <1>3, <1>4, <3>2 DEF a
    <3>4. eq[2].copied => 2 = 1
      BY <1>1, <3>3 DEF EngineInv
    <3> QED BY <3>3, <3>4
  <2>7. PipeLands'
    BY <2>5, <2>6 DEF PipeLands, Valid
  <2>8. StageLands'
    <3>1. CASE svc.backend # "file"
      BY <1>2, <3>1, StageRam
    <3>2. CASE svc.backend = "file"
      <4>1. /\ hpc = "wait" /\ Valid(rec) /\ Len(eq) =< 1
            /\ rec.op = "read" => staging = {rec}
            /\ IF rec.op = "read" THEN rec \in landed ELSE staging = {rec}
        BY <1>2, <1>3, <2>1, <3>2 DEF StageLands
      <4>2. Len(eq') = 0
        BY <1>3, <4>1
      <4>3. eq' = <<>>
        BY <1>2, <1>3, <4>2, HeadTailProperties, EmptySeq
      <4> QED BY <1>2, <4>1, <4>2, <4>3 DEF StageLands, Valid
    <3> QED BY <3>1, <3>2
  <2> QED BY <2>2, <2>7, <2>8
<1> QED BY <1>6, <1>7, LandParts

----------------------------------------------------------------------------
(* The driver's steps.                                                     *)

\* The completion the card takes is the oldest answer, and its record is
\* done with.
LEMMA TakesAnswer ==
  ASSUME Books, CompleteOne, NEW c, c = Head(rx)
  PROVE  /\ Stub(c) \in Out /\ Out' = Out \ {Stub(c)} /\ IsFiniteSet(Out)
         /\ Stub(c).op = c.op /\ Stub(c).id = c.id /\ Stub(c).seg = c.seg
         /\ Len(Replies) \in Nat \ {0} /\ Replies[1] = c /\ Len(Replies') = Len(Replies) - 1
         /\ \A i \in 1 .. Len(Replies') : Replies'[i] = Replies[i + 1]
<1>1. TypeOK /\ TypeOK' /\ Once
  BY CompleteOneBooks DEF Books
<1>2. rx # <<>> /\ rx' = Tail(rx) /\ UNCHANGED <<tx, hostVars>> /\ ans' = ans
  BY DEF CompleteOne, hostVars
<1>3. Stub(c) \in Out /\ Out' = Out \ {Stub(c)} /\ IsFiniteSet(Out)
  BY <1>1, <1>2, TakesOne
<1>4. Replies' = Tail(rx) \o ans
  BY <1>2, RestNext
<1>5. /\ Len(Replies) \in Nat \ {0} /\ Replies[1] = c /\ Len(Replies') = Len(Replies) - 1
      /\ \A i \in 1 .. Len(Replies) - 1 : Replies'[i] = Replies[i + 1]
  BY <1>1, <1>2, <1>4, Shapes, TakesOldest DEF Replies
<1> QED BY <1>3, <1>5 DEF Stub

\* What it does to the request it belongs to: the last one ends it, well if
\* all of them were good.
LEMMA EndsRequest ==
  ASSUME Books, CompleteOne, NEW c, c = Head(rx), c.op # "ident"
  PROVE  /\ c.tag \in 1 .. MaxDepth /\ reqs[c.tag] # NoReq /\ reqs[c.tag].id = c.id
         /\ c.id \in 1 .. Len(issued) /\ c.op = issued[c.id].op /\ direct' = direct
         /\ \A u \in 1 .. MaxDepth : u # c.tag => reqs'[u] = reqs[u]
         /\ Len(issued') = Len(issued)
         /\ \A i \in 1 .. Len(issued) :
              /\ issued'[i].op = issued[i].op /\ issued'[i].segs = issued[i].segs
              /\ issued'[i].n = issued[i].n
              /\ i # c.id => issued'[i] = issued[i]
         /\ IF reqs[c.tag].pending = 1
            THEN /\ {s \in Out : s.id = c.id} = {Stub(c)} /\ reqs'[c.tag] = NoReq
                 /\ issued'[c.id].end = "ok" => reqs[c.tag].ok /\ c.status = 0
            ELSE /\ issued' = issued /\ reqs'[c.tag].id = c.id
                 /\ reqs'[c.tag].ok => reqs[c.tag].ok /\ c.status = 0
<1> DEFINE t == c.tag
           g == c.id
           ok == reqs[t].ok /\ c.status = 0
<1>1. TypeOK /\ PendingCounts
  BY DEF Books
<1>2. /\ Stub(c) \in Out /\ Stub(c).op = c.op /\ Stub(c).tag = t /\ Stub(c).id = g /\ IsFiniteSet(Out)
  BY TakesAnswer DEF Stub
<1>3. t \in 1 .. MaxDepth /\ reqs[t] # NoReq /\ reqs[t].id = g /\ g \in 1 .. Len(issued) /\ c.op = issued[g].op
  BY <1>2, OutIds
<1>4. ~Stray(c)
  <2>1. Depth \in 0 .. MaxDepth /\ MaxDepth \in Nat
    BY <1>1, Caps, ServiceAssumption DEF Depth, TypeOK, HostType
  <2>2. t \in 1 .. Depth
    BY <1>2 DEF Books, Owned
  <2>3. ~(t > Depth)
    BY <2>1, <2>2
  <2> QED BY <1>3, <2>3 DEF Stray
<1>5. CompleteRecord(c) /\ direct' = direct
  BY <1>4 DEF CompleteOne, CompleteRecord
<1>6. /\ reqs \in [1 .. MaxDepth -> Request \cup {NoReq}] /\ issued \in Seq(Issued) /\ reqs[t] \in Request
      /\ issued[g] \in Issued
  <2>1. reqs \in [1 .. MaxDepth -> Request \cup {NoReq}] /\ issued \in Seq(Issued)
    BY <1>1 DEF TypeOK, CardType
  <2> QED BY <1>3, <2>1, ElementOfSeq
<1> HIDE DEF t, g, ok
<1>7. CASE reqs[t].pending = 1
  <2> DEFINE e == [issued[g] EXCEPT !.end = IF ok THEN "ok" ELSE "error"]
             P == {s \in Out : s.id = g}
  <2>1. reqs' = [reqs EXCEPT ![t] = NoReq] /\ issued' = [issued EXCEPT ![g] = e]
    BY <1>3, <1>5, <1>7 DEF CompleteRecord, LastRecord, t, g, ok
  <2>2. /\ e \in Issued /\ e.op = issued[g].op /\ e.n = issued[g].n /\ e.segs = issued[g].segs
        /\ e.end = "ok" => ok
    BY <1>6 DEF Issued
  <2> HIDE DEF e
  <2>3. /\ Len(issued') = Len(issued)
        /\ \A i \in 1 .. Len(issued) : issued'[i] = IF i = g THEN e ELSE issued[i]
    BY <1>3, <1>6, <2>1, <2>2, ExceptSeq
  <2>4. \A u \in 1 .. MaxDepth : reqs'[u] = IF u = t THEN NoReq ELSE reqs[u]
    BY <1>6, <2>1
  <2>5. P = {Stub(c)}
    <3>1. Cardinality(P) = 1
      BY <1>1, <1>3, <1>7 DEF PendingCounts
    <3>2. IsFiniteSet(P) /\ Stub(c) \in P
      <4>1. P \subseteq Out
        OBVIOUS
      <4> QED BY <1>2, <4>1, FS_Subset
    <3> HIDE DEF P
    <3>3. Cardinality(P \ {Stub(c)}) = 0 /\ IsFiniteSet(P \ {Stub(c)})
      BY <3>1, <3>2, FS_RemoveElement
    <3>4. P \ {Stub(c)} = {}
      BY <3>3, FS_EmptySet
    <3> QED BY <3>2, <3>4
  <2> QED BY <1>3, <1>5, <1>7, <2>2, <2>3, <2>4, <2>5 DEF t, g, ok
<1>8. CASE reqs[t].pending # 1
  <2> DEFINE e == [reqs[t] EXCEPT !.pending = @ - 1, !.ok = ok]
  <2>1. reqs' = [reqs EXCEPT ![t] = e] /\ issued' = issued
    BY <1>5, <1>8 DEF CompleteRecord, LastRecord, t, ok
  <2>2. e.id = g /\ (e.ok => ok)
    BY <1>3, <1>6 DEF Request
  <2> HIDE DEF e
  <2>3. \A u \in 1 .. MaxDepth : reqs'[u] = IF u = t THEN e ELSE reqs[u]
    BY <1>6, <2>1
  <2> QED BY <1>3, <1>5, <1>8, <2>1, <2>2, <2>3 DEF t, g, ok
<1> QED BY <1>7, <1>8

\* knc_blk_complete_one.
LEMMA CompleteOneLand == ASSUME Books, LandInv, CompleteOne PROVE LandInv'
<1>1. PICK c : c = Head(rx)
  OBVIOUS
<1>2. /\ UNCHANGED <<svc, tx, hpc, rec, ans, then, ifq, submitted, completed, eq, staging, landed,
                     abandoned>>
      /\ c.op = "ident" => CompleteIdent(c)
  BY <1>1 DEF CompleteOne, hostVars, dmaVars, engineVars
<1>3. /\ Stub(c) \in Out /\ Out' = Out \ {Stub(c)} /\ Stub(c).op = c.op /\ Stub(c).id = c.id
      /\ Stub(c).seg = c.seg /\ Len(Replies) \in Nat \ {0} /\ Replies[1] = c
      /\ Len(Replies') = Len(Replies) - 1
      /\ \A i \in 1 .. Len(Replies') : Replies'[i] = Replies[i + 1]
  BY <1>1, TakesAnswer
<1>4. KnownInv /\ Tagged /\ TypeOK /\ \A s \in Out : Owned(s)
  BY LandParts DEF Books
<1>5. Known' = Known /\ Copies' = Copies
  BY <1>2 DEF Known, Copies
<1>6. CASE c.op = "ident" /\ disk = "none"
  <2>1. issued = <<>> /\ issued' = issued /\ reqs' = reqs
    BY <1>2, <1>4, <1>6 DEF Tagged, CompleteIdent
  <2>2. \A r \in Known : r.id = 0
    BY <1>4, <2>1 DEF KnownInv, OfRequest
  <2>3. KnownInv'
    BY <1>2, <1>4, <1>5, <2>2 DEF KnownInv, OfRequest
  <2>4. \A t \in 1 .. MaxDepth : reqs[t] = NoReq
    <3> SUFFICES ASSUME NEW t \in 1 .. MaxDepth, reqs[t] # NoReq PROVE FALSE
      OBVIOUS
    <3>1. reqs[t].id =< Len(issued) /\ reqs[t] \in Request
      BY <1>4 DEF Tagged, TypeOK, CardType
    <3>2. reqs[t].id \in 1 .. MaxReqs /\ MaxReqs \in Nat
      BY <3>1, Caps DEF Request
    <3> QED BY <2>1, <3>1, <3>2
  <2>5. ASSUME ~abandoned' PROVE PipeLands' /\ StageLands' /\ Lands'
    <3>1. PipeLands /\ StageLands /\ Lands
      BY <1>2, <2>5, LandParts
    <3>2. PipeLands' /\ StageLands'
      BY <1>2, <3>1, PipeLandsKept DEF StageLands, Valid
    <3>3. \A i \in 1 .. Len(Replies') : Replies'[i].op \in Data /\ Replies'[i].status = 0 =>
            Came(Replies'[i].id, Replies'[i].seg)
      <4> SUFFICES ASSUME NEW i \in 1 .. Len(Replies'), Replies'[i].op \in Data, Replies'[i].status = 0
                   PROVE  Came(Replies'[i].id, Replies'[i].seg)
        OBVIOUS
      <4>1. i + 1 \in 1 .. Len(Replies) /\ Replies'[i] = Replies[i + 1]
        BY <1>3
      <4>2. Arrived(Replies'[i].id, Replies'[i].seg)
        BY <3>1, <4>1 DEF Lands
      <4> QED BY <1>2, <4>2, ArrivedStays
    <3>4. Lands'
      BY <2>1, <2>4, <3>3, LandsNext
    <3> QED BY <3>2, <3>4
  <2> QED BY <2>3, <2>5, LandParts
<1>7. CASE c.op # "ident" \/ disk # "none"
  <2>1. /\ c.op = "ident" => c.id = 0 /\ UNCHANGED <<reqs, issued>>
        /\ direct' = direct
        /\ Len(issued') = Len(issued)
        /\ \A i \in 1 .. Len(issued) :
              /\ issued'[i].op = issued[i].op /\ issued'[i].segs = issued[i].segs
              /\ issued'[i].n = issued[i].n
              /\ i # c.id => issued'[i] = issued[i]
    <3>1. CASE c.op = "ident"
      <4>1. c.id = 0
        BY <1>3, <1>4, <3>1 DEF Owned
      <4>2. UNCHANGED <<reqs, issued, direct>>
        BY <1>2, <1>7, <3>1 DEF CompleteIdent
      <4> QED BY <4>1, <4>2
    <3>2. CASE c.op # "ident"
      BY <1>1, <3>2, EndsRequest
    <3> QED BY <3>1, <3>2
  <2>2. KnownInv'
    <3>1. \A r \in Known : OfRequest(r)'
      <4> SUFFICES ASSUME NEW r \in Known PROVE OfRequest(r)'
        OBVIOUS
      <4>1. OfRequest(r)
        BY <1>4 DEF KnownInv
      <4> QED BY <2>1, <4>1, OfRequestStays
    <3> QED BY <1>2, <1>4, <1>5, <3>1 DEF KnownInv
  <2>3. ASSUME ~abandoned' PROVE PipeLands' /\ StageLands' /\ Lands'
    <3>1. PipeLands /\ StageLands /\ Lands
      BY <1>2, <2>3, LandParts
    <3>2. PipeLands' /\ StageLands'
      BY <1>2, <3>1, PipeLandsKept DEF StageLands, Valid
    <3>3. \A i \in 1 .. Len(Replies') : Replies'[i].op \in Data /\ Replies'[i].status = 0 =>
            Came(Replies'[i].id, Replies'[i].seg)
      <4> SUFFICES ASSUME NEW i \in 1 .. Len(Replies'), Replies'[i].op \in Data, Replies'[i].status = 0
                   PROVE  Came(Replies'[i].id, Replies'[i].seg)
        OBVIOUS
      <4>1. i + 1 \in 1 .. Len(Replies) /\ Replies'[i] = Replies[i + 1]
        BY <1>3
      <4>2. Arrived(Replies'[i].id, Replies'[i].seg)
        BY <3>1, <4>1 DEF Lands
      <4> QED BY <1>2, <4>2, ArrivedStays
    \* A good completion is for data that has arrived.
    <3>4. c.op \in Data /\ c.status = 0 => Arrived(c.id, c.seg)
      <4>1. 1 \in 1 .. Len(Replies)
        BY <1>3
      <4> QED BY <1>3, <3>1, <4>1 DEF Lands
    \* So a segment of a request that goes well has arrived, or is still out.
    <3>5. \A t \in 1 .. MaxDepth : reqs[t] # NoReq /\ reqs[t].ok /\ issued[reqs[t].id].op \in Data =>
            \A seg \in 1 .. issued[reqs[t].id].n :
              Arrived(reqs[t].id, seg) \/ \E s \in Out : s.id = reqs[t].id /\ s.seg = seg
      BY <3>1 DEF Lands, Good
    <3>6. \A t \in 1 .. MaxDepth : reqs[t] # NoReq => reqs[t].id \in 1 .. Len(issued)
      <4> SUFFICES ASSUME NEW t \in 1 .. MaxDepth, reqs[t] # NoReq PROVE reqs[t].id \in 1 .. Len(issued)
        OBVIOUS
      <4>1. reqs[t].id =< Len(issued) /\ reqs[t] \in Request /\ issued \in Seq(Issued)
        BY <1>4 DEF Tagged, TypeOK, CardType
      <4>2. reqs[t].id \in 1 .. MaxReqs /\ MaxReqs \in Nat /\ Len(issued) \in Nat
        BY <4>1, Caps, LenProperties DEF Request
      <4> QED BY <4>1, <4>2
    <3>7. ASSUME NEW t \in 1 .. MaxDepth, reqs'[t] # NoReq, reqs'[t].ok, issued'[reqs'[t].id].op \in Data,
                 NEW seg \in 1 .. issued'[reqs'[t].id].n
          PROVE  Came(reqs'[t].id, seg) \/ \E s \in Out' : s.id = reqs'[t].id /\ s.seg = seg
      <4> DEFINE g == reqs'[t].id
      <4>1. /\ reqs[t] # NoReq /\ reqs[t].id = g /\ reqs[t].ok
            /\ g = c.id /\ c.op # "ident" => c.status = 0 /\ c.op = issued[g].op
        <5>1. CASE c.op = "ident"
          BY <2>1, <3>7, <5>1
        <5>2. CASE c.op # "ident" /\ t = c.tag
          BY <1>1, <3>7, <5>2, EndsRequest
        <5>3. CASE c.op # "ident" /\ t # c.tag
          <6>1. reqs'[t] = reqs[t] /\ c.tag \in 1 .. MaxDepth /\ reqs[c.tag] # NoReq /\ reqs[c.tag].id = c.id
            BY <1>1, <5>3, EndsRequest
          <6>2. g # c.id
            BY <1>4, <3>7, <5>3, <6>1 DEF Tagged
          <6> QED BY <3>7, <6>1, <6>2
        <5> QED BY <5>1, <5>2, <5>3
      <4>2. g \in 1 .. Len(issued)
        BY <3>6, <4>1
      <4>3. issued[g].op \in Data /\ seg \in 1 .. issued[g].n /\ g # 0
        BY <2>1, <3>7, <4>2
      <4> HIDE DEF g
      <4>4. Arrived(g, seg) \/ \E s \in Out : s.id = g /\ s.seg = seg
        BY <3>5, <4>1, <4>3
      <4>5. CASE Arrived(g, seg)
        BY <1>2, <4>5, ArrivedStays DEF g
      <4>6. CASE ~Arrived(g, seg)
        <5>1. PICK s \in Out : s.id = g /\ s.seg = seg
          BY <4>4, <4>6
        <5>2. s # Stub(c)
          <6> SUFFICES ASSUME s = Stub(c) PROVE FALSE
            OBVIOUS
          <6>1. g = c.id /\ seg = c.seg
            BY <1>3, <5>1
          <6>2. c.op # "ident"
            BY <2>1, <4>3, <6>1
          <6> QED BY <3>4, <4>1, <4>3, <4>6, <6>1, <6>2
        <5>3. s \in Out'
          BY <1>3, <5>2
        <5> QED BY <5>1, <5>3 DEF g
      <4> QED BY <4>5, <4>6
    <3>8. ASSUME NEW id \in 1 .. Len(issued'), issued'[id].op \in Data, issued'[id].end = "ok",
                 NEW seg \in 1 .. issued'[id].n
          PROVE  Came(id, seg)
      <4>1. id \in 1 .. Len(issued) /\ issued[id].op \in Data /\ seg \in 1 .. issued[id].n
        BY <2>1, <3>8
      <4>2. CASE issued'[id] = issued[id]
        <5>1. Arrived(id, seg)
          BY <3>1, <3>8, <4>1, <4>2 DEF Lands
        <5> QED BY <1>2, <5>1, ArrivedStays
      <4>3. CASE issued'[id] # issued[id]
        <5>1. c.op # "ident" /\ id = c.id
          BY <2>1, <4>1, <4>3
        <5>2. /\ c.tag \in 1 .. MaxDepth /\ reqs[c.tag] # NoReq /\ reqs[c.tag].id = id /\ c.op = issued[id].op
              /\ {s \in Out : s.id = c.id} = {Stub(c)} /\ reqs[c.tag].ok /\ c.status = 0
          BY <1>1, <3>8, <4>3, <5>1, EndsRequest
        <5>3. Arrived(id, seg) \/ \E s \in Out : s.id = id /\ s.seg = seg
          BY <3>5, <4>1, <5>2
        <5>4. Arrived(id, seg)
          BY <1>3, <3>4, <4>1, <5>1, <5>2, <5>3
        <5> QED BY <1>2, <5>4, ArrivedStays
      <4> QED BY <4>2, <4>3
    <3>9. Lands'
      BY <3>3, <3>7, <3>8, LandsNext
    <3> QED BY <3>2, <3>9
  <2> QED BY <2>2, <2>3, LandParts
<1> QED BY <1>6, <1>7

\* knc_blk_queue_rq.
LEMMA QueueRqLand ==
  ASSUME Books, LandInv, NEW tag \in 1 .. MaxDepth, NEW op \in Data \cup {"flush"},
         NEW segs \in SegLists \cup {<<>>}, op \in Data => segs \in SegLists,
         QueueRq(tag, op, segs)
  PROVE  LandInv'
<1>1. TypeOK /\ KnownInv /\ Tagged
  BY LandParts DEF Books
<1>2. PICK id : id = Len(issued) + 1
  OBVIOUS
<1>3. PICK R : R = RecordsOf(tag, id, op, segs)
  OBVIOUS
<1> DEFINE n == Len(R)
           new == [op |-> op, segs |-> segs, n |-> n, end |-> "none"]
           q == [id |-> id, pending |-> n, ok |-> TRUE]
<1>4. /\ id =< MaxReqs /\ reqs' = [reqs EXCEPT ![tag] = q]
      /\ issued' = Append(issued, new) /\ tx' = tx \o R
      /\ UNCHANGED <<svc, direct, rx, hpc, rec, ans, then, ifq, submitted, completed, eq, staging,
                     landed, abandoned>>
  BY <1>2, <1>3 DEF QueueRq, hostVars, dmaVars, engineVars
<1>5. /\ reqs \in [1 .. MaxDepth -> Request \cup {NoReq}] /\ issued \in Seq(Issued)
      /\ Len(issued) \in Nat /\ tx \in Seq(Record) /\ Len(tx) \in Nat /\ MaxReqs \in Nat
  BY <1>1, Caps, LenProperties DEF TypeOK, CardType
<1>6. id \in 1 .. MaxReqs /\ id # 0 /\ \A i \in 1 .. Len(issued) : i \in 1 .. id /\ i # id
  BY <1>2, <1>4, <1>5
<1>7. /\ R \in Seq(Record) /\ n \in Nat \ {0}
      /\ \A i \in 1 .. n : Stub(R[i]) = [op |-> op, tag |-> tag, id |-> id, seg |-> i]
  BY <1>3, <1>6, RecordsFacts
<1>8. \A i \in 1 .. n : /\ R[i].id = id /\ R[i].tag = tag /\ R[i].seg = i
                        /\ Stub(R[i]).id = id /\ Stub(R[i]).seg = i
  <2>1. \A e : Stub(e).id = e.id /\ Stub(e).tag = e.tag /\ Stub(e).seg = e.seg
    BY DEF Stub
  <2> TAKE i \in 1 .. n
  <2>2. Stub(R[i]) = [op |-> op, tag |-> tag, id |-> id, seg |-> i]
    BY <1>7
  <2>3. Stub(R[i]).id = id /\ Stub(R[i]).tag = tag /\ Stub(R[i]).seg = i
    BY <2>2
  <2> QED BY <2>1, <2>3
<1>9. /\ Len(issued') = id /\ issued'[id] = new
      /\ \A i \in 1 .. Len(issued) : issued'[i] = issued[i]
  <2>1. new \in Issued
    BY <1>7 DEF Issued
  <2> HIDE DEF new
  <2> QED BY <1>2, <1>4, <1>5, <2>1, AppendProperties
<1>10. /\ issued'[id].op = op /\ issued'[id].segs = segs /\ issued'[id].n = n /\ issued'[id].end = "none"
  BY <1>9
<1>11. \A u \in 1 .. MaxDepth : reqs'[u] = IF u = tag THEN q ELSE reqs[u]
  BY <1>4, <1>5
<1>12. \A i \in 1 .. Len(tx') : tx'[i] \in {tx[j] : j \in 1 .. Len(tx)} \cup {R[j] : j \in 1 .. n}
  <2> DEFINE a == Len(tx)
  <2>1. Len(tx') = a + n /\ \A i \in 1 .. a + n : tx'[i] = IF i =< a THEN tx[i] ELSE R[i - a]
    BY <1>4, <1>5, <1>7, ConcatProperties
  <2> HIDE DEF a, n
  <2>2. \A i \in 1 .. a + n : (i =< a => i \in 1 .. a) /\ (~(i =< a) => i - a \in 1 .. n)
    BY <1>5, <1>7 DEF a
  <2> QED BY <2>1, <2>2 DEF a
<1>13. Stubs(tx') = Stubs(tx) \cup Stubs(R)
  BY <1>4, <1>5, <1>7, StubsConcat
<1> HIDE DEF n, new
<1>14. KnownInv'
  <2>1. ASSUME NEW r \in Known PROVE OfRequest(r)'
    <3>1. OfRequest(r)
      BY <1>1, <2>1 DEF KnownInv
    <3>2. \A i \in 1 .. Len(issued) : /\ i \in 1 .. Len(issued') /\ issued'[i].op = issued[i].op
                                      /\ issued'[i].segs = issued[i].segs
                                      /\ issued'[i].n = issued[i].n
      BY <1>6, <1>9
    <3> QED BY <1>4, <3>1, <3>2, OfRequestStays
  <2>2. ASSUME NEW i \in 1 .. n PROVE OfRequest(R[i])'
    <3>1. PICK r : r = R[i]
      OBVIOUS
    <3>2. r.id = id /\ r.tag = tag /\ r.seg = i
      BY <1>8, <3>1
    <3>3. RecordsOf(r.tag, r.id, issued[r.id].op, issued[r.id].segs)' = R
      <4>1. issued'[r.id].op = op /\ issued'[r.id].segs = segs /\ direct' = direct
        BY <1>4, <1>10, <3>2
      <4> QED BY <1>3, <3>2, <4>1 DEF RecordsOf, Sums
    <3>4. r.id \in 1 .. Len(issued') /\ issued'[r.id].n = Len(R)
      BY <1>6, <1>9, <1>10, <3>2 DEF n
    <3>5. r.seg \in 1 .. Len(R) /\ r = R[r.seg]
      BY <3>1, <3>2 DEF n
    <3>6. OfRequest(r)'
      BY <3>3, <3>4, <3>5 DEF OfRequest
    <3> QED BY <3>1, <3>6
  <2>3. Copies' = Copies
    BY <1>4 DEF Copies
  <2>4. Known' \subseteq Known \cup {R[i] : i \in 1 .. n}
    <3>1. {tx'[i] : i \in 1 .. Len(tx')} \subseteq {tx[j] : j \in 1 .. Len(tx)} \cup {R[j] : j \in 1 .. n}
      BY <1>12
    <3>2. {tx[j] : j \in 1 .. Len(tx)} \subseteq Known
      BY DEF Known
    <3>3. Known' \subseteq Known \cup {tx'[i] : i \in 1 .. Len(tx')}
      <4> DEFINE T == {tx'[i] : i \in 1 .. Len(tx')}
                 F == {ifq[i].rec : i \in 1 .. Len(ifq)}
      <4>1. Known' = landed \cup staging \cup Copies \cup {rec} \cup T \cup F
        BY <1>4, <2>3, KnownNext
      <4>2. landed \cup staging \cup Copies \cup {rec} \cup F \subseteq Known
        BY DEF Known
      <4> HIDE DEF T, F
      <4>3. Known' \subseteq Known \cup T
        BY <4>1, <4>2
      <4> QED BY <4>3 DEF T
    <3> QED BY <3>1, <3>2, <3>3
  <2>5. \A r \in Known' : OfRequest(r)'
    <3> SUFFICES ASSUME NEW r \in Known' PROVE OfRequest(r)'
      OBVIOUS
    <3>1. CASE r \in Known
      BY <2>1, <3>1
    <3>2. CASE r \notin Known
      <4>1. PICK i \in 1 .. n : r = R[i]
        BY <2>4, <3>2
      <4>2. OfRequest(R[i])'
        BY <2>2
      <4> QED BY <4>1, <4>2
    <3> QED BY <3>1, <3>2
  <2> QED BY <1>1, <1>4, <2>3, <2>5 DEF KnownInv
<1>15. ASSUME ~abandoned' PROVE PipeLands' /\ StageLands' /\ Lands'
  <2>1. PipeLands /\ StageLands /\ Lands
    BY <1>4, <1>15, LandParts
  <2>2. PipeLands' /\ StageLands'
    BY <1>4, <2>1, PipeLandsKept DEF StageLands, Valid
  <2>3. \A i \in 1 .. Len(Replies') : Replies'[i].op \in Data /\ Replies'[i].status = 0 =>
          Came(Replies'[i].id, Replies'[i].seg)
    <3>1. Replies' = Replies
      BY <1>4 DEF Replies
    <3> QED BY <1>4, <2>1, <3>1, ArrivedStays DEF Lands
  <2>4. Out \subseteq Out' /\ Stubs(R) \subseteq Out'
    <3>1. UNCHANGED <<Piped, Held>>
      BY <1>4 DEF Piped, Held, Holding
    <3> QED BY <1>4, <1>13, <3>1, OutNext DEF Out
  <2>5. ASSUME NEW t \in 1 .. MaxDepth, reqs'[t] # NoReq, reqs'[t].ok, issued'[reqs'[t].id].op \in Data,
               NEW seg \in 1 .. issued'[reqs'[t].id].n
        PROVE  Came(reqs'[t].id, seg) \/ \E s \in Out' : s.id = reqs'[t].id /\ s.seg = seg
    <3>1. CASE t = tag
      <4>1. reqs'[t].id = id /\ seg \in 1 .. n
        BY <1>10, <1>11, <2>5, <3>1
      <4>2. Stub(R[seg]) \in Stubs(R) /\ Stub(R[seg]).id = id /\ Stub(R[seg]).seg = seg
        BY <1>8, <4>1 DEF Stubs, n
      <4> QED BY <2>4, <4>1, <4>2
    <3>2. CASE t # tag
      <4>1. reqs'[t] = reqs[t] /\ reqs[t] # NoReq
        BY <1>11, <2>5, <3>2
      <4>2. reqs[t].id \in 1 .. Len(issued)
        <5>1. reqs[t].id =< Len(issued) /\ reqs[t] \in Request
          BY <1>1, <1>5, <4>1 DEF Tagged
        <5>2. reqs[t].id \in 1 .. MaxReqs
          BY <5>1 DEF Request
        <5> QED BY <1>5, <5>1, <5>2
      <4>3. issued'[reqs[t].id] = issued[reqs[t].id]
        BY <1>9, <4>2
      <4>4. Arrived(reqs[t].id, seg) \/ \E s \in Out : s.id = reqs[t].id /\ s.seg = seg
        BY <2>1, <2>5, <4>1, <4>3 DEF Lands, Good
      <4>5. CASE Arrived(reqs[t].id, seg)
        <5>1. Came(reqs[t].id, seg)
          BY <1>4, <4>5, ArrivedStays
        <5> QED BY <4>1, <5>1
      <4> QED BY <2>4, <4>1, <4>4, <4>5
    <3> QED BY <3>1, <3>2
  <2>6. ASSUME NEW i \in 1 .. Len(issued'), issued'[i].op \in Data, issued'[i].end = "ok",
               NEW seg \in 1 .. issued'[i].n
        PROVE  Came(i, seg)
    <3>1. i # id
      BY <1>10, <2>6
    <3>2. i \in 1 .. Len(issued)
      BY <1>2, <1>5, <1>9, <3>1
    <3>3. Arrived(i, seg)
      BY <1>9, <2>1, <2>6, <3>2 DEF Lands
    <3> QED BY <1>4, <3>3, ArrivedStays
  <2>7. Lands'
    BY <2>3, <2>5, <2>6, LandsNext
  <2> QED BY <2>2, <2>7
<1> QED BY <1>14, <1>15, LandParts

----------------------------------------------------------------------------
(* The invariant holds, and says what it is for.                           *)

\* At the start there is one record, identify, and no data.
LEMMA InitLand == ASSUME Init PROVE LandInv
<1>1. /\ landed = {} /\ staging = {} /\ eq = <<>> /\ ifq = <<>> /\ rx = <<>> /\ ans = <<>>
      /\ Len(eq) = 0 /\ Len(ifq) = 0 /\ Len(tx) = 1 /\ tx[1] = IdentRecord /\ rec = IdentRecord
      /\ Len(issued) = 0 /\ hpc = "poll" /\ completed = submitted
      /\ reqs = [t \in 1 .. MaxDepth |-> NoReq]
  BY DEF Init
<1>2. Copies = {} /\ Known \subseteq {IdentRecord}
  <2>1. Copies = {} /\ {ifq[i].rec : i \in 1 .. Len(ifq)} = {}
    BY <1>1 DEF Copies
  <2>2. {tx[i] : i \in 1 .. Len(tx)} \subseteq {IdentRecord}
    BY <1>1
  <2> QED BY <1>1, <2>1, <2>2 DEF Known
<1>3. KnownInv
  <2>1. IdentRecord.id = 0
    BY DEF IdentRecord
  <2> QED BY <1>1, <1>2, <2>1 DEF KnownInv, OfRequest
<1>4. PipeLands /\ StageLands
  BY <1>1 DEF PipeLands, StageLands
<1>5. Lands
  <2>1. Replies = <<>> /\ Len(Replies) = 0
    BY <1>1 DEF Replies
  <2>2. \A t \in 1 .. MaxDepth : reqs[t] = NoReq
    BY <1>1
  <2> QED BY <1>1, <2>1, <2>2 DEF Lands
<1> QED BY <1>3, <1>4, <1>5, LandParts

\* Every step keeps it.
LEMMA NextLand == ASSUME Books, LandInv, [Next]_vars PROVE LandInv'
<1>1. CASE Queue
  <2>1. PICK tag \in 1 .. MaxDepth :
          \/ \E op \in Data, segs \in SegLists : QueueRq(tag, op, segs)
          \/ QueueRq(tag, "flush", <<>>)
    BY <1>1 DEF Queue
  <2>2. CASE \E op \in Data, segs \in SegLists : QueueRq(tag, op, segs)
    BY <2>2, QueueRqLand
  <2>3. CASE QueueRq(tag, "flush", <<>>)
    <3>1. "flush" \notin Data
      BY DEF Data
    <3> QED BY <2>3, <3>1, QueueRqLand
  <2> QED BY <2>1, <2>2, <2>3
<1>2. CASE Host
  BY <1>2, HostPollLand, HostPopLand, HostAnswerLand, HostSubmitLand, HostDrainLand, HostServeLand,
     HostWaitLand DEF Host
<1>3. CASE Engine
  BY <1>3, EngineCopyLand, EngineStatusLand DEF Engine
<1> QED BY <1>1, <1>2, <1>3, CompleteOneLand, QuietLand DEF Next

\* The sums of even numbers are twice the sums of their halves.
LEMMA EvenSums ==
  ASSUME NEW l \in Seq(Nat), \A i \in 1 .. Len(l) : l[i] % 2 = 0
  PROVE  \A i \in 0 .. Len(l) : Sums(l)[i] = 2 * Sums([j \in 1 .. Len(l) |-> l[j] \div 2])[i]
<1> DEFINE N == Len(l)
           halves == [j \in 1 .. N |-> l[j] \div 2]
<1>1. N \in Nat /\ \A j \in 1 .. N : l[j] \in Nat /\ l[j] \div 2 \in Nat /\ l[j] = 2 * (l[j] \div 2)
  <2>1. N \in Nat /\ \A j \in 1 .. N : l[j] \in Nat
    BY LenProperties, ElementOfSeq
  <2>2. \A a \in Nat : a % 2 = 0 => a \div 2 \in Nat /\ a = 2 * (a \div 2)
    OBVIOUS
  <2> QED BY <2>1, <2>2
<1>2. halves \in Seq(Nat) /\ Len(halves) = N /\ \A j \in 1 .. N : halves[j] = l[j] \div 2
  BY <1>1, IsASeq
<1> HIDE DEF N, halves
<1>3. /\ Sums(l)[0] = 0 /\ \A i \in 0 .. N : Sums(l)[i] \in Nat
      /\ \A i \in 1 .. N : Sums(l)[i] = Sums(l)[i - 1] + l[i]
  BY SumsFacts DEF N
<1>4. /\ Sums(halves)[0] = 0 /\ \A i \in 0 .. N : Sums(halves)[i] \in Nat
      /\ \A i \in 1 .. N : Sums(halves)[i] = Sums(halves)[i - 1] + halves[i]
  BY <1>2, SumsFacts
<1> DEFINE S == {i \in 0 .. N : Sums(l)[i] = 2 * Sums(halves)[i]}
<1>5. 0 \in S
  BY <1>1, <1>3, <1>4
<1>6. ASSUME NEW i \in 0 .. N - 1, i \in S PROVE i + 1 \in S
  <2>1. i + 1 \in 1 .. N /\ i + 1 \in 0 .. N /\ (i + 1) - 1 = i /\ i \in 0 .. N
    BY <1>1
  <2> DEFINE a == Sums(l)[i]
             b == Sums(halves)[i]
             c == l[i + 1]
             d == halves[i + 1]
  <2>2. a \in Nat /\ b \in Nat /\ c \in Nat /\ d \in Nat /\ c = 2 * d /\ a = 2 * b
    BY <1>1, <1>2, <1>3, <1>4, <1>6, <2>1
  <2>3. Sums(l)[i + 1] = a + c /\ Sums(halves)[i + 1] = b + d
    BY <1>3, <1>4, <2>1
  <2> HIDE DEF a, b, c, d, S
  <2>4. a + c = 2 * (b + d)
    BY <2>2
  <2> QED BY <2>1, <2>3, <2>4 DEF S
<1> HIDE DEF S
<1>7. \A i \in 0 .. N : i \in S
  BY <1>1, <1>5, <1>6, CountUp
<1> QED BY <1>7 DEF S, N, halves

\* The records whose data has arrived are in their places, if the data of
\* all of them has.
LEMMA PlacesRight ==
  ASSUME TypeOK, KnownInv, NEW id \in 1 .. Len(issued), issued[id].op \in Data,
         \A seg \in 1 .. issued[id].n : Arrived(id, seg), NEW r \in landed, r.id = id
  PROVE  2 * r.sector = r.mem
<1> DEFINE op == issued[id].op
           segs == issued[id].segs
           N == Len(segs)
           halves == [j \in 1 .. N |-> segs[j] \div 2]
<1>1. segs \in Seq(Nat) /\ N \in Nat
  <2>1. issued[id] \in Issued
    BY ElementOfSeq DEF TypeOK, CardType
  <2>2. segs \in SegLists \/ segs = <<>>
    BY <2>1 DEF Issued
  <2>3. CASE segs \in SegLists
    <3>1. segs \in Seq(Nat \ {0})
      BY <2>3, SegAssumption
    <3>2. N \in Nat /\ \A i \in 1 .. N : segs[i] \in Nat
      BY <3>1, LenProperties, ElementOfSeq
    <3>3. segs = [i \in 1 .. N |-> segs[i]]
      BY <3>1
    <3>4. [i \in 1 .. N |-> segs[i]] \in Seq(Nat)
      BY <3>2, IsASeq
    <3> QED BY <3>2, <3>3, <3>4
  <2> QED BY <2>2, <2>3, EmptySeq
<1>2. id # 0
  OBVIOUS
<1>3. \A x \in landed : x.id = id => /\ issued[id].n = Len(RecordsOf(x.tag, id, op, segs))
                                     /\ x.seg \in 1 .. Len(RecordsOf(x.tag, id, op, segs))
                                     /\ x = RecordsOf(x.tag, id, op, segs)[x.seg]
  <2> SUFFICES ASSUME NEW x \in landed, x.id = id
               PROVE  /\ issued[id].n = Len(RecordsOf(x.tag, id, op, segs))
                      /\ x.seg \in 1 .. Len(RecordsOf(x.tag, id, op, segs))
                      /\ x = RecordsOf(x.tag, id, op, segs)[x.seg]
    OBVIOUS
  <2>1. OfRequest(x)
    BY DEF KnownInv, Known
  <2> QED BY <1>2, <2>1 DEF OfRequest
<1> HIDE DEF op, segs, N, halves
<1>4. CASE direct
  <2>1. \A tag : /\ Len(RecordsOf(tag, id, op, segs)) = N
                 /\ \A i \in 1 .. N : /\ RecordsOf(tag, id, op, segs)[i].len = segs[i]
                                      /\ RecordsOf(tag, id, op, segs)[i].mem = Sums(segs)[i - 1]
                                      /\ RecordsOf(tag, id, op, segs)[i].sector = Sums(halves)[i - 1]
    <3> TAKE tag
    <3>1. RecordsOf(tag, id, op, segs)
            = [i \in 1 .. N |->
                 [tag |-> tag, id |-> id, op |-> op, seg |-> i, len |-> segs[i],
                  mem |-> Sums(segs)[i - 1], sector |-> Sums(halves)[i - 1]]]
      BY <1>4 DEF RecordsOf, op, N, halves
    <3> QED BY <1>1, <3>1
  <2>2. issued[id].n = N
    BY <1>3, <2>1
  <2>3. \A i \in 1 .. N : segs[i] % 2 = 0
    <3> SUFFICES ASSUME NEW i \in 1 .. N PROVE segs[i] % 2 = 0
      OBVIOUS
    <3>1. PICK x \in landed : x.id = id /\ x.seg = i /\ Valid(x)
      BY <2>2 DEF Arrived
    <3>2. x = RecordsOf(x.tag, id, op, segs)[i]
      BY <1>3, <3>1
    <3>3. x.len = segs[i]
      BY <2>1, <3>2
    <3> QED BY <3>1, <3>3 DEF Valid
  <2>4. \A i \in 0 .. N : Sums(segs)[i] = 2 * Sums(halves)[i]
    BY <1>1, <2>3, EvenSums DEF N, halves
  <2>5. r.seg \in 1 .. N /\ r = RecordsOf(r.tag, id, op, segs)[r.seg]
    BY <1>3, <2>1
  <2>6. r.mem = Sums(segs)[r.seg - 1] /\ r.sector = Sums(halves)[r.seg - 1]
    BY <2>1, <2>5
  <2>7. r.seg - 1 \in 0 .. N
    BY <1>1, <2>5
  <2> QED BY <2>4, <2>6, <2>7
<1>5. CASE ~direct
  <2> DEFINE e == [tag |-> r.tag, id |-> id, op |-> op, seg |-> 1,
                   len |-> Sums(segs)[Len(segs)], mem |-> 0, sector |-> 0]
  <2>1. RecordsOf(r.tag, id, op, segs) = <<e>>
    BY <1>5 DEF RecordsOf
  <2>2. e.mem = 0 /\ e.sector = 0
    OBVIOUS
  <2> HIDE DEF e
  <2>3. r = e
    BY <1>3, <2>1
  <2> QED BY <2>2, <2>3
<1> QED BY <1>4, <1>5

\* A request that ended well moved its data, unless a staged copy was given
\* up.
LEMMA LandMoved == ASSUME Books, LandInv PROVE MovedUnlessAbandoned
<1> SUFFICES ASSUME ~abandoned, NEW id \in 1 .. Len(issued), issued[id].op \in Data, issued[id].end = "ok"
             PROVE  /\ {r.seg : r \in {x \in landed : x.id = id}} = 1 .. issued[id].n
                    /\ \A r \in landed : r.id = id => 2 * r.sector = r.mem
  BY DEF MovedUnlessAbandoned, OkMeansMoved
<1>1. TypeOK /\ KnownInv /\ Lands
  BY LandParts DEF Books
<1>2. \A seg \in 1 .. issued[id].n : Arrived(id, seg)
  BY <1>1 DEF Lands
<1>3. ASSUME NEW r \in landed, r.id = id PROVE r.seg \in 1 .. issued[id].n
  <2>1. OfRequest(r) /\ r.id # 0
    BY <1>1, <1>3 DEF KnownInv, Known
  <2> QED BY <1>3, <2>1 DEF OfRequest
<1>4. {r.seg : r \in {x \in landed : x.id = id}} = 1 .. issued[id].n
  BY <1>2, <1>3 DEF Arrived
<1>5. \A r \in landed : r.id = id => 2 * r.sector = r.mem
  BY <1>1, <1>2, PlacesRight
<1> QED BY <1>4, <1>5

\* The books are right, no flush has overtaken a write, and every good
\* answer is for data that has arrived: the whole invariant of the block
\* channel (knc_blk.c, blk_step, dma_poll).
THEOREM ServiceRight == Spec => []ServiceInv
<1>1. Init => ServiceInv
  BY InitBooks, InitFlush, InitLand DEF ServiceInv
<1>2. ServiceInv /\ [Next]_vars => ServiceInv'
  BY NextBooks, NextFlush, NextLand DEF ServiceInv
<1> QED BY <1>1, <1>2, PTL DEF Spec

\* A read or write that ended well moved every segment, to and from its own
\* sectors, unless a copy through the staging buffer was given up
\* (do_read, do_write, submit_ram, knc_blk_queue_rq).
THEOREM GoodMeansMoved == Spec => []MovedUnlessAbandoned
<1>1. ServiceInv => MovedUnlessAbandoned
  BY LandMoved DEF ServiceInv
<1> QED BY <1>1, ServiceRight, PTL
=============================================================================
