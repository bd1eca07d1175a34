-------------------------- MODULE ExecFlowProofs --------------------------
(***************************************************************************)
(* Proofs about ExecFlow, for every amount of input and output and every   *)
(* size of the buffers on the way: InputInv is inductive.                  *)
(***************************************************************************)
EXTENDS ExecFlow, FiniteSetTheorems, SequenceTheorems, TLAPS

----------------------------------------------------------------------------
(* Pieces of a queue, and how often a tag occurs in one.                   *)

\* A read of n frames splits a queue into what it brings and what stays.
LEMMA FrontRest ==
  ASSUME NEW s \in Seq(Tag), NEW n \in Nat
  PROVE  /\ Front(s, n) \in Seq(Tag) /\ Rest(s, n) \in Seq(Tag)
         /\ Len(Front(s, n)) = Least(n, Len(s))
         /\ Len(Rest(s, n)) = Len(s) - Least(n, Len(s))
         /\ Front(s, n) \o Rest(s, n) = s
<1> DEFINE k == Least(n, Len(s))
<1>1. Len(s) \in Nat /\ k \in 0 .. Len(s)
  BY LenProperties DEF Least
<1>2. \A i \in 1 .. Len(s) : s[i] \in Tag
  BY ElementOfSeq
<1> HIDE DEF k
<1>3. /\ SubSeq(s, 1, k) \in Seq(Tag) /\ Len(SubSeq(s, 1, k)) = k
  BY <1>1, <1>2, SubSeqProperties
<1>4. /\ SubSeq(s, k + 1, Len(s)) \in Seq(Tag)
      /\ Len(SubSeq(s, k + 1, Len(s))) = Len(s) - k
  BY <1>1, <1>2, SubSeqProperties
<1>5. SubSeq(s, 1, k) \o SubSeq(s, k + 1, Len(s)) = s
  <2>1. SubSeq(s, 1, k) \o SubSeq(s, k + 1, Len(s)) = SubSeq(s, 1, Len(s))
    <3>1. 1 \in 1 .. Len(s) + 1 /\ k \in 1 - 1 .. Len(s) /\ Len(s) \in k .. Len(s)
      BY <1>1
    <3> QED BY <3>1, ConcatAdjacentSubSeq
  <2> QED BY <2>1, SubSeqFull
<1> QED BY <1>3, <1>4, <1>5 DEF k, Front, Rest

\* A non-empty queue is its first frame and the rest.
LEMMA HeadTail ==
  ASSUME NEW s \in Seq(Tag), s # <<>>
  PROVE  /\ Head(s) \in Tag /\ Tail(s) \in Seq(Tag) /\ Len(Tail(s)) = Len(s) - 1
         /\ s = <<Head(s)>> \o Tail(s)
<1>1. /\ Head(s) \in Tag /\ Tail(s) \in Seq(Tag) /\ Len(Tail(s)) = Len(s) - 1
  BY HeadTailProperties
<1>2. s = <<Head(s)>> \o Tail(s)
  OBVIOUS
<1> QED BY <1>1, <1>2

Where(s, tag) == {i \in 1 .. Len(s) : s[i] = tag}

\* Counting is by a finite set.
LEMMA CountType ==
  ASSUME NEW s \in Seq(Tag), NEW tag
  PROVE  /\ IsFiniteSet(Where(s, tag)) /\ Count(s, tag) = Cardinality(Where(s, tag))
         /\ Count(s, tag) \in Nat
         /\ Count(s, tag) = 0 <=> \A i \in 1 .. Len(s) : s[i] # tag
<1>1. Len(s) \in Nat /\ Where(s, tag) \in SUBSET (1 .. Len(s))
  BY LenProperties DEF Where
<1>2. IsFiniteSet(1 .. Len(s))
  BY <1>1, FS_Interval
<1>3. IsFiniteSet(Where(s, tag))
  BY <1>1, <1>2, FS_Subset
<1>4. Count(s, tag) = Cardinality(Where(s, tag))
  BY DEF Count, Where
<1>5. Cardinality(Where(s, tag)) \in Nat /\ (Cardinality(Where(s, tag)) = 0 <=> Where(s, tag) = {})
  BY <1>3, FS_CardinalityType, FS_EmptySet
<1>6. Where(s, tag) = {} <=> \A i \in 1 .. Len(s) : s[i] # tag
  BY DEF Where
<1> QED BY <1>3, <1>4, <1>5, <1>6

\* Nothing is counted twice or forgotten when queues are joined.
LEMMA CountConcat ==
  ASSUME NEW s \in Seq(Tag), NEW t \in Seq(Tag), NEW tag
  PROVE  Count(s \o t, tag) = Count(s, tag) + Count(t, tag)
<1> DEFINE A == Where(s, tag)
           B == Where(t, tag)
           C == {i \in Len(s) + 1 .. Len(s) + Len(t) : t[i - Len(s)] = tag}
           f == [i \in B |-> i + Len(s)]
<1>1. Len(s) \in Nat /\ Len(t) \in Nat
  BY LenProperties
<1>2. /\ s \o t \in Seq(Tag) /\ Len(s \o t) = Len(s) + Len(t)
      /\ \A i \in 1 .. Len(s) + Len(t) :
           (s \o t)[i] = IF i <= Len(s) THEN s[i] ELSE t[i - Len(s)]
  BY ConcatProperties
<1>3. Where(s \o t, tag) = A \cup C
  BY <1>1, <1>2 DEF Where
<1>4. A \cap C = {}
  BY <1>1 DEF Where
<1>5. f \in Bijection(B, C)
  <2>1. f \in [B -> C]
    BY <1>1 DEF Where
  <2>2. \A x, y \in B : f[x] = f[y] => x = y
    BY <1>1 DEF Where
  <2>3. \A c \in C : c - Len(s) \in B /\ f[c - Len(s)] = c
    BY <1>1 DEF Where
  <2> HIDE DEF f, B, C
  <2> QED BY <2>1, <2>2, <2>3 DEF Bijection, Injection, IsInjective, Surjection
<1>6. IsFiniteSet(A) /\ IsFiniteSet(B) /\ Cardinality(A) = Count(s, tag) /\ Cardinality(B) = Count(t, tag)
  BY CountType
<1> HIDE DEF A, B, C, f
<1>7. IsFiniteSet(C) /\ Cardinality(C) = Cardinality(B)
  BY <1>5, <1>6, FS_Bijection DEF ExistsBijection
<1>8. Cardinality(A \cup C) = Cardinality(A) + Cardinality(C)
  <2>1. Cardinality(A \cup C) = Cardinality(A) + Cardinality(C) - Cardinality(A \cap C)
    BY <1>6, <1>7, FS_Union
  <2>2. Cardinality(A \cap C) = 0
    BY <1>4, FS_EmptySet
  <2>3. Cardinality(A) \in Nat /\ Cardinality(C) \in Nat
    BY <1>6, <1>7, FS_CardinalityType
  <2> QED BY <2>1, <2>2, <2>3
<1>9. Count(s \o t, tag) = Cardinality(A \cup C)
  BY <1>2, <1>3, CountType
<1> QED BY <1>6, <1>7, <1>8, <1>9

\* The same as a quantified fact.
LEMMA CountJoin ==
  \A tag : \A s, t \in Seq(Tag) : Count(s \o t, tag) = Count(s, tag) + Count(t, tag)
BY CountConcat

\* The empty queue and a single frame.
LEMMA CountSingle ==
  ASSUME NEW tag
  PROVE  /\ Count(<<>>, tag) = 0
         /\ \A x \in Tag : Count(<<x>>, tag) = IF x = tag THEN 1 ELSE 0
<1>1. Count(<<>>, tag) = 0
  <2>1. <<>> \in Seq(Tag) /\ \A i \in 1 .. Len(<<>>) : <<>>[i] # tag
    OBVIOUS
  <2> QED BY <2>1, CountType
<1>2. ASSUME NEW x \in Tag PROVE Count(<<x>>, tag) = IF x = tag THEN 1 ELSE 0
  <2>1. Where(<<x>>, tag) = IF x = tag THEN {1} ELSE {}
    BY DEF Where
  <2>2. <<x>> \in Seq(Tag)
    OBVIOUS
  <2>3. Count(<<x>>, tag) = Cardinality(Where(<<x>>, tag))
    BY <2>2, CountType
  <2>4. Cardinality({1}) = 1 /\ Cardinality({}) = 0
    BY FS_Singleton, FS_EmptySet
  <2> QED BY <2>1, <2>3, <2>4
<1> QED BY <1>1, <1>2

\* Taking the first frame off keeps the order; nothing of the input is
\* behind a StdinEof.
LEMMA EofPop ==
  ASSUME NEW a \in Tag, NEW s \in Seq(Tag), EofLast(<<a>> \o s)
  PROVE  EofLast(s) /\ (a = "StdinEof" => Count(s, "Stdin") = 0)
<1> DEFINE w == <<a>> \o s
<1>1. /\ Len(s) \in Nat /\ Len(w) = Len(s) + 1 /\ w[1] = a
      /\ \A i \in 1 .. Len(s) : w[i + 1] = s[i]
  OBVIOUS
<1>2. \A i, j \in 1 .. Len(w) : w[i] = "StdinEof" /\ w[j] = "Stdin" => j < i
  BY DEF EofLast
<1> HIDE DEF w
<1>3. EofLast(s)
  <2> SUFFICES ASSUME NEW i \in 1 .. Len(s), NEW j \in 1 .. Len(s),
                      s[i] = "StdinEof", s[j] = "Stdin"
               PROVE  j < i
    BY DEF EofLast
  <2>1. i + 1 \in 1 .. Len(w) /\ j + 1 \in 1 .. Len(w) /\ w[i + 1] = s[i] /\ w[j + 1] = s[j]
    BY <1>1
  <2> QED BY <1>2, <2>1
<1>4. ASSUME a = "StdinEof", NEW j \in 1 .. Len(s), s[j] = "Stdin" PROVE FALSE
  <2>1. 1 \in 1 .. Len(w) /\ j + 1 \in 1 .. Len(w) /\ w[j + 1] = s[j]
    BY <1>1
  <2> QED BY <1>1, <1>2, <1>4, <2>1
<1> QED BY <1>3, <1>4, CountType

\* A frame put behind a queue without StdinEof keeps the order.
LEMMA EofPush ==
  ASSUME NEW a \in Tag, NEW s \in Seq(Tag), Count(s, "StdinEof") = 0
  PROVE  EofLast(s \o <<a>>)
<1> DEFINE w == s \o <<a>>
<1>1. /\ Len(s) \in Nat /\ Len(w) = Len(s) + 1 /\ w[Len(s) + 1] = a
      /\ \A i \in 1 .. Len(s) : w[i] = s[i]
  OBVIOUS
<1>2. \A i \in 1 .. Len(s) : s[i] # "StdinEof"
  BY CountType
<1> HIDE DEF w
<1>3. ASSUME NEW i \in 1 .. Len(w), NEW j \in 1 .. Len(w), w[i] = "StdinEof", w[j] = "Stdin"
      PROVE  j < i
  <2>1. i = Len(s) + 1
    BY <1>1, <1>2, <1>3
  <2>2. j # i
    BY <1>3
  <2> QED BY <1>1, <2>1, <2>2
<1> QED BY <1>3 DEF EofLast, w

\* Another client's frame in between keeps the order.
LEMMA EofInsert ==
  ASSUME NEW s \in Seq(Tag), NEW t \in Seq(Tag), EofLast(s \o t)
  PROVE  EofLast((s \o <<"Stat">>) \o t)
<1> DEFINE w == s \o t
           v == (s \o <<"Stat">>) \o t
           at(i) == IF i <= Len(s) THEN i ELSE i - 1
<1>1. Len(s) \in Nat /\ Len(t) \in Nat /\ Len(w) = Len(s) + Len(t) /\ Len(v) = Len(s) + 1 + Len(t)
  OBVIOUS
<1>2. \A i \in 1 .. Len(v) : i = Len(s) + 1 \/ at(i) \in 1 .. Len(w)
  BY <1>1
<1>3. v[Len(s) + 1] = "Stat"
  BY <1>1
<1>4. ASSUME NEW i \in 1 .. Len(v), i # Len(s) + 1 PROVE v[i] = w[at(i)]
  <2>1. CASE i <= Len(s)
    BY <1>1, <1>4, <2>1
  <2>2. CASE ~(i <= Len(s))
    BY <1>1, <1>4, <2>2
  <2> QED BY <2>1, <2>2
<1>5. \A i, j \in 1 .. Len(w) : w[i] = "StdinEof" /\ w[j] = "Stdin" => j < i
  BY DEF EofLast
<1>6. ASSUME NEW i \in 1 .. Len(v), NEW j \in 1 .. Len(v), v[i] = "StdinEof", v[j] = "Stdin"
      PROVE  j < i
  <2> HIDE DEF v, w
  <2>1. i # Len(s) + 1 /\ j # Len(s) + 1
    BY <1>3, <1>6
  <2>2. at(j) < at(i)
    <3>1. at(i) \in 1 .. Len(w) /\ at(j) \in 1 .. Len(w)
      BY <1>2, <2>1
    <3>2. w[at(i)] = "StdinEof" /\ w[at(j)] = "Stdin"
      BY <1>4, <1>6, <2>1
    <3> HIDE DEF at
    <3> QED BY <1>5, <3>1, <3>2
  <2> QED BY <1>1, <2>1, <2>2
<1> QED BY <1>6 DEF EofLast

----------------------------------------------------------------------------
(* What the actions do to the two ways.                                    *)

\* The types of the queues, one by one.
LEMMA Queues ==
  ASSUME TypeOK
  PROVE  /\ up \in Seq(Tag) /\ down \in Seq(Tag) /\ toCard \in Seq(Tag) /\ dec \in Seq(Tag)
         /\ h2c \in Seq(Tag) /\ c2h \in Seq(Tag) /\ rx \in Seq(Tag) /\ tx \in Seq(Tag)
         /\ Sending \in Seq(Tag) /\ up \o Sending \in Seq(Tag)
         /\ toCard \o (up \o Sending) \in Seq(Tag)
         /\ h2c \o (toCard \o (up \o Sending)) \in Seq(Tag)
         /\ InWay \in Seq(Tag) /\ OutWay \in Seq(Tag)
<1>1. /\ up \in Seq(Tag) /\ down \in Seq(Tag) /\ toCard \in Seq(Tag) /\ dec \in Seq(Tag)
      /\ h2c \in Seq(Tag) /\ c2h \in Seq(Tag) /\ rx \in Seq(Tag) /\ tx \in Seq(Tag)
  BY DEF TypeOK
<1>2. Sending \in Seq(Tag)
  <2>1. cframe = "none" \/ cframe \in Tag
    BY DEF TypeOK, Tag
  <2>2. <<>> \in Seq(Tag) /\ \A x \in Tag : <<x>> \in Seq(Tag)
    OBVIOUS
  <2> QED BY <2>1, <2>2 DEF Sending
<1>3. /\ up \o Sending \in Seq(Tag) /\ toCard \o (up \o Sending) \in Seq(Tag)
      /\ h2c \o (toCard \o (up \o Sending)) \in Seq(Tag) /\ InWay \in Seq(Tag)
  BY <1>1, <1>2, ConcatProperties DEF InWay
<1>4. OutWay \in Seq(Tag)
  BY <1>1, ConcatProperties DEF OutWay
<1> QED BY <1>1, <1>2, <1>3, <1>4

\* Joining queues does not depend on where one starts.
LEMMA Assoc == \A s, t, u \in Seq(Tag) : (s \o t) \o u = s \o (t \o u)
<1> TAKE s, t, u \in Seq(Tag)
<1> QED BY ConcatAssociative

\* Frames in four queues in a row, queue by queue.
LEMMA CountFour ==
  ASSUME NEW a \in Seq(Tag), NEW b \in Seq(Tag), NEW c \in Seq(Tag), NEW d \in Seq(Tag), NEW tag
  PROVE  /\ Count(a \o b \o c \o d, tag) = Count(a, tag) + Count(b, tag) + Count(c, tag) + Count(d, tag)
         /\ Count(a, tag) \in Nat /\ Count(b, tag) \in Nat /\ Count(c, tag) \in Nat /\ Count(d, tag) \in Nat
<1>1. a \o b \in Seq(Tag) /\ a \o b \o c \in Seq(Tag)
  BY ConcatProperties
<1>2. Count(a, tag) \in Nat /\ Count(b, tag) \in Nat /\ Count(c, tag) \in Nat /\ Count(d, tag) \in Nat
  BY CountType
<1>3. /\ Count(a \o b, tag) = Count(a, tag) + Count(b, tag)
      /\ Count(a \o b \o c, tag) = Count(a \o b, tag) + Count(c, tag)
      /\ Count(a \o b \o c \o d, tag) = Count(a \o b \o c, tag) + Count(d, tag)
  <2>1. \A s, t \in Seq(Tag) : Count(s \o t, tag) = Count(s, tag) + Count(t, tag)
    BY CountConcat
  <2> QED BY <1>1, <2>1, Zenon
<1> QED BY <1>2, <1>3

\* The client puts what it read behind everything else ...
LEMMA PollWay ==
  ASSUME InputInv, ClientPoll
  PROVE  /\ cframe = "none" /\ cframe' \in {"none", "Stdin", "StdinEof"}
         /\ InWay' = IF cframe' = "none" THEN InWay ELSE InWay \o <<cframe'>>
<1>1. cframe = "none" /\ cframe' \in {"none", "Stdin", "StdinEof"}
  BY DEF InputInv, Busy, ClientPoll
<1>2. UNCHANGED <<rx, h2c, toCard, up>>
  BY DEF ClientPoll, clientFrame, daemonVars, agentVars
<1>3. Sending = <<>> /\ up \o Sending = up
  <2>1. Sending = <<>>
    BY <1>1 DEF Sending
  <2>2. up \in Seq(Tag)
    BY Queues DEF InputInv
  <2> QED BY <2>1, <2>2, ConcatEmptySeq
<1>4. CASE cframe' = "none"
  BY <1>1, <1>2, <1>4 DEF InWay, Sending
<1>5. CASE cframe' # "none"
  <2> DEFINE F == <<cframe'>>
             cu == toCard \o up
             hcu == h2c \o cu
  <2>1. Sending' = F
    BY <1>5 DEF Sending
  <2>2. F \in Seq(Tag)
    BY <1>1, <1>5 DEF Tag
  <2>3. /\ rx \in Seq(Tag) /\ h2c \in Seq(Tag) /\ toCard \in Seq(Tag) /\ up \in Seq(Tag)
        /\ cu \in Seq(Tag) /\ hcu \in Seq(Tag)
    BY Queues, <1>3 DEF InputInv
  <2>4. InWay = rx \o hcu
    BY <1>3 DEF InWay
  <2>5. InWay' = rx \o (h2c \o (toCard \o (up \o F)))
    BY <1>2, <2>1 DEF InWay
  <2> HIDE DEF F
  <2>6. toCard \o (up \o F) = (toCard \o up) \o F
    <3>1. toCard \in Seq(Tag) /\ up \in Seq(Tag) /\ F \in Seq(Tag)
      BY <2>2, <2>3
    <3> QED BY <3>1, Assoc, Zenon
  <2>7. h2c \o (cu \o F) = (h2c \o cu) \o F
    <3> HIDE DEF cu
    <3>1. h2c \in Seq(Tag) /\ cu \in Seq(Tag) /\ F \in Seq(Tag)
      BY <2>2, <2>3
    <3> QED BY <3>1, Assoc, Zenon
  <2>8. rx \o (hcu \o F) = (rx \o hcu) \o F
    <3> HIDE DEF hcu
    <3>1. rx \in Seq(Tag) /\ hcu \in Seq(Tag) /\ F \in Seq(Tag)
      BY <2>2, <2>3
    <3> QED BY <3>1, Assoc, Zenon
  <2>9. InWay' = InWay \o F
    BY <2>4, <2>5, <2>6, <2>7, <2>8, Zenon
  <2> QED BY <1>1, <1>5, <2>9 DEF F
<1> QED BY <1>1, <1>4, <1>5

\* ... and sending it leaves it there.
LEMMA SendWay == ASSUME InputInv, ClientSend PROVE InWay' = InWay
<1>1. cframe \in Tag /\ cframe # "none" /\ cframe' = "none" /\ up' = Append(up, cframe)
  BY DEF InputInv, TypeOK, Busy, ClientSend, Tag
<1>2. UNCHANGED <<rx, h2c, toCard>>
  BY DEF ClientSend, daemonVars, agentVars
<1>3. up \in Seq(Tag)
  BY Queues DEF InputInv
<1>4. up' \o Sending' = up \o Sending
  BY <1>1, <1>3 DEF Sending
<1> QED BY <1>2, <1>4 DEF InWay

\* The pass of the daemon moves frames along the way and changes none.
LEMMA PassWay == ASSUME InputInv, DaemonPass PROVE InWay' = InWay /\ OutWay' = OutWay
<1> DEFINE n == IF Len(toCard) < ToCardLimit THEN ReadMax ELSE 0
           F == Front(up, n)
           R == Rest(up, n)
           queue == toCard \o F
           Q1 == Front(queue, RingRoom)
           Q2 == Rest(queue, RingRoom)
           D1 == Front(c2h, PopMax(Q2))
           D2 == Rest(c2h, PopMax(Q2))
           S == Sending
           RS == R \o S
           QRS == Q2 \o RS
<1>1. /\ rx \in Seq(Tag) /\ h2c \in Seq(Tag) /\ toCard \in Seq(Tag) /\ up \in Seq(Tag)
      /\ S \in Seq(Tag) /\ c2h \in Seq(Tag) /\ down \in Seq(Tag) /\ tx \in Seq(Tag)
  BY Queues DEF InputInv
<1>2. n \in Nat /\ RingRoom \in Nat /\ PopMax(Q2) \in Nat
  <2>1. ReadMax \in Nat /\ H2cCap \in Nat
    BY CapAssumption
  <2>2. Len(h2c) \in Nat /\ Len(h2c) =< H2cCap
    BY <1>1, LenProperties DEF InputInv, TypeOK
  <2> QED BY <2>1, <2>2 DEF RingRoom, PopMax
<1>3. F \in Seq(Tag) /\ R \in Seq(Tag) /\ F \o R = up
  BY <1>1, <1>2, FrontRest
<1>4. queue \in Seq(Tag)
  BY <1>1, <1>3, ConcatProperties
<1>5. Q1 \in Seq(Tag) /\ Q2 \in Seq(Tag) /\ Q1 \o Q2 = queue
  <2> HIDE DEF queue
  <2> QED BY <1>2, <1>4, FrontRest
<1>6. D1 \in Seq(Tag) /\ D2 \in Seq(Tag) /\ D1 \o D2 = c2h
  <2> HIDE DEF Q2
  <2> QED BY <1>1, <1>2, FrontRest
<1>7. /\ rx' = rx /\ h2c' = h2c \o Q1 /\ toCard' = Q2 /\ up' = R /\ Sending' = S
      /\ down' = down /\ dec = <<>> /\ dec' = D1 /\ c2h' = D2 /\ tx' = tx
  BY DEF DaemonPass, daemonFrame, clientVars, agentVars, Sending
<1>8. RS \in Seq(Tag) /\ QRS \in Seq(Tag)
  BY <1>1, <1>3, <1>5, ConcatProperties
<1> HIDE DEF F, R, Q1, Q2, S, D1, D2
<1>9. (h2c \o Q1) \o QRS = h2c \o (Q1 \o QRS)
  <2> HIDE DEF QRS
  <2>1. h2c \in Seq(Tag) /\ Q1 \in Seq(Tag) /\ QRS \in Seq(Tag)
    BY <1>1, <1>5, <1>8
  <2> QED BY <2>1, Assoc, Zenon
<1>10. Q1 \o (Q2 \o RS) = (Q1 \o Q2) \o RS
  <2> HIDE DEF RS
  <2>1. Q1 \in Seq(Tag) /\ Q2 \in Seq(Tag) /\ RS \in Seq(Tag)
    BY <1>5, <1>8
  <2> QED BY <2>1, Assoc, Zenon
<1>11. (toCard \o F) \o RS = toCard \o (F \o RS)
  <2> HIDE DEF RS
  <2>1. toCard \in Seq(Tag) /\ F \in Seq(Tag) /\ RS \in Seq(Tag)
    BY <1>1, <1>3, <1>8
  <2> QED BY <2>1, Assoc, Zenon
<1>12. F \o (R \o S) = (F \o R) \o S
  <2>1. F \in Seq(Tag) /\ R \in Seq(Tag) /\ S \in Seq(Tag)
    BY <1>1, <1>3
  <2> QED BY <2>1, Assoc, Zenon
<1>13. InWay' = InWay
  BY <1>3, <1>5, <1>7, <1>9, <1>10, <1>11, <1>12, Zenon DEF InWay, S
<1>14. (down \o D1) \o D2 = down \o (D1 \o D2)
  <2>1. down \in Seq(Tag) /\ D1 \in Seq(Tag) /\ D2 \in Seq(Tag)
    BY <1>1, <1>6
  <2> QED BY <2>1, Assoc, Zenon
<1>15. down \o <<>> = down
  BY <1>1, ConcatEmptySeq
<1>16. OutWay' = OutWay
  BY <1>6, <1>7, <1>14, <1>15, Zenon DEF OutWay
<1> QED BY <1>13, <1>16

\* Another client's Stat goes in between.
LEMMA StatWay ==
  ASSUME InputInv, DaemonStat
  PROVE  \E P, Q \in Seq(Tag) : InWay = P \o Q /\ InWay' = (P \o <<"Stat">>) \o Q
<1> DEFINE rh == rx \o h2c
           P == rh \o toCard
           Q == up \o Sending
           T == <<"Stat">>
<1>1. /\ rx \in Seq(Tag) /\ h2c \in Seq(Tag) /\ toCard \in Seq(Tag) /\ Q \in Seq(Tag)
  BY Queues DEF InputInv
<1>2. rh \in Seq(Tag) /\ P \in Seq(Tag)
  BY <1>1, ConcatProperties
<1>3. /\ rx' = rx /\ h2c' = h2c /\ toCard' = toCard \o T /\ up' \o Sending' = Q
      /\ T \in Seq(Tag) /\ toCard \o T \in Seq(Tag)
  <2>1. "Stat" \in Tag
    BY DEF Tag
  <2>2. Append(toCard, "Stat") = toCard \o T /\ T \in Seq(Tag) /\ toCard \o T \in Seq(Tag)
    BY <1>1, <2>1, AppendIsConcat, ConcatProperties
  <2> QED BY <2>2 DEF DaemonStat, daemonFrame, clientVars, agentVars, Sending
<1>4. ASSUME NEW c, c \in Seq(Tag)
      PROVE  rx \o (h2c \o (c \o Q)) = (rh \o c) \o Q
  <2> DEFINE cQ == c \o Q
  <2>1. cQ \in Seq(Tag)
    BY <1>1, <1>4, ConcatProperties
  <2>2. (rx \o h2c) \o cQ = rx \o (h2c \o cQ)
    <3> HIDE DEF cQ
    <3>1. rx \in Seq(Tag) /\ h2c \in Seq(Tag) /\ cQ \in Seq(Tag)
      BY <1>1, <2>1
    <3> QED BY <3>1, Assoc, Zenon
  <2>3. (rh \o c) \o Q = rh \o (c \o Q)
    <3> HIDE DEF rh, Q
    <3>1. rh \in Seq(Tag) /\ c \in Seq(Tag) /\ Q \in Seq(Tag)
      BY <1>1, <1>2, <1>4
    <3> QED BY <3>1, Assoc, Zenon
  <2> QED BY <2>2, <2>3, Zenon
<1>5. InWay = P \o Q /\ InWay' = (rh \o (toCard \o T)) \o Q
  <2>1. InWay = P \o Q
    BY <1>1, <1>4, Zenon DEF InWay
  <2>2. InWay' = rx \o (h2c \o ((toCard \o T) \o Q))
    BY <1>3, Zenon DEF InWay
  <2>3. InWay' = (rh \o (toCard \o T)) \o Q
    BY <1>3, <1>4, <2>2, Zenon
  <2> QED BY <2>1, <2>3
<1>6. rh \o (toCard \o T) = (rh \o toCard) \o T
  <2> HIDE DEF rh, T
  <2>1. rh \in Seq(Tag) /\ toCard \in Seq(Tag) /\ T \in Seq(Tag)
    BY <1>1, <1>2, <1>3
  <2> QED BY <2>1, Assoc, Zenon
<1>7. InWay' = (P \o T) \o Q
  BY <1>5, <1>6, Zenon
<1> HIDE DEF P, Q
<1> QED BY <1>1, <1>2, <1>5, <1>7

\* The agent takes the oldest frame: from what it has buffered ...
LEMMA FrameWay ==
  ASSUME TypeOK, rx # <<>>, rx' = Tail(rx), UNCHANGED <<h2c, toCard, up, cframe>>
  PROVE  /\ Head(rx) \in Tag /\ rx' \in Seq(Tag) /\ Len(rx') = Len(rx) - 1
         /\ InWay = <<Head(rx)>> \o InWay'
<1> DEFINE T == h2c \o (toCard \o (up \o Sending))
           H == <<Head(rx)>>
<1>1. rx \in Seq(Tag) /\ T \in Seq(Tag)
  BY Queues
<1>2. /\ Head(rx) \in Tag /\ Tail(rx) \in Seq(Tag) /\ Len(Tail(rx)) = Len(rx) - 1
      /\ rx = H \o Tail(rx)
  BY <1>1, HeadTail
<1>3. H \in Seq(Tag)
  BY <1>2
<1>4. InWay' = Tail(rx) \o T
  BY DEF InWay, Sending
<1>5. InWay = rx \o T
  BY DEF InWay
<1>6. (H \o Tail(rx)) \o T = H \o (Tail(rx) \o T)
  <2> HIDE DEF H, T
  <2>1. H \in Seq(Tag) /\ Tail(rx) \in Seq(Tag) /\ T \in Seq(Tag)
    BY <1>1, <1>2, <1>3
  <2> QED BY <2>1, Assoc, Zenon
<1>7. InWay = H \o InWay'
  BY <1>2, <1>4, <1>5, <1>6, Zenon
<1> QED BY <1>2, <1>7

\* ... or, with nothing buffered, from the ring.
LEMMA FillWay ==
  ASSUME TypeOK, rx = <<>>, h2c # <<>>, rx' = Tail(Front(h2c, ReadMax)),
         h2c' = Rest(h2c, ReadMax), UNCHANGED <<toCard, up, cframe>>
  PROVE  /\ Head(h2c) \in Tag /\ rx' \in Seq(Tag) /\ Len(rx') < ReadMax
         /\ h2c' \in Seq(Tag) /\ Len(h2c') =< Len(h2c)
         /\ InWay = <<Head(h2c)>> \o InWay'
<1> DEFINE F == Front(h2c, ReadMax)
           R == Rest(h2c, ReadMax)
           T == toCard \o (up \o Sending)
           H == <<Head(F)>>
           RT == R \o T
<1>1. h2c \in Seq(Tag) /\ T \in Seq(Tag) /\ ReadMax \in Nat \ {0}
  BY Queues, CapAssumption
<1>2. /\ F \in Seq(Tag) /\ R \in Seq(Tag) /\ F \o R = h2c
      /\ Len(F) = Least(ReadMax, Len(h2c)) /\ Len(R) = Len(h2c) - Least(ReadMax, Len(h2c))
  BY <1>1, FrontRest
<1>3. Len(h2c) \in Nat \ {0} /\ Len(F) \in 1 .. ReadMax /\ Len(R) =< Len(h2c)
  BY <1>1, <1>2, EmptySeq DEF Least
<1> HIDE DEF F, R
<1>4. F # <<>>
  BY <1>3
<1>5. /\ Head(F) \in Tag /\ Tail(F) \in Seq(Tag) /\ Len(Tail(F)) = Len(F) - 1
      /\ F = H \o Tail(F)
  BY <1>2, <1>4, HeadTail
<1>6. H \in Seq(Tag) /\ RT \in Seq(Tag)
  BY <1>1, <1>2, <1>5, ConcatProperties
<1>7. Head(F) = Head(h2c)
  <2>1. h2c[1] = F[1]
    BY <1>2, <1>3, ConcatProperties
  <2> QED BY <1>1, <1>2, <1>3, <2>1
<1>8. InWay' = Tail(F) \o RT
  BY DEF InWay, Sending, F, R
<1>9. InWay = h2c \o T
  <2>1. h2c \o T \in Seq(Tag)
    BY <1>1, ConcatProperties
  <2> HIDE DEF T
  <2>2. <<>> \o (h2c \o T) = h2c \o T
    BY <2>1, ConcatEmptySeq
  <2> QED BY <2>2 DEF InWay, T
<1>10. (F \o R) \o T = F \o RT
  <2> HIDE DEF T
  <2>1. F \in Seq(Tag) /\ R \in Seq(Tag) /\ T \in Seq(Tag)
    BY <1>1, <1>2
  <2> QED BY <2>1, Assoc, Zenon
<1>11. (H \o Tail(F)) \o RT = H \o (Tail(F) \o RT)
  <2> HIDE DEF H, RT
  <2>1. H \in Seq(Tag) /\ Tail(F) \in Seq(Tag) /\ RT \in Seq(Tag)
    BY <1>5, <1>6
  <2> QED BY <2>1, Assoc, Zenon
<1>12. InWay = H \o InWay'
  BY <1>2, <1>5, <1>8, <1>9, <1>10, <1>11, Zenon
<1>13. InWay = <<Head(h2c)>> \o InWay'
  BY <1>7, <1>12, Zenon
<1>14. rx' = Tail(F) /\ h2c' = R /\ Len(Tail(F)) < ReadMax
  BY <1>1, <1>3, <1>5 DEF F, R
<1> QED BY <1>2, <1>3, <1>5, <1>7, <1>13, <1>14

----------------------------------------------------------------------------
(* InputInv, action by action.                                             *)

\* Each constant by itself.
LEMMA Caps ==
  /\ UpCap \in Nat \ {0} /\ DownCap \in Nat \ {0} /\ ReadMax \in Nat \ {0}
  /\ ToCardLimit \in Nat \ {0} /\ H2cCap \in Nat \ {0} /\ C2hCap \in Nat \ {0}
  /\ Backlog \in Nat \ {0} /\ PipeCap \in Nat \ {0}
  /\ InTotal \in Nat /\ OutTotal \in Nat /\ InCap \in Nat /\ InCap >= Backlog + ReadMax
BY CapAssumption

\* The numbers the invariant adds up.
LEMMA Numbers ==
  ASSUME TypeOK
  PROVE  /\ \A tag : Count(InWay, tag) \in Nat /\ Count(OutWay, tag) \in Nat
         /\ {inLeft, got, inq, inPipe, outPipe, used, made} \subseteq Nat
         /\ \A q \in {up, down, toCard, dec, h2c, c2h, rx, tx} : Len(q) \in Nat
<1>1. \A tag : Count(InWay, tag) \in Nat /\ Count(OutWay, tag) \in Nat
  BY Queues, CountType
<1>2. {inLeft, got, inq, inPipe, outPipe, used, made} \subseteq Nat
  BY Caps DEF TypeOK
<1>3. \A q \in {up, down, toCard, dec, h2c, c2h, rx, tx} : Len(q) \in Nat
  BY Queues, LenProperties
<1> QED BY <1>1, <1>2, <1>3

\* The session starts with everything still at the client.
LEMMA InitInv == Init => InputInv
<1> SUFFICES ASSUME Init PROVE InputInv
  OBVIOUS
<1>1. TypeOK
  <2>1. \A q \in {up, down, toCard, dec, h2c, c2h, rx, tx} : q = <<>>
    BY Zenon DEF Init
  <2>2. <<>> \in Seq(Tag) /\ Len(<<>>) = 0
    OBVIOUS
  <2>3. /\ csock \in BOOLEAN /\ stdinOpen \in BOOLEAN /\ inOpen \in BOOLEAN /\ inEof \in BOOLEAN
        /\ late \in BOOLEAN /\ shut \in BOOLEAN /\ seenEof \in BOOLEAN
    BY Zenon DEF Init
  <2>4. /\ cpc = "poll" /\ cframe = "none" /\ inLeft = InTotal /\ got = 0 /\ stat = "none"
        /\ apc = "loop" /\ inq = 0 /\ inPipe = 0 /\ outPipe = 0 /\ used = 0 /\ made = 0
        /\ cmd \in {"read", "close", "write", "exited"}
    BY DEF Init
  <2> QED BY <2>1, <2>2, <2>3, <2>4, Caps DEF TypeOK
<1>2. InWay = <<>> /\ OutWay = <<>>
  BY DEF Init, InWay, OutWay, Sending
<1>3. \A tag : Count(<<>>, tag) = 0
  BY CountSingle
<1>4. InputConserved /\ InputComplete /\ OutputBounded
  BY <1>2, <1>3, Caps DEF Init, InputConserved, Supply, InputComplete, OutputBounded
<1>5. EofInOrder
  BY <1>2, <1>3 DEF Init, EofInOrder, EofLast
<1>6. RoomToSpare /\ Busy
  BY Caps DEF Init, RoomToSpare, Busy
<1> QED BY <1>1, <1>4, <1>5, <1>6 DEF InputInv

\* A step that leaves the two ways, the totals and the pipes alone keeps
\* what is said of them.
LEMMA SameWay ==
  ASSUME InputInv, InWay' = InWay,
         UNCHANGED <<inLeft, stdinOpen, inq, inPipe, used, inOpen, shut, seenEof, cmd, inEof>>
  PROVE  InputConserved' /\ InputComplete' /\ EofInOrder'
<1>1. InputConserved'
  BY DEF InputInv, InputConserved, Supply
<1>2. InputComplete'
  BY DEF InputInv, InputComplete
<1>3. EofInOrder'
  BY DEF InputInv, EofInOrder
<1> QED BY <1>1, <1>2, <1>3

\* One poll of the client: what it reads is on its way from now on.
LEMMA ClientPollInv == ASSUME InputInv, ClientPoll PROVE InputInv'
<1>1. TypeOK'
  <2>1. TypeOK
    BY DEF InputInv
  <2>2. UNCHANGED <<got, up, down, stat, toCard, dec, h2c, c2h, apc, rx, tx, inEof, late,
                    inq, inOpen, inPipe, outPipe, cmd, shut, seenEof, used, made>>
    BY DEF ClientPoll, clientFrame, daemonVars, agentVars, inputVars, cmdVars
  <2>3. /\ cpc' \in {"send", "recv"} /\ cframe' \in {"none", "Stdin", "StdinEof"}
        /\ inLeft' \in 0 .. InTotal
    <3>1. inLeft \in 0 .. InTotal /\ cframe \in {"none", "Stdin", "StdinEof"}
      BY <2>1, Zenon DEF TypeOK
    <3>2. \/ /\ cpc' = "send" /\ cframe' \in {"Stdin", "StdinEof"}
             /\ inLeft' = IF inLeft > 0 THEN inLeft - 1 ELSE 0
          \/ cpc' = "recv" /\ cframe' = cframe /\ inLeft' = inLeft
      BY DEF ClientPoll
    <3> QED BY <3>1, <3>2, Caps
  <2>4. csock' \in BOOLEAN /\ stdinOpen' \in BOOLEAN
    <3>1. (inLeft > 0) \in BOOLEAN /\ (down # <<>>) \in BOOLEAN
      OBVIOUS
    <3> QED BY <2>1, <3>1, Zenon DEF ClientPoll, TypeOK
  <2> QED BY <2>1, <2>2, <2>3, <2>4 DEF TypeOK
<1>2. \/ /\ InWay' = InWay /\ UNCHANGED <<inLeft, stdinOpen>>
         /\ cpc' = "recv" /\ cframe' = "none"
      \/ /\ InWay' = InWay \o <<cframe'>> /\ stdinOpen
         /\ cpc' = "send" /\ cframe' \in {"Stdin", "StdinEof"}
         /\ cframe' = "Stdin" => inLeft > 0 /\ inLeft' = inLeft - 1 /\ stdinOpen'
         /\ cframe' = "StdinEof" => inLeft = 0 /\ inLeft' = 0 /\ ~stdinOpen'
  <2>1. inLeft \in Nat /\ stdinOpen \in BOOLEAN
    BY Numbers DEF InputInv, TypeOK
  <2>2. CASE cpc' = "recv" /\ UNCHANGED <<cframe, inLeft, stdinOpen>>
    BY <2>2, PollWay
  <2>3. CASE /\ stdinOpen /\ cpc' = "send" /\ cframe' = IF inLeft > 0 THEN "Stdin" ELSE "StdinEof"
             /\ inLeft' = IF inLeft > 0 THEN inLeft - 1 ELSE 0
             /\ stdinOpen' = (inLeft > 0)
    <3>1. CASE inLeft > 0
      <4>1. stdinOpen'
        BY <2>3, <3>1, Zenon
      <4>2. cframe' = "Stdin" /\ inLeft' = inLeft - 1
        BY <2>3, <3>1
      <4> QED BY <2>3, <3>1, <4>1, <4>2, PollWay
    <3>2. CASE ~(inLeft > 0)
      <4>1. ~stdinOpen'
        BY <2>3, <3>2, Zenon
      <4>2. cframe' = "StdinEof" /\ inLeft' = 0 /\ inLeft = 0
        BY <2>1, <2>3, <3>2
      <4> QED BY <2>3, <4>1, <4>2, PollWay
    <3> QED BY <3>1, <3>2
  <2> QED BY <2>2, <2>3 DEF ClientPoll
<1>3. UNCHANGED <<inq, inPipe, used, inOpen, shut, seenEof, cmd, inEof, rx, h2c, apc, got,
                  down, dec, c2h, tx, outPipe, made>>
  BY DEF ClientPoll, clientFrame, daemonVars, agentVars, inputVars, cmdVars
<1>4. InputConserved' /\ InputComplete' /\ EofInOrder'
  <2>1. CASE InWay' = InWay /\ UNCHANGED <<inLeft, stdinOpen>>
    BY <1>3, <2>1, SameWay
  <2>2. CASE /\ InWay' = InWay \o <<cframe'>> /\ stdinOpen /\ cframe' \in {"Stdin", "StdinEof"}
             /\ cframe' = "Stdin" => inLeft > 0 /\ inLeft' = inLeft - 1 /\ stdinOpen'
             /\ cframe' = "StdinEof" => inLeft = 0 /\ inLeft' = 0 /\ ~stdinOpen'
    <3>1. InWay \in Seq(Tag) /\ cframe' \in Tag /\ <<cframe'>> \in Seq(Tag)
      BY <2>2, Queues DEF InputInv, Tag
    <3>2. \A tag : Count(InWay', tag) = Count(InWay, tag) + (IF cframe' = tag THEN 1 ELSE 0)
      <4> TAKE tag
      <4>1. Count(InWay \o <<cframe'>>, tag) = Count(InWay, tag) + Count(<<cframe'>>, tag)
        BY <3>1, CountConcat
      <4>2. Count(<<cframe'>>, tag) = IF cframe' = tag THEN 1 ELSE 0
        BY <3>1, CountSingle
      <4> QED BY <2>2, <4>1, <4>2
    <3>3. Count(InWay, "StdinEof") = 0 /\ ~inEof
      BY <2>2 DEF InputInv, EofInOrder
    <3>4. EofLast(InWay')
      BY <2>2, <3>1, <3>3, EofPush
    <3>5. Count(InWay, "Stdin") \in Nat /\ {inLeft, inq, inPipe, used} \subseteq Nat
      BY Numbers DEF InputInv
    <3>6. InputConserved'
      <4>1. Supply' = Supply
        BY <1>3, <2>2, <3>2, <3>5 DEF Supply
      <4> QED BY <1>3, <4>1 DEF InputInv, InputConserved
    <3>7. InputComplete'
      BY <1>3 DEF InputInv, InputComplete
    <3>8. EofInOrder'
      BY <1>3, <2>2, <3>2, <3>3, <3>4 DEF EofInOrder
    <3> QED BY <3>6, <3>7, <3>8
  <2> QED BY <1>2, <2>1, <2>2
<1>5. RoomToSpare'
  BY <1>3 DEF InputInv, RoomToSpare
<1>6. OutputBounded'
  BY <1>3 DEF InputInv, OutputBounded, OutWay
<1>7. Busy'
  BY <1>2, <1>3 DEF InputInv, Busy
<1> QED BY <1>1, <1>4, <1>5, <1>6, <1>7 DEF InputInv

\* The frame moves into the socket.
LEMMA ClientSendInv == ASSUME InputInv, ClientSend PROVE InputInv'
<1>1. UNCHANGED <<csock, inLeft, stdinOpen, got, down, toCard, dec, stat, h2c, c2h, apc, rx, tx,
                  inEof, late, inq, inOpen, inPipe, outPipe, cmd, shut, seenEof, used, made>>
  BY DEF ClientSend, daemonVars, agentVars, inputVars, cmdVars
<1>2. TypeOK'
  <2>1. TypeOK
    BY DEF InputInv
  <2>2. up' \in Seq(Tag) /\ Len(up') =< UpCap
    <3>1. up \in Seq(Tag) /\ cframe \in Tag
      BY Queues DEF InputInv, Busy, TypeOK, ClientSend, Tag
    <3>2. Append(up, cframe) \in Seq(Tag) /\ Len(Append(up, cframe)) = Len(up) + 1 /\ Len(up) \in Nat
      BY <3>1, AppendProperties, LenProperties
    <3> QED BY <3>2, Caps DEF ClientSend
  <2>3. cpc' \in {"recv", "poll"} /\ cframe' = "none"
    BY DEF ClientSend
  <2> QED BY <1>1, <2>1, <2>2, <2>3 DEF TypeOK
<1>3. InputConserved' /\ InputComplete' /\ EofInOrder'
  BY <1>1, SendWay, SameWay
<1>4. RoomToSpare'
  BY <1>1 DEF InputInv, RoomToSpare
<1>5. OutputBounded'
  BY <1>1 DEF InputInv, OutputBounded, OutWay
<1>6. Busy'
  BY <1>1 DEF InputInv, Busy, ClientSend
<1> QED BY <1>2, <1>3, <1>4, <1>5, <1>6 DEF InputInv

\* What the client reads is the oldest of the output.
LEMMA ClientRecvInv == ASSUME InputInv, ClientRecv PROVE InputInv'
<1> DEFINE F == Front(down, ReadMax)
           R == Rest(down, ReadMax)
           n(q) == Count(q, "Stdout")
<1>1. UNCHANGED <<cframe, csock, inLeft, stdinOpen, up, toCard, dec, stat, h2c, c2h, apc, rx, tx,
                  inEof, late, inq, inOpen, inPipe, outPipe, cmd, shut, seenEof, used, made>>
  BY DEF ClientRecv, daemonVars, agentVars, inputVars, cmdVars
<1>2. /\ down \in Seq(Tag) /\ dec \in Seq(Tag) /\ c2h \in Seq(Tag) /\ tx \in Seq(Tag)
      /\ Len(down) \in Nat /\ ReadMax \in Nat
  BY Queues, Numbers, Caps DEF InputInv
<1>3. /\ F \in Seq(Tag) /\ R \in Seq(Tag) /\ F \o R = down
      /\ Len(R) = Len(down) - Least(ReadMax, Len(down))
  BY <1>2, FrontRest
<1>4. down' = R /\ got' = got + n(F) /\ cpc' \in {"gone", "poll"} /\ cpc = "recv"
  BY DEF ClientRecv
<1>5. n(down) = n(F) + n(R) /\ n(F) \in Nat /\ n(R) \in Nat
  <2> HIDE DEF F, R
  <2>1. Count(F \o R, "Stdout") = n(F) + n(R)
    BY <1>3, CountConcat
  <2> QED BY <1>3, <2>1, CountType
<1>6. /\ n(OutWay) = n(down) + n(dec) + n(c2h) + n(tx)
      /\ n(OutWay') = n(R) + n(dec) + n(c2h) + n(tx)
      /\ n(dec) \in Nat /\ n(c2h) \in Nat /\ n(tx) \in Nat
  BY <1>1, <1>2, <1>3, <1>4, CountFour DEF OutWay
<1>7. /\ got \in Nat /\ outPipe \in Nat /\ made \in 0 .. OutTotal /\ OutTotal \in Nat
      /\ got + n(OutWay) + outPipe =< made
  BY Numbers, Caps DEF InputInv, OutputBounded, TypeOK
<1> HIDE DEF F, R, n
<1>8. got' \in 0 .. OutTotal /\ got' + n(OutWay') + outPipe' =< made'
  BY <1>1, <1>4, <1>5, <1>6, <1>7
<1>9. TypeOK'
  <2>1. Len(R) =< Len(down)
    BY <1>2, <1>3 DEF Least
  <2>2. down' \in Seq(Tag) /\ Len(down') =< DownCap
    <3>1. Len(down) =< DownCap
      BY Zenon DEF InputInv, TypeOK
    <3>2. Len(R) \in Nat
      BY <1>3, LenProperties
    <3> QED BY <1>2, <1>3, <1>4, <2>1, <3>1, <3>2, Caps
  <2> QED BY <1>1, <1>4, <1>8, <2>2 DEF InputInv, TypeOK
<1>10. InputConserved' /\ InputComplete' /\ EofInOrder'
  <2>1. InWay' = InWay
    BY <1>1 DEF InWay, Sending
  <2> QED BY <1>1, <2>1, SameWay
<1>11. RoomToSpare'
  BY <1>1 DEF InputInv, RoomToSpare
<1>12. OutputBounded'
  BY <1>8 DEF OutputBounded, n
<1>13. Busy'
  BY <1>1, <1>4 DEF InputInv, Busy
<1> QED BY <1>9, <1>10, <1>11, <1>12, <1>13 DEF InputInv

\* Another client's Stat is no input.
LEMMA DaemonStatInv == ASSUME InputInv, DaemonStat PROVE InputInv'
<1>1. UNCHANGED <<cpc, cframe, csock, inLeft, stdinOpen, got, up, down, dec, h2c, c2h, apc, rx, tx,
                  inEof, late, inq, inOpen, inPipe, outPipe, cmd, shut, seenEof, used, made>>
  BY DEF DaemonStat, daemonFrame, clientVars, agentVars, inputVars, cmdVars
<1>2. TypeOK'
  <2>1. toCard \in Seq(Tag) /\ "Stat" \in Tag
    BY Queues DEF InputInv, Tag
  <2>2. /\ Append(toCard, "Stat") \in Seq(Tag) /\ Len(toCard) \in Nat
        /\ Len(Append(toCard, "Stat")) = Len(toCard) + 1
    BY <2>1, AppendProperties, LenProperties
  <2>3. toCard' \in Seq(Tag) /\ Len(toCard') < ToCardLimit + ReadMax /\ stat' = "asked"
    BY <2>2, Caps DEF DaemonStat
  <2> QED BY <1>1, <2>3 DEF InputInv, TypeOK
<1>3. PICK P \in Seq(Tag), Q \in Seq(Tag) : InWay = P \o Q /\ InWay' = (P \o <<"Stat">>) \o Q
  BY StatWay
<1>4. ASSUME NEW tag \in {"Stdin", "StdinEof"} PROVE Count(InWay', tag) = Count(InWay, tag)
  <2>1. "Stat" \in Tag /\ "Stat" # tag
    BY DEF Tag
  <2>2. <<"Stat">> \in Seq(Tag) /\ Count(<<"Stat">>, tag) = 0
    BY <2>1, CountSingle
  <2>3. P \o <<"Stat">> \in Seq(Tag) /\ Count(P \o <<"Stat">>, tag) = Count(P, tag) + 0
    BY <1>3, <2>2, CountConcat, ConcatProperties
  <2>4. Count((P \o <<"Stat">>) \o Q, tag) = Count(P \o <<"Stat">>, tag) + Count(Q, tag)
    BY <1>3, <2>3, CountConcat
  <2>5. Count(P \o Q, tag) = Count(P, tag) + Count(Q, tag)
    BY <1>3, CountConcat
  <2>6. Count(P, tag) \in Nat
    BY <1>3, CountType
  <2> QED BY <1>3, <2>3, <2>4, <2>5, <2>6
<1>5. EofLast(InWay')
  <2>1. EofLast(P \o Q)
    BY <1>3 DEF InputInv, EofInOrder
  <2>2. EofLast((P \o <<"Stat">>) \o Q)
    BY <1>3, <2>1, EofInsert
  <2> QED BY <1>3, <2>2
<1>6. InputConserved' /\ InputComplete'
  BY <1>1, <1>4 DEF InputInv, InputConserved, Supply, InputComplete
<1>7. EofInOrder'
  BY <1>1, <1>4, <1>5 DEF InputInv, EofInOrder
<1>8. RoomToSpare' /\ OutputBounded' /\ Busy'
  BY <1>1 DEF InputInv, RoomToSpare, OutputBounded, OutWay, Busy
<1> QED BY <1>2, <1>6, <1>7, <1>8 DEF InputInv

\* A pass moves frames along, no further than the next buffer takes them.
LEMMA DaemonPassInv == ASSUME InputInv, DaemonPass PROVE InputInv'
<1> DEFINE m == IF Len(toCard) < ToCardLimit THEN ReadMax ELSE 0
           queue == toCard \o Front(up, m)
           left == Rest(queue, RingRoom)
<1>1. UNCHANGED <<cpc, cframe, csock, inLeft, stdinOpen, got, down, stat, apc, rx, tx,
                  inEof, late, inq, inOpen, inPipe, outPipe, cmd, shut, seenEof, used, made>>
  BY DEF DaemonPass, daemonFrame, clientVars, agentVars, inputVars, cmdVars
<1>2. /\ up \in Seq(Tag) /\ toCard \in Seq(Tag) /\ h2c \in Seq(Tag) /\ c2h \in Seq(Tag)
      /\ Len(up) \in Nat /\ Len(toCard) \in Nat /\ Len(h2c) \in Nat /\ Len(c2h) \in Nat
  BY Queues, LenProperties DEF InputInv
<1>3. /\ m \in Nat /\ RingRoom \in Nat /\ RingRoom = H2cCap - Len(h2c) /\ PopMax(left) = ReadMax
      /\ m =< ReadMax /\ Len(toCard) + m < ToCardLimit + ReadMax
  BY <1>2, Caps DEF InputInv, TypeOK, RingRoom, PopMax
<1>4. /\ Front(up, m) \in Seq(Tag) /\ Rest(up, m) \in Seq(Tag)
      /\ Len(Front(up, m)) = Least(m, Len(up))
      /\ Len(Rest(up, m)) = Len(up) - Least(m, Len(up))
  BY <1>2, <1>3, FrontRest
<1>5. queue \in Seq(Tag) /\ Len(queue) = Len(toCard) + Least(m, Len(up)) /\ Len(queue) \in Nat
  <2> HIDE DEF m
  <2>1. \A t \in Seq(Tag) : toCard \o t \in Seq(Tag) /\ Len(toCard \o t) = Len(toCard) + Len(t)
    BY <1>2, ConcatProperties
  <2> QED BY <1>2, <1>4, <2>1, LenProperties
<1>6. /\ Front(queue, RingRoom) \in Seq(Tag) /\ left \in Seq(Tag)
      /\ Len(Front(queue, RingRoom)) = Least(RingRoom, Len(queue))
      /\ Len(left) = Len(queue) - Least(RingRoom, Len(queue))
  <2> HIDE DEF queue
  <2> QED BY <1>3, <1>5, FrontRest
<1>7. /\ h2c' \in Seq(Tag) /\ Len(h2c') = Len(h2c) + Least(RingRoom, Len(queue))
  <2>1. h2c' = h2c \o Front(queue, RingRoom)
    BY DEF DaemonPass
  <2> HIDE DEF queue
  <2> QED BY <1>2, <1>6, <2>1, ConcatProperties
<1>8. /\ dec' \in Seq(Tag) /\ c2h' \in Seq(Tag) /\ Len(dec') = Least(ReadMax, Len(c2h))
      /\ Len(c2h') = Len(c2h) - Least(ReadMax, Len(c2h))
  <2>1. dec' = Front(c2h, ReadMax) /\ c2h' = Rest(c2h, ReadMax)
    BY DEF DaemonPass, PopMax
  <2>2. ReadMax \in Nat
    BY Caps
  <2> QED BY <1>2, <2>1, <2>2, FrontRest
<1>9. up' = Rest(up, m) /\ toCard' = left
  BY DEF DaemonPass
<1> HIDE DEF m, queue, left
<1>10. /\ Len(up') =< UpCap /\ Len(toCard') < ToCardLimit + ReadMax /\ Len(h2c') =< H2cCap
       /\ Len(dec') =< ReadMax /\ Len(c2h') =< C2hCap /\ Len(h2c') >= Len(h2c)
  <2>1. /\ Len(up) =< UpCap /\ Len(h2c) =< H2cCap /\ Len(c2h) =< C2hCap
    BY DEF InputInv, TypeOK
  <2>2. Len(up') =< UpCap
    BY <1>2, <1>3, <1>4, <1>9, <2>1, Caps DEF Least
  <2>3. Len(toCard') < ToCardLimit + ReadMax
    BY <1>2, <1>3, <1>5, <1>6, <1>9, Caps, SMTT(30) DEF Least
  <2>4. Len(h2c') =< H2cCap /\ Len(h2c') >= Len(h2c)
    BY <1>2, <1>3, <1>5, <1>7, Caps DEF Least
  <2>5. Len(dec') =< ReadMax /\ Len(c2h') =< C2hCap
    BY <1>2, <1>8, <2>1, Caps DEF Least
  <2> QED BY <2>2, <2>3, <2>4, <2>5
<1>11. TypeOK'
  BY <1>1, <1>4, <1>6, <1>7, <1>8, <1>9, <1>10 DEF InputInv, TypeOK
<1>12. InputConserved' /\ InputComplete' /\ EofInOrder'
  BY <1>1, PassWay, SameWay
<1>13. OutputBounded' /\ Busy'
  BY <1>1, PassWay DEF InputInv, OutputBounded, Busy
<1>14. RoomToSpare'
  <2>1. h2c # <<>> => h2c' # <<>>
    BY <1>2, <1>7, <1>10
  <2> QED BY <1>1, <2>1 DEF InputInv, RoomToSpare
<1> QED BY <1>11, <1>12, <1>13, <1>14 DEF InputInv

\* A delivery takes one frame to its client, or to nobody.
LEMMA DaemonDeliverInv == ASSUME InputInv, DaemonDeliver PROVE InputInv'
<1> DEFINE n(q) == Count(q, "Stdout")
           x == Head(dec)
<1>1. UNCHANGED <<cpc, cframe, csock, inLeft, stdinOpen, got, up, toCard, h2c, c2h, apc, rx, tx,
                  inEof, late, inq, inOpen, inPipe, outPipe, cmd, shut, seenEof, used, made>>
  BY DEF DaemonDeliver, daemonFrame, clientVars, agentVars, inputVars, cmdVars
<1>2. /\ down \in Seq(Tag) /\ dec \in Seq(Tag) /\ c2h \in Seq(Tag) /\ tx \in Seq(Tag) /\ dec # <<>>
      /\ Len(down) \in Nat /\ Len(dec) \in Nat
  BY Queues, LenProperties DEF InputInv, DaemonDeliver
<1>3. /\ x \in Tag /\ dec' = Tail(dec) /\ dec' \in Seq(Tag) /\ Len(dec') = Len(dec) - 1
      /\ dec = <<x>> \o dec' /\ <<x>> \in Seq(Tag)
  BY <1>2, HeadTail DEF DaemonDeliver
<1>4. n(dec) = n(<<x>>) + n(dec') /\ n(<<x>>) \in Nat /\ n(dec') \in Nat
  <2> HIDE DEF x
  <2>1. Count(<<x>> \o dec', "Stdout") = n(<<x>>) + n(dec')
    BY <1>3, CountConcat
  <2> QED BY <1>3, <2>1, CountType
<1>5. \/ down' = down
      \/ down' = down \o <<x>> /\ Len(down) < DownCap
  <2>1. Append(down, x) = down \o <<x>>
    BY <1>2, <1>3, AppendIsConcat
  <2> QED BY <2>1 DEF DaemonDeliver
<1>6. /\ down' \in Seq(Tag) /\ Len(down') =< DownCap
      /\ n(down') =< n(down) + n(<<x>>) /\ n(down') \in Nat /\ n(down) \in Nat
  <2> HIDE DEF x
  <2>1. n(down) \in Nat /\ Len(down) =< DownCap
    BY <1>2, CountType DEF InputInv, TypeOK
  <2>2. CASE down' = down
    BY <1>2, <1>4, <2>1, <2>2
  <2>3. CASE down' = down \o <<x>> /\ Len(down) < DownCap
    <3>1. down \o <<x>> \in Seq(Tag) /\ Len(down \o <<x>>) = Len(down) + 1
      BY <1>2, <1>3, ConcatProperties
    <3>2. Count(down \o <<x>>, "Stdout") = n(down) + n(<<x>>)
      BY <1>2, <1>3, CountJoin, Zenon
    <3> QED BY <1>2, <1>4, <2>1, <2>3, <3>1, <3>2, Caps
  <2> QED BY <1>5, <2>2, <2>3
<1>7. /\ n(OutWay) = n(down) + n(dec) + n(c2h) + n(tx)
      /\ n(OutWay') = n(down') + n(dec') + n(c2h) + n(tx)
      /\ n(c2h) \in Nat /\ n(tx) \in Nat
  <2>1. n(down \o dec \o c2h \o tx) = n(down) + n(dec) + n(c2h) + n(tx)
    BY <1>2, CountFour
  <2>2. n(down' \o dec' \o c2h \o tx) = n(down') + n(dec') + n(c2h) + n(tx)
    <3>1. PICK a \in Seq(Tag) : a = down'
      BY <1>6
    <3>2. PICK b \in Seq(Tag) : b = dec'
      BY <1>3
    <3>3. n(a \o b \o c2h \o tx) = n(a) + n(b) + n(c2h) + n(tx)
      BY <1>2, CountFour
    <3> QED BY <3>1, <3>2, <3>3
  <2> QED BY <1>1, <1>2, <2>1, <2>2, CountType DEF OutWay
<1>8. TypeOK'
  <2>1. Len(dec') =< ReadMax
    BY <1>2, <1>3, Caps DEF InputInv, TypeOK
  <2>2. stat' \in {"none", "asked", "answered"}
    BY DEF InputInv, TypeOK, DaemonDeliver
  <2> QED BY <1>1, <1>3, <1>6, <2>1, <2>2 DEF InputInv, TypeOK
<1>9. OutputBounded'
  <2>1. /\ got \in Nat /\ outPipe \in Nat /\ made \in Nat
        /\ got + n(OutWay) + outPipe =< made
    BY Numbers DEF InputInv, OutputBounded
  <2>2. got + n(OutWay') + outPipe =< made
    <3>1. PICK k \in Nat : n(dec) = k + n(dec') /\ n(down') =< n(down) + k
      BY <1>4, <1>6, Zenon
    <3>2. n(OutWay') =< n(OutWay) /\ n(OutWay) \in Nat /\ n(OutWay') \in Nat
      <4>1. n(down) \in Nat /\ n(down') \in Nat /\ n(dec') \in Nat
        BY <1>4, <1>6, Zenon
      <4> QED BY <1>7, <3>1, <4>1
    <3> QED BY <2>1, <3>2
  <2> QED BY <1>1, <2>2 DEF OutputBounded
<1>10. InputConserved' /\ InputComplete' /\ EofInOrder'
  <2>1. InWay' = InWay
    BY <1>1 DEF InWay, Sending
  <2> QED BY <1>1, <2>1, SameWay
<1>11. RoomToSpare' /\ Busy'
  BY <1>1 DEF InputInv, RoomToSpare, Busy
<1> QED BY <1>8, <1>9, <1>10, <1>11 DEF InputInv

\* The agent answers a frame with at most one frame, and never with output.
LEMMA ReplyFacts ==
  ASSUME NEW tag
  PROVE  Reply(tag) \in Seq(Tag) /\ Len(Reply(tag)) =< 1 /\ Count(Reply(tag), "Stdout") = 0
<1>1. "StatReply" \in Tag
  BY DEF Tag
<1>2. <<"StatReply">> \in Seq(Tag) /\ <<>> \in Seq(Tag) /\ Len(<<"StatReply">>) = 1 /\ Len(<<>>) = 0
  BY <1>1
<1>3. Count(<<"StatReply">>, "Stdout") = 0 /\ Count(<<>>, "Stdout") = 0
  BY <1>1, CountSingle
<1> QED BY <1>2, <1>3 DEF Reply

\* One read of the output pipe gives one Stdout.
LEMMA StdoutFacts ==
  /\ <<"Stdout">> \in Seq(Tag) /\ Len(<<"Stdout">>) = 1 /\ Count(<<"Stdout">>, "Stdout") = 1
  /\ <<"Exit">> \in Seq(Tag) /\ Len(<<"Exit">>) = 1 /\ Count(<<"Exit">>, "Stdout") = 0
<1>1. "Stdout" \in Tag /\ "Exit" \in Tag
  BY DEF Tag
<1>2. <<"Stdout">> \in Seq(Tag) /\ Len(<<"Stdout">>) = 1 /\ <<"Exit">> \in Seq(Tag) /\ Len(<<"Exit">>) = 1
  BY <1>1
<1>3. Count(<<"Stdout">>, "Stdout") = 1 /\ Count(<<"Exit">>, "Stdout") = 0
  BY <1>1, CountSingle
<1> QED BY <1>2, <1>3

\* A frame the agent writes carries no more output than it took from the pipe.
LEMMA TxBounded ==
  ASSUME InputInv, tx = <<>>, tx' \in Seq(Tag), UNCHANGED <<down, dec, c2h, got, made>>,
         outPipe' \in Nat, Count(tx', "Stdout") + outPipe' =< outPipe
  PROVE  OutputBounded'
<1> DEFINE n(q) == Count(q, "Stdout")
<1>1. down \in Seq(Tag) /\ dec \in Seq(Tag) /\ c2h \in Seq(Tag) /\ tx \in Seq(Tag)
  BY Queues DEF InputInv
<1>2. ASSUME NEW t \in Seq(Tag)
      PROVE  /\ n(down \o dec \o c2h \o t) = n(down) + n(dec) + n(c2h) + n(t)
             /\ n(down) \in Nat /\ n(dec) \in Nat /\ n(c2h) \in Nat /\ n(t) \in Nat
  BY <1>1, CountFour
<1>3. /\ n(OutWay) = n(down) + n(dec) + n(c2h) + n(tx) /\ n(tx) = 0
      /\ n(OutWay') = n(down) + n(dec) + n(c2h) + n(tx') /\ n(tx') \in Nat
      /\ n(down) \in Nat /\ n(dec) \in Nat /\ n(c2h) \in Nat
  <2>1. n(OutWay) = n(down) + n(dec) + n(c2h) + n(tx)
    BY <1>1, <1>2, Zenon DEF OutWay
  <2>2. OutWay' = down \o dec \o c2h \o tx'
    BY Zenon DEF OutWay
  <2>3. n(OutWay') = n(down) + n(dec) + n(c2h) + n(tx') /\ n(tx') \in Nat
    BY <1>2, <2>2, Zenon
  <2>4. n(tx) = 0
    BY CountSingle
  <2> QED BY <1>1, <1>2, <2>1, <2>3, <2>4, Zenon
<1>4. got \in Nat /\ outPipe \in Nat /\ made \in Nat /\ got + n(OutWay) + outPipe =< made
  BY Numbers DEF InputInv, OutputBounded
<1>5. got + n(OutWay') + outPipe' =< made
  BY <1>3, <1>4
<1> QED BY <1>5 DEF OutputBounded

\* in_flush: what it takes from the buffer is in the pipe, and it closes the
\* pipe of a command that still reads only with the buffer empty after
\* StdinEof.
LEMMA FlushFacts ==
  ASSUME InputInv
  PROVE  /\ Taken \in Nat /\ Left \in Nat /\ Left + Taken =< inq /\ inPipe + Taken =< PipeCap
         /\ inOpen /\ ~shut => Left + Taken = inq
         /\ ~inOpen => Taken = 0
         /\ StaysOpen \in BOOLEAN /\ (StaysOpen => inOpen)
         /\ inOpen /\ ~shut /\ ~StaysOpen => Left = 0 /\ inEof
<1>1. inq \in Nat /\ inPipe \in 0 .. PipeCap /\ PipeCap \in Nat
  BY Numbers, Caps DEF InputInv, TypeOK
<1>2. Taken \in Nat /\ Taken =< inq /\ inPipe + Taken =< PipeCap
  BY <1>1 DEF Taken, Least
<1>3. ~inOpen => Taken = 0
  BY DEF Taken
<1>4. Left \in Nat /\ Left + Taken =< inq
  BY <1>1, <1>2 DEF Left, Taken
<1>5. inOpen /\ ~shut => Left + Taken = inq
  BY <1>1, <1>2 DEF Left, Breaks
<1>6. StaysOpen \in BOOLEAN /\ (StaysOpen => inOpen)
  BY DEF StaysOpen
<1>7. inOpen /\ ~shut /\ ~StaysOpen => Left = 0 /\ inEof
  BY DEF StaysOpen, Breaks
<1> QED BY <1>2, <1>3, <1>4, <1>5, <1>6, <1>7

\* The oldest frame, x, is off the way: what that says of the counts.
Took(x) ==
  /\ \A tag : /\ Count(InWay, tag) = (IF x = tag THEN 1 ELSE 0) + Count(InWay', tag)
              /\ Count(InWay, tag) \in Nat /\ Count(InWay', tag) \in Nat
  /\ EofLast(InWay') /\ (x = "StdinEof" => Count(InWay', "Stdin") = 0)

\* That holds of any step that takes it off.
LEMMA TakeCounts ==
  ASSUME InputInv, NEW x \in Tag, InWay = <<x>> \o InWay', InWay' \in Seq(Tag)
  PROVE  Took(x)
<1>1. <<x>> \in Seq(Tag) /\ InWay \in Seq(Tag)
  BY Queues DEF InputInv
<1>2. ASSUME NEW tag
      PROVE  /\ Count(InWay, tag) = (IF x = tag THEN 1 ELSE 0) + Count(InWay', tag)
             /\ Count(InWay, tag) \in Nat /\ Count(InWay', tag) \in Nat
  <2>1. Count(<<x>> \o InWay', tag) = Count(<<x>>, tag) + Count(InWay', tag)
    BY <1>1, CountJoin, Zenon
  <2>2. Count(<<x>>, tag) = IF x = tag THEN 1 ELSE 0
    BY CountSingle, Zenon
  <2>3. Count(InWay, tag) = (IF x = tag THEN 1 ELSE 0) + Count(InWay', tag)
    BY <2>1, <2>2, Zenon
  <2> QED BY <1>1, <2>3, CountType
<1>3. EofLast(<<x>> \o InWay')
  BY Zenon DEF InputInv, EofInOrder
<1>4. EofLast(InWay') /\ (x = "StdinEof" => Count(InWay', "Stdin") = 0)
  BY <1>3, EofPop
<1> QED BY <1>2, <1>4, Zenon DEF Took

\* A flush that keeps q frames and writes k to the pipe, and then no input,
\* or one frame from the way: nothing is lost while the command may read.
LEMMA HandleInv ==
  ASSUME InputInv, NEW x \in Tag, NEW q \in Nat, NEW k \in Nat, NEW open \in BOOLEAN,
         Handle(x, q, open), Took(x),
         q + k =< inq, inOpen /\ ~shut => q + k = inq, ~inOpen => k = 0,
         open => inOpen, inOpen /\ ~shut /\ ~open => q = 0 /\ inEof,
         q + 1 =< InCap, inOpen' = open, inPipe' = inPipe + k,
         UNCHANGED <<inLeft, stdinOpen, used, shut, seenEof, cmd>>
  PROVE  /\ InputConserved' /\ InputComplete' /\ EofInOrder'
         /\ inq' \in {q, q + 1} /\ inEof' \in BOOLEAN
<1>1. PICK c \in Nat, d \in Nat :
        /\ c = Count(InWay, "Stdin") /\ d = Count(InWay', "Stdin")
        /\ x = "Stdin" => c = d + 1
        /\ x # "Stdin" => c = d
  BY DEF Took
<1>2. inEof' = (inEof \/ x = "StdinEof")
  BY Zenon DEF Handle
<1>3. (inEof' => inEof \/ x = "StdinEof") /\ (inEof => inEof') /\ inEof' \in BOOLEAN
  <2>1. (inEof \/ x = "StdinEof") \in BOOLEAN
    OBVIOUS
  <2> QED BY <1>2, <2>1, Zenon
<1>4. /\ inEof => c = 0 /\ ~stdinOpen
      /\ stdinOpen => ~inEof /\ Count(InWay, "StdinEof") = 0
      /\ ~stdinOpen => inLeft = 0
  BY <1>1 DEF InputInv, EofInOrder
<1>5. /\ inq' \in {q, q + 1}
      /\ inq' = q + 1 => x = "Stdin"
      /\ x = "Stdin" /\ open /\ ~inEof => inq' = q + 1
  BY DEF Handle, InFits
<1>6. /\ inLeft \in Nat /\ inq \in Nat /\ inPipe \in Nat /\ used \in Nat /\ InTotal \in Nat
      /\ Supply = inLeft + c + inq + inPipe + used /\ Supply =< InTotal
      /\ inOpen /\ ~shut => Supply = InTotal
  BY <1>1, Numbers, Caps DEF InputInv, InputConserved, Supply
<1>7. Supply' = inLeft + d + inq' + (inPipe + k) + used
  BY <1>1 DEF Supply
<1>8. InputConserved'
  <2>1. Supply' =< Supply /\ Supply \in Nat /\ Supply' \in Nat
    BY <1>1, <1>5, <1>6, <1>7
  <2>2. ASSUME open, ~shut PROVE Supply' = InTotal
    <3>1. inOpen /\ q + k = inq /\ Supply = InTotal
      BY <1>6, <2>2
    <3>2. CASE x = "Stdin"
      <4>1. ~inEof
        BY <1>1, <1>4, <3>2
      <4> QED BY <1>1, <1>5, <1>6, <1>7, <2>2, <3>1, <3>2, <4>1
    <3>3. CASE x # "Stdin"
      BY <1>1, <1>5, <1>6, <1>7, <3>1, <3>3
    <3> QED BY <3>2, <3>3
  <2>3. Supply' =< InTotal
    BY <1>6, <2>1
  <2> QED BY <2>2, <2>3 DEF InputConserved
<1>9. InputComplete'
  <2>1. ASSUME ~open, ~shut, cmd # "exited" PROVE inPipe + k + used = InTotal
    <3>1. CASE inOpen
      <4>1. q = 0 /\ inEof /\ k = inq /\ Supply = InTotal
        BY <1>6, <2>1, <3>1
      <4> QED BY <1>4, <1>6, <4>1
    <3>2. CASE ~inOpen
      <4>1. inPipe + used = InTotal /\ k = 0
        BY <2>1, <3>2 DEF InputInv, InputComplete
      <4> QED BY <1>6, <4>1
    <3> QED BY <3>1, <3>2
  <2>2. seenEof => used = InTotal
    BY DEF InputInv, InputComplete
  <2> QED BY <2>1, <2>2 DEF InputComplete
<1>10. EofInOrder'
  <2>1. EofLast(InWay') /\ (x = "StdinEof" => d = 0)
    BY <1>1 DEF Took
  <2>2. stdinOpen => ~inEof' /\ Count(InWay', "StdinEof") = 0
    <3>1. stdinOpen => x # "StdinEof" /\ Count(InWay', "StdinEof") = 0
      BY <1>4 DEF Took
    <3> QED BY <1>3, <1>4, <3>1
  <2>3. inEof' => d = 0
    BY <1>1, <1>3, <1>4, <2>1
  <2> QED BY <1>1, <1>4, <2>1, <2>2, <2>3 DEF EofInOrder
<1> QED BY <1>3, <1>5, <1>8, <1>9, <1>10

\* The frame f_send was writing is in the ring.
LEMMA AgentSendInv == ASSUME InputInv, AgentSend PROVE InputInv'
<1> DEFINE n(q) == Count(q, "Stdout")
<1>1. UNCHANGED <<cpc, cframe, csock, inLeft, stdinOpen, got, up, down, toCard, dec, stat, h2c, apc, rx,
                  inEof, late, inq, inOpen, inPipe, outPipe, cmd, shut, seenEof, used, made>>
  BY DEF AgentSend, agentFrame, clientVars, daemonVars, inputVars, cmdVars
<1>2. /\ down \in Seq(Tag) /\ dec \in Seq(Tag) /\ c2h \in Seq(Tag) /\ tx \in Seq(Tag)
      /\ Len(c2h) \in Nat /\ Len(tx) \in Nat
  BY Queues, LenProperties DEF InputInv
<1>3. c2h' = c2h \o tx /\ tx' = <<>> /\ Len(c2h) < C2hCap
  BY DEF AgentSend
<1>4. c2h \o tx \in Seq(Tag) /\ Len(c2h \o tx) = Len(c2h) + Len(tx)
  BY <1>2, ConcatProperties
<1>5. /\ tx' \in Seq(Tag) /\ Len(tx') =< 1 /\ c2h' \in Seq(Tag) /\ Len(c2h') =< C2hCap
  BY <1>2, <1>3, <1>4, Caps DEF InputInv, TypeOK
<1>6. TypeOK'
  BY <1>1, <1>5 DEF InputInv, TypeOK
<1>7. OutWay' = OutWay
  <2> DEFINE dd == down \o dec
  <2>1. dd \in Seq(Tag)
    BY <1>2, ConcatProperties
  <2> HIDE DEF dd
  <2>2. (dd \o c2h) \o tx = dd \o (c2h \o tx)
    <3>1. dd \in Seq(Tag) /\ c2h \in Seq(Tag) /\ tx \in Seq(Tag)
      BY <1>2, <2>1
    <3> QED BY <3>1, Assoc, Zenon
  <2>3. dd \o (c2h \o tx) \in Seq(Tag)
    BY <1>4, <2>1, ConcatProperties
  <2>4. (dd \o (c2h \o tx)) \o <<>> = dd \o (c2h \o tx)
    BY <2>3, ConcatEmptySeq
  <2>5. OutWay' = (dd \o (c2h \o tx)) \o <<>>
    BY <1>1, <1>3, Zenon DEF OutWay, dd
  <2>6. OutWay = (dd \o c2h) \o tx
    BY Zenon DEF OutWay, dd
  <2> QED BY <2>2, <2>4, <2>5, <2>6, Zenon
<1>8. InputConserved' /\ InputComplete' /\ EofInOrder'
  <2>1. InWay' = InWay
    BY <1>1 DEF InWay, Sending
  <2> QED BY <1>1, <2>1, SameWay
<1>9. RoomToSpare' /\ OutputBounded' /\ Busy'
  BY <1>1, <1>7 DEF InputInv, RoomToSpare, OutputBounded, Busy
<1> QED BY <1>6, <1>8, <1>9 DEF InputInv

\* A buffered frame is handled after a flush.
LEMMA AgentFrameInv == ASSUME InputInv, AgentFrame PROVE InputInv'
<1> DEFINE x == Head(rx)
<1>1. UNCHANGED <<cpc, cframe, csock, inLeft, stdinOpen, got, up, down, toCard, dec, stat, h2c, c2h,
                  late, outPipe, cmd, shut, seenEof, used, made>>
  BY DEF AgentFrame, agentFrame, clientVars, daemonVars, cmdVars
<1>2. /\ rx # <<>> /\ rx' = Tail(rx) /\ tx = <<>> /\ apc = "loop" /\ apc' = "pump"
      /\ Handle(x, Left, StaysOpen) /\ inPipe' = inPipe + Taken /\ inOpen' = StaysOpen
  BY DEF AgentFrame, Flush
<1>3. /\ x \in Tag /\ rx' \in Seq(Tag) /\ Len(rx') = Len(rx) - 1 /\ InWay = <<x>> \o InWay'
  BY <1>1, <1>2, FrameWay DEF InputInv
<1>4. /\ h2c \in Seq(Tag) /\ toCard \in Seq(Tag) /\ up \in Seq(Tag) /\ Sending \in Seq(Tag)
      /\ h2c \o (toCard \o (up \o Sending)) \in Seq(Tag) /\ Len(rx) \in Nat /\ inq \in Nat
  BY Queues, Numbers DEF InputInv
<1>5. InWay' \in Seq(Tag)
  <2>1. InWay' = rx' \o (h2c \o (toCard \o (up \o Sending)))
    BY <1>1 DEF InWay, Sending
  <2> QED BY <1>3, <1>4, <2>1, ConcatProperties
<1>6. Took(x)
  BY <1>3, <1>5, TakeCounts
<1>7. inq + Len(rx) < Backlog + ReadMax /\ Len(rx) > 0
  <2>1. rx \in Seq(Tag)
    BY Queues DEF InputInv
  <2> QED BY <1>2, <2>1, EmptySeq DEF InputInv, RoomToSpare
<1>8. Left + 1 =< InCap /\ Left + 1 + Len(rx') < Backlog + ReadMax
  <2>1. Left \in Nat /\ Taken \in Nat /\ Left + Taken =< inq
    BY FlushFacts
  <2>2. Len(rx') = Len(rx) - 1 /\ Len(rx) \in Nat /\ inq \in Nat
    BY <1>3, <1>4, Zenon
  <2> QED BY <1>7, <2>1, <2>2, Caps
<1> HIDE DEF x
<1>9. /\ InputConserved' /\ InputComplete' /\ EofInOrder'
      /\ inq' \in {Left, Left + 1} /\ inEof' \in BOOLEAN
  BY <1>1, <1>2, <1>3, <1>6, <1>8, FlushFacts, HandleInv
<1>10. tx' = Reply(x)
  BY <1>2 DEF Handle
<1>11. tx' \in Seq(Tag) /\ Len(tx') =< 1 /\ Count(tx', "Stdout") = 0
  BY <1>10, ReplyFacts
<1>12. inq' \in Nat /\ inq' + Len(rx') < Backlog + ReadMax /\ Len(rx') \in Nat /\ Len(rx') < ReadMax
  <2>1. Left \in Nat /\ Len(rx') \in Nat
    BY <1>3, FlushFacts, LenProperties
  <2>2. Len(rx') = Len(rx) - 1 /\ Len(rx) \in Nat /\ Len(rx) < ReadMax
    BY <1>3, <1>4, Zenon DEF InputInv, TypeOK
  <2>3. inq' \in {Left, Left + 1}
    BY <1>9
  <2> QED BY <1>8, <2>1, <2>2, <2>3, Caps
<1>13. inPipe' \in 0 .. PipeCap
  <2>1. inPipe' = inPipe + Taken
    BY <1>2
  <2>2. Taken \in Nat /\ inPipe + Taken =< PipeCap /\ inPipe \in Nat
    BY FlushFacts, Numbers DEF InputInv
  <2> QED BY <2>1, <2>2, Caps
<1>14. inOpen' \in BOOLEAN
  BY <1>2, FlushFacts
<1>15. inq' \in 0 .. Backlog + ReadMax - 1
  BY <1>12, Caps
<1>16. TypeOK'
  BY <1>1, <1>2, <1>3, <1>9, <1>11, <1>12, <1>13, <1>14, <1>15 DEF InputInv, TypeOK
<1>17. OutputBounded'
  <2>1. outPipe \in Nat
    BY Numbers DEF InputInv
  <2> QED BY <1>1, <1>2, <1>11, <2>1, TxBounded
<1>18. RoomToSpare'
  BY <1>2, <1>12 DEF RoomToSpare
<1>19. Busy'
  BY <1>1 DEF InputInv, Busy
<1> QED BY <1>9, <1>16, <1>17, <1>18, <1>19 DEF InputInv

\* What a step does that touches neither the input nor the buffer: one read
\* of the output pipe, or the end of it.
LEMMA TxInv ==
  ASSUME InputInv, tx = <<>>, tx' \in Seq(Tag), Len(tx') =< 1,
         outPipe' \in Nat, Count(tx', "Stdout") + outPipe' =< outPipe, outPipe' =< outPipe,
         apc' = apc \/ (apc' = "loop" /\ apc # "fill") \/ (apc' = "main" /\ apc = "grace"),
         UNCHANGED <<cpc, cframe, csock, inLeft, stdinOpen, got, up, down, toCard, dec, stat, h2c, c2h, rx,
                     inEof, late, inq, inOpen, inPipe, cmd, shut, seenEof, used, made>>
  PROVE  InputInv'
<1>1. outPipe' \in 0 .. PipeCap /\ apc' \in {"loop", "pump", "fill", "grace", "main"}
  BY Caps DEF InputInv, TypeOK
<1>2. TypeOK'
  BY <1>1 DEF InputInv, TypeOK
<1>3. InputConserved' /\ InputComplete' /\ EofInOrder'
  <2>1. InWay' = InWay
    BY DEF InWay, Sending
  <2> QED BY <2>1, SameWay
<1>4. RoomToSpare'
  BY DEF InputInv, RoomToSpare
<1>5. OutputBounded'
  BY TxBounded
<1>6. Busy'
  BY DEF InputInv, Busy
<1> QED BY <1>2, <1>3, <1>4, <1>5, <1>6 DEF InputInv

\* pump_poll.
LEMMA AgentPumpInv == ASSUME InputInv, AgentPump PROVE InputInv'
<1>1. /\ UNCHANGED <<cpc, cframe, csock, inLeft, stdinOpen, got, up, down, toCard, dec, stat, h2c, c2h, rx,
                     inEof, late, inq, inOpen, inPipe, cmd, shut, seenEof, used, made>>
      /\ tx = <<>> /\ apc = "pump" /\ apc' = "loop"
  BY DEF AgentPump, agentFrame, clientVars, daemonVars, inputVars, cmdVars
<1>2. /\ tx' \in Seq(Tag) /\ Len(tx') =< 1 /\ outPipe' \in Nat
      /\ Count(tx', "Stdout") + outPipe' =< outPipe /\ outPipe' =< outPipe
  <2>1. outPipe \in Nat /\ Count(<<>>, "Stdout") = 0 /\ <<>> \in Seq(Tag) /\ Len(<<>>) = 0
    BY Numbers, CountSingle DEF InputInv
  <2>2. CASE outPipe > 0 /\ outPipe' = outPipe - 1 /\ tx' = <<"Stdout">>
    BY <2>1, <2>2, StdoutFacts
  <2>3. CASE UNCHANGED <<outPipe, tx>>
    BY <1>1, <2>1, <2>3
  <2> QED BY <2>2, <2>3 DEF AgentPump
<1> QED BY <1>1, <1>2, TxInv

\* The output that comes within the grace.
LEMMA AgentGracePumpInv == ASSUME InputInv, AgentGracePump PROVE InputInv'
<1>1. /\ UNCHANGED <<cpc, cframe, csock, inLeft, stdinOpen, got, up, down, toCard, dec, stat, h2c, c2h, rx,
                     inEof, late, inq, inOpen, inPipe, cmd, shut, seenEof, used, made, apc>>
      /\ tx = <<>> /\ outPipe > 0 /\ outPipe' = outPipe - 1 /\ tx' = <<"Stdout">>
  BY DEF AgentGracePump, agentFrame, clientVars, daemonVars, inputVars, cmdVars
<1>2. outPipe \in Nat
  BY Numbers DEF InputInv
<1>3. /\ tx' \in Seq(Tag) /\ Len(tx') =< 1 /\ outPipe' \in Nat
      /\ Count(tx', "Stdout") + outPipe' =< outPipe /\ outPipe' =< outPipe
  BY <1>1, <1>2, StdoutFacts
<1> QED BY <1>1, <1>3, TxInv

\* Exit, and what the pipe still holds is given up.
LEMMA AgentExitInv == ASSUME InputInv, AgentExit PROVE InputInv'
<1>1. /\ UNCHANGED <<cpc, cframe, csock, inLeft, stdinOpen, got, up, down, toCard, dec, stat, h2c, c2h, rx,
                     inEof, late, inq, inOpen, inPipe, cmd, shut, seenEof, used, made>>
      /\ tx = <<>> /\ tx' = <<"Exit">> /\ outPipe' = 0 /\ apc = "grace" /\ apc' = "main"
  BY DEF AgentExit, agentFrame, clientVars, daemonVars, inputVars, cmdVars
<1>2. outPipe \in Nat
  BY Numbers DEF InputInv
<1>3. /\ tx' \in Seq(Tag) /\ Len(tx') =< 1 /\ outPipe' \in Nat
      /\ Count(tx', "Stdout") + outPipe' =< outPipe /\ outPipe' =< outPipe
  BY <1>1, <1>2, StdoutFacts
<1> QED BY <1>1, <1>3, TxInv

\* A flush with no frame taken; the device is next if the backlog has room.
LEMMA AgentPollInv == ASSUME InputInv, AgentPoll PROVE InputInv'
<1>1. UNCHANGED <<cpc, cframe, csock, inLeft, stdinOpen, got, up, down, toCard, dec, stat, h2c, c2h, rx,
                  inEof, late, cmd, shut, seenEof, used, made>>
  BY DEF AgentPoll, agentFrame, clientVars, daemonVars, cmdVars
<1>2. /\ rx = <<>> /\ tx = <<>> /\ inq' = Left /\ inPipe' = inPipe + Taken /\ inOpen' = StaysOpen
      /\ apc' = IF Left < Backlog /\ h2c # <<>> THEN "fill" ELSE "loop"
  BY DEF AgentPoll, Flush, DeviceReady
<1>3. /\ tx' \in Seq(Tag) /\ Len(tx') =< 1 /\ outPipe' \in Nat
      /\ Count(tx', "Stdout") + outPipe' =< outPipe /\ outPipe' =< outPipe
  <2>1. outPipe \in Nat /\ Count(<<>>, "Stdout") = 0 /\ <<>> \in Seq(Tag) /\ Len(<<>>) = 0
    BY Numbers, CountSingle DEF InputInv
  <2>2. CASE outPipe > 0 /\ outPipe' = outPipe - 1 /\ tx' = <<"Stdout">>
    BY <2>1, <2>2, StdoutFacts
  <2>3. CASE UNCHANGED <<outPipe, tx>>
    BY <1>2, <2>1, <2>3
  <2> QED BY <2>2, <2>3 DEF AgentPoll
<1>4. /\ Left \in Nat /\ Taken \in Nat /\ Left + Taken =< inq /\ inPipe + Taken =< PipeCap
      /\ inOpen /\ ~shut => Left + Taken = inq
      /\ ~inOpen => Taken = 0
      /\ StaysOpen \in BOOLEAN /\ (StaysOpen => inOpen)
      /\ inOpen /\ ~shut /\ ~StaysOpen => Left = 0 /\ inEof
  BY FlushFacts
<1>5. /\ inLeft \in Nat /\ inq \in 0 .. Backlog + ReadMax - 1 /\ inPipe \in Nat /\ used \in Nat
      /\ outPipe \in 0 .. PipeCap /\ Count(InWay, "Stdin") \in Nat
  BY Numbers DEF InputInv, TypeOK
<1>6. TypeOK'
  <2>1. inq' \in 0 .. Backlog + ReadMax - 1 /\ inPipe' \in 0 .. PipeCap /\ outPipe' \in 0 .. PipeCap
    BY <1>2, <1>3, <1>4, <1>5, Caps
  <2>2. apc' \in {"fill", "loop"} /\ inOpen' \in BOOLEAN
    BY <1>2, <1>4
  <2> QED BY <1>1, <1>3, <2>1, <2>2 DEF InputInv, TypeOK
<1>7. InWay' = InWay
  BY <1>1 DEF InWay, Sending
<1>8. InputConserved'
  <2>1. Supply' = inLeft + Count(InWay, "Stdin") + Left + (inPipe + Taken) + used
    BY <1>1, <1>2, <1>7 DEF Supply
  <2>2. Supply = inLeft + Count(InWay, "Stdin") + inq + inPipe + used
    BY DEF Supply
  <2>3. Supply' =< Supply /\ (inOpen /\ ~shut => Supply' = Supply) /\ Supply \in Nat /\ Supply' \in Nat
    BY <1>4, <1>5, <2>1, <2>2
  <2> QED BY <1>1, <1>2, <1>4, <2>3, Caps DEF InputInv, InputConserved
<1>9. InputComplete'
  <2>1. ASSUME ~StaysOpen, ~shut, cmd # "exited" PROVE inPipe + Taken + used = InTotal
    <3>1. CASE inOpen
      <4>1. Left = 0 /\ inEof /\ Taken = inq /\ Supply = InTotal
        BY <1>4, <1>5, <2>1, <3>1 DEF InputInv, InputConserved
      <4>2. Count(InWay, "Stdin") = 0 /\ inLeft = 0
        BY <4>1 DEF InputInv, EofInOrder
      <4> QED BY <1>5, <4>1, <4>2, Caps DEF Supply
    <3>2. CASE ~inOpen
      <4>1. inPipe + used = InTotal /\ Taken = 0
        BY <1>4, <2>1, <3>2 DEF InputInv, InputComplete
      <4> QED BY <1>5, <4>1
    <3> QED BY <3>1, <3>2
  <2>2. seenEof => used = InTotal
    BY DEF InputInv, InputComplete
  <2> QED BY <1>1, <1>2, <2>1, <2>2 DEF InputComplete
<1>10. EofInOrder'
  BY <1>1, <1>7 DEF InputInv, EofInOrder
<1>11. OutputBounded'
  BY <1>1, <1>2, <1>3, TxBounded
<1>12. RoomToSpare'
  <2>1. Left + Len(rx) < Backlog + ReadMax
    <3>1. inq + Len(rx) < Backlog + ReadMax /\ Len(rx) \in Nat
      BY Numbers DEF InputInv, RoomToSpare
    <3> QED BY <1>4, <1>5, <3>1, Caps
  <2> QED BY <1>1, <1>2, <2>1 DEF RoomToSpare
<1>13. Busy'
  BY <1>1 DEF InputInv, Busy
<1> QED BY <1>6, <1>8, <1>9, <1>10, <1>11, <1>12, <1>13 DEF InputInv

\* fill brings one piece of the ring; its first frame is handled at once.
LEMMA AgentFillInv == ASSUME InputInv, AgentFill PROVE InputInv'
<1> DEFINE x == Head(h2c)
<1>1. UNCHANGED <<cpc, cframe, csock, inLeft, stdinOpen, got, up, down, toCard, dec, stat, c2h,
                  late, inOpen, inPipe, outPipe, cmd, shut, seenEof, used, made>>
  BY DEF AgentFill, agentFrame, clientVars, daemonVars, cmdVars
<1>2. /\ tx = <<>> /\ apc = "fill" /\ apc' = "loop" /\ Handle(x, inq, inOpen)
      /\ rx' = Tail(Front(h2c, ReadMax)) /\ h2c' = Rest(h2c, ReadMax)
  BY DEF AgentFill
<1>3. rx = <<>> /\ h2c # <<>> /\ inq < Backlog
  BY <1>2 DEF InputInv, RoomToSpare
<1>4. /\ x \in Tag /\ rx' \in Seq(Tag) /\ Len(rx') < ReadMax
      /\ h2c' \in Seq(Tag) /\ Len(h2c') =< Len(h2c)
      /\ InWay = <<x>> \o InWay'
  BY <1>1, <1>2, <1>3, FillWay DEF InputInv
<1>5. InWay' \in Seq(Tag)
  <2>1. InWay' = rx' \o (h2c' \o (toCard \o (up \o Sending)))
    BY <1>1 DEF InWay, Sending
  <2>2. toCard \o (up \o Sending) \in Seq(Tag)
    BY Queues DEF InputInv
  <2> HIDE DEF x
  <2>3. h2c' \o (toCard \o (up \o Sending)) \in Seq(Tag)
    BY <1>4, <2>2, ConcatProperties
  <2> QED BY <1>4, <2>1, <2>3, ConcatProperties
<1>6. Took(x)
  BY <1>4, <1>5, TakeCounts
<1>7. inq \in Nat /\ inOpen \in BOOLEAN /\ inPipe \in Nat /\ inq + 1 =< InCap
  BY <1>3, Numbers, Caps DEF InputInv, TypeOK
<1>8. x \in Tag
  BY <1>4
<1> HIDE DEF x
<1>9. /\ InputConserved' /\ InputComplete' /\ EofInOrder'
      /\ inq' \in {inq, inq + 1} /\ inEof' \in BOOLEAN
  <2>1. inPipe' = inPipe + 0 /\ inq + 0 = inq
    BY <1>1, <1>7
  <2>2. ASSUME NEW k, k = 0
        PROVE  /\ InputConserved' /\ InputComplete' /\ EofInOrder'
               /\ inq' \in {inq, inq + 1} /\ inEof' \in BOOLEAN
    <3>1. k \in Nat /\ inq + k =< inq /\ (inOpen /\ ~shut => inq + k = inq) /\ inPipe' = inPipe + k
      BY <1>1, <1>7, <2>2
    <3>2. (~inOpen => k = 0) /\ (inOpen => inOpen) /\ inOpen' = inOpen
      BY <1>1, <2>2
    <3>3. inOpen /\ ~shut /\ ~inOpen => inq = 0 /\ inEof
      OBVIOUS
    <3>4. UNCHANGED <<inLeft, stdinOpen, used, shut, seenEof, cmd>>
      BY <1>1
    <3> QED BY <1>2, <1>6, <1>7, <1>8, <3>1, <3>2, <3>3, <3>4, HandleInv
  <2> QED BY <2>2
<1>10. tx' = Reply(x)
  BY <1>2 DEF Handle
<1>11. tx' \in Seq(Tag) /\ Len(tx') =< 1 /\ Count(tx', "Stdout") = 0
  BY <1>10, ReplyFacts
<1>12. /\ inq' \in 0 .. Backlog + ReadMax - 1 /\ inq' + Len(rx') < Backlog + ReadMax
  <2>1. Len(rx') \in Nat /\ Len(rx') < ReadMax
    BY <1>4, LenProperties
  <2> QED BY <1>3, <1>7, <1>9, <2>1, Caps
<1>13. Len(h2c') =< H2cCap
  <2>1. Len(h2c') \in Nat /\ Len(h2c) \in Nat /\ Len(h2c') =< Len(h2c) /\ Len(h2c) =< H2cCap
    BY <1>4, LenProperties, Numbers DEF InputInv, TypeOK
  <2> QED BY <2>1, Caps
<1>14. TypeOK'
  BY <1>1, <1>2, <1>4, <1>9, <1>11, <1>12, <1>13 DEF InputInv, TypeOK
<1>15. OutputBounded'
  <2>1. outPipe \in Nat
    BY Numbers DEF InputInv
  <2> QED BY <1>1, <1>2, <1>11, <2>1, TxBounded
<1>16. RoomToSpare'
  BY <1>2, <1>12 DEF RoomToSpare
<1>17. Busy'
  BY <1>1 DEF InputInv, Busy
<1> QED BY <1>9, <1>14, <1>15, <1>16, <1>17 DEF InputInv

\* ex_done: nobody will read the input the agent still has.
LEMMA AgentDoneInv == ASSUME InputInv, AgentDone PROVE InputInv'
<1>1. /\ UNCHANGED <<cpc, cframe, csock, inLeft, stdinOpen, got, up, down, toCard, dec, stat, h2c, c2h, rx, tx,
                     inEof, late, inPipe, outPipe, cmd, shut, seenEof, used, made>>
      /\ cmd = "exited" /\ apc' = "grace" /\ inOpen' = FALSE /\ inq' = 0
  BY DEF AgentDone, agentFrame, clientVars, daemonVars, cmdVars
<1>2. /\ inLeft \in Nat /\ inq \in Nat /\ inPipe \in Nat /\ used \in Nat /\ Len(rx) \in Nat
      /\ Count(InWay, "Stdin") \in Nat
  BY Numbers DEF InputInv
<1>3. InWay' = InWay /\ OutWay' = OutWay
  BY <1>1 DEF InWay, Sending, OutWay
<1>4. TypeOK'
  <2>1. inOpen' \in BOOLEAN
    BY <1>1, Zenon
  <2>2. inq' \in 0 .. Backlog + ReadMax - 1
    BY <1>1, Caps
  <2> QED BY <1>1, <2>1, <2>2 DEF InputInv, TypeOK
<1>5. InputConserved'
  <2>1. Supply' = inLeft + Count(InWay, "Stdin") + 0 + inPipe + used
    BY <1>1, <1>3 DEF Supply
  <2>2. Supply = inLeft + Count(InWay, "Stdin") + inq + inPipe + used /\ Supply =< InTotal
    BY DEF Supply, InputInv, InputConserved
  <2>3. Supply' =< InTotal
    BY <1>2, <2>1, <2>2, Caps
  <2> QED BY <1>1, <2>3 DEF InputConserved
<1>6. InputComplete' /\ EofInOrder'
  BY <1>1, <1>3 DEF InputInv, InputComplete, EofInOrder
<1>7. RoomToSpare'
  <2>1. 0 + Len(rx) < Backlog + ReadMax
    BY <1>2, Caps DEF InputInv, RoomToSpare
  <2> QED BY <1>1, <2>1 DEF RoomToSpare
<1>8. OutputBounded' /\ Busy'
  BY <1>1, <1>3 DEF InputInv, OutputBounded, Busy
<1> QED BY <1>4, <1>5, <1>6, <1>7, <1>8 DEF InputInv

\* The grace runs out.
LEMMA AgentGraceOverInv == ASSUME InputInv, AgentGraceOver PROVE InputInv'
<1>1. /\ UNCHANGED <<cpc, cframe, csock, inLeft, stdinOpen, got, up, down, toCard, dec, stat, h2c, c2h, rx, tx,
                     inEof, inPipe, inOpen, inq, apc, outPipe, cmd, shut, seenEof, used, made>>
      /\ late' = TRUE
  BY DEF AgentGraceOver, agentFrame, clientVars, daemonVars, inputVars, cmdVars
<1>2. late' \in BOOLEAN
  BY <1>1, Zenon
<1>3. TypeOK'
  BY <1>1, <1>2 DEF InputInv, TypeOK
<1>4. InWay' = InWay /\ OutWay' = OutWay
  BY <1>1 DEF InWay, Sending, OutWay
<1>5. InputConserved' /\ InputComplete' /\ EofInOrder'
  BY <1>1, <1>4, SameWay
<1>6. RoomToSpare' /\ OutputBounded' /\ Busy'
  BY <1>1, <1>4 DEF InputInv, RoomToSpare, OutputBounded, Busy
<1> QED BY <1>3, <1>5, <1>6 DEF InputInv

\* main_loop ignores what is left of the input, and answers Stat.
LEMMA AgentMainInv == ASSUME InputInv, AgentMain PROVE InputInv'
<1>1. /\ UNCHANGED <<cpc, cframe, csock, inLeft, stdinOpen, got, up, down, toCard, dec, stat, c2h, apc,
                     inEof, late, inq, inOpen, inPipe, outPipe, cmd, shut, seenEof, used, made>>
      /\ tx = <<>> /\ apc = "main" /\ tx' = Reply(Head(rx \o h2c))
  BY DEF AgentMain, agentFrame, clientVars, daemonVars, inputVars, cmdVars
<1>2. rx \in Seq(Tag) /\ h2c \in Seq(Tag) /\ toCard \o (up \o Sending) \in Seq(Tag)
  BY Queues DEF InputInv
<1>3. PICK x \in Tag : InWay = <<x>> \o InWay'
                      /\ rx' \in Seq(Tag) /\ Len(rx') < ReadMax
                      /\ h2c' \in Seq(Tag) /\ Len(h2c') =< Len(h2c)
  <2>1. CASE rx # <<>>
    <3>1. rx' = Tail(rx) /\ h2c' = h2c
      BY <2>1 DEF AgentMain
    <3>2. Len(rx) < ReadMax /\ Len(rx) \in Nat /\ Len(h2c) \in Nat
      BY Numbers DEF InputInv, TypeOK
    <3>3. /\ Head(rx) \in Tag /\ rx' \in Seq(Tag) /\ Len(rx') = Len(rx) - 1
          /\ InWay = <<Head(rx)>> \o InWay'
      BY <1>1, <2>1, <3>1, FrameWay DEF InputInv
    <3>4. Len(rx') < ReadMax /\ Len(h2c') =< Len(h2c)
      BY <3>1, <3>2, <3>3, Caps
    <3> QED BY <1>2, <3>1, <3>3, <3>4, Zenon
  <2>2. CASE rx = <<>>
    <3>1. rx' = Tail(Front(h2c, ReadMax)) /\ h2c' = Rest(h2c, ReadMax)
      BY <2>2 DEF AgentMain
    <3>2. h2c # <<>>
      BY <2>2 DEF AgentMain
    <3>3. /\ Head(h2c) \in Tag /\ rx' \in Seq(Tag) /\ Len(rx') < ReadMax
          /\ h2c' \in Seq(Tag) /\ Len(h2c') =< Len(h2c)
          /\ InWay = <<Head(h2c)>> \o InWay'
      BY <1>1, <2>2, <3>1, <3>2, FillWay DEF InputInv
    <3> QED BY <3>3, Zenon
  <2> QED BY <2>1, <2>2
<1>4. InWay' \in Seq(Tag)
  <2>1. InWay' = rx' \o (h2c' \o (toCard \o (up \o Sending)))
    BY <1>1 DEF InWay, Sending
  <2>2. h2c' \o (toCard \o (up \o Sending)) \in Seq(Tag)
    BY <1>2, <1>3, ConcatProperties
  <2> QED BY <1>3, <2>1, <2>2, ConcatProperties
<1>5. Took(x)
  BY <1>3, <1>4, TakeCounts
<1>6. tx' \in Seq(Tag) /\ Len(tx') =< 1 /\ Count(tx', "Stdout") = 0
  BY <1>1, ReplyFacts
<1>7. inq = 0 /\ ~inOpen /\ cmd = "exited"
  BY <1>1 DEF InputInv, RoomToSpare
<1>8. Len(rx') \in Nat /\ Len(h2c') \in Nat /\ Len(h2c') =< H2cCap
  <2>1. Len(rx') \in Nat /\ Len(h2c') \in Nat /\ Len(h2c') =< Len(h2c) /\ Len(h2c) =< H2cCap
        /\ Len(h2c) \in Nat
    BY <1>2, <1>3, LenProperties DEF InputInv, TypeOK
  <2> QED BY <2>1, Caps
<1>9. TypeOK'
  <2>1. UNCHANGED <<cpc, cframe, csock, inLeft, stdinOpen, got, up, down, toCard, dec, stat, c2h, apc,
                    inEof, late, inq, inOpen, inPipe, outPipe, cmd, shut, seenEof, used, made>>
    BY <1>1
  <2>2. rx' \in Seq(Tag) /\ Len(rx') < ReadMax /\ h2c' \in Seq(Tag)
    BY <1>3
  <2> QED BY <1>6, <1>8, <2>1, <2>2 DEF InputInv, TypeOK
<1>10. PICK c \in Nat, d \in Nat :
         c = Count(InWay, "Stdin") /\ d = Count(InWay', "Stdin") /\ d =< c
  BY <1>5 DEF Took
<1>11. InputConserved'
  <2>1. inLeft \in Nat /\ inq \in Nat /\ inPipe \in Nat /\ used \in Nat
    BY Numbers DEF InputInv
  <2>2. inLeft + c + inq + inPipe + used =< InTotal
    BY <1>10 DEF InputInv, InputConserved, Supply
  <2>3. Supply' = inLeft + d + inq + inPipe + used
    BY <1>1, <1>10 DEF Supply
  <2>4. Supply' =< InTotal
    BY <1>10, <2>1, <2>2, <2>3, Caps
  <2> QED BY <1>1, <1>7, <2>4 DEF InputConserved
<1>12. InputComplete'
  BY <1>1, <1>7 DEF InputInv, InputComplete
<1>13. EofInOrder'
  <2>1. EofLast(InWay')
    BY <1>5 DEF Took
  <2>2. stdinOpen => Count(InWay', "StdinEof") = 0
    <3>1. stdinOpen => Count(InWay, "StdinEof") = 0
      BY DEF InputInv, EofInOrder
    <3> QED BY <1>5, <3>1 DEF Took
  <2>3. inEof => d = 0
    <3>1. inEof => c = 0
      BY <1>10 DEF InputInv, EofInOrder
    <3> QED BY <1>10, <3>1
  <2>4. (stdinOpen => ~inEof) /\ (~stdinOpen => inLeft = 0)
    BY DEF InputInv, EofInOrder
  <2> QED BY <1>1, <1>10, <2>1, <2>2, <2>3, <2>4 DEF EofInOrder
<1>14. OutputBounded'
  <2>1. outPipe' = outPipe /\ outPipe \in Nat /\ tx = <<>>
    BY <1>1, Numbers DEF InputInv
  <2>2. UNCHANGED <<down, dec, c2h, got, made>>
    BY <1>1
  <2> QED BY <1>6, <2>1, <2>2, TxBounded
<1>15. RoomToSpare'
  <2>1. 0 + Len(rx') < Backlog + ReadMax
    BY <1>3, <1>8, Caps
  <2> QED BY <1>1, <1>7, <2>1 DEF RoomToSpare
<1>16. Busy'
  BY <1>1 DEF InputInv, Busy
<1> QED BY <1>9, <1>11, <1>12, <1>13, <1>14, <1>15, <1>16 DEF InputInv

\* The command reads a frame, or end of file once the pipe is closed.
LEMMA CmdReadInv == ASSUME InputInv, CmdRead PROVE InputInv'
<1>1. /\ UNCHANGED <<cpc, cframe, csock, inLeft, stdinOpen, got, up, down, toCard, dec, stat, h2c, c2h, rx, tx,
                     apc, inEof, late, inq, inOpen, outPipe, shut, made>>
      /\ cmd = "read"
  BY DEF CmdRead, cmdFrame, clientVars, daemonVars, agentVars
<1>2. InWay' = InWay /\ OutWay' = OutWay
  BY <1>1 DEF InWay, Sending, OutWay
<1>3. ~seenEof /\ ~shut
  BY <1>1 DEF InputInv, Busy
<1>4. /\ inLeft \in Nat /\ inq \in Nat /\ inPipe \in 0 .. PipeCap /\ used \in Nat
      /\ Count(InWay, "Stdin") \in Nat
  BY Numbers DEF InputInv, TypeOK
<1>5. /\ Supply = inLeft + Count(InWay, "Stdin") + inq + inPipe + used
      /\ Supply =< InTotal /\ (inOpen /\ ~shut => Supply = InTotal)
      /\ ~inOpen /\ ~shut => inPipe + used = InTotal
  BY <1>1 DEF Supply, InputInv, InputConserved, InputComplete
<1>6. /\ inPipe' \in 0 .. PipeCap /\ used' \in 0 .. InTotal /\ inPipe' + used' = inPipe + used
      /\ seenEof' \in BOOLEAN /\ (seenEof' => used' = InTotal)
  <2>1. CASE inPipe > 0 /\ inPipe' = inPipe - 1 /\ used' = used + 1 /\ seenEof' = seenEof
    <3>1. inPipe' \in 0 .. PipeCap /\ used' \in 0 .. InTotal /\ inPipe' + used' = inPipe + used
      BY <1>4, <1>5, <2>1, Caps
    <3>2. seenEof' \in BOOLEAN
      BY <2>1 DEF InputInv, TypeOK
    <3> QED BY <1>3, <2>1, <3>1, <3>2
  <2>2. CASE inPipe = 0 /\ ~inOpen /\ seenEof' = TRUE /\ UNCHANGED <<inPipe, used>>
    <3>1. seenEof' \in BOOLEAN
      BY <2>2, Zenon
    <3>2. used = InTotal
      BY <1>3, <1>4, <1>5, <2>2, Caps
    <3> QED BY <1>4, <2>2, <3>1, <3>2, Caps
  <2> QED BY <2>1, <2>2 DEF CmdRead
<1>7. cmd' \in {"exited", "read", "close", "write"}
      /\ (cmd' \in {"read", "close"} => ~seenEof') /\ (cmd' = "write" => made < OutTotal)
  BY DEF CmdRead, Chosen
<1>8. TypeOK'
  BY <1>1, <1>6, <1>7 DEF InputInv, TypeOK
<1>9. InputConserved'
  <2>1. Supply' = inLeft + Count(InWay, "Stdin") + inq + inPipe' + used'
    BY <1>1, <1>2 DEF Supply
  <2>2. /\ inPipe' \in Nat /\ used' \in Nat /\ inPipe \in Nat
        /\ inPipe' + used' = inPipe + used
    <3>1. /\ inPipe' \in 0 .. PipeCap /\ used' \in 0 .. InTotal /\ inPipe' + used' = inPipe + used
          /\ inPipe \in 0 .. PipeCap
      BY <1>4, <1>6, Zenon
    <3> QED BY <3>1, Caps
  <2>3. PICK c \in Nat : c = inLeft + Count(InWay, "Stdin") + inq
    BY <1>4
  <2>4. Supply' = c + (inPipe' + used') /\ Supply = c + (inPipe + used)
    BY <1>4, <1>5, <2>1, <2>2, <2>3
  <2>5. Supply' = Supply
    BY <2>2, <2>4
  <2> QED BY <1>1, <1>5, <2>5 DEF InputConserved
<1>10. InputComplete'
  BY <1>1, <1>5, <1>6 DEF InputComplete
<1>11. EofInOrder' /\ OutputBounded' /\ RoomToSpare'
  BY <1>1, <1>2 DEF InputInv, EofInOrder, OutputBounded, RoomToSpare
<1>12. Busy'
  BY <1>1, <1>3, <1>7 DEF InputInv, Busy
<1> QED BY <1>8, <1>9, <1>10, <1>11, <1>12 DEF InputInv

\* The command closes its input: what the pipe holds is gone with it.
LEMMA CmdCloseInv == ASSUME InputInv, CmdClose PROVE InputInv'
<1>1. /\ UNCHANGED <<cpc, cframe, csock, inLeft, stdinOpen, got, up, down, toCard, dec, stat, h2c, c2h, rx, tx,
                     apc, inEof, late, inq, inOpen, outPipe, made, seenEof, used>>
      /\ cmd = "close" /\ shut' = TRUE /\ inPipe' = 0
  BY DEF CmdClose, cmdFrame, clientVars, daemonVars, agentVars
<1>2. InWay' = InWay /\ OutWay' = OutWay
  BY <1>1 DEF InWay, Sending, OutWay
<1>3. /\ inLeft \in Nat /\ inq \in Nat /\ inPipe \in Nat /\ used \in Nat
      /\ Count(InWay, "Stdin") \in Nat
  BY Numbers DEF InputInv
<1>4. cmd' \in {"exited", "write"} /\ (cmd' = "write" => made < OutTotal)
  BY DEF CmdClose, Chosen
<1>5. TypeOK'
  <2>1. shut' \in BOOLEAN
    BY <1>1, Zenon
  <2>2. inPipe' \in 0 .. PipeCap
    BY <1>1, Caps
  <2> QED BY <1>1, <1>4, <2>1, <2>2 DEF InputInv, TypeOK
<1>6. InputConserved'
  <2>1. Supply' = inLeft + Count(InWay, "Stdin") + inq + 0 + used
    BY <1>1, <1>2 DEF Supply
  <2>2. inLeft + Count(InWay, "Stdin") + inq + inPipe + used =< InTotal
    BY DEF Supply, InputInv, InputConserved
  <2>3. Supply' =< InTotal
    BY <1>3, <2>1, <2>2, Caps
  <2> QED BY <1>1, <2>3 DEF InputConserved
<1>7. InputComplete' /\ EofInOrder' /\ OutputBounded'
  BY <1>1, <1>2 DEF InputInv, InputComplete, EofInOrder, OutputBounded
<1>8. RoomToSpare' /\ Busy'
  BY <1>1, <1>4 DEF InputInv, RoomToSpare, Busy
<1> QED BY <1>5, <1>6, <1>7, <1>8 DEF InputInv

\* The command writes one frame of output.
LEMMA CmdWriteInv == ASSUME InputInv, CmdWrite PROVE InputInv'
<1>1. /\ UNCHANGED <<cpc, cframe, csock, inLeft, stdinOpen, got, up, down, toCard, dec, stat, h2c, c2h, rx, tx,
                     apc, inEof, late, inq, inOpen, inPipe, shut, seenEof, used>>
      /\ cmd = "write" /\ outPipe < PipeCap /\ outPipe' = outPipe + 1 /\ made' = made + 1
  BY DEF CmdWrite, cmdFrame, clientVars, daemonVars, agentVars
<1>2. InWay' = InWay /\ OutWay' = OutWay
  BY <1>1 DEF InWay, Sending, OutWay
<1>3. cmd' \in {"exited", "read", "close", "write"}
      /\ (cmd' \in {"read", "close"} => ~seenEof /\ ~shut) /\ (cmd' = "write" => made' < OutTotal)
  BY DEF CmdWrite, Chosen
<1>4. TypeOK'
  <2>1. made < OutTotal /\ made \in 0 .. OutTotal /\ outPipe \in 0 .. PipeCap
    BY <1>1 DEF InputInv, Busy, TypeOK
  <2>2. made' \in 0 .. OutTotal /\ outPipe' \in 0 .. PipeCap
    BY <1>1, <2>1, Caps
  <2> QED BY <1>1, <1>3, <2>2 DEF InputInv, TypeOK
<1>5. InputConserved'
  BY <1>1, <1>2 DEF InputInv, InputConserved, Supply
<1>6. InputComplete' /\ EofInOrder'
  BY <1>1, <1>2 DEF InputInv, InputComplete, EofInOrder
<1>7. OutputBounded'
  <2>1. /\ got \in Nat /\ outPipe \in Nat /\ made \in Nat /\ Count(OutWay, "Stdout") \in Nat
        /\ got + Count(OutWay, "Stdout") + outPipe =< made
    BY Numbers DEF InputInv, OutputBounded
  <2>2. got + Count(OutWay, "Stdout") + (outPipe + 1) =< made + 1
    BY <2>1
  <2> QED BY <1>1, <1>2, <2>2 DEF OutputBounded
<1>8. RoomToSpare' /\ Busy'
  <2>1. apc # "grace" /\ apc # "main"
    BY <1>1 DEF InputInv, RoomToSpare
  <2> QED BY <1>1, <1>3, <2>1 DEF InputInv, RoomToSpare, Busy
<1> QED BY <1>4, <1>5, <1>6, <1>7, <1>8 DEF InputInv

----------------------------------------------------------------------------
(* The theorems.                                                           *)

\* Along a session every buffer keeps its bound, no input is lost while the
\* command may still read (in_push never has to drop), StdinEof overtakes
\* nothing, and a command that reads to the end of file has read it all.
THEOREM InputSafe == Spec => []InputInv
<1>1. Init => InputInv
  BY InitInv
<1>2. InputInv /\ [Next]_vars => InputInv'
  <2> SUFFICES ASSUME InputInv, [Next]_vars PROVE InputInv'
    OBVIOUS
  <2>1. CASE ClientNext
    BY <2>1, ClientPollInv, ClientSendInv, ClientRecvInv DEF ClientNext
  <2>2. CASE DaemonNext
    BY <2>2, DaemonStatInv, DaemonPassInv, DaemonDeliverInv DEF DaemonNext
  <2>3. CASE AgentNext
    BY <2>3, AgentSendInv, AgentFrameInv, AgentPumpInv, AgentPollInv, AgentFillInv, AgentDoneInv,
       AgentGracePumpInv, AgentGraceOverInv, AgentExitInv, AgentMainInv DEF AgentNext
  <2>4. CASE CmdNext
    BY <2>4, CmdReadInv, CmdCloseInv, CmdWriteInv DEF CmdNext
  <2>5. CASE UNCHANGED vars
    <3>1. UNCHANGED <<cpc, cframe, csock, inLeft, stdinOpen, got, up, down, toCard, dec, stat, h2c, c2h,
                      apc, rx, tx, inEof, late, inq, inOpen, inPipe, outPipe,
                      cmd, shut, seenEof, used, made>>
      BY <2>5 DEF vars, clientVars, daemonVars, agentVars, inputVars, cmdVars
    <3>2. InWay' = InWay /\ OutWay' = OutWay
      BY <3>1 DEF InWay, Sending, OutWay
    <3>3. InputConserved' /\ InputComplete' /\ EofInOrder'
      BY <3>1, <3>2, SameWay
    <3>4. TypeOK'
      BY <3>1 DEF InputInv, TypeOK
    <3>5. RoomToSpare' /\ OutputBounded' /\ Busy'
      BY <3>1, <3>2 DEF InputInv, RoomToSpare, OutputBounded, Busy
    <3> QED BY <3>3, <3>4, <3>5 DEF InputInv
  <2> QED BY <2>1, <2>2, <2>3, <2>4, <2>5 DEF Next
<1> QED BY <1>1, <1>2, PTL DEF Spec
=============================================================================
