----------------------------- MODULE ModArith -----------------------------
(***************************************************************************)
(* Facts about remainders that the proofs about free-running ring indices  *)
(* rest on.  The provers know a = m*(a \div m) + (a % m) for a symbolic m  *)
(* but no more, so uniqueness of the quotient is derived here once.  Then  *)
(* what several of the proofs need of counting up to a number and of       *)
(* sequences joined one after another.                                     *)
(***************************************************************************)
EXTENDS Joining, SequenceTheorems, WellFoundedInduction, TLAPS

\* Multiplication by a positive m is strictly monotonic.
LEMMA MulMono ==
  ASSUME NEW m \in Nat \ {0}, NEW p \in Int, NEW q \in Int, p < q
  PROVE  m * p + m =< m * q
<1>1. m * (q - p - 1) >= 0
  BY Z3
<1>2. m * (q - p - 1) = m * q - m * p - m
  BY Z3
<1> QED BY <1>1, <1>2

\* The division theorem, in the form the provers know it.
LEMMA DivMod ==
  ASSUME NEW m \in Nat \ {0}, NEW a \in Int
  PROVE  /\ a \div m \in Int /\ a % m \in 0 .. m - 1
         /\ a = m * (a \div m) + (a % m)
BY Z3

\* Whoever writes a as a multiple of m plus r in range has found a % m.
LEMMA ModUnique ==
  ASSUME NEW m \in Nat \ {0}, NEW q \in Int, NEW r \in 0 .. m - 1,
         NEW a \in Int, a = m * q + r
  PROVE  a % m = r /\ a \div m = q
<1> DEFINE d == a \div m
           e == a % m
<1>1. d \in Int /\ e \in 0 .. m - 1 /\ a = m * d + e
  BY DivMod
<1> HIDE DEF d, e
<1>2. ASSUME d < q PROVE FALSE
  <2>1. m * d + m =< m * q
    BY <1>1, <1>2, MulMono
  <2> QED BY <1>1, <2>1
<1>3. ASSUME q < d PROVE FALSE
  <2>1. m * q + m =< m * d
    BY <1>1, <1>3, MulMono
  <2> QED BY <1>1, <2>1
<1>4. d = q
  BY <1>1, <1>2, <1>3
<1>5. e = r
  BY <1>1, <1>4
<1> QED BY <1>4, <1>5 DEF d, e

\* Reducing a summand first does not change the remainder of the sum.
LEMMA ModAdd ==
  ASSUME NEW m \in Nat \ {0}, NEW a \in Int, NEW n \in Int
  PROVE  ((a % m) + n) % m = (a + n) % m
<1> DEFINE d == a \div m
           e == a % m
           f == (e + n) \div m
           g == (e + n) % m
           k == d + f
           s == a + n
<1>1. d \in Int /\ e \in 0 .. m - 1 /\ a = m * d + e
  BY DivMod
<1>2. e + n \in Int
  BY <1>1
<1> HIDE DEF d, e
<1>3. f \in Int /\ g \in 0 .. m - 1 /\ e + n = m * f + g
  BY DivMod, <1>2
<1> HIDE DEF f, g
<1>4. s = m * (d + f) + g
  BY <1>1, <1>3, Z3
<1>5. k \in Int /\ s \in Int /\ s = m * k + g
  BY <1>1, <1>3, <1>4
<1> HIDE DEF k, s
<1>6. s % m = g
  BY <1>3, <1>5, ModUnique
<1> QED BY <1>6 DEF s, g, e

\* The distance between two indices is recovered from their remainders.
LEMMA ModSub ==
  ASSUME NEW m \in Nat \ {0}, NEW a \in Int, NEW b \in Int,
         0 =< a - b, a - b < m
  PROVE  ((a % m) - (b % m)) % m = a - b
<1> DEFINE x == (a \div m) - (b \div m)
           z == -x
           s == (a % m) - (b % m)
           r == a - b
<1>1. x \in Int /\ s \in Int /\ r \in 0 .. m - 1
  BY DivMod
<1>2. a = m * (a \div m) + (a % m) /\ b = m * (b \div m) + (b % m)
  BY DivMod
<1>3. m * x = m * (a \div m) - m * (b \div m)
  BY DivMod, Z3
<1>4. r = m * x + s
  BY <1>2, <1>3, DivMod
<1> HIDE DEF x, s, r
<1>5. z \in Int /\ s = m * z + r
  BY <1>1, <1>4, Z3
<1> HIDE DEF z
<1>6. s % m = r
  BY <1>1, <1>5, ModUnique
<1> QED BY <1>6 DEF s, r

\* Reducing modulo a multiple of m first does not change the remainder.
LEMMA ModMod ==
  ASSUME NEW m \in Nat \ {0}, NEW n \in Nat \ {0}, n % m = 0, NEW a \in Int
  PROVE  (a % n) % m = a % m
<1> DEFINE c == n \div m
           q == a \div n
           e == a % n
           k == (a \div m)
           r == a % m
           cq == c * q
           j == k - cq
<1>1. c \in Int /\ n = m * c
  BY DivMod
<1>2. q \in Int /\ e \in Int /\ a = n * q + e
  BY DivMod
<1>3. k \in Int /\ r \in 0 .. m - 1 /\ a = m * k + r
  BY DivMod
<1> HIDE DEF c, q, e, k, r
<1>4. n * q = m * (c * q)
  BY <1>1, <1>2, Z3
<1>5. cq \in Int
  BY <1>1, <1>2
<1>6. e = m * k + r - m * cq
  BY <1>2, <1>3, <1>4
<1> HIDE DEF cq
<1>7. j \in Int /\ m * j = m * k - m * cq
  BY <1>3, <1>5, Z3
<1> HIDE DEF j
<1>8. e = m * j + r
  BY <1>2, <1>3, <1>5, <1>6, <1>7, Z3
<1>9. e \in Int /\ j \in Int /\ r \in 0 .. m - 1
  BY <1>2, <1>3, <1>7
<1>10. e % m = r
  BY <1>8, <1>9, ModUnique
<1> QED BY <1>10 DEF e, r

\* Two numbers less than m apart with the same remainder are the same.
LEMMA ModInjective ==
  ASSUME NEW m \in Nat \ {0}, NEW a \in Int, NEW b \in Int,
         a - b < m, b - a < m, a % m = b % m
  PROVE  a = b
<1> DEFINE p == a \div m
           q == b \div m
           r == a % m
<1>1. p \in Int /\ q \in Int /\ r \in Int /\ a = m * p + r /\ b = m * q + r
  BY DivMod
<1> HIDE DEF p, q, r
<1>2. ASSUME p < q PROVE FALSE
  <2>1. m * p + m =< m * q
    BY <1>1, <1>2, MulMono
  <2> QED BY <1>1, <2>1
<1>3. ASSUME q < p PROVE FALSE
  <2>1. m * q + m =< m * p
    BY <1>1, <1>3, MulMono
  <2> QED BY <1>1, <2>1
<1> QED BY <1>1, <1>2, <1>3

\* A step of at most m crosses the end of the range at most once.
LEMMA ModStep ==
  ASSUME NEW m \in Nat \ {0}, NEW a \in Int, NEW i \in 0 .. m
  PROVE  (a + i) % m = IF (a % m) + i < m THEN (a % m) + i
                                          ELSE (a % m) + i - m
<1> DEFINE q == a \div m
           e == a % m
           s == a + i
           q1 == q + 1
           r0 == e + i
           r1 == e + i - m
<1>1. q \in Int /\ e \in 0 .. m - 1 /\ a = m * q + e
  BY DivMod
<1> HIDE DEF q, e
<1>2. s \in Int /\ q1 \in Int
  BY <1>1
<1>3. CASE e + i < m
  <2>1. r0 \in 0 .. m - 1 /\ s = m * q + r0
    BY <1>1, <1>3
  <2> HIDE DEF s, r0
  <2>2. s % m = r0
    BY <1>1, <1>2, <2>1, ModUnique
  <2> QED BY <1>3, <2>2 DEF s, r0, e
<1>4. CASE ~(e + i < m)
  <2>1. r1 \in 0 .. m - 1
    BY <1>1, <1>4
  <2>2. m * q1 = m * q + m
    BY <1>1, Z3
  <2>3. s = m * q1 + r1
    BY <1>1, <2>2
  <2> HIDE DEF s, r1, q1
  <2>4. s % m = r1
    BY <1>2, <2>1, <2>3, ModUnique
  <2> QED BY <1>4, <2>4 DEF s, r1, e
<1> QED BY <1>3, <1>4

(* Counting, and sequences one after another.                              *)

\* Counting up from nought, a set that is never left holds all the numbers.
LEMMA CountUp ==
  ASSUME NEW n \in Nat, NEW S, 0 \in S, \A i \in 0 .. n - 1 : i \in S => i + 1 \in S
  PROVE  \A i \in 0 .. n : i \in S
<1> SUFFICES ASSUME (0 .. n) \ S # {} PROVE FALSE
  OBVIOUS
<1> DEFINE R == OpToRel(<, Nat)
           T == (0 .. n) \ S
<1>1. IsWellFoundedOn(R, Nat)
  BY NatLessThanWellFounded
<1>2. \A x, y \in Nat : y < x => <<y, x>> \in R
  BY DEF OpToRel
<1>3. T \subseteq Nat /\ T # {}
  OBVIOUS
<1> HIDE DEF R, T
<1>4. PICK m \in T : \A y \in T : ~(<<y, m>> \in R)
  BY <1>1, <1>3, WFMin, Zenon
<1>5. m \in 0 .. n /\ m \notin S /\ \A y \in T : ~(y < m)
  <2>1. m \in 0 .. n /\ m \notin S
    BY DEF T
  <2> QED BY <1>2, <1>3, <1>4, <2>1
<1>6. m # 0
  BY <1>5
<1>7. m - 1 \in 0 .. n - 1 /\ m - 1 \in 0 .. n /\ m - 1 < m /\ (m - 1) + 1 = m
  BY <1>5, <1>6
<1>8. m - 1 \in S
  BY <1>5, <1>7 DEF T
<1> QED BY <1>5, <1>7, <1>8

\* The recursion of Joined has a solution: each row extends the last.
LEMMA JoinedDefined ==
  ASSUME NEW l, Len(l) \in Nat
  PROVE  Joined(l) = [i \in 0 .. Len(l) |-> IF i = 0 THEN << >> ELSE Joined(l)[i - 1] \o l[i]]
<1> DEFINE n == Len(l)
           Solves(m, g) == g = [i \in 0 .. m |-> IF i = 0 THEN << >> ELSE g[i - 1] \o l[i]]
           S == {m \in 0 .. n : \E g : Solves(m, g)}
<1>1. n \in Nat
  OBVIOUS
<1> HIDE DEF n
<1>2. 0 \in S
  <2> DEFINE g == [i \in 0 .. 0 |-> << >>]
  <2>1. Solves(0, g)
    OBVIOUS
  <2>2. 0 \in 0 .. n
    BY <1>1
  <2> HIDE DEF g, Solves
  <2> QED BY <2>1, <2>2
<1>3. ASSUME NEW m \in 0 .. n - 1, m \in S PROVE m + 1 \in S
  <2>1. PICK g : Solves(m, g)
    BY <1>3
  <2> DEFINE h == [i \in 0 .. m + 1 |-> IF i = m + 1 THEN g[m] \o l[m + 1] ELSE g[i]]
  <2>2. m \in Nat /\ m + 1 \in 0 .. n
    BY <1>1
  <2>3. \A i \in 0 .. m + 1 : h[i] = IF i = 0 THEN << >> ELSE h[i - 1] \o l[i]
    <3>1. TAKE i \in 0 .. m + 1
    <3>2. CASE i = m + 1
      <4>1. i # 0 /\ i - 1 = m /\ m \in 0 .. m + 1 /\ m # m + 1
        BY <2>2, <3>2
      <4> QED BY <3>2, <4>1
    <3>3. CASE i # m + 1
      <4>1. i \in 0 .. m /\ (i # 0 => i - 1 \in 0 .. m + 1 /\ i - 1 # m + 1)
        BY <2>2, <3>3
      <4>2. g[i] = IF i = 0 THEN << >> ELSE g[i - 1] \o l[i]
        BY <2>1, <4>1
      <4> QED BY <3>3, <4>1, <4>2
    <3> QED BY <3>2, <3>3
  <2>4. Solves(m + 1, h)
    <3>1. h = [i \in 0 .. m + 1 |-> h[i]]
      OBVIOUS
    <3> HIDE DEF h
    <3> QED BY <2>3, <3>1
  <2> QED BY <2>2, <2>4
<1> HIDE DEF S
<1>4. \A i \in 0 .. n : i \in S
  BY <1>1, <1>2, <1>3, CountUp
<1>5. n \in S
  BY <1>1, <1>4
<1>6. \E g : Solves(n, g)
  BY <1>5 DEF S
<1>7. Joined(l) = CHOOSE g : Solves(n, g)
  BY DEF Joined, n
<1> HIDE DEF Solves
<1>8. Solves(n, Joined(l))
  BY <1>6, <1>7
<1> QED BY <1>8 DEF Solves, n

\* The rows, each the last one and a piece more.
LEMMA JoinedFacts ==
  ASSUME NEW S, NEW l \in Seq(Seq(S))
  PROVE  /\ Len(l) \in Nat /\ Joined(l)[0] = << >> /\ Len(Joined(l)[0]) = 0
         /\ \A i \in 1 .. Len(l) : l[i] \in Seq(S) /\ Len(l[i]) \in Nat
         /\ \A i \in 0 .. Len(l) : Joined(l)[i] \in Seq(S) /\ Len(Joined(l)[i]) \in Nat
         /\ \A i \in 1 .. Len(l) : /\ Joined(l)[i] = Joined(l)[i - 1] \o l[i]
                                   /\ Len(Joined(l)[i]) = Len(Joined(l)[i - 1]) + Len(l[i])
<1> DEFINE n == Len(l)
           f == Joined(l)
           T == {i \in 0 .. n : f[i] \in Seq(S)}
<1>1. n \in Nat /\ \A i \in 1 .. n : l[i] \in Seq(S)
  BY LenProperties, ElementOfSeq
<1>2. f = [i \in 0 .. n |-> IF i = 0 THEN << >> ELSE f[i - 1] \o l[i]]
  BY <1>1, JoinedDefined
<1> HIDE DEF n, f
<1>3. f[0] = << >>
  <2>1. 0 \in 0 .. n
    BY <1>1
  <2> QED BY <1>2, <2>1
<1>4. \A i \in 1 .. n : f[i] = f[i - 1] \o l[i]
  <2>1. \A i \in 1 .. n : i \in 0 .. n /\ i # 0
    BY <1>1
  <2> QED BY <1>2, <2>1
<1>5. \A i \in 0 .. n - 1 : i \in T => i + 1 \in T
  <2> SUFFICES ASSUME NEW i \in 0 .. n - 1, f[i] \in Seq(S) PROVE i + 1 \in 0 .. n /\ f[i + 1] \in Seq(S)
    OBVIOUS
  <2>1. i + 1 \in 1 .. n /\ i + 1 \in 0 .. n /\ (i + 1) - 1 = i
    BY <1>1
  <2>2. f[i + 1] = f[i] \o l[i + 1] /\ l[i + 1] \in Seq(S)
    BY <1>1, <1>4, <2>1
  <2> QED BY <2>1, <2>2, ConcatProperties
<1>6. 0 \in T
  <2>1. << >> \in Seq(S) /\ 0 \in 0 .. n
    BY <1>1, EmptySeq
  <2> QED BY <1>3, <2>1
<1> HIDE DEF T
<1>7. \A i \in 0 .. n : i \in T
  BY <1>1, <1>5, <1>6, CountUp
<1>8. \A i \in 0 .. n : f[i] \in Seq(S)
  BY <1>7 DEF T
<1>9. /\ \A i \in 1 .. n : Len(l[i]) \in Nat
      /\ \A i \in 0 .. n : Len(f[i]) \in Nat
  BY <1>1, <1>8, LenProperties
<1>10. \A i \in 1 .. n : i - 1 \in 0 .. n
  BY <1>1
<1>11. ASSUME NEW i \in 1 .. n PROVE Len(f[i]) = Len(f[i - 1]) + Len(l[i])
  <2>1. f[i - 1] \in Seq(S) /\ l[i] \in Seq(S) /\ f[i] = f[i - 1] \o l[i]
    BY <1>1, <1>4, <1>8, <1>10
  <2> QED BY <2>1, ConcatProperties
<1>12. Len(f[0]) = 0
  BY <1>3
<1> QED BY <1>1, <1>3, <1>4, <1>8, <1>9, <1>11, <1>12 DEF n, f

\* A row begins with every shorter one.
LEMMA JoinedPrefix ==
  ASSUME NEW S, NEW l \in Seq(Seq(S)), NEW k \in 0 .. Len(l), NEW j \in k .. Len(l)
  PROVE  /\ Len(Joined(l)[k]) =< Len(Joined(l)[j])
         /\ \A i \in 1 .. Len(Joined(l)[k]) : Joined(l)[j][i] = Joined(l)[k][i]
<1> DEFINE n == Len(l)
           f == Joined(l)
           T == {d \in 0 .. n - k : /\ Len(f[k]) =< Len(f[k + d])
                                    /\ \A i \in 1 .. Len(f[k]) : f[k + d][i] = f[k][i]}
<1>1. /\ n \in Nat
      /\ \A i \in 0 .. n : f[i] \in Seq(S) /\ Len(f[i]) \in Nat
      /\ \A i \in 1 .. n : l[i] \in Seq(S) /\ Len(l[i]) \in Nat
      /\ \A i \in 1 .. n : f[i] = f[i - 1] \o l[i] /\ Len(f[i]) = Len(f[i - 1]) + Len(l[i])
  BY JoinedFacts
<1> HIDE DEF f, n
<1>2. k \in 0 .. n /\ j \in k .. n
  BY DEF n
<1>3. n - k \in Nat /\ k + 0 = k /\ j - k \in 0 .. n - k /\ k + (j - k) = j
  BY <1>1, <1>2
<1>4. 0 \in T
  BY <1>1, <1>2, <1>3
<1>5. ASSUME NEW d \in 0 .. (n - k) - 1, d \in T PROVE d + 1 \in T
  <2> DEFINE a == k + d
  <2>1. a \in 0 .. n /\ a + 1 \in 1 .. n /\ (a + 1) - 1 = a /\ k + (d + 1) = a + 1
        /\ d + 1 \in 0 .. n - k
    BY <1>1, <1>2
  <2> HIDE DEF a
  <2>2. f[a + 1] = f[a] \o l[a + 1] /\ f[a] \in Seq(S) /\ l[a + 1] \in Seq(S)
        /\ Len(f[a]) \in Nat /\ Len(l[a + 1]) \in Nat /\ Len(f[a + 1]) = Len(f[a]) + Len(l[a + 1])
        /\ Len(f[k]) \in Nat
    BY <1>1, <1>2, <2>1
  <2>3. \A i \in 1 .. Len(f[a]) : f[a + 1][i] = f[a][i]
    <3>1. \A i \in 1 .. Len(f[a]) + Len(l[a + 1]) :
             f[a + 1][i] = IF i =< Len(f[a]) THEN f[a][i] ELSE l[a + 1][i - Len(f[a])]
      BY <2>2, ConcatProperties, Zenon
    <3>2. \A x, y \in Nat : \A i \in 1 .. x : i \in 1 .. x + y /\ i =< x
      OBVIOUS
    <3>3. \A i \in 1 .. Len(f[a]) : i \in 1 .. Len(f[a]) + Len(l[a + 1]) /\ i =< Len(f[a])
      BY <2>2, <3>2
    <3> QED BY <3>1, <3>3, Zenon
  <2>4. Len(f[k]) =< Len(f[a]) /\ \A i \in 1 .. Len(f[k]) : f[a][i] = f[k][i]
    BY <1>5 DEF a
  <2>5. Len(f[k]) =< Len(f[a + 1]) /\ \A i \in 1 .. Len(f[k]) : i \in 1 .. Len(f[a])
    <3>1. \A x, y, z \in Nat : x =< y => x =< y + z /\ \A i \in 1 .. x : i \in 1 .. y
      OBVIOUS
    <3> QED BY <2>2, <2>4, <3>1, Zenon
  <2>6. \A i \in 1 .. Len(f[k]) : f[a + 1][i] = f[k][i]
    BY <2>3, <2>4, <2>5
  <2> QED BY <2>1, <2>5, <2>6
<1> HIDE DEF T
<1>6. \A d \in 0 .. n - k : d \in T
  BY <1>3, <1>4, <1>5, CountUp
<1>7. j - k \in T
  BY <1>3, <1>6
<1> QED BY <1>3, <1>7 DEF T, f

\* Every piece stands where the row before it ends.
LEMMA JoinedPiece ==
  ASSUME NEW S, NEW l \in Seq(Seq(S)), NEW k \in 1 .. Len(l)
  PROVE  /\ Concat(l) \in Seq(S) /\ Len(Concat(l)) \in Nat
         /\ Len(Joined(l)[k - 1]) + Len(l[k]) =< Len(Concat(l))
         /\ \A i \in 1 .. Len(l[k]) : Concat(l)[Len(Joined(l)[k - 1]) + i] = l[k][i]
<1> DEFINE n == Len(l)
           f == Joined(l)
           p == Len(f[k - 1])
           w == f[n]
<1>1. n \in Nat /\ k - 1 \in 0 .. n /\ k \in 0 .. n /\ n \in k .. n /\ n \in 0 .. n
  BY JoinedFacts
<1>2. /\ f[k] = f[k - 1] \o l[k] /\ f[k - 1] \in Seq(S) /\ l[k] \in Seq(S)
      /\ p \in Nat /\ Len(l[k]) \in Nat /\ Len(f[k]) = p + Len(l[k])
      /\ w \in Seq(S) /\ Len(w) \in Nat
  BY <1>1, JoinedFacts
<1>3. Len(f[k]) =< Len(w) /\ \A i \in 1 .. Len(f[k]) : w[i] = f[k][i]
  BY <1>1, JoinedPrefix
<1> HIDE DEF w, n, f
<1>4. \A i \in 1 .. p + Len(l[k]) : f[k][i] = IF i =< p THEN f[k - 1][i] ELSE l[k][i - p]
  BY <1>2, ConcatProperties
<1> HIDE DEF p
<1>5. ASSUME NEW i \in 1 .. Len(l[k]) PROVE w[p + i] = l[k][i]
  <2>1. p + i \in 1 .. p + Len(l[k]) /\ ~(p + i =< p) /\ (p + i) - p = i
    BY <1>2
  <2> QED BY <1>2, <1>3, <1>4, <2>1
<1>6. Concat(l) = w
  BY DEF w, f, n, Concat
<1> QED BY <1>2, <1>3, <1>5, <1>6 DEF p, f
=============================================================================
