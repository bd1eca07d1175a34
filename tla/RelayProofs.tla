--------------------------- MODULE RelayProofs ---------------------------
(***************************************************************************)
(* Proofs about the relay, for any number of clients and slots and rings   *)
(* of any size, when the clients are phictl's, killed or cut off at will.  *)
(***************************************************************************)
EXTENDS Relay, ModArith

\* Every connection makes one request, and sends nothing phictl does not
\* send; a frame the decoder refuses may be among it.
PhictlClients == MaxRequests = 1 /\ "odd" \notin Kinds

(* What the predicates on queues of frames say of an empty queue, of a     *)
(* queue without its head and of two queues in a row.                      *)

\* Nothing is wrong with an empty queue.
LEMMA EmptyQueue ==
  ASSUME NEW T, NEW o, NEW n \in Nat \ {0}
  PROVE  NoneOf(<<>>, T) /\ PollsFrom(<<>>, n) /\ OwnFrom(<<>>, n, o)
  BY EmptySeq DEF NoneOf, PollsFrom, OwnFrom

\* A queue of one frame.
LEMMA OneFrame ==
  ASSUME NEW f, NEW T, NEW o
  PROVE  /\ f.tag \notin T => NoneOf(<<f>>, T)
         /\ f.tag \in T => OneOf(<<f>>, T, 1)
         /\ f.tag \in Polls => PollsFrom(<<f>>, 1)
         /\ f.tag \in Polls \/ f.who = o => OwnFrom(<<f>>, 1, o)
  BY DEF NoneOf, OneOf, PollsFrom, OwnFrom

\* Without its head, a queue keeps what held of all of it.
LEMMA TailQueue ==
  ASSUME NEW S, NEW q \in Seq(S), q # <<>>, NEW T, NEW o
  PROVE  /\ NoneOf(q, T) => NoneOf(Tail(q), T)
         /\ PollsFrom(q, 1) => PollsFrom(Tail(q), 1)
         /\ OwnFrom(q, 1, o) => OwnFrom(Tail(q), 1, o)
<1>1. /\ Len(q) \in Nat /\ Len(Tail(q)) = Len(q) - 1 /\ Len(q) > 0
      /\ \A i \in 1 .. Len(q) - 1 : Tail(q)[i] = q[i + 1]
  BY HeadTailProperties, LenProperties, EmptySeq
<1>2. ASSUME NEW i \in 1 .. Len(q) - 1 PROVE i + 1 \in 1 .. Len(q)
  BY <1>1
<1> QED BY <1>1, <1>2 DEF NoneOf, PollsFrom, OwnFrom

\* ... and what was at place k is one place nearer; when it was the head,
\* nothing of its kind is left.
LEMMA TailOne ==
  ASSUME NEW S, NEW q \in Seq(S), q # <<>>, NEW T, NEW o, NEW k \in 1 .. Len(q),
         OneOf(q, T, k)
  PROVE  /\ k > 1 => /\ k - 1 \in 1 .. Len(Tail(q)) /\ OneOf(Tail(q), T, k - 1)
                     /\ OwnFrom(q, k, o) => OwnFrom(Tail(q), k - 1, o)
                     /\ PollsFrom(q, k + 1) => PollsFrom(Tail(q), (k - 1) + 1)
         /\ k = 1 => /\ NoneOf(Tail(q), T)
                     /\ PollsFrom(q, k + 1) => PollsFrom(Tail(q), 1)
<1>1. /\ Len(q) \in Nat /\ Len(Tail(q)) = Len(q) - 1 /\ Len(q) > 0
      /\ \A i \in 1 .. Len(q) - 1 : Tail(q)[i] = q[i + 1]
  BY HeadTailProperties, LenProperties, EmptySeq
<1> DEFINE n == Len(q)
           t == Tail(q)
<1>2. /\ n \in Nat /\ k \in 1 .. n /\ Len(t) = n - 1 /\ \A i \in 1 .. n - 1 : t[i] = q[i + 1]
      /\ Len(q) = n
  BY <1>1
<1> HIDE DEF n, t
<1>3. CASE k > 1
  <2>1. k - 1 \in 1 .. n - 1 /\ k \in Nat
    BY <1>2, <1>3
  <2>2. \A i \in 1 .. n - 1 : i + 1 \in 1 .. n /\ (i = k - 1 <=> i + 1 = k)
    BY <1>2
  <2>3. OneOf(t, T, k - 1)
    BY <1>2, <2>2 DEF OneOf
  <2>4. ASSUME OwnFrom(q, k, o) PROVE OwnFrom(t, k - 1, o)
    <3>1. \A i \in k - 1 .. n - 1 : i \in 1 .. n - 1 /\ i + 1 \in k .. n
      BY <1>2, <1>3
    <3> QED BY <1>2, <2>4, <3>1 DEF OwnFrom
  <2>5. ASSUME PollsFrom(q, k + 1) PROVE PollsFrom(t, (k - 1) + 1)
    <3>1. \A i \in (k - 1) + 1 .. n - 1 : i \in 1 .. n - 1 /\ i + 1 \in k + 1 .. n
      BY <1>2, <1>3
    <3> QED BY <1>2, <2>5, <3>1 DEF PollsFrom
  <2> QED BY <1>2, <1>3, <2>1, <2>3, <2>4, <2>5 DEF t
<1>4. CASE k = 1
  <2>1. \A i \in 1 .. n - 1 : i + 1 \in k + 1 .. n /\ i + 1 \in 1 .. n /\ i + 1 # k
    BY <1>2, <1>4
  <2> QED BY <1>2, <1>4, <2>1 DEF OneOf, NoneOf, PollsFrom, t
<1>5. k > 1 \/ k = 1
  BY <1>2
<1> QED BY <1>3, <1>4, <1>5

\* Two queues in a row.
LEMMA ConcatQueue ==
  ASSUME NEW S, NEW q \in Seq(S), NEW r \in Seq(S), NEW T, NEW o
  PROVE  /\ NoneOf(q, T) /\ NoneOf(r, T) => NoneOf(q \o r, T)
         /\ PollsFrom(q, 1) /\ PollsFrom(r, 1) => PollsFrom(q \o r, 1)
         /\ OwnFrom(q, 1, o) /\ OwnFrom(r, 1, o) => OwnFrom(q \o r, 1, o)
         /\ PollsFrom(r, 1) => PollsFrom(q \o r, Len(q) + 1)
         /\ OwnFrom(r, 1, o) => OwnFrom(q \o r, Len(q) + 1, o)
<1> DEFINE n == Len(q)
           m == Len(r)
           c == q \o r
<1>1. /\ n \in Nat /\ m \in Nat /\ Len(c) = n + m /\ Len(q) = n /\ Len(r) = m
      /\ \A i \in 1 .. n + m : c[i] = IF i =< n THEN q[i] ELSE r[i - n]
  BY ConcatProperties, LenProperties
<1> HIDE DEF n, m, c
<1>2. \A i \in 1 .. n + m : (i =< n => i \in 1 .. n) /\ (~(i =< n) => i - n \in 1 .. m)
  BY <1>1
<1>3. \A i \in n + 1 .. n + m : i \in 1 .. n + m /\ ~(i =< n)
  BY <1>1
<1>4. /\ NoneOf(q, T) /\ NoneOf(r, T) => NoneOf(c, T)
      /\ PollsFrom(q, 1) /\ PollsFrom(r, 1) => PollsFrom(c, 1)
      /\ OwnFrom(q, 1, o) /\ OwnFrom(r, 1, o) => OwnFrom(c, 1, o)
  BY <1>1, <1>2 DEF NoneOf, PollsFrom, OwnFrom
<1>5. /\ PollsFrom(r, 1) => PollsFrom(c, n + 1)
      /\ OwnFrom(r, 1, o) => OwnFrom(c, n + 1, o)
  BY <1>1, <1>2, <1>3 DEF PollsFrom, OwnFrom
<1> QED BY <1>4, <1>5 DEF n, c

\* The one frame of its kind stays where it was when others queue up.
LEMMA ConcatOne ==
  ASSUME NEW S, NEW q \in Seq(S), NEW r \in Seq(S), NEW T, NEW o, NEW k \in 1 .. Len(q),
         OneOf(q, T, k), NoneOf(r, T)
  PROVE  /\ k \in 1 .. Len(q \o r) /\ OneOf(q \o r, T, k)
         /\ OwnFrom(q, k, o) /\ OwnFrom(r, 1, o) => OwnFrom(q \o r, k, o)
         /\ PollsFrom(q, k + 1) /\ PollsFrom(r, 1) => PollsFrom(q \o r, k + 1)
<1> DEFINE n == Len(q)
           m == Len(r)
           c == q \o r
<1>1. /\ n \in Nat /\ m \in Nat /\ Len(c) = n + m /\ Len(q) = n /\ Len(r) = m
      /\ k \in 1 .. n
      /\ \A i \in 1 .. n + m : c[i] = IF i =< n THEN q[i] ELSE r[i - n]
  BY ConcatProperties, LenProperties
<1> HIDE DEF n, m, c
<1>2. \A i \in 1 .. n + m : (i =< n => i \in 1 .. n) /\ (~(i =< n) => i - n \in 1 .. m /\ i # k)
  BY <1>1
<1>3. \A i \in k .. n + m : i \in 1 .. n + m /\ (i =< n => i \in k .. n)
  BY <1>1
<1>4. \A i \in k + 1 .. n + m : i \in 1 .. n + m /\ (i =< n => i \in k + 1 .. n)
  BY <1>1
<1>5. k \in 1 .. Len(c)
  BY <1>1
<1>6. OneOf(c, T, k)
  BY <1>1, <1>2 DEF OneOf, NoneOf
<1>7. OwnFrom(q, k, o) /\ OwnFrom(r, 1, o) => OwnFrom(c, k, o)
  BY <1>1, <1>2, <1>3 DEF OwnFrom
<1>8. PollsFrom(q, k + 1) /\ PollsFrom(r, 1) => PollsFrom(c, k + 1)
  BY <1>1, <1>2, <1>4 DEF PollsFrom
<1> QED BY <1>5, <1>6, <1>7, <1>8 DEF c

\* The one frame of its kind heads what joins a queue that has none.
LEMMA ConcatNew ==
  ASSUME NEW S, NEW q \in Seq(S), NEW r \in Seq(S), NEW T,
         r # <<>>, NoneOf(q, T), OneOf(r, T, 1)
  PROVE  Len(q) + 1 \in 1 .. Len(q \o r) /\ OneOf(q \o r, T, Len(q) + 1)
<1> DEFINE n == Len(q)
           m == Len(r)
           c == q \o r
<1>1. /\ n \in Nat /\ m \in Nat \ {0} /\ Len(c) = n + m /\ Len(q) = n /\ Len(r) = m
      /\ \A i \in 1 .. n + m : c[i] = IF i =< n THEN q[i] ELSE r[i - n]
  BY ConcatProperties, LenProperties, EmptySeq
<1> HIDE DEF n, m, c
<1>2. \A i \in 1 .. n + m : /\ i =< n => i \in 1 .. n /\ i # n + 1
                            /\ ~(i =< n) => i - n \in 1 .. m /\ (i - n = 1 <=> i = n + 1)
  BY <1>1
<1>3. n + 1 \in 1 .. Len(c)
  BY <1>1
<1>4. OneOf(c, T, n + 1)
  BY <1>1, <1>2 DEF OneOf, NoneOf
<1> QED BY <1>3, <1>4 DEF n, c

----------------------------------------------------------------------------
(* Steps that leave the session, or what clients asked for, alone.         *)

\* The constants as the provers need them.
LEMMA Caps ==
  /\ NSlots \in Nat \ {0} /\ MaxRequests \in Nat \ {0} /\ RingCap \in Nat \ {0}
  /\ StatCap \in Nat \ {0} /\ ToCardLimit \in Nat \ {0} /\ MaxData \in Nat /\ MaxOut \in Nat
  /\ None \notin Conn /\ Permitted \subseteq Conn
  BY ConnAssumption, BoundAssumption

\* The queues are sequences, the way to the card included.
LEMMA Queues ==
  ASSUME TypeOK
  PROVE  /\ h2c \in Seq(Frame) /\ toCard \in Seq(Frame) /\ Way \in Seq(Frame)
         /\ c2h \in Seq(CardFrame) /\ statQ \in Seq(Conn)
         /\ Len(h2c) \in Nat /\ Len(toCard) \in Nat /\ Len(c2h) \in Nat
<1>1. h2c \in Seq(Frame) /\ toCard \in Seq(Frame) /\ c2h \in Seq(CardFrame) /\ statQ \in Seq(Conn)
  BY Zenon DEF TypeOK, DaemonType, CardType
<1>2. Way \in Seq(Frame)
  BY <1>1, ConcatProperties DEF Way
<1> QED BY <1>1, <1>2, LenProperties

\* The session agrees as long as nothing of it moves.
LEMMA SameSession ==
  ASSUME SessionAgrees, UNCHANGED <<session, holder, Way, c2h>>,
         agent'.mode = agent.mode, agent'.owner = agent.owner
  PROVE  SessionAgrees'
<1>1. \A o : /\ Asking(o) => Asking(o)'
             /\ Serving(o) => Serving(o)'
             /\ Ended(o) => Ended(o)'
  BY DEF Asking, Serving, Ended
<1>2. CASE session = "none"
  BY <1>2 DEF SessionAgrees
<1>3. CASE session # "none"
  BY <1>1, <1>3 DEF SessionAgrees
<1> QED BY <1>2, <1>3

\* What clients asked for stays as it is while nothing of it moves.
LEMMA SameAsked ==
  ASSUME AskedOnce, UNCHANGED <<up, pend>>, holder' \in {holder, None}, None \notin Conn,
         \A c \in Conn : cl'[c].reqs = cl[c].reqs
  PROVE  AskedOnce'
  BY DEF AskedOnce

----------------------------------------------------------------------------
(* The clients' steps.                                                     *)

\* What the steps of a client leave alone.
LEMMA ClientSide ==
  ASSUME RelayInv, UNCHANGED daemonOnly
  PROVE  DaemonType' /\ CardType' /\ SessionAgrees' /\ UNCHANGED <<pend, holder>>
<1>1. UNCHANGED <<backlog, slot, dead, pend, holder, session, statQ, overrun, toCard, ready, pc, cur, busy,
                  h2c, c2h, agent, Way, Connected>>
  BY DEF daemonOnly, relayVars, Way, Connected
<1>2. DaemonType' /\ CardType'
  BY <1>1 DEF RelayInv, TypeOK, DaemonType, CardType
<1>3. SessionAgrees'
  BY <1>1, SameSession DEF RelayInv
<1> QED BY <1>1, <1>2, <1>3

\* A new connection has asked for nothing yet.
LEMMA ConnectInv ==
  ASSUME RelayInv, NEW c \in Conn, NEW k \in Kinds, Connect(c, k) PROVE RelayInv'
<1>1. /\ UNCHANGED <<up, down, slot, dead, pend, holder, session, statQ, overrun, toCard, ready, pc, cur,
                     busy, h2c, c2h, agent, Way, Connected>>
      /\ backlog' = backlog \cup {c} /\ cl' = [cl EXCEPT ![c].st = "open", ![c].kind = k]
  BY DEF Connect, relayVars, Way, Connected
<1>2. cl \in [Conn -> [st : {"off", "open", "closed"}, kind : Kinds \cup {"none"},
                       reqs : 0 .. MaxRequests, data : 0 .. MaxData, ended : BOOLEAN]]
  BY Zenon DEF RelayInv, TypeOK, ClientType
<1>3. k # "none"
  BY KindAssumption
<1>4. ClientType'
  <2>1. /\ up \in [Conn -> Seq(UpTag)] /\ down \in [Conn -> Seq(CardFrame)]
        /\ \A d \in Conn : cl[d].kind = "none" => cl[d].st = "off"
    BY Zenon DEF RelayInv, TypeOK, ClientType
  <2>2. cl' \in [Conn -> [st : {"off", "open", "closed"}, kind : Kinds \cup {"none"},
                         reqs : 0 .. MaxRequests, data : 0 .. MaxData, ended : BOOLEAN]]
    BY <1>1, <1>2
  <2>3. cl'[c].kind = k /\ \A d \in Conn \ {c} : cl'[d] = cl[d]
    BY <1>1, <1>2
  <2>4. \A d \in Conn : cl'[d].kind = "none" => cl'[d].st = "off"
    BY <1>3, <2>1, <2>3
  <2> QED BY <1>1, <2>1, <2>2, <2>4 DEF ClientType
<1>5. DaemonType' /\ CardType'
  BY <1>1 DEF RelayInv, TypeOK, DaemonType, CardType
<1>6. SessionAgrees'
  BY <1>1, SameSession DEF RelayInv
<1>7. AskedOnce'
  BY <1>1, <1>2, Caps, SameAsked DEF RelayInv
<1> QED BY <1>4, <1>5, <1>6, <1>7 DEF RelayInv, TypeOK

\* What a client sends is appended to its socket.
LEMMA SendFrameType ==
  ASSUME ClientType, NEW c \in Conn, NEW tag \in UpTag, SendFrame(c, tag)
  PROVE  /\ up' \in [Conn -> Seq(UpTag)] /\ up[c] \in Seq(UpTag) /\ up'[c] = Append(up[c], tag)
         /\ Len(up'[c]) = Len(up[c]) + 1 /\ Len(up[c]) \in Nat
         /\ \A i \in 1 .. Len(up[c]) : up'[c][i] = up[c][i]
         /\ up'[c][Len(up[c]) + 1] = tag
         /\ \A d \in Conn \ {c} : up'[d] = up[d]
<1>1. up \in [Conn -> Seq(UpTag)] /\ up' = [up EXCEPT ![c] = Append(@, tag)]
  BY DEF ClientType, SendFrame
<1>2. up[c] \in Seq(UpTag) /\ up'[c] = Append(up[c], tag) /\ \A d \in Conn \ {c} : up'[d] = up[d]
  BY <1>1
<1>3. Append(up[c], tag) \in Seq(UpTag)
  BY <1>2, AppendProperties
<1>4. up' \in [Conn -> Seq(UpTag)]
  BY <1>1, <1>3
<1> QED BY <1>2, <1>4, AppendProperties, LenProperties

\* The one request of a connection is the first frame it sends.
LEMMA RequestInv ==
  ASSUME PhictlClients, RelayInv, NEW c \in Conn, Request(c) PROVE RelayInv'
<1>1. /\ UNCHANGED <<down, daemonOnly>> /\ cl[c].st = "open" /\ cl[c].reqs < MaxRequests
      /\ cl' = [cl EXCEPT ![c].reqs = @ + 1] /\ SendFrame(c, RequestTag[cl[c].kind])
  BY DEF Request
<1>2. /\ cl \in [Conn -> [st : {"off", "open", "closed"}, kind : Kinds \cup {"none"},
                          reqs : 0 .. MaxRequests, data : 0 .. MaxData, ended : BOOLEAN]]
      /\ \A d \in Conn : cl[d].kind = "none" => cl[d].st = "off"
  BY Zenon DEF RelayInv, TypeOK, ClientType
<1>3. cl[c].kind \in Kinds /\ cl[c].reqs = 0
  BY <1>1, <1>2 DEF PhictlClients
<1>4. RequestTag[cl[c].kind] \in UpTag
  <2>1. cl[c].kind \in {"exec", "put", "get", "ping", "stat", "sensors", "bad"}
    BY <1>3, KindAssumption DEF PhictlClients
  <2>2. /\ RequestTag["exec"] = "Exec" /\ RequestTag["put"] = "PutOpen" /\ RequestTag["get"] = "Get"
        /\ RequestTag["ping"] = "Ping" /\ RequestTag["stat"] = "Stat"
        /\ RequestTag["sensors"] = "Sensors" /\ RequestTag["bad"] = "Bad"
    BY DEF RequestTag
  <2> QED BY <2>1, <2>2 DEF UpTag, SessionRequest
<1>5. /\ up' \in [Conn -> Seq(UpTag)] /\ Len(up'[c]) = Len(up[c]) + 1
      /\ \A d \in Conn \ {c} : up'[d] = up[d]
  BY <1>1, <1>4, SendFrameType DEF RelayInv, TypeOK
<1>6. /\ \A d \in Conn : cl'[d].kind = cl[d].kind /\ cl'[d].st = cl[d].st
      /\ \A d \in Conn \ {c} : cl'[d].reqs = cl[d].reqs
      /\ cl'[c].reqs = 1
      /\ cl' \in [Conn -> [st : {"off", "open", "closed"}, kind : Kinds \cup {"none"},
                           reqs : 0 .. MaxRequests, data : 0 .. MaxData, ended : BOOLEAN]]
  BY <1>1, <1>2, <1>3 DEF PhictlClients
<1>7. ClientType'
  BY <1>1, <1>2, <1>5, <1>6 DEF RelayInv, TypeOK, ClientType
<1>8. DaemonType' /\ CardType' /\ SessionAgrees' /\ UNCHANGED <<pend, holder>>
  BY <1>1, ClientSide
<1>9. AskedOnce'
  <2>1. AskedOnce
    BY DEF RelayInv
  <2>2. up[c] = <<>> /\ pend[c] = <<>> /\ c # holder
    BY <1>3, <2>1 DEF AskedOnce
  <2>3. Len(up'[c]) = 1
    BY <1>5, <2>2
  <2>4. \A i \in 1 .. Len(up'[c]) : i = 1
    BY <2>3
  <2>5. \A i : i \notin 1 .. Len(pend[c])
    BY <2>2
  <2>6. ASSUME NEW d \in Conn
        PROVE  /\ \A i \in 1 .. Len(up'[d]) :
                    up'[d][i] \in SessionRequest => i = 1 /\ pend'[d] = <<>> /\ d # holder'
               /\ \A i \in 1 .. Len(pend'[d]) :
                    /\ pend'[d][i].who = d /\ pend'[d][i].tag \notin Polls
                    /\ pend'[d][i].tag \in SessionRequest => i = 1
               /\ d = holder' => pend'[d] = <<>>
               /\ cl'[d].reqs = 0 => up'[d] = <<>> /\ pend'[d] = <<>> /\ d # holder'
    <3>1. CASE d = c
      BY <1>6, <1>8, <2>2, <2>4, <2>5, <3>1
    <3>2. CASE d # c
      BY <1>5, <1>6, <1>8, <2>1, <3>2 DEF AskedOnce
    <3> QED BY <3>1, <3>2
  <2> QED BY <2>6 DEF AskedOnce
<1> QED BY <1>7, <1>8, <1>9 DEF RelayInv, TypeOK

\* A stream frame behind a client's request is no request.
LEMMA StreamSent ==
  ASSUME RelayInv, NEW c \in Conn, NEW tag \in Stream, SendFrame(c, tag), cl[c].reqs > 0,
         UNCHANGED <<pend, holder>>, \A d \in Conn : cl'[d].reqs = cl[d].reqs
  PROVE  AskedOnce'
<1>1. AskedOnce /\ tag \in UpTag /\ tag \notin SessionRequest
  BY DEF RelayInv, UpTag, Stream, SessionRequest
<1>2. /\ up'[c] = Append(up[c], tag) /\ Len(up'[c]) = Len(up[c]) + 1 /\ Len(up[c]) \in Nat
      /\ \A i \in 1 .. Len(up[c]) : up'[c][i] = up[c][i]
      /\ up'[c][Len(up[c]) + 1] = tag
      /\ \A d \in Conn \ {c} : up'[d] = up[d]
  BY <1>1, SendFrameType DEF RelayInv, TypeOK
<1>3. \A i \in 1 .. Len(up'[c]) : i \in 1 .. Len(up[c]) \/ i = Len(up[c]) + 1
  BY <1>2
<1>4. \A i \in 1 .. Len(up'[c]) :
         up'[c][i] \in SessionRequest => i \in 1 .. Len(up[c]) /\ up[c][i] \in SessionRequest
  BY <1>1, <1>2, <1>3
<1>5. cl'[c].reqs # 0
  <2>1. cl[c].reqs \in Nat
    BY Caps DEF RelayInv, TypeOK, ClientType
  <2> QED BY <2>1
<1>6. ASSUME NEW d \in Conn
      PROVE  /\ \A i \in 1 .. Len(up'[d]) :
                  up'[d][i] \in SessionRequest => i = 1 /\ pend'[d] = <<>> /\ d # holder'
             /\ \A i \in 1 .. Len(pend'[d]) :
                  /\ pend'[d][i].who = d /\ pend'[d][i].tag \notin Polls
                  /\ pend'[d][i].tag \in SessionRequest => i = 1
             /\ d = holder' => pend'[d] = <<>>
             /\ cl'[d].reqs = 0 => up'[d] = <<>> /\ pend'[d] = <<>> /\ d # holder'
  <2>1. CASE d = c
    BY <1>1, <1>4, <1>5, <2>1 DEF AskedOnce
  <2>2. CASE d # c
    BY <1>1, <1>2, <2>2 DEF AskedOnce
  <2> QED BY <2>1, <2>2
<1> QED BY <1>6 DEF AskedOnce

\* Input for a command, or the contents of a file.
LEMMA SendDataInv ==
  ASSUME RelayInv, NEW c \in Conn, SendData(c) PROVE RelayInv'
<1>1. /\ UNCHANGED <<down, daemonOnly>> /\ cl[c].reqs > 0 /\ cl[c].data < MaxData
      /\ cl[c].kind \in DOMAIN DataTag
      /\ cl' = [cl EXCEPT ![c].data = @ + 1] /\ SendFrame(c, DataTag[cl[c].kind])
  BY DEF SendData
<1>2. /\ cl \in [Conn -> [st : {"off", "open", "closed"}, kind : Kinds \cup {"none"},
                          reqs : 0 .. MaxRequests, data : 0 .. MaxData, ended : BOOLEAN]]
      /\ \A d \in Conn : cl[d].kind = "none" => cl[d].st = "off"
  BY Zenon DEF RelayInv, TypeOK, ClientType
<1>3. DataTag[cl[c].kind] \in Stream /\ Stream \subseteq UpTag
  BY <1>1 DEF DataTag, UpTag, Stream
<1>4. up' \in [Conn -> Seq(UpTag)]
  BY <1>1, <1>3, SendFrameType DEF RelayInv, TypeOK
<1>5. /\ \A d \in Conn : cl'[d].kind = cl[d].kind /\ cl'[d].st = cl[d].st /\ cl'[d].reqs = cl[d].reqs
      /\ cl' \in [Conn -> [st : {"off", "open", "closed"}, kind : Kinds \cup {"none"},
                           reqs : 0 .. MaxRequests, data : 0 .. MaxData, ended : BOOLEAN]]
  BY <1>1, <1>2, Caps
<1>6. ClientType'
  BY <1>1, <1>2, <1>4, <1>5 DEF RelayInv, TypeOK, ClientType
<1>7. DaemonType' /\ CardType' /\ SessionAgrees' /\ UNCHANGED <<pend, holder>>
  BY <1>1, ClientSide
<1>8. AskedOnce'
  BY <1>1, <1>3, <1>5, <1>7, StreamSent
<1> QED BY <1>6, <1>7, <1>8 DEF RelayInv, TypeOK

\* The end of the input, or of the file.
LEMMA SendEndInv ==
  ASSUME RelayInv, NEW c \in Conn, SendEnd(c) PROVE RelayInv'
<1>1. /\ UNCHANGED <<down, daemonOnly>> /\ cl[c].reqs > 0
      /\ cl[c].kind \in DOMAIN EndTag
      /\ cl' = [cl EXCEPT ![c].ended = TRUE] /\ SendFrame(c, EndTag[cl[c].kind])
  BY DEF SendEnd
<1>2. /\ cl \in [Conn -> [st : {"off", "open", "closed"}, kind : Kinds \cup {"none"},
                          reqs : 0 .. MaxRequests, data : 0 .. MaxData, ended : BOOLEAN]]
      /\ \A d \in Conn : cl[d].kind = "none" => cl[d].st = "off"
  BY Zenon DEF RelayInv, TypeOK, ClientType
<1>3. EndTag[cl[c].kind] \in Stream /\ Stream \subseteq UpTag
  BY <1>1 DEF EndTag, UpTag, Stream
<1>4. up' \in [Conn -> Seq(UpTag)]
  BY <1>1, <1>3, SendFrameType DEF RelayInv, TypeOK
<1>5. /\ \A d \in Conn : cl'[d].kind = cl[d].kind /\ cl'[d].st = cl[d].st /\ cl'[d].reqs = cl[d].reqs
      /\ cl' \in [Conn -> [st : {"off", "open", "closed"}, kind : Kinds \cup {"none"},
                           reqs : 0 .. MaxRequests, data : 0 .. MaxData, ended : BOOLEAN]]
  BY <1>1, <1>2
<1>6. ClientType'
  BY <1>1, <1>2, <1>4, <1>5 DEF RelayInv, TypeOK, ClientType
<1>7. DaemonType' /\ CardType' /\ SessionAgrees' /\ UNCHANGED <<pend, holder>>
  BY <1>1, ClientSide
<1>8. AskedOnce'
  BY <1>1, <1>3, <1>5, <1>7, StreamSent
<1> QED BY <1>6, <1>7, <1>8 DEF RelayInv, TypeOK

\* A client that reads, leaves, is refused or is killed sends nothing.
LEMMA LeaveInv ==
  ASSUME RelayInv, NEW c \in Conn, Receive(c) \/ Hangup(c) \/ Kill(c) PROVE RelayInv'
<1>1. /\ UNCHANGED <<up, daemonOnly>>
      /\ cl' = cl \/ (cl[c].st = "open" /\ cl' = [cl EXCEPT ![c].st = "closed"])
      /\ \/ down' = down \/ down' = [down EXCEPT ![c] = <<>>]
         \/ down[c] # <<>> /\ down' = [down EXCEPT ![c] = Tail(@)]
  BY DEF Receive, Hangup, Kill
<1>2. /\ cl \in [Conn -> [st : {"off", "open", "closed"}, kind : Kinds \cup {"none"},
                          reqs : 0 .. MaxRequests, data : 0 .. MaxData, ended : BOOLEAN]]
      /\ \A d \in Conn : cl[d].kind = "none" => cl[d].st = "off"
      /\ down \in [Conn -> Seq(CardFrame)]
  BY Zenon DEF RelayInv, TypeOK, ClientType
<1>3. down' \in [Conn -> Seq(CardFrame)]
  <2>1. <<>> \in Seq(CardFrame) /\ (down[c] # <<>> => Tail(down[c]) \in Seq(CardFrame))
    BY <1>2, EmptySeq, HeadTailProperties
  <2> QED BY <1>1, <1>2, <2>1
<1>4. /\ \A d \in Conn : cl'[d].reqs = cl[d].reqs /\ (cl'[d].kind = "none" => cl'[d].st = "off")
      /\ cl' \in [Conn -> [st : {"off", "open", "closed"}, kind : Kinds \cup {"none"},
                           reqs : 0 .. MaxRequests, data : 0 .. MaxData, ended : BOOLEAN]]
  <2>1. CASE cl' = cl
    BY <1>2, <2>1
  <2>2. CASE cl[c].st = "open" /\ cl' = [cl EXCEPT ![c].st = "closed"]
    <3>1. cl[c].kind # "none"
      BY <1>2, <2>2
    <3>2. /\ \A d \in Conn : cl'[d].reqs = cl[d].reqs /\ cl'[d].kind = cl[d].kind
          /\ \A d \in Conn \ {c} : cl'[d].st = cl[d].st
      BY <1>2, <2>2
    <3>3. cl' \in [Conn -> [st : {"off", "open", "closed"}, kind : Kinds \cup {"none"},
                            reqs : 0 .. MaxRequests, data : 0 .. MaxData, ended : BOOLEAN]]
      BY <1>2, <2>2
    <3> QED BY <1>2, <3>1, <3>2, <3>3
  <2> QED BY <1>1, <2>1, <2>2
<1>5. ClientType'
  BY <1>1, <1>3, <1>4 DEF RelayInv, TypeOK, ClientType
<1>6. DaemonType' /\ CardType' /\ SessionAgrees' /\ UNCHANGED <<pend, holder>>
  BY <1>1, ClientSide
<1>7. AskedOnce'
  BY <1>1, <1>4, <1>6, Caps, SameAsked DEF RelayInv
<1> QED BY <1>5, <1>6, <1>7 DEF RelayInv, TypeOK

----------------------------------------------------------------------------
(* The daemon's steps.                                                     *)

\* A set of numbers that is not empty has a least one.
LEMMA LeastNumber ==
  ASSUME NEW T, T \subseteq Nat, T # {}
  PROVE  \E x \in T : \A y \in T : x =< y
<1> DEFINE R == OpToRel(<, Nat)
<1>1. IsWellFoundedOn(R, Nat)
  BY NatLessThanWellFounded
<1>2. \A x, y \in Nat : y < x => <<y, x>> \in R
  BY DEF OpToRel
<1> HIDE DEF R
<1>3. PICK x \in T : \A y \in T : ~(<<y, x>> \in R)
  BY <1>1, WFMin, Zenon
<1>4. \A y \in T : ~(y < x)
  BY <1>2, <1>3
<1> QED BY <1>4

\* The steps that only move the daemon along its pass, or note a departure.
LEMMA QuietInv ==
  ASSUME RelayInv,
         UNCHANGED <<cl, up, down, backlog, slot, pend, holder, session, statQ, overrun, toCard,
                     h2c, c2h, agent>>,
         dead' \subseteq Connected, ready' \in BOOLEAN, busy' \in BOOLEAN, cur' \in 1 .. NSlots + 1,
         pc' \in {"accept", "read", "reap", "pick", "push", "deliver"}
  PROVE  RelayInv'
<1>1. UNCHANGED <<Way, Connected>>
  BY DEF Way, Connected
<1>2. ClientType' /\ DaemonType' /\ CardType'
  BY <1>1 DEF RelayInv, TypeOK, ClientType, DaemonType, CardType
<1>3. SessionAgrees'
  BY <1>1, SameSession DEF RelayInv
<1>4. AskedOnce'
  BY Caps, SameAsked DEF RelayInv
<1> QED BY <1>2, <1>3, <1>4 DEF RelayInv, TypeOK

\* A new client gets a free slot; nobody else loses theirs.
LEMMA AcceptInv ==
  ASSUME RelayInv, NEW c \in Conn, Accept(c) PROVE RelayInv'
<1> DEFINE free == {i \in Slots : slot[i] = None}
           first == CHOOSE i \in free : \A j \in free : i =< j
<1>1. /\ UNCHANGED <<cl, up, down, dead, holder, session, statQ, overrun, toCard, ready, pc, cur, busy,
                     h2c, c2h, agent>>
      /\ backlog' = backlog \ {c}
      /\ \/ free # {} /\ slot' = [slot EXCEPT ![first] = c] /\ pend' = [pend EXCEPT ![c] = <<>>]
         \/ UNCHANGED <<slot, pend>>
  BY DEF Accept, clientVars
<1>2. /\ slot \in [Slots -> Conn \cup {None}] /\ pend \in [Conn -> Seq(Frame)]
      /\ backlog \subseteq Conn
  BY Zenon DEF RelayInv, TypeOK, DaemonType
<1>3. /\ slot' \in [Slots -> Conn \cup {None}]
      /\ \A i \in Slots : slot'[i] = slot[i] \/ slot[i] = None
  <2>1. CASE UNCHANGED slot
    BY <1>2, <2>1
  <2>2. CASE free # {} /\ slot' = [slot EXCEPT ![first] = c]
    <3>1. free \subseteq Nat
      BY Caps DEF Slots
    <3>2. first \in free
      BY <2>2, <3>1, LeastNumber
    <3>3. first \in Slots /\ slot[first] = None
      BY <3>2
    <3> HIDE DEF first, free
    <3> QED BY <1>2, <2>2, <3>3
  <2> QED BY <1>1, <2>1, <2>2
<1> HIDE DEF first, free
<1>4. Connected \subseteq Connected'
  BY <1>3 DEF Connected
<1>5. /\ pend' \in [Conn -> Seq(Frame)]
      /\ \A d \in Conn : pend'[d] = pend[d] \/ pend'[d] = <<>>
  <2>1. <<>> \in Seq(Frame)
    BY EmptySeq
  <2> QED BY <1>1, <1>2, <2>1
<1>6. ClientType' /\ CardType'
  BY <1>1 DEF RelayInv, TypeOK, ClientType, CardType
<1>7. DaemonType'
  BY <1>1, <1>2, <1>3, <1>4, <1>5 DEF RelayInv, TypeOK, DaemonType
<1>8. SessionAgrees'
  BY <1>1, SameSession DEF RelayInv, Way
<1>9. AskedOnce'
  <2>1. AskedOnce
    BY DEF RelayInv
  <2>2. \A i : i \notin 1 .. Len(<<>>)
    OBVIOUS
  <2> QED BY <1>1, <1>5, <2>1, <2>2 DEF AskedOnce
<1> QED BY <1>6, <1>7, <1>8, <1>9 DEF RelayInv, TypeOK

\* The steps between the phases of a pass, and over clients not read.
LEMMA PassInv ==
  ASSUME RelayInv, AcceptEnd \/ ReadSkip \/ ReadEof \/ ReadBad \/ ReadEnd \/ DeliverNone
  PROVE  RelayInv'
<1>1. UNCHANGED <<cl, up, down, backlog, slot, pend, holder, session, statQ, overrun, toCard,
                  h2c, c2h, agent>>
  BY DEF AcceptEnd, ReadSkip, ReadEof, ReadBad, ReadEnd, DeliverNone, clientVars, relayVars
<1>2. /\ dead \subseteq Connected /\ ready \in BOOLEAN /\ cur \in 1 .. NSlots + 1
      /\ pc \in {"accept", "read", "reap", "pick", "push", "deliver"}
  BY Zenon DEF RelayInv, TypeOK, DaemonType
<1>3. dead' \subseteq Connected
  BY <1>2 DEF AcceptEnd, ReadSkip, ReadEof, ReadBad, ReadEnd, DeliverNone, relayVars, Connected
<1>4. ready' \in BOOLEAN
  <2>1. ready' = TRUE \/ ready' = ready
    BY DEF AcceptEnd, ReadSkip, ReadEof, ReadBad, ReadEnd, DeliverNone
  <2> QED BY <1>2, <2>1, Zenon
<1>5. busy' \in BOOLEAN
  <2>1. busy' = FALSE \/ busy' = busy
    BY DEF AcceptEnd, ReadSkip, ReadEof, ReadBad, ReadEnd, DeliverNone
  <2>2. busy \in BOOLEAN
    BY Zenon DEF RelayInv, TypeOK, DaemonType
  <2> QED BY <2>1, <2>2, Zenon
<1>6. cur' \in 1 .. NSlots + 1
  <2>1. cur' = 1 \/ cur' = cur \/ (cur \in Slots /\ cur' = cur + 1)
    BY DEF AcceptEnd, ReadSkip, ReadEof, ReadBad, ReadEnd, DeliverNone
  <2> QED BY <1>2, <2>1, Caps DEF Slots
<1>7. pc' \in {"accept", "read", "reap", "pick", "push", "deliver"}
  BY <1>2 DEF AcceptEnd, ReadSkip, ReadEof, ReadBad, ReadEnd, DeliverNone
<1> QED BY <1>1, <1>3, <1>4, <1>5, <1>6, <1>7, QuietInv

\* forward_frame leaves the card free, or not, unless it sees a request.
Sessions == {"none", "execOpen", "execClosed", "putOpen", "putClosed", "other"}

\* What one frame does to the session.
LEMMA SessionStep ==
  ASSUME NEW s \in Sessions, NEW tag
  PROVE  /\ SessionAfter(s, tag) \in Sessions
         /\ tag \in SessionRequest => SessionAfter(s, tag) # "none"
         /\ tag \notin SessionRequest => (SessionAfter(s, tag) = "none" <=> s = "none")
  BY DEF Sessions, SessionAfter, SessionRequest

\* What a client's queue does to a free card: its request, if there is one,
\* takes it.
LEMMA SessionReplay ==
  ASSUME NEW frames \in Seq(Frame)
  PROVE  /\ SessionAfterAll("none", frames) \in Sessions
         /\ NoneOf(frames, SessionRequest) => SessionAfterAll("none", frames) = "none"
         /\ frames # <<>> /\ OneOf(frames, SessionRequest, 1)
              => SessionAfterAll("none", frames) # "none"
<1> DEFINE n == Len(frames)
           asks == {i \in 1 .. n : frames[i].tag \in SessionRequest}
           last == IF asks = {} THEN 0 ELSE CHOOSE i \in asks : \A j \in asks : j =< i
           opened == IF asks = {} THEN "none" ELSE SessionAfter("none", frames[last].tag)
           ends == {i \in last + 1 .. n : SessionAfter(opened, frames[i].tag) # opened}
           end == CHOOSE i \in ends : \A j \in ends : i =< j
           s == IF ends = {} THEN opened ELSE SessionAfter(opened, frames[end].tag)
<1>1. SessionAfterAll("none", frames) = s
  BY DEF SessionAfterAll
<1>2. n \in Nat /\ "none" \in Sessions
  BY LenProperties DEF Sessions
<1>3. opened \in Sessions
  <2> HIDE DEF last, asks
  <2> QED BY <1>2, SessionStep
<1>4. s \in Sessions
  <2> HIDE DEF opened, ends, end
  <2> QED BY <1>3, SessionStep
<1>5. ASSUME last \in Nat, ends # {} PROVE end \in ends
  <2>1. ends \subseteq Nat
    <3>1. ends \subseteq last + 1 .. n
      <4> HIDE DEF last, opened, n
      <4> QED OBVIOUS
    <3> HIDE DEF ends, last, n
    <3>2. last + 1 .. n \subseteq Nat
      BY <1>2, <1>5
    <3> QED BY <3>1, <3>2
  <2> HIDE DEF ends
  <2> QED BY <1>5, <2>1, LeastNumber
<1>6. ASSUME NoneOf(frames, SessionRequest) PROVE s = "none"
  <2>1. asks = {}
    BY <1>6 DEF NoneOf
  <2>2. last = 0 /\ opened = "none"
    BY <2>1
  <2>3. \A i \in last + 1 .. n : frames[i].tag \notin SessionRequest
    BY <1>2, <1>6, <2>2 DEF NoneOf
  <2>4. ends = {}
    <3> HIDE DEF opened, last
    <3> QED BY <1>2, <2>2, <2>3, SessionStep
  <2> QED BY <2>2, <2>4
<1>7. ASSUME frames # <<>>, OneOf(frames, SessionRequest, 1) PROVE s # "none"
  <2>1. n > 0
    BY <1>2, <1>7, EmptySeq
  <2>2. asks = {1} /\ frames[1].tag \in SessionRequest
    BY <1>2, <1>7, <2>1 DEF OneOf
  <2>3. last = 1
    <3> HIDE DEF asks
    <3> QED BY <2>2
  <2>4. opened = SessionAfter("none", frames[1].tag)
    BY <2>2, <2>3
  <2>5. opened # "none"
    <3> HIDE DEF opened
    <3> QED BY <1>2, <2>2, <2>4, SessionStep
  <2>6. CASE ends = {}
    BY <2>5, <2>6
  <2>7. CASE ends # {}
    <3>1. end \in last + 1 .. n
      <4>1. end \in ends
        <5> HIDE DEF end, ends, last
        <5>1. last \in Nat
          BY <2>3
        <5> QED BY <1>5, <2>7, <5>1
      <4> HIDE DEF end
      <4> QED BY <4>1
    <3>2. frames[end].tag \notin SessionRequest
      <4> HIDE DEF end, last, n
      <4>1. end \in 1 .. n /\ end # 1
        BY <1>2, <2>3, <3>1
      <4> QED BY <1>7, <4>1 DEF OneOf, n
    <3>3. s = SessionAfter(opened, frames[end].tag)
      BY <2>7
    <3> HIDE DEF s, opened, end
    <3> QED BY <1>3, <2>5, <3>2, <3>3, SessionStep
  <2> QED BY <2>6, <2>7
<1> HIDE DEF s
<1> QED BY <1>1, <1>4, <1>6, <1>7

\* Frames that open nothing and are the session's own, or polls, join the
\* way to the card.
LEMMA WayAppend ==
  ASSUME RelayInv, NEW r \in Seq(Frame), Way' = Way \o r, UNCHANGED <<c2h, agent>>,
         holder' \in {None, holder}, session' = "none" <=> session = "none",
         NoneOf(r, SessionRequest), \A o \in Conn : holder \in {None, o} => OwnFrom(r, 1, o)
  PROVE  SessionAgrees'
<1>1. Way \in Seq(Frame) /\ SessionAgrees
  BY Queues DEF RelayInv
<1>2. NoneOf(Way, SessionRequest) => NoneOf(Way', SessionRequest)
  BY <1>1, ConcatQueue
<1>3. CASE session = "none"
  BY <1>1, <1>2, <1>3 DEF SessionAgrees
<1>4. CASE session # "none"
  <2>1. PICK o \in Conn : holder \in {None, o} /\ (Asking(o) \/ Serving(o) \/ Ended(o))
    BY <1>1, <1>4 DEF SessionAgrees
  <2>2. OwnFrom(r, 1, o) /\ holder' \in {None, o}
    BY <2>1
  <2>3. ASSUME Asking(o) PROVE Asking(o)'
    <3>1. PICK k \in 1 .. Len(Way) : OneOf(Way, SessionRequest, k) /\ OwnFrom(Way, k, o)
      BY <2>3 DEF Asking
    <3>2. /\ k \in 1 .. Len(Way \o r) /\ OneOf(Way \o r, SessionRequest, k)
          /\ OwnFrom(Way \o r, k, o)
      BY <1>1, <2>2, <3>1, ConcatOne
    <3> QED BY <2>3, <3>2 DEF Asking
  <2>4. ASSUME Serving(o) PROVE Serving(o)'
    <3>1. OwnFrom(Way \o r, 1, o)
      BY <1>1, <2>2, <2>4, ConcatQueue DEF Serving
    <3> QED BY <1>2, <2>4, <3>1 DEF Serving
  <2>5. ASSUME Ended(o) PROVE Ended(o)'
    BY <1>2, <2>5 DEF Ended
  <2> QED BY <1>4, <2>1, <2>2, <2>3, <2>4, <2>5 DEF SessionAgrees
<1> QED BY <1>3, <1>4

\* Appending to to_card appends to the way.
LEMMA ToCardAppend ==
  ASSUME TypeOK, NEW r \in Seq(Frame), toCard' = toCard \o r, h2c' = h2c
  PROVE  toCard' \in Seq(Frame) /\ Way' = Way \o r
<1>1. h2c \in Seq(Frame) /\ toCard \in Seq(Frame)
  BY Queues
<1>2. toCard \o r \in Seq(Frame) /\ (h2c \o toCard) \o r = h2c \o (toCard \o r)
  BY <1>1, ConcatProperties, ConcatAssociative
<1> QED BY <1>2 DEF Way

\* client_send keeps the sockets' types, and its target is a client.
LEMMA SendType ==
  ASSUME TypeOK, NEW c \in Connected, NEW f \in CardFrame, Send(c, f)
  PROVE  c \in Conn /\ down' \in [Conn -> Seq(CardFrame)] /\ dead' \subseteq Connected
<1>1. /\ slot \in [Slots -> Conn \cup {None}] /\ dead \subseteq Connected
      /\ down \in [Conn -> Seq(CardFrame)]
  BY Zenon DEF TypeOK, DaemonType, ClientType
<1>2. c \in Conn
  BY <1>1 DEF Connected
<1>3. Append(down[c], f) \in Seq(CardFrame)
  BY <1>1, <1>2, AppendProperties
<1> QED BY <1>1, <1>2, <1>3 DEF Send

\* Reading a frame takes the head of the client's socket: whatever is left
\* there is no request.
LEMMA ReadTail ==
  ASSUME RelayInv, NEW c \in Conn, up[c] # <<>>, up' = [up EXCEPT ![c] = Tail(@)]
  PROVE  /\ up' \in [Conn -> Seq(UpTag)] /\ Head(up[c]) \in UpTag /\ cl[c].reqs # 0
         /\ \A d \in Conn \ {c} : up'[d] = up[d]
         /\ \A i \in 1 .. Len(up'[c]) : up'[c][i] \notin SessionRequest
         /\ Head(up[c]) \in SessionRequest => pend[c] = <<>> /\ c # holder
<1>1. up \in [Conn -> Seq(UpTag)] /\ AskedOnce
  BY Zenon DEF RelayInv, TypeOK, ClientType
<1>2. /\ up[c] \in Seq(UpTag) /\ up'[c] = Tail(up[c]) /\ \A d \in Conn \ {c} : up'[d] = up[d]
  BY <1>1
<1>3. /\ Head(up[c]) \in UpTag /\ Tail(up[c]) \in Seq(UpTag) /\ Len(up[c]) \in Nat \ {0}
      /\ Len(Tail(up[c])) = Len(up[c]) - 1 /\ Head(up[c]) = up[c][1]
      /\ \A i \in 1 .. Len(up[c]) - 1 : Tail(up[c])[i] = up[c][i + 1]
  BY <1>2, HeadTailProperties, LenProperties, EmptySeq
<1>4. up' \in [Conn -> Seq(UpTag)]
  BY <1>1, <1>3
<1>5. \A i \in 1 .. Len(up[c]) - 1 : i + 1 \in 1 .. Len(up[c]) /\ i + 1 # 1
  BY <1>3
<1>6. \A i \in 1 .. Len(up'[c]) : up'[c][i] \notin SessionRequest
  BY <1>1, <1>2, <1>3, <1>5 DEF AskedOnce
<1>7. 1 \in 1 .. Len(up[c])
  BY <1>3
<1>8. cl[c].reqs # 0 /\ (Head(up[c]) \in SessionRequest => pend[c] = <<>> /\ c # holder)
  BY <1>1, <1>3, <1>7 DEF AskedOnce
<1> QED BY <1>2, <1>3, <1>4, <1>6, <1>8

\* ... so what a client asked for is still asked once, held back or not.
LEMMA ReadAsked ==
  ASSUME RelayInv, NEW c \in Conn, up[c] # <<>>, up' = [up EXCEPT ![c] = Tail(@)],
         UNCHANGED <<cl, holder>>,
         \/ pend' = pend
         \/ /\ pend' = [pend EXCEPT ![c] = Append(@, [tag |-> Head(up[c]), who |-> c])]
            /\ c # holder /\ [tag |-> Head(up[c]), who |-> c] \in Frame
            /\ Head(up[c]) \notin Polls
  PROVE  pend' \in [Conn -> Seq(Frame)] /\ AskedOnce'
<1> DEFINE tag == Head(up[c])
           f == [tag |-> tag, who |-> c]
<1>1. pend \in [Conn -> Seq(Frame)] /\ AskedOnce
  BY Zenon DEF RelayInv, TypeOK, DaemonType
<1>2. /\ cl[c].reqs # 0 /\ \A d \in Conn \ {c} : up'[d] = up[d]
      /\ \A i \in 1 .. Len(up'[c]) : up'[c][i] \notin SessionRequest
      /\ tag \in SessionRequest => pend[c] = <<>> /\ c # holder
  BY ReadTail
<1>3. f.tag = tag /\ f.who = c
  OBVIOUS
<1>4. CASE pend' = pend
  BY <1>1, <1>2, <1>4 DEF AskedOnce
<1>5. CASE /\ pend' = [pend EXCEPT ![c] = Append(@, f)]
           /\ c # holder /\ f \in Frame /\ tag \notin Polls
  <2> HIDE DEF f, tag
  <2>1. /\ pend[c] \in Seq(Frame) /\ pend'[c] = Append(pend[c], f)
        /\ \A d \in Conn \ {c} : pend'[d] = pend[d]
    BY <1>1, <1>5
  <2>2. /\ Append(pend[c], f) \in Seq(Frame) /\ Len(Append(pend[c], f)) = Len(pend[c]) + 1
        /\ \A i \in 1 .. Len(pend[c]) : Append(pend[c], f)[i] = pend[c][i]
        /\ Append(pend[c], f)[Len(pend[c]) + 1] = f /\ Len(pend[c]) \in Nat
    BY <1>5, <2>1, AppendProperties, LenProperties
  <2>3. pend' \in [Conn -> Seq(Frame)]
    BY <1>1, <1>5, <2>2
  <2>4. \A i \in 1 .. Len(pend'[c]) : i \in 1 .. Len(pend[c]) \/ i = Len(pend[c]) + 1
    BY <2>1, <2>2
  <2>5. tag \in SessionRequest => Len(pend[c]) + 1 = 1
    <3>1. tag \in SessionRequest => Len(pend[c]) = 0
      BY <1>2, EmptySeq
    <3> QED BY <3>1
  <2>6. \A i \in 1 .. Len(pend'[c]) :
           /\ pend'[c][i].who = c /\ pend'[c][i].tag \notin Polls
           /\ pend'[c][i].tag \in SessionRequest => i = 1
    <3>1. TAKE i \in 1 .. Len(pend'[c])
    <3>2. CASE i \in 1 .. Len(pend[c])
      BY <1>1, <2>1, <2>2, <3>2 DEF AskedOnce
    <3>3. CASE i = Len(pend[c]) + 1
      BY <1>3, <1>5, <2>1, <2>2, <2>5, <3>3
    <3> QED BY <2>4, <3>2, <3>3
  <2>7. ASSUME NEW d \in Conn
        PROVE  /\ \A i \in 1 .. Len(up'[d]) :
                    up'[d][i] \in SessionRequest => i = 1 /\ pend'[d] = <<>> /\ d # holder'
               /\ \A i \in 1 .. Len(pend'[d]) :
                    /\ pend'[d][i].who = d /\ pend'[d][i].tag \notin Polls
                    /\ pend'[d][i].tag \in SessionRequest => i = 1
               /\ d = holder' => pend'[d] = <<>>
               /\ cl'[d].reqs = 0 => up'[d] = <<>> /\ pend'[d] = <<>> /\ d # holder'
    <3>1. CASE d = c
      BY <1>2, <1>5, <2>6, <3>1
    <3>2. CASE d # c
      BY <1>1, <1>2, <2>1, <3>2 DEF AskedOnce
    <3> QED BY <3>1, <3>2
  <2>8. AskedOnce'
    BY <2>7 DEF AskedOnce
  <2> QED BY <2>3, <2>8
<1> QED BY <1>4, <1>5

\* What the daemon's steps do to the way to the card: nothing, or frames
\* that are no polls join it, or one Stat, whose requester is remembered.
WayGrows ==
  \/ UNCHANGED <<Way, statQ, overrun>>
  \/ \E r \in Seq(Frame) : Way' = Way \o r /\ NoneOf(r, Polls)
                           /\ UNCHANGED <<statQ, overrun>>
  \/ \E f \in Frame : /\ f.tag \in Polls /\ Way' = Way \o <<f>>
                      /\ statQ' = Remember(statQ, f.who)
                      /\ overrun' = (overrun \/ Len(statQ) >= StatCap)

\* What deliver finds in stat_q after handle_frame wrote another id: that
\* id last, and the StatCap - 1 before it as they were.
LEMMA RememberFacts ==
  ASSUME NEW q \in Seq(Conn), NEW c \in Conn
  PROVE  /\ Remember(q, c) \in Seq(Conn) /\ Len(Remember(q, c)) = Len(q) + 1
         /\ Remember(q, c)[Len(q) + 1] = c
         /\ \A i \in 1 .. Len(q) :
              (Len(q) + 1) - i < StatCap => Remember(q, c)[i] = q[i]
<1> DEFINE n == Len(q)
           p == [i \in 1 .. n + 1 |-> IF (n + 1 - i) % StatCap = 0 THEN c ELSE q[i]]
<1>1. /\ n \in Nat /\ StatCap \in Nat \ {0} /\ \A i \in 1 .. n : q[i] \in Conn
  BY LenProperties, ElementOfSeq, Caps
<1>2. p = Remember(q, c)
  BY DEF Remember
<1>3. (n + 1 - (n + 1)) % StatCap = 0
  <2>1. n + 1 - (n + 1) = StatCap * 0 + 0 /\ 0 \in 0 .. StatCap - 1 /\ n + 1 - (n + 1) \in Int
    BY <1>1
  <2> QED BY <1>1, <2>1, ModUnique
<1> HIDE DEF n, p
<1>4. ASSUME NEW i \in 1 .. n, (n + 1) - i < StatCap PROVE (n + 1 - i) % StatCap # 0
  <2>1. PICK r \in Int : r = n + 1 - i
    BY <1>1
  <2>2. r \in 0 .. StatCap - 1 /\ r # 0 /\ r = StatCap * 0 + r /\ 0 \in Int
    BY <1>1, <1>4, <2>1
  <2>3. r % StatCap = r
    BY <1>1, <2>2, ModUnique
  <2> QED BY <2>1, <2>2, <2>3
<1> USE DEF p
<1>5. n + 1 \in 1 .. n + 1 /\ \A i \in 1 .. n + 1 : i \in 1 .. n \/ i = n + 1
  BY <1>1
<1>6. \A i \in 1 .. n + 1 : p[i] \in Conn
  BY <1>1, <1>3, <1>5
<1>7. p \in Seq(Conn) /\ Len(p) = n + 1
  <2>1. p \in [1 .. n + 1 -> Conn] /\ n + 1 \in Nat
    BY <1>1, <1>6
  <2> HIDE DEF p
  <2> QED BY <2>1, IsASeq
<1>8. p[n + 1] = c
  BY <1>3, <1>5
<1>9. \A i \in 1 .. n : (n + 1) - i < StatCap => p[i] = q[i]
  BY <1>1, <1>4
<1> HIDE DEF p
<1> QED BY <1>2, <1>7, <1>8, <1>9 DEF n

\* handle_frame, of whichever kind the frame is.
LEMMA ReadFrameInv ==
  ASSUME RelayInv, ReadFrame PROVE RelayInv' /\ WayGrows /\ c2h' = c2h
<1> DEFINE c == slot[cur]
           tag == Head(up[c])
           f == [tag |-> tag, who |-> c]
<1>1. /\ cur \in Slots /\ c # None /\ up[c] # <<>> /\ HandleFrame(c, tag) /\ tag # "Bad"
      /\ up' = [up EXCEPT ![c] = Tail(@)]
      /\ busy' \in BOOLEAN /\ (cur' = cur \/ cur' = cur + 1)
      /\ UNCHANGED <<cl, backlog, slot, holder, ready, pc, h2c, c2h, agent>>
  BY DEF ReadFrame
<1>2. /\ slot \in [Slots -> Conn \cup {None}] /\ pend \in [Conn -> Seq(Frame)]
      /\ toCard \in Seq(Frame) /\ statQ \in Seq(Conn) /\ session \in Sessions
      /\ dead \subseteq Connected /\ down \in [Conn -> Seq(CardFrame)]
      /\ cur \in 1 .. NSlots + 1 /\ overrun \in BOOLEAN
  BY Zenon DEF RelayInv, TypeOK, ClientType, DaemonType, Sessions
<1>3. c \in Conn /\ c \in Connected
  BY <1>1, <1>2 DEF Connected
<1> HIDE DEF c
<1>4. /\ up' \in [Conn -> Seq(UpTag)] /\ tag \in UpTag
      /\ tag \in SessionRequest => pend[c] = <<>> /\ c # holder
  BY <1>1, <1>3, ReadTail
<1>5. UNCHANGED Connected /\ cur' \in 1 .. NSlots + 1
  BY <1>1, <1>2, Caps DEF Connected, Slots
<1>6. f.tag = tag /\ f.who = c
  OBVIOUS
<1>7. tag \notin DOMAIN LocalReply => f \in Frame
  <2>1. DOMAIN LocalReply = {"Sensors"}
    BY DEF LocalReply
  <2> QED BY <1>1, <1>3, <1>4, <2>1 DEF Frame, UpTag
<1> SUFFICES /\ pend' \in [Conn -> Seq(Frame)] /\ AskedOnce' /\ SessionAgrees'
             /\ down' \in [Conn -> Seq(CardFrame)] /\ dead' \subseteq Connected
             /\ session' \in Sessions /\ statQ' \in Seq(Conn) /\ toCard' \in Seq(Frame)
             /\ overrun' \in BOOLEAN /\ WayGrows
  <2>1. ClientType' /\ CardType'
    BY <1>1, <1>4 DEF RelayInv, TypeOK, ClientType, CardType
  <2>2. DaemonType'
    BY <1>1, <1>5 DEF RelayInv, TypeOK, DaemonType, Sessions
  <2> QED BY <1>1, <2>1, <2>2 DEF RelayInv, TypeOK
<1> HIDE DEF f, tag
<1>8. CASE /\ tag \in DOMAIN LocalReply /\ Send(c, [tag |-> LocalReply[tag], who |-> c])
           /\ UNCHANGED <<pend, session, statQ, overrun, toCard>>
  <2>1. [tag |-> LocalReply[tag], who |-> c] \in CardFrame
    BY <1>3, <1>8 DEF LocalReply, CardFrame
  <2>2. down' \in [Conn -> Seq(CardFrame)] /\ dead' \subseteq Connected
    BY <1>3, <1>8, <2>1, SendType DEF RelayInv
  <2>3. pend' \in [Conn -> Seq(Frame)] /\ AskedOnce'
    BY <1>1, <1>3, <1>8, ReadAsked
  <2>4. SessionAgrees'
    BY <1>1, <1>8, SameSession DEF RelayInv, Way
  <2>5. WayGrows
    BY <1>1, <1>8 DEF WayGrows, Way
  <2> QED BY <1>2, <1>8, <2>2, <2>3, <2>4, <2>5
<1>9. CASE /\ tag = "Stat" /\ toCard' = Append(toCard, f) /\ statQ' = Remember(statQ, c)
           /\ overrun' = (overrun \/ Len(statQ) >= StatCap)
           /\ UNCHANGED <<down, dead, pend, session>>
  <2>1. f \in Frame /\ f.tag \in Polls /\ f.tag \notin SessionRequest
    BY <1>6, <1>7, <1>9 DEF LocalReply, Polls, SessionRequest
  <2>2. toCard' = toCard \o <<f>> /\ <<f>> \in Seq(Frame)
    BY <1>2, <1>9, <2>1, AppendIsConcat
  <2>3. toCard' \in Seq(Frame) /\ Way' = Way \o <<f>>
    BY <1>1, <2>2, ToCardAppend DEF RelayInv
  <2>4. NoneOf(<<f>>, SessionRequest) /\ \A o \in Conn : OwnFrom(<<f>>, 1, o)
    BY <2>1, OneFrame
  <2>5. SessionAgrees'
    BY <1>1, <1>9, <2>2, <2>3, <2>4, WayAppend
  <2>6. pend' \in [Conn -> Seq(Frame)] /\ AskedOnce'
    BY <1>1, <1>3, <1>9, ReadAsked
  <2>7. statQ' \in Seq(Conn) /\ overrun' \in BOOLEAN
    <3>1. statQ' \in Seq(Conn)
      BY <1>2, <1>3, <1>9, RememberFacts
    <3>2. overrun' \in BOOLEAN
      BY <1>9, Zenon
    <3> QED BY <3>1, <3>2
  <2>8. WayGrows
    BY <1>6, <1>9, <2>1, <2>3 DEF WayGrows
  <2> QED BY <1>2, <1>9, <2>3, <2>5, <2>6, <2>7, <2>8
<1>10. CASE /\ tag \notin DOMAIN LocalReply \cup {"Stat"} /\ c = holder
            /\ session' = SessionAfter(session, tag) /\ toCard' = Append(toCard, f)
            /\ UNCHANGED <<down, dead, pend, statQ, overrun>>
  <2>1. f \in Frame /\ f.tag \notin SessionRequest /\ f.who = holder
    BY <1>4, <1>6, <1>7, <1>10
  <2>2. toCard' = toCard \o <<f>> /\ <<f>> \in Seq(Frame)
    BY <1>2, <1>10, <2>1, AppendIsConcat
  <2>3. toCard' \in Seq(Frame) /\ Way' = Way \o <<f>>
    BY <1>1, <2>2, ToCardAppend DEF RelayInv
  <2>4. /\ NoneOf(<<f>>, SessionRequest)
        /\ \A o \in Conn : holder \in {None, o} => OwnFrom(<<f>>, 1, o)
    BY <1>3, <1>10, <2>1, OneFrame, Caps
  <2>5. session' \in Sessions /\ (session' = "none" <=> session = "none")
    BY <1>2, <1>6, <1>10, <2>1, SessionStep
  <2>6. SessionAgrees'
    BY <1>1, <1>10, <2>2, <2>3, <2>4, <2>5, WayAppend
  <2>7. pend' \in [Conn -> Seq(Frame)] /\ AskedOnce'
    BY <1>1, <1>3, <1>10, ReadAsked
  <2>8. f.tag \notin Polls
    BY <1>4, <1>6, <1>10 DEF Polls, UpTag, SessionRequest, Stream
  <2>9. WayGrows
    BY <1>10, <2>2, <2>3, <2>8, OneFrame DEF WayGrows
  <2> QED BY <1>2, <1>10, <2>3, <2>5, <2>6, <2>7, <2>9
<1>11. CASE /\ tag \notin DOMAIN LocalReply \cup {"Stat"} /\ c # holder
            /\ pend' = [pend EXCEPT ![c] = Append(@, f)]
            /\ UNCHANGED <<down, dead, session, statQ, overrun, toCard>>
  <2>1. f \in Frame /\ tag \notin Polls
    BY <1>4, <1>7, <1>11 DEF Polls, UpTag, SessionRequest, Stream
  <2>2. pend' \in [Conn -> Seq(Frame)] /\ AskedOnce'
    BY <1>1, <1>3, <1>11, <2>1, ReadAsked DEF f, tag
  <2>3. SessionAgrees'
    BY <1>1, <1>11, SameSession DEF RelayInv, Way
  <2>4. WayGrows
    BY <1>1, <1>11 DEF WayGrows, Way
  <2> QED BY <1>2, <1>11, <2>2, <2>3, <2>4
<1> QED BY <1>1, <1>8, <1>9, <1>10, <1>11 DEF HandleFrame, f

\* A departed holder's session is closed on its behalf, and only its own.
LEMMA ReapInv == ASSUME RelayInv, Reap PROVE RelayInv' /\ WayGrows /\ c2h' = c2h
<1> DEFINE gone == dead \cap Connected
           close == IF holder \in gone THEN CloseFor(session) ELSE <<>>
           r == [i \in 1 .. Len(close) |-> [tag |-> close[i], who |-> holder]]
<1>1. /\ toCard' = toCard \o r
      /\ session' = IF close = <<>> THEN session ELSE SessionAfter(session, close[1])
      /\ holder' = HolderAfter(gone)
      /\ slot' = [i \in Slots |-> IF slot[i] \in gone THEN None ELSE slot[i]]
      /\ dead' = {}
      /\ pend' = [c \in Conn |-> IF c \in gone THEN <<>> ELSE pend[c]]
      /\ pc' = "pick"
      /\ UNCHANGED <<cl, up, down, backlog, statQ, overrun, ready, cur, busy, h2c, c2h, agent>>
  BY DEF Reap, clientVars
<1>2. /\ slot \in [Slots -> Conn \cup {None}] /\ pend \in [Conn -> Seq(Frame)]
      /\ holder \in Connected \cup {None} /\ session \in Sessions
  BY Zenon DEF RelayInv, TypeOK, DaemonType, Sessions
<1>3. /\ slot' \in [Slots -> Conn \cup {None}]
      /\ \A x \in Connected : x \notin gone => x \in Connected'
  BY <1>1, <1>2 DEF Connected
<1>4. /\ holder' \in Connected' \cup {None} /\ holder' \in {None, holder}
      /\ holder \in gone => holder \in Conn /\ holder # None
  BY <1>1, <1>2, <1>3, Caps DEF HolderAfter, Connected
<1>5. pend' \in [Conn -> Seq(Frame)] /\ \A c \in Conn : pend'[c] = pend[c] \/ pend'[c] = <<>>
  <2>1. <<>> \in Seq(Frame)
    BY EmptySeq
  <2> QED BY <1>1, <1>2, <2>1
<1>6. /\ r \in Seq(Frame) /\ NoneOf(r, SessionRequest) /\ NoneOf(r, Polls)
      /\ \A o \in Conn : holder \in {None, o} => OwnFrom(r, 1, o)
      /\ session' \in Sessions /\ (session' = "none" <=> session = "none")
  <2>1. CASE close = <<>>
    <3>1. r = <<>>
      BY <2>1
    <3>2. session' = session
      BY <1>1, <2>1
    <3> HIDE DEF r, close
    <3>3. r \in Seq(Frame)
      BY <3>1, EmptySeq
    <3>4. NoneOf(r, SessionRequest) /\ NoneOf(r, Polls) /\ \A o \in Conn : OwnFrom(r, 1, o)
      BY <3>1, EmptyQueue
    <3> QED BY <1>2, <3>2, <3>3, <3>4
  <2>2. CASE close # <<>>
    <3>1. PICK t \in {"StdinEof", "PutClose"} : close = <<t>> /\ holder \in gone
      BY <2>2 DEF CloseFor
    <3> DEFINE f == [tag |-> t, who |-> holder]
    <3> HIDE DEF close
    <3>2. r = <<f>>
      BY <3>1
    <3>3. session' = SessionAfter(session, t)
      BY <1>1, <3>1
    <3>4. t \in Stream /\ t \notin SessionRequest /\ t \notin Polls
      BY <3>1 DEF Stream, SessionRequest, Polls
    <3>5. f \in Frame /\ f.tag \notin SessionRequest /\ f.tag \notin Polls /\ f.who = holder
      BY <1>4, <3>1, <3>4 DEF Frame
    <3> HIDE DEF r, close, f
    <3>6. r \in Seq(Frame)
      BY <3>2, <3>5
    <3>7. NoneOf(r, SessionRequest) /\ NoneOf(r, Polls) /\ \A o \in Conn : holder \in {None, o} => OwnFrom(r, 1, o)
      BY <1>4, <3>1, <3>2, <3>5, OneFrame
    <3> QED BY <1>2, <3>3, <3>4, <3>6, <3>7, SessionStep
  <2> QED BY <2>1, <2>2
<1> HIDE DEF r, close, gone
<1>7. toCard' \in Seq(Frame) /\ Way' = Way \o r
  BY <1>1, <1>6, ToCardAppend DEF RelayInv
<1>8. SessionAgrees'
  BY <1>1, <1>4, <1>6, <1>7, WayAppend
<1>9. AskedOnce'
  <2>1. AskedOnce
    BY DEF RelayInv
  <2>2. \A i : i \notin 1 .. Len(<<>>)
    OBVIOUS
  <2> QED BY <1>1, <1>4, <1>5, <2>1, <2>2, Caps DEF AskedOnce
<1>10. ClientType' /\ CardType'
  BY <1>1 DEF RelayInv, TypeOK, ClientType, CardType
<1>11. DaemonType'
  BY <1>1, <1>3, <1>4, <1>5, <1>6, <1>7 DEF RelayInv, TypeOK, DaemonType, Sessions
<1>12. WayGrows
  BY <1>1, <1>6, <1>7 DEF WayGrows
<1> QED BY <1>1, <1>8, <1>9, <1>10, <1>11, <1>12 DEF RelayInv, TypeOK

\* A free card goes to a client whose frames are its own: a request first,
\* which makes the session, or the leavings of an earlier one.
LEMMA PickInv == ASSUME RelayInv, Pick PROVE RelayInv' /\ WayGrows /\ c2h' = c2h
<1> DEFINE waiting == {i \in Slots : slot[i] # None /\ pend[slot[i]] # <<>>}
           first == CHOOSE i \in waiting : \A j \in waiting : i =< j
           c == slot[first]
<1>1. /\ pc' = "push"
      /\ UNCHANGED <<cl, up, down, backlog, slot, dead, statQ, overrun, ready, cur, busy, h2c, c2h, agent>>
      /\ \/ /\ MayPick /\ waiting # {} /\ holder' = c
            /\ session' = SessionAfterAll(session, pend[c])
            /\ toCard' = toCard \o pend[c] /\ pend' = [pend EXCEPT ![c] = <<>>]
         \/ UNCHANGED <<holder, session, toCard, pend>>
  BY DEF Pick, clientVars
<1>2. /\ slot \in [Slots -> Conn \cup {None}] /\ pend \in [Conn -> Seq(Frame)]
      /\ dead \subseteq Connected /\ AskedOnce /\ SessionAgrees
  BY Zenon DEF RelayInv, TypeOK, DaemonType
<1>3. CASE UNCHANGED <<holder, session, toCard, pend>>
  <2>1. UNCHANGED <<Way, Connected>>
    BY <1>1, <1>3 DEF Way, Connected
  <2>2. ClientType' /\ CardType' /\ DaemonType'
    BY <1>1, <1>3, <2>1 DEF RelayInv, TypeOK, ClientType, CardType, DaemonType
  <2>3. SessionAgrees' /\ AskedOnce'
    BY <1>1, <1>3, <2>1, Caps, SameSession, SameAsked DEF RelayInv
  <2> QED BY <1>1, <2>1, <2>2, <2>3 DEF RelayInv, TypeOK, WayGrows
<1>4. CASE /\ MayPick /\ waiting # {} /\ holder' = c
           /\ session' = SessionAfterAll(session, pend[c])
           /\ toCard' = toCard \o pend[c] /\ pend' = [pend EXCEPT ![c] = <<>>]
  <2>1. first \in waiting
    <3>1. waiting \subseteq Nat
      BY Caps DEF Slots
    <3> HIDE DEF waiting
    <3> QED BY <1>4, <3>1, LeastNumber
  <2>2. c \in Conn /\ c \in Connected /\ pend[c] # <<>>
    <3>1. first \in Slots /\ slot[first] # None /\ pend[slot[first]] # <<>>
      BY <2>1
    <3> HIDE DEF first
    <3> QED BY <1>2, <3>1 DEF Connected
  <2> HIDE DEF c
  <2>3. session = "none" /\ holder = None
    BY <1>4 DEF MayPick
  <2>4. pend[c] \in Seq(Frame)
    BY <1>2, <2>2
  <2>5. /\ session' \in Sessions
        /\ NoneOf(pend[c], SessionRequest) => session' = "none"
        /\ OneOf(pend[c], SessionRequest, 1) => session' # "none"
    BY <1>4, <2>2, <2>3, <2>4, SessionReplay
  <2>6. NoneOf(pend[c], SessionRequest) \/ OneOf(pend[c], SessionRequest, 1)
    BY <1>2, <2>2 DEF AskedOnce, NoneOf, OneOf
  <2>7. OwnFrom(pend[c], 1, c)
    BY <1>2, <2>2 DEF AskedOnce, OwnFrom
  <2>8. toCard' \in Seq(Frame) /\ Way' = Way \o pend[c] /\ Way \in Seq(Frame)
    BY <1>1, <1>4, <2>4, ToCardAppend, Queues DEF RelayInv
  <2>9. agent.mode = "main" /\ NoneOf(Way, SessionRequest) /\ PollsFrom(c2h, 1)
    BY <1>2, <2>3 DEF SessionAgrees
  <2>10. SessionAgrees'
    <3>1. CASE NoneOf(pend[c], SessionRequest)
      <4>1. NoneOf(Way', SessionRequest)
        BY <2>4, <2>8, <2>9, <3>1, ConcatQueue
      <4> QED BY <1>1, <2>5, <2>9, <3>1, <4>1 DEF SessionAgrees
    <3>2. CASE OneOf(pend[c], SessionRequest, 1)
      <4>1. /\ Len(Way) + 1 \in 1 .. Len(Way') /\ OneOf(Way', SessionRequest, Len(Way) + 1)
            /\ OwnFrom(Way', Len(Way) + 1, c)
        BY <2>2, <2>4, <2>7, <2>8, <2>9, <3>2, ConcatNew, ConcatQueue
      <4>2. PICK o \in Conn : o = c
        BY <2>2
      <4>3. Asking(o)'
        BY <1>1, <2>9, <4>1, <4>2 DEF Asking
      <4> QED BY <1>4, <2>5, <3>2, <4>2, <4>3 DEF SessionAgrees
    <3> QED BY <2>6, <3>1, <3>2
  <2>11. /\ pend' \in [Conn -> Seq(Frame)] /\ pend'[c] = <<>>
         /\ \A d \in Conn \ {c} : pend'[d] = pend[d]
    <3>1. <<>> \in Seq(Frame)
      BY EmptySeq
    <3> QED BY <1>2, <1>4, <2>2, <3>1
  <2>12. AskedOnce'
    <3>1. \A i : i \notin 1 .. Len(<<>>)
      OBVIOUS
    <3>2. \A i \in 1 .. Len(up[c]) : up[c][i] \notin SessionRequest
      BY <1>2, <2>2 DEF AskedOnce
    <3>3. cl[c].reqs # 0
      BY <1>2, <2>2 DEF AskedOnce
    <3>4. ASSUME NEW d \in Conn
          PROVE  /\ \A i \in 1 .. Len(up'[d]) :
                      up'[d][i] \in SessionRequest => i = 1 /\ pend'[d] = <<>> /\ d # holder'
                 /\ \A i \in 1 .. Len(pend'[d]) :
                      /\ pend'[d][i].who = d /\ pend'[d][i].tag \notin Polls
                      /\ pend'[d][i].tag \in SessionRequest => i = 1
                 /\ d = holder' => pend'[d] = <<>>
                 /\ cl'[d].reqs = 0 => up'[d] = <<>> /\ pend'[d] = <<>> /\ d # holder'
      <4>1. CASE d = c
        BY <1>1, <2>11, <3>1, <3>2, <3>3, <4>1
      <4>2. CASE d # c
        BY <1>1, <1>2, <1>4, <2>11, <4>2 DEF AskedOnce
      <4> QED BY <4>1, <4>2
    <3> QED BY <3>4 DEF AskedOnce
  <2>13. ClientType' /\ CardType'
    BY <1>1 DEF RelayInv, TypeOK, ClientType, CardType
  <2>14. Connected' = Connected
    BY <1>1 DEF Connected
  <2>15. DaemonType'
    BY <1>1, <1>4, <2>2, <2>5, <2>8, <2>11, <2>14 DEF RelayInv, TypeOK, DaemonType, Sessions
  <2>16. NoneOf(pend[c], Polls)
    BY <1>2, <2>2 DEF AskedOnce, NoneOf
  <2>17. WayGrows
    BY <1>1, <2>4, <2>8, <2>16 DEF WayGrows
  <2> QED BY <1>1, <2>10, <2>12, <2>13, <2>15, <2>17 DEF RelayInv, TypeOK
<1> QED BY <1>1, <1>3, <1>4

\* Moving frames into the ring leaves the way as it is.
LEMMA PushInv ==
  ASSUME RelayInv, Push
  PROVE  /\ RelayInv' /\ Way' = Way
         /\ UNCHANGED <<down, statQ, overrun, c2h>>
<1> DEFINE m == Len(toCard)
           room == RingCap - Len(h2c)
           n == IF m =< room THEN m ELSE room
<1>1. /\ pc' = "deliver" /\ h2c' = h2c \o SubSeq(toCard, 1, n)
      /\ toCard' = SubSeq(toCard, n + 1, m)
      /\ UNCHANGED <<cl, up, down, backlog, slot, dead, pend, holder, session, statQ, overrun, ready, cur,
                     busy, c2h, agent>>
  BY DEF Push, clientVars
<1>2. /\ h2c \in Seq(Frame) /\ toCard \in Seq(Frame) /\ Len(h2c) \in Nat /\ m \in Nat
      /\ toCard = SubSeq(toCard, 1, m)
  BY Queues, SubSeqFull DEF RelayInv
<1>3. Len(h2c) =< RingCap
  BY Zenon DEF RelayInv, TypeOK, CardType
<1>4. n \in 0 .. m /\ n =< RingCap - Len(h2c)
  BY <1>2, <1>3, Caps
<1> HIDE DEF n, m, room
<1> DEFINE a == SubSeq(toCard, 1, n)
           b == SubSeq(toCard, n + 1, m)
<1>5. a \in Seq(Frame) /\ Len(a) = n /\ b \in Seq(Frame)
  <2>1. \A i \in 1 .. m : toCard[i] \in Frame
    BY <1>2, ElementOfSeq DEF m
  <2>2. (\A i \in 1 .. n : i \in 1 .. m) /\ (\A i \in n + 1 .. m : i \in 1 .. m)
    BY <1>2, <1>4
  <2>3. n \in Int /\ m \in Int /\ n + 1 \in Int /\ (~(1 =< n) => n = 0) /\ n - 1 + 1 = n
    BY <1>2, <1>4
  <2>4. a \in Seq(Frame) /\ Len(a) = IF 1 =< n THEN n - 1 + 1 ELSE 0
    BY <2>1, <2>2, <2>3, SubSeqProperties
  <2>5. b \in Seq(Frame)
    BY <2>1, <2>2, <2>3, SubSeqProperties
  <2> QED BY <2>3, <2>4, <2>5
<1>6. a \o b = toCard
  <2>1. 1 \in 1 .. m + 1 /\ n \in 1 - 1 .. m /\ m \in n .. m /\ m = Len(toCard)
    BY <1>2, <1>4 DEF m
  <2> QED BY <1>2, <2>1, ConcatAdjacentSubSeq
<1> HIDE DEF a, b
<1>7. h2c' = h2c \o a /\ toCard' = b
  BY <1>1 DEF a, b
<1>8. h2c' \in Seq(Frame) /\ Len(h2c') = Len(h2c) + n /\ toCard' \in Seq(Frame)
  BY <1>2, <1>5, <1>7, ConcatProperties
<1>9. Way' = Way
  <2>1. (h2c \o a) \o b = h2c \o (a \o b)
    <3>1. h2c \in Seq(Frame) /\ a \in Seq(Frame) /\ b \in Seq(Frame)
      BY <1>2, <1>5, Zenon
    <3>2. \A x, y, z \in Seq(Frame) : (x \o y) \o z = x \o (y \o z)
      BY ConcatAssociative
    <3> QED BY <3>1, <3>2, Zenon
  <2> QED BY <1>6, <1>7, <2>1 DEF Way
<1>10. Len(h2c') =< RingCap
  BY <1>2, <1>4, <1>8, Caps
<1>11. Connected' = Connected
  BY <1>1 DEF Connected
<1>12. ClientType' /\ CardType' /\ DaemonType'
  <2>1. ClientType' /\ CardType'
    BY <1>1, <1>8, <1>10 DEF RelayInv, TypeOK, ClientType, CardType
  <2>2. DaemonType'
    BY <1>1, <1>8, <1>11 DEF RelayInv, TypeOK, DaemonType
  <2> QED BY <2>1, <2>2
<1>13. SessionAgrees' /\ AskedOnce'
  BY <1>1, <1>9, Caps, SameSession, SameAsked DEF RelayInv
<1> QED BY <1>1, <1>9, <1>12, <1>13 DEF RelayInv, TypeOK

\* deliver: the end of the session is the last of its frames, so the card
\* is free of it when the daemon says so.
LEMMA DeliverFrameInv == ASSUME RelayInv, DeliverFrame PROVE RelayInv'
<1> DEFINE f == Head(c2h)
           stat == f.tag = "StatReply"
<1>1. /\ c2h # <<>> /\ c2h' = Tail(c2h) /\ Deliver(f) /\ pc' \in {"deliver", "accept"}
      /\ UNCHANGED <<cl, up, backlog, slot, pend, toCard, overrun, ready, cur, busy, h2c, agent>>
  BY DEF DeliverFrame, Deliver, clientVars
<1>2. c2h \in Seq(CardFrame) /\ statQ \in Seq(Conn) /\ Len(c2h) \in Nat
  BY Queues DEF RelayInv
<1>3. /\ Len(c2h) =< RingCap /\ holder \in Connected \cup {None} /\ session \in Sessions
      /\ dead \subseteq Connected /\ down \in [Conn -> Seq(CardFrame)]
      /\ SessionAgrees
  BY Zenon DEF RelayInv, TypeOK, ClientType, DaemonType, CardType, Sessions
<1>4. /\ f \in CardFrame /\ c2h' \in Seq(CardFrame) /\ Len(c2h') = Len(c2h) - 1
      /\ f = c2h[1] /\ 1 \in 1 .. Len(c2h)
  BY <1>1, <1>2, HeadTailProperties, LenProperties, EmptySeq
<1>5. Len(c2h') =< RingCap
  BY <1>2, <1>3, <1>4, Caps
<1>6. UNCHANGED <<Way, Connected>>
  BY <1>1 DEF Way, Connected
<1> HIDE DEF f
<1>7. statQ' \in Seq(Conn)
  <2>1. statQ' = statQ \/ (statQ # <<>> /\ statQ' = Tail(statQ))
    BY <1>1 DEF Deliver
  <2> QED BY <1>2, <2>1, HeadTailProperties
<1>8. down' \in [Conn -> Seq(CardFrame)] /\ dead' \subseteq Connected
  <2>1. UNCHANGED <<down, dead>> \/ \E t \in Connected : Send(t, f)
    BY <1>1 DEF Deliver
  <2> QED BY <1>3, <1>4, <2>1, SendType DEF RelayInv
<1>9. \/ ~stat /\ f.tag \in Terminator /\ session' = "none" /\ holder' = None
      \/ f.tag \notin Terminator /\ UNCHANGED <<session, holder>>
  BY <1>1 DEF Deliver, EndsSession, Terminator
<1>10. holder' \in Connected \cup {None} /\ session' \in Sessions /\ holder' \in {holder, None}
  BY <1>3, <1>9 DEF Sessions
<1>11. SessionAgrees'
  <2>1. \A o : /\ NoneOf(c2h, Terminator) => NoneOf(c2h', Terminator)
               /\ PollsFrom(c2h, 1) => PollsFrom(c2h', 1)
               /\ OwnFrom(c2h, 1, o) => OwnFrom(c2h', 1, o)
    BY <1>1, <1>2, TailQueue
  <2>2. ASSUME NEW k \in 1 .. Len(c2h), OneOf(c2h, Terminator, k), PollsFrom(c2h, k + 1)
        PROVE  /\ f.tag \in Terminator => PollsFrom(c2h', 1)
               /\ f.tag \notin Terminator =>
                    \E j \in 1 .. Len(c2h') : OneOf(c2h', Terminator, j) /\ PollsFrom(c2h', j + 1)
    <3>1. f.tag \in Terminator <=> 1 = k
      BY <1>4, <2>2 DEF OneOf
    <3>2. k = 1 \/ k > 1
      BY <1>2
    <3>3. /\ k > 1 => /\ k - 1 \in 1 .. Len(c2h') /\ OneOf(c2h', Terminator, k - 1)
                      /\ PollsFrom(c2h', (k - 1) + 1)
          /\ k = 1 => PollsFrom(c2h', 1)
      BY <1>1, <1>2, <2>2, TailOne
    <3> QED BY <3>1, <3>2, <3>3
  <2>3. CASE f.tag \notin Terminator /\ UNCHANGED <<session, holder>>
    <3>1. CASE session = "none"
      BY <1>1, <1>3, <1>6, <2>1, <2>3, <3>1 DEF SessionAgrees
    <3>2. CASE session # "none"
      <4>1. PICK o \in Conn : holder \in {None, o} /\ (Asking(o) \/ Serving(o) \/ Ended(o))
        BY <1>3, <3>2 DEF SessionAgrees
      <4>2. Asking(o) => Asking(o)'
        BY <1>1, <1>6, <2>1 DEF Asking
      <4>3. Serving(o) => Serving(o)'
        BY <1>1, <1>6, <2>1 DEF Serving
      <4>4. Ended(o) => Ended(o)'
        BY <1>1, <1>6, <2>1, <2>2, <2>3 DEF Ended
      <4> QED BY <2>3, <3>2, <4>1, <4>2, <4>3, <4>4 DEF SessionAgrees
    <3> QED BY <3>1, <3>2
  <2>4. CASE f.tag \in Terminator /\ session' = "none" /\ holder' = None
    <3>1. ~PollsFrom(c2h, 1) /\ ~NoneOf(c2h, Terminator)
      BY <1>4, <2>4 DEF PollsFrom, NoneOf, Polls, Terminator
    <3>2. session # "none"
      BY <1>3, <3>1 DEF SessionAgrees
    <3>3. PICK o \in Conn : Ended(o)
      BY <1>3, <3>1, <3>2 DEF SessionAgrees, Asking, Serving
    <3>4. PollsFrom(c2h', 1)
      BY <2>2, <2>4, <3>3 DEF Ended
    <3> QED BY <1>1, <1>6, <2>4, <3>3, <3>4 DEF SessionAgrees, Ended
  <2> QED BY <1>9, <2>3, <2>4
<1>12. AskedOnce'
  BY <1>1, <1>10, Caps, SameAsked DEF RelayInv
<1>13. ClientType' /\ CardType'
  BY <1>1, <1>4, <1>5, <1>8 DEF RelayInv, TypeOK, ClientType, CardType
<1>14. DaemonType'
  BY <1>1, <1>6, <1>7, <1>8, <1>10 DEF RelayInv, TypeOK, DaemonType, Sessions
<1> QED BY <1>11, <1>12, <1>13, <1>14 DEF RelayInv, TypeOK

----------------------------------------------------------------------------
(* The agent's steps.                                                      *)

\* What the agent's steps leave alone.
LEMMA AgentSide ==
  ASSUME RelayInv, UNCHANGED hostOnly
  PROVE  /\ ClientType' /\ DaemonType' /\ AskedOnce'
         /\ UNCHANGED <<session, holder, toCard, statQ, overrun, down>>
<1>1. UNCHANGED <<cl, up, down, backlog, slot, dead, pend, holder, session, statQ, overrun, toCard, ready,
                  pc, cur, busy, Connected>>
  BY DEF hostOnly, clientVars, relayVars, Connected
<1>2. ClientType' /\ DaemonType'
  BY <1>1 DEF RelayInv, TypeOK, ClientType, DaemonType
<1>3. AskedOnce'
  BY <1>1, Caps, SameAsked DEF RelayInv
<1> QED BY <1>1, <1>2, <1>3

\* The agent takes the head of the way.
LEMMA WayTail ==
  ASSUME RelayInv, h2c # <<>>, h2c' = Tail(h2c), toCard' = toCard
  PROVE  /\ Way \in Seq(Frame) /\ Way # <<>> /\ Way' = Tail(Way)
         /\ Head(h2c) = Way[1] /\ 1 \in 1 .. Len(Way) /\ Head(h2c) \in Frame
         /\ h2c' \in Seq(Frame) /\ Len(h2c') =< RingCap
<1>1. h2c \in Seq(Frame) /\ toCard \in Seq(Frame) /\ Way \in Seq(Frame) /\ Len(h2c) =< RingCap
  BY Queues DEF RelayInv, TypeOK, CardType
<1>2. /\ Head(h2c) \in Frame /\ Tail(h2c) \in Seq(Frame) /\ Head(h2c) = h2c[1]
      /\ Len(Tail(h2c)) = Len(h2c) - 1 /\ Len(h2c) \in Nat \ {0} /\ Len(toCard) \in Nat
      /\ \A i \in 1 .. Len(h2c) - 1 : Tail(h2c)[i] = h2c[i + 1]
  BY <1>1, HeadTailProperties, EmptySeq, LenProperties
<1>3. /\ Len(Way) = Len(h2c) + Len(toCard)
      /\ \A i \in 1 .. Len(h2c) + Len(toCard) :
           Way[i] = IF i =< Len(h2c) THEN h2c[i] ELSE toCard[i - Len(h2c)]
  BY <1>1, ConcatProperties DEF Way
<1>4. Way[1] = h2c[1] /\ 1 \in 1 .. Len(Way) /\ Len(Way) \in Nat \ {0}
  BY <1>2, <1>3
<1>5. Way # <<>>
  BY <1>4, EmptySeq
<1> DEFINE t == Tail(h2c)
           w == t \o toCard
           v == Tail(Way)
           a == Len(h2c)
           b == Len(toCard)
<1>6. /\ w \in Seq(Frame) /\ Len(w) = Len(t) + b
      /\ \A i \in 1 .. Len(t) + b : w[i] = IF i =< Len(t) THEN t[i] ELSE toCard[i - Len(t)]
  BY <1>1, <1>2, ConcatProperties
<1>7. /\ v \in Seq(Frame) /\ Len(v) = Len(Way) - 1
      /\ \A i \in 1 .. Len(v) : v[i] = Way[i + 1]
  BY <1>1, <1>5, HeadTailProperties
<1>8. /\ a \in Nat \ {0} /\ b \in Nat /\ Len(t) = a - 1 /\ Len(w) = a + b - 1 /\ Len(v) = a + b - 1
      /\ \A i \in 1 .. a - 1 : t[i] = h2c[i + 1]
      /\ \A i \in 1 .. a + b : Way[i] = IF i =< a THEN h2c[i] ELSE toCard[i - a]
      /\ \A i \in 1 .. a + b - 1 : w[i] = IF i =< a - 1 THEN t[i] ELSE toCard[i - (a - 1)]
      /\ \A i \in 1 .. a + b - 1 : v[i] = Way[i + 1]
  <2> HIDE DEF t, w, v
  <2>1. Len(t) = a - 1 /\ a \in Nat \ {0} /\ b \in Nat
    BY <1>2 DEF t
  <2>2. Len(w) = a + b - 1 /\ Len(v) = a + b - 1
    <3> HIDE DEF a, b
    <3>1. Len(Way) = a + b
      BY <1>3 DEF a, b
    <3> QED BY <1>6, <1>7, <2>1, <3>1
  <2>3. \A i \in 1 .. a - 1 : t[i] = h2c[i + 1]
    BY <1>2 DEF t
  <2>4. \A i \in 1 .. a + b : Way[i] = IF i =< a THEN h2c[i] ELSE toCard[i - a]
    BY <1>3
  <2>5. \A i \in 1 .. a + b - 1 : w[i] = IF i =< a - 1 THEN t[i] ELSE toCard[i - (a - 1)]
    <3> HIDE DEF a, b
    <3>1. Len(t) + b = a + b - 1
      BY <2>1
    <3> QED BY <1>6, <2>1, <3>1
  <2>6. \A i \in 1 .. a + b - 1 : v[i] = Way[i + 1]
    BY <1>7, <2>2
  <2> QED BY <2>1, <2>2, <2>3, <2>4, <2>5, <2>6
<1> HIDE DEF t, w, v, a, b
<1>9. \A i \in 1 .. a + b - 1 : w[i] = v[i]
  <2>1. TAKE i \in 1 .. a + b - 1
  <2>2. i + 1 \in 1 .. a + b /\ i \in Int
    BY <1>8
  <2>3. CASE i =< a - 1
    <3>1. i \in 1 .. a - 1 /\ i + 1 =< a
      BY <1>8, <2>3
    <3> QED BY <1>8, <2>2, <2>3, <3>1
  <2>4. CASE ~(i =< a - 1)
    <3>1. ~(i + 1 =< a) /\ i - (a - 1) = (i + 1) - a
      BY <1>8, <2>2, <2>4
    <3> QED BY <1>8, <2>2, <2>4, <3>1
  <2> QED BY <2>3, <2>4
<1>10. w = v
  BY <1>6, <1>7, <1>8, <1>9, SeqEqual
<1>11. Way' = Tail(Way)
  BY <1>10 DEF Way, w, v, t
<1>12. Len(Tail(h2c)) =< RingCap
  BY <1>1, <1>2, Caps
<1> QED BY <1>1, <1>2, <1>4, <1>5, <1>11, <1>12

\* Polls end no session, and are nobody's but their own.
LEMMA PollsOnly ==
  ASSUME NEW q, PollsFrom(q, 1), NEW o
  PROVE  NoneOf(q, Terminator) /\ NoneOf(q, SessionRequest) /\ OwnFrom(q, 1, o)
  BY DEF PollsFrom, NoneOf, OwnFrom, Polls, Terminator, SessionRequest

\* A reply is one more frame for the daemon.
LEMMA ReplyType ==
  ASSUME RelayInv, NEW tag, NEW c \in Conn, Reply(tag, c),
         tag \in Terminator \cup {"Stdout", "GetData", "StatReply", "SensorsReply"}
  PROVE  /\ [tag |-> tag, who |-> c] \in CardFrame /\ c2h \in Seq(CardFrame)
         /\ c2h' = c2h \o <<[tag |-> tag, who |-> c]>>
         /\ c2h' \in Seq(CardFrame) /\ Len(c2h') =< RingCap
         /\ <<[tag |-> tag, who |-> c]>> \in Seq(CardFrame)
<1> DEFINE f == [tag |-> tag, who |-> c]
<1>1. f \in CardFrame
  BY DEF CardFrame
<1>2. c2h \in Seq(CardFrame) /\ Len(c2h) < RingCap /\ c2h' = Append(c2h, f) /\ Len(c2h) \in Nat
  BY Queues DEF RelayInv, Reply
<1> HIDE DEF f
<1>3. /\ Append(c2h, f) = c2h \o <<f>> /\ Append(c2h, f) \in Seq(CardFrame)
      /\ Len(Append(c2h, f)) = Len(c2h) + 1 /\ <<f>> \in Seq(CardFrame)
  BY <1>1, <1>2, AppendProperties, AppendIsConcat
<1>4. Len(c2h') =< RingCap
  BY <1>2, <1>3, Caps
<1> QED BY <1>1, <1>2, <1>3, <1>4 DEF f

\* The agent drops or answers what opens nothing, outside a session, or
\* inside it without ending it: polls, or frames of the session it is in.
LEMMA AgentQuiet ==
  ASSUME RelayInv, NEW w \in Seq(CardFrame), c2h' = c2h \o w,
         UNCHANGED <<session, holder>>, agent'.mode = agent.mode, agent'.owner = agent.owner,
         \/ Way' = Way
         \/ Way # <<>> /\ Way' = Tail(Way) /\ Way[1].tag \notin SessionRequest,
         \/ PollsFrom(w, 1)
         \/ agent.mode # "main" /\ OwnFrom(w, 1, agent.owner) /\ NoneOf(w, Terminator)
  PROVE  SessionAgrees'
<1>1. Way \in Seq(Frame) /\ c2h \in Seq(CardFrame) /\ Len(Way) \in Nat /\ SessionAgrees
  <2>1. Way \in Seq(Frame) /\ c2h \in Seq(CardFrame) /\ SessionAgrees
    BY Queues DEF RelayInv
  <2> QED BY <2>1, LenProperties
<1>2. NoneOf(Way, SessionRequest) => NoneOf(Way', SessionRequest)
  BY <1>1, TailQueue
<1>3. ASSUME NEW o, OwnFrom(Way, 1, o) PROVE OwnFrom(Way', 1, o)
  BY <1>1, <1>3, TailQueue
<1>4. CASE session = "none"
  <2>1. agent.mode = "main" /\ NoneOf(Way, SessionRequest) /\ PollsFrom(c2h, 1)
    BY <1>1, <1>4 DEF SessionAgrees
  <2>2. PollsFrom(c2h', 1)
    BY <1>1, <2>1, ConcatQueue
  <2> QED BY <1>2, <1>4, <2>1, <2>2 DEF SessionAgrees
<1>5. CASE session # "none"
  <2>1. PICK o \in Conn : holder \in {None, o} /\ (Asking(o) \/ Serving(o) \/ Ended(o))
    BY <1>1, <1>5 DEF SessionAgrees
  <2>2. ASSUME Asking(o) PROVE Asking(o)'
    <3>1. agent.mode = "main" /\ PollsFrom(c2h, 1)
      BY <2>2 DEF Asking
    <3>2. PollsFrom(c2h', 1)
      BY <1>1, <3>1, ConcatQueue
    <3>3. PICK k \in 1 .. Len(Way) : OneOf(Way, SessionRequest, k) /\ OwnFrom(Way, k, o)
      BY <2>2 DEF Asking
    <3>4. CASE Way' = Way
      BY <3>1, <3>2, <3>3, <3>4 DEF Asking
    <3>5. CASE Way # <<>> /\ Way' = Tail(Way) /\ Way[1].tag \notin SessionRequest
      <4>1. 1 \in 1 .. Len(Way)
        BY <1>1, <3>3
      <4>2. k # 1
        BY <3>3, <3>5, <4>1 DEF OneOf
      <4>3. k > 1
        BY <1>1, <4>2
      <4>4. k - 1 \in 1 .. Len(Way') /\ OneOf(Way', SessionRequest, k - 1) /\ OwnFrom(Way', k - 1, o)
        BY <1>1, <3>3, <3>5, <4>3, TailOne
      <4> QED BY <3>1, <3>2, <4>4 DEF Asking
    <3> QED BY <3>4, <3>5
  <2>3. ASSUME Serving(o) PROVE Serving(o)'
    <3>1. agent.mode # "main" /\ agent.owner = o /\ NoneOf(c2h, Terminator) /\ OwnFrom(c2h, 1, o)
      BY <2>3 DEF Serving
    <3>2. OwnFrom(w, 1, o) /\ NoneOf(w, Terminator)
      BY <3>1, PollsOnly
    <3>3. NoneOf(c2h', Terminator) /\ OwnFrom(c2h', 1, o)
      BY <1>1, <3>1, <3>2, ConcatQueue
    <3> QED BY <1>2, <1>3, <2>3, <3>1, <3>3 DEF Serving
  <2>4. ASSUME Ended(o) PROVE Ended(o)'
    <3>1. agent.mode = "main" /\ OwnFrom(c2h, 1, o)
      BY <2>4 DEF Ended
    <3>2. PollsFrom(w, 1) /\ OwnFrom(w, 1, o) /\ NoneOf(w, Terminator)
      BY <3>1, PollsOnly
    <3>3. OwnFrom(c2h', 1, o)
      BY <1>1, <3>1, <3>2, ConcatQueue
    <3>4. PICK k \in 1 .. Len(c2h) : OneOf(c2h, Terminator, k) /\ PollsFrom(c2h, k + 1)
      BY <2>4 DEF Ended
    <3>5. k \in 1 .. Len(c2h') /\ OneOf(c2h', Terminator, k) /\ PollsFrom(c2h', k + 1)
      BY <1>1, <3>2, <3>4, ConcatOne
    <3> QED BY <1>2, <2>4, <3>1, <3>3, <3>5 DEF Ended
  <2> QED BY <1>5, <2>1, <2>2, <2>3, <2>4 DEF SessionAgrees
<1> QED BY <1>4, <1>5

\* The last reply of a session has nothing but polls behind it.
LEMMA LastReply ==
  ASSUME NEW q \in Seq(CardFrame), NEW o, NEW f \in CardFrame, f.tag \in Terminator, f.who = o,
         NoneOf(q, Terminator), OwnFrom(q, 1, o)
  PROVE  /\ OwnFrom(q \o <<f>>, 1, o)
         /\ \E k \in 1 .. Len(q \o <<f>>) :
              OneOf(q \o <<f>>, Terminator, k) /\ PollsFrom(q \o <<f>>, k + 1)
<1>1. /\ <<f>> \in Seq(CardFrame) /\ <<f>> # <<>> /\ OneOf(<<f>>, Terminator, 1)
      /\ OwnFrom(<<f>>, 1, o)
  BY OneFrame
<1> DEFINE r == <<f>>
<1>2. r \in Seq(CardFrame) /\ r # <<>> /\ OneOf(r, Terminator, 1) /\ OwnFrom(r, 1, o) /\ Len(r) = 1
  BY <1>1
<1> HIDE DEF r
<1>3. /\ OwnFrom(q \o r, 1, o) /\ Len(q) + 1 \in 1 .. Len(q \o r)
      /\ OneOf(q \o r, Terminator, Len(q) + 1)
  BY <1>2, ConcatQueue, ConcatNew
<1>4. Len(q \o r) = Len(q) + 1 /\ Len(q) \in Nat
  <2>1. Len(q \o r) = Len(q) + Len(r)
    BY <1>2, ConcatProperties
  <2> QED BY <1>2, <2>1, LenProperties
<1>5. PollsFrom(q \o r, (Len(q) + 1) + 1)
  <2>1. \A i : i \notin (Len(q) + 1) + 1 .. Len(q) + 1
    BY <1>4
  <2> QED BY <1>4, <2>1 DEF PollsFrom
<1> QED BY <1>3, <1>5 DEF r

\* Outside a session, a request at the agent is the one the daemon thinks
\* is being served.
LEMMA RequestSeen ==
  ASSUME RelayInv, agent.mode = "main", Way # <<>>, Way[1].tag \in SessionRequest
  PROVE  /\ session # "none"
         /\ \E o \in Conn : /\ holder \in {None, o} /\ Way[1].who = o /\ PollsFrom(c2h, 1)
                            /\ NoneOf(Tail(Way), SessionRequest) /\ OwnFrom(Tail(Way), 1, o)
<1>1. Way \in Seq(Frame) /\ SessionAgrees
  BY Queues DEF RelayInv
<1>2. 1 \in 1 .. Len(Way)
  <2>1. Len(Way) \in Nat \ {0}
    BY <1>1, EmptySeq
  <2> QED BY <2>1
<1>3. ~NoneOf(Way, SessionRequest)
  BY <1>2 DEF NoneOf
<1>4. session # "none"
  BY <1>1, <1>3 DEF SessionAgrees
<1>5. PICK o \in Conn : holder \in {None, o} /\ Asking(o)
  BY <1>1, <1>3, <1>4 DEF SessionAgrees, Serving, Ended
<1>6. PICK k \in 1 .. Len(Way) : OneOf(Way, SessionRequest, k) /\ OwnFrom(Way, k, o)
  BY <1>5 DEF Asking
<1>7. k = 1
  BY <1>2, <1>6 DEF OneOf
<1>8. NoneOf(Tail(Way), SessionRequest) /\ OwnFrom(Tail(Way), 1, o)
  BY <1>1, <1>6, <1>7, TailOne, TailQueue
<1>9. Way[1].who = o
  BY <1>2, <1>6, <1>7 DEF OwnFrom, Polls, SessionRequest
<1> QED BY <1>4, <1>5, <1>8, <1>9 DEF Asking

\* The agent opens the session the daemon thinks is running.
LEMMA AgentEnters ==
  ASSUME RelayInv, agent.mode = "main", Way # <<>>, Way[1].tag \in SessionRequest,
         Way' = Tail(Way), UNCHANGED <<session, holder, c2h>>,
         agent'.mode # "main", agent'.owner = Way[1].who
  PROVE  SessionAgrees'
<1>1. PICK o \in Conn : /\ holder \in {None, o} /\ Way[1].who = o /\ PollsFrom(c2h, 1)
                        /\ NoneOf(Tail(Way), SessionRequest) /\ OwnFrom(Tail(Way), 1, o)
  BY RequestSeen
<1>2. NoneOf(c2h, Terminator) /\ OwnFrom(c2h, 1, o)
  BY <1>1, PollsOnly
<1>3. Serving(o)'
  BY <1>1, <1>2 DEF Serving
<1> QED BY <1>1, <1>3, RequestSeen DEF SessionAgrees

\* The agent answers a request at once.
LEMMA AgentAnswers ==
  ASSUME RelayInv, agent.mode = "main", Way # <<>>, Way[1].tag \in SessionRequest,
         Way' = Tail(Way), UNCHANGED <<session, holder, agent>>,
         NEW f \in CardFrame, f.tag \in Terminator, f.who = Way[1].who, c2h' = c2h \o <<f>>
  PROVE  SessionAgrees'
<1>1. PICK o \in Conn : /\ holder \in {None, o} /\ Way[1].who = o /\ PollsFrom(c2h, 1)
                        /\ NoneOf(Tail(Way), SessionRequest) /\ OwnFrom(Tail(Way), 1, o)
  BY RequestSeen
<1>2. NoneOf(c2h, Terminator) /\ OwnFrom(c2h, 1, o) /\ c2h \in Seq(CardFrame)
  BY <1>1, PollsOnly, Queues DEF RelayInv
<1>3. /\ OwnFrom(c2h', 1, o)
      /\ \E k \in 1 .. Len(c2h') : OneOf(c2h', Terminator, k) /\ PollsFrom(c2h', k + 1)
  BY <1>1, <1>2, LastReply
<1>4. Ended(o)'
  BY <1>1, <1>3 DEF Ended
<1> QED BY <1>1, <1>4, RequestSeen DEF SessionAgrees

\* Inside a session the agent is where the daemon thinks it is.
LEMMA InSession ==
  ASSUME RelayInv, agent.mode # "main"
  PROVE  session # "none" /\ agent.owner \in Conn /\ holder \in {None, agent.owner}
         /\ Serving(agent.owner)
  BY DEF RelayInv, SessionAgrees, Asking, Serving, Ended

\* The agent ends its session.
LEMMA AgentLeaves ==
  ASSUME RelayInv, agent.mode # "main", Way' = Way \/ (Way # <<>> /\ Way' = Tail(Way)),
         UNCHANGED <<session, holder>>, agent'.mode = "main",
         NEW f \in CardFrame, f.tag \in Terminator, f.who = agent.owner, c2h' = c2h \o <<f>>
  PROVE  SessionAgrees'
<1>1. PICK o \in Conn : /\ o = agent.owner /\ session # "none" /\ holder \in {None, o} /\ Serving(o)
  BY InSession
<1>2. Way \in Seq(Frame) /\ c2h \in Seq(CardFrame)
  BY Queues DEF RelayInv
<1>3. NoneOf(Way', SessionRequest)
  BY <1>1, <1>2, TailQueue DEF Serving
<1>4. /\ OwnFrom(c2h', 1, o)
      /\ \E k \in 1 .. Len(c2h') : OneOf(c2h', Terminator, k) /\ PollsFrom(c2h', k + 1)
  BY <1>1, <1>2, LastReply DEF Serving
<1>5. Ended(o)'
  BY <1>3, <1>4 DEF Ended
<1> QED BY <1>1, <1>5 DEF SessionAgrees

\* Every step of the agent, by what it does to the two ways: it answers a
\* Stat, drops or takes in a frame that opens nothing, opens a session,
\* answers a request at once, or ends its session.
LEMMA AgentShape ==
  ASSUME RelayInv, AgentFrame
  PROVE  /\ UNCHANGED hostOnly /\ h2c # <<>> /\ h2c' = Tail(h2c)
         /\ \/ /\ Head(h2c).tag = "Stat" /\ agent' = agent
               /\ Reply("StatReply", Head(h2c).who)
            \/ /\ Head(h2c).tag \notin SessionRequest \cup Polls /\ c2h' = c2h
               /\ agent' \in {agent, [agent EXCEPT !.eof = TRUE]}
            \/ /\ Head(h2c).tag \in SessionRequest /\ agent.mode = "main"
               /\ \E m \in {"exec", "put", "get"} : Enter(m, Head(h2c).who)
            \/ /\ Head(h2c).tag \in SessionRequest /\ agent.mode = "main" /\ agent' = agent
               /\ \E t \in Terminator : Reply(t, Head(h2c).who)
            \/ /\ Head(h2c).tag \notin SessionRequest \cup Polls /\ agent.mode # "main"
               /\ \E t \in Terminator : Leave(t)
<1> DEFINE f == Head(h2c)
<1>1. UNCHANGED hostOnly /\ h2c # <<>> /\ h2c' = Tail(h2c)
  BY DEF AgentFrame
<1>2. toCard' = toCard
  BY <1>1 DEF hostOnly, relayVars
<1>3. f \in Frame /\ f = Way[1] /\ 1 \in 1 .. Len(Way)
  BY <1>1, <1>2, WayTail
<1>4. agent.mode \in StatModes
  BY DEF RelayInv, TypeOK, CardType, StatModes
<1>5. agent.mode # "main" => f.tag \notin SessionRequest
  BY <1>3, InSession DEF Serving, NoneOf
<1>6. f.tag # "Stat" => f.tag \notin Polls
  BY <1>3 DEF Frame, Polls, SessionRequest, Stream
<1>7. CASE f.tag = "Stat"
  <2>1. Reply("StatReply", f.who) /\ agent' = agent
    BY <1>4, <1>7 DEF AgentFrame
  <2> QED BY <1>1, <1>7, <2>1
<1>8. CASE f.tag # "Stat"
  <2>1. \/ agent.mode = "main" /\ (MainRequest(f) \/ MainStray(f))
        \/ agent.mode = "exec" /\ ExecFrame(f)
        \/ agent.mode = "put" /\ PutFrame(f)
        \/ agent.mode = "get" /\ Ignore
    BY <1>8 DEF AgentFrame
  <2> HIDE DEF f
  <2>2. CASE agent.mode = "main" /\ MainRequest(f)
    <3>1. f.tag \in SessionRequest
      BY <2>2 DEF MainRequest, SessionRequest
    <3>2. \/ \E m \in {"exec", "put", "get"} : Enter(m, f.who)
          \/ agent' = agent /\ \E t \in Terminator : Reply(t, f.who)
      BY <2>2 DEF MainRequest, Terminator
    <3> QED BY <1>1, <2>2, <3>1, <3>2 DEF f
  <2>3. CASE agent.mode = "main" /\ MainStray(f)
    <3>1. f.tag \notin SessionRequest /\ Ignore
      BY <1>3, <1>8, <2>3 DEF MainStray, Frame, f
    <3> QED BY <1>1, <1>6, <1>8, <3>1 DEF f, Ignore
  <2>4. CASE agent.mode = "exec" /\ ExecFrame(f)
    BY <1>1, <1>5, <1>6, <1>8, <2>4 DEF f, Ignore, ExecFrame
  <2>5. CASE agent.mode = "put" /\ PutFrame(f)
    <3>1. Ignore \/ \E t \in Terminator : Leave(t)
      BY <2>5 DEF PutFrame, Terminator
    <3> QED BY <1>1, <1>5, <1>6, <1>8, <2>5, <3>1 DEF f, Ignore
  <2>6. CASE agent.mode = "get" /\ Ignore
    BY <1>1, <1>5, <1>6, <1>8, <2>6 DEF f, Ignore
  <2> QED BY <2>1, <2>2, <2>3, <2>4, <2>5, <2>6
<1> QED BY <1>7, <1>8

\* One frame at the agent.
LEMMA AgentFrameInv == ASSUME RelayInv, AgentFrame PROVE RelayInv'
<1> DEFINE f == Head(h2c)
<1>1. UNCHANGED hostOnly /\ h2c # <<>> /\ h2c' = Tail(h2c)
  BY AgentShape
<1>2. /\ ClientType' /\ DaemonType' /\ AskedOnce' /\ UNCHANGED <<session, holder, toCard>>
  BY <1>1, AgentSide
<1>3. /\ Way \in Seq(Frame) /\ Way # <<>> /\ Way' = Tail(Way) /\ f = Way[1] /\ f \in Frame
      /\ h2c' \in Seq(Frame) /\ Len(h2c') =< RingCap
  BY <1>1, <1>2, WayTail
<1>4. /\ agent \in [up : BOOLEAN, mode : {"main", "exec", "put", "get"},
                    owner : Conn \cup {None}, eof : BOOLEAN, outs : 0 .. MaxOut]
      /\ c2h \in Seq(CardFrame) /\ Len(c2h) =< RingCap /\ 0 \in 0 .. MaxOut
  BY Caps DEF RelayInv, TypeOK, CardType
<1> SUFFICES /\ SessionAgrees'
             /\ c2h' \in Seq(CardFrame) /\ Len(c2h') =< RingCap
             /\ agent' \in [up : BOOLEAN, mode : {"main", "exec", "put", "get"},
                            owner : Conn \cup {None}, eof : BOOLEAN, outs : 0 .. MaxOut]
  BY <1>2, <1>3 DEF RelayInv, TypeOK, CardType
<1>5. f.who \in Conn
  BY <1>3 DEF Frame
<1> HIDE DEF f
<1>6. CASE f.tag = "Stat" /\ agent' = agent /\ Reply("StatReply", f.who)
  <2> DEFINE g == [tag |-> "StatReply", who |-> f.who]
  <2>1. /\ g \in CardFrame /\ c2h' = c2h \o <<g>> /\ c2h' \in Seq(CardFrame) /\ Len(c2h') =< RingCap
        /\ <<g>> \in Seq(CardFrame)
    BY <1>5, <1>6, ReplyType
  <2>2. g.tag \in Polls /\ f.tag \notin SessionRequest
    BY <1>6 DEF Polls, SessionRequest
  <2> HIDE DEF g
  <2>3. PollsFrom(<<g>>, 1)
    BY <2>2, OneFrame
  <2>4. SessionAgrees'
    BY <1>2, <1>3, <1>6, <2>1, <2>2, <2>3, AgentQuiet
  <2> QED BY <1>4, <1>6, <2>1, <2>4
<1>7. CASE /\ f.tag \notin SessionRequest \cup Polls /\ c2h' = c2h
           /\ agent' \in {agent, [agent EXCEPT !.eof = TRUE]}
  <2>1. /\ agent'.mode = agent.mode /\ agent'.owner = agent.owner
        /\ agent' \in [up : BOOLEAN, mode : {"main", "exec", "put", "get"},
                       owner : Conn \cup {None}, eof : BOOLEAN, outs : 0 .. MaxOut]
    BY <1>4, <1>7
  <2>2. <<>> \in Seq(CardFrame) /\ c2h' = c2h \o <<>> /\ PollsFrom(<<>>, 1)
    <3>1. <<>> \in Seq(CardFrame) /\ PollsFrom(<<>>, 1)
      BY EmptySeq, EmptyQueue
    <3>2. c2h \o <<>> = c2h
      BY <1>4, ConcatEmptySeq
    <3> QED BY <1>7, <3>1, <3>2
  <2>3. SessionAgrees'
    BY <1>2, <1>3, <1>7, <2>1, <2>2, AgentQuiet
  <2> QED BY <1>4, <1>7, <2>1, <2>3
<1>8. CASE /\ f.tag \in SessionRequest /\ agent.mode = "main"
           /\ \E m \in {"exec", "put", "get"} : Enter(m, f.who)
  <2>1. PICK m \in {"exec", "put", "get"} : Enter(m, f.who)
    BY <1>8
  <2>2. /\ agent'.mode = m /\ agent'.owner = f.who /\ c2h' = c2h
        /\ agent' \in [up : BOOLEAN, mode : {"main", "exec", "put", "get"},
                       owner : Conn \cup {None}, eof : BOOLEAN, outs : 0 .. MaxOut]
    BY <1>4, <1>5, <2>1 DEF Enter
  <2>3. SessionAgrees'
    BY <1>2, <1>3, <1>8, <2>2, AgentEnters
  <2> QED BY <1>4, <2>2, <2>3
<1>9. CASE /\ f.tag \in SessionRequest /\ agent.mode = "main" /\ agent' = agent
           /\ \E t \in Terminator : Reply(t, f.who)
  <2>1. PICK t \in Terminator : Reply(t, f.who)
    BY <1>9
  <2> DEFINE g == [tag |-> t, who |-> f.who]
  <2>2. /\ g \in CardFrame /\ c2h' = c2h \o <<g>> /\ c2h' \in Seq(CardFrame) /\ Len(c2h') =< RingCap
    BY <1>5, <2>1, ReplyType
  <2>3. g.tag \in Terminator /\ g.who = f.who
    OBVIOUS
  <2> HIDE DEF g
  <2>4. SessionAgrees'
    BY <1>2, <1>3, <1>9, <2>2, <2>3, AgentAnswers
  <2> QED BY <1>4, <1>9, <2>2, <2>4
<1>10. CASE /\ f.tag \notin SessionRequest \cup Polls /\ agent.mode # "main"
            /\ \E t \in Terminator : Leave(t)
  <2>1. PICK t \in Terminator : Leave(t)
    BY <1>10
  <2>2. agent.owner \in Conn
    BY <1>10, InSession
  <2> DEFINE g == [tag |-> t, who |-> agent.owner]
  <2>3. /\ g \in CardFrame /\ c2h' = c2h \o <<g>> /\ c2h' \in Seq(CardFrame) /\ Len(c2h') =< RingCap
    BY <2>1, <2>2, ReplyType DEF Leave
  <2>4. /\ agent'.mode = "main"
        /\ agent' \in [up : BOOLEAN, mode : {"main", "exec", "put", "get"},
                       owner : Conn \cup {None}, eof : BOOLEAN, outs : 0 .. MaxOut]
    BY <1>4, <2>1 DEF Leave
  <2>5. g.tag \in Terminator /\ g.who = agent.owner
    OBVIOUS
  <2> HIDE DEF g
  <2>6. SessionAgrees'
    BY <1>2, <1>3, <1>10, <2>3, <2>4, <2>5, AgentLeaves
  <2> QED BY <2>3, <2>4, <2>6
<1> QED BY <1>6, <1>7, <1>8, <1>9, <1>10, AgentShape DEF f

\* The agent's own steps: output and the end of a command or of a file.
LEMMA AgentOwnInv ==
  ASSUME RelayInv, AgentStart \/ AgentOutput \/ ExecExit \/ GetDone PROVE RelayInv'
<1>1. UNCHANGED hostOnly /\ h2c' = h2c
  BY DEF AgentStart, AgentOutput, ExecExit, GetDone
<1>2. /\ ClientType' /\ DaemonType' /\ AskedOnce' /\ UNCHANGED <<session, holder, toCard>>
  BY <1>1, AgentSide
<1>3. Way' = Way
  BY <1>1, <1>2 DEF Way
<1>4. /\ agent \in [up : BOOLEAN, mode : {"main", "exec", "put", "get"},
                    owner : Conn \cup {None}, eof : BOOLEAN, outs : 0 .. MaxOut]
      /\ c2h \in Seq(CardFrame) /\ Len(c2h) =< RingCap /\ 0 \in 0 .. MaxOut /\ MaxOut \in Nat
      /\ h2c \in Seq(Frame) /\ Len(h2c) =< RingCap
  BY Caps DEF RelayInv, TypeOK, CardType
<1> SUFFICES /\ SessionAgrees'
             /\ c2h' \in Seq(CardFrame) /\ Len(c2h') =< RingCap
             /\ agent' \in [up : BOOLEAN, mode : {"main", "exec", "put", "get"},
                            owner : Conn \cup {None}, eof : BOOLEAN, outs : 0 .. MaxOut]
  BY <1>1, <1>2, <1>4 DEF RelayInv, TypeOK, CardType
<1>5. CASE AgentStart
  <2>1. /\ agent'.mode = agent.mode /\ agent'.owner = agent.owner /\ c2h' = c2h
        /\ agent' \in [up : BOOLEAN, mode : {"main", "exec", "put", "get"},
                       owner : Conn \cup {None}, eof : BOOLEAN, outs : 0 .. MaxOut]
    BY <1>4, <1>5 DEF AgentStart
  <2> QED BY <1>2, <1>3, <1>4, <2>1, SameSession DEF RelayInv
<1>6. CASE AgentOutput
  <2>1. /\ agent.mode # "main" /\ agent.outs < MaxOut /\ agent' = [agent EXCEPT !.outs = @ + 1]
        /\ Reply(IF agent.mode = "exec" THEN "Stdout" ELSE "GetData", agent.owner)
    BY <1>6 DEF AgentOutput
  <2>2. PICK t \in {"Stdout", "GetData"} : Reply(t, agent.owner)
    BY <2>1
  <2>3. agent.owner \in Conn
    BY <2>1, InSession
  <2> DEFINE g == [tag |-> t, who |-> agent.owner]
  <2>4. /\ g \in CardFrame /\ c2h' = c2h \o <<g>> /\ c2h' \in Seq(CardFrame) /\ Len(c2h') =< RingCap
        /\ <<g>> \in Seq(CardFrame)
    BY <2>2, <2>3, ReplyType
  <2>5. /\ agent'.mode = agent.mode /\ agent'.owner = agent.owner
        /\ agent' \in [up : BOOLEAN, mode : {"main", "exec", "put", "get"},
                       owner : Conn \cup {None}, eof : BOOLEAN, outs : 0 .. MaxOut]
    BY <1>4, <2>1
  <2>6. g.tag \notin Terminator /\ g.who = agent.owner
    BY DEF Terminator
  <2> HIDE DEF g
  <2>7. OwnFrom(<<g>>, 1, agent.owner) /\ NoneOf(<<g>>, Terminator)
    BY <2>6, OneFrame
  <2>8. SessionAgrees'
    BY <1>2, <1>3, <2>1, <2>4, <2>5, <2>7, AgentQuiet
  <2> QED BY <2>4, <2>5, <2>8
<1>7. CASE ExecExit \/ GetDone
  <2>1. PICK t \in Terminator : Leave(t) /\ agent.mode # "main"
    BY <1>7 DEF ExecExit, GetDone, Terminator
  <2>2. agent.owner \in Conn
    BY <2>1, InSession
  <2> DEFINE g == [tag |-> t, who |-> agent.owner]
  <2>3. /\ g \in CardFrame /\ c2h' = c2h \o <<g>> /\ c2h' \in Seq(CardFrame) /\ Len(c2h') =< RingCap
    BY <2>1, <2>2, ReplyType DEF Leave
  <2>4. /\ agent'.mode = "main"
        /\ agent' \in [up : BOOLEAN, mode : {"main", "exec", "put", "get"},
                       owner : Conn \cup {None}, eof : BOOLEAN, outs : 0 .. MaxOut]
    BY <1>4, <2>1 DEF Leave
  <2>5. g.tag \in Terminator /\ g.who = agent.owner
    OBVIOUS
  <2> HIDE DEF g
  <2>6. SessionAgrees'
    BY <1>2, <1>3, <2>1, <2>3, <2>4, <2>5, AgentLeaves
  <2> QED BY <2>3, <2>4, <2>6
<1> QED BY <1>5, <1>6, <1>7

----------------------------------------------------------------------------
(* The invariant.                                                          *)

\* Nothing has been asked for at the start.
LEMMA InitInv == ASSUME Init PROVE RelayInv
<1>1. /\ cl = [c \in Conn |-> [st |-> "off", kind |-> "none", reqs |-> 0,
                               data |-> 0, ended |-> FALSE]]
      /\ up = [c \in Conn |-> <<>>] /\ down = [c \in Conn |-> <<>>]
      /\ pend = [c \in Conn |-> <<>>]
      /\ backlog = {} /\ slot = [i \in Slots |-> None] /\ dead = {}
      /\ holder = None /\ session = "none" /\ statQ = <<>> /\ toCard = <<>>
      /\ overrun = FALSE /\ ready = FALSE /\ pc = "accept" /\ cur = 1 /\ busy = FALSE
      /\ h2c = <<>> /\ c2h = <<>>
      /\ agent = [up |-> FALSE, mode |-> "main", owner |-> None, eof |-> FALSE, outs |-> 0]
  BY DEF Init
<1>2. \A S : <<>> \in Seq(S)
  BY EmptySeq
<1>3. Len(<<>>) = 0 /\ 0 =< RingCap /\ 0 \in 0 .. MaxOut /\ 0 \in 0 .. MaxRequests
      /\ 0 \in 0 .. MaxData /\ 1 \in 1 .. NSlots + 1
  BY Caps
<1>4. ClientType
  BY <1>1, <1>2, <1>3 DEF ClientType
<1>5. DaemonType
  BY <1>1, <1>2, <1>3 DEF DaemonType
<1>6. CardType
  BY <1>1, <1>2, <1>3 DEF CardType
<1>7. SessionAgrees
  <2>1. Way = <<>>
    <3>1. <<>> \o <<>> = <<>>
      BY <1>2, ConcatEmptySeq
    <3> QED BY <1>1, <3>1 DEF Way
  <2>2. NoneOf(Way, SessionRequest) /\ PollsFrom(c2h, 1)
    <3>1. c2h = <<>> /\ \A i : i \notin 1 .. Len(<<>>)
      BY <1>1
    <3> QED BY <2>1, <3>1 DEF NoneOf, PollsFrom
  <2>3. session = "none" /\ agent.mode = "main"
    BY <1>1
  <2> QED BY <2>2, <2>3 DEF SessionAgrees
<1>8. AskedOnce
  <2>1. \A i : i \notin 1 .. Len(<<>>)
    OBVIOUS
  <2>2. \A c \in Conn : up[c] = <<>> /\ pend[c] = <<>> /\ c # holder
    BY <1>1, Caps
  <2> QED BY <2>1, <2>2 DEF AskedOnce
<1> QED BY <1>4, <1>5, <1>6, <1>7, <1>8 DEF RelayInv, TypeOK

\* Every step keeps the invariant.
LEMMA NextInv ==
  ASSUME PhictlClients, RelayInv, [Next]_vars PROVE RelayInv'
<1>1. CASE ClientNext
  <2>1. PICK c \in Conn : \/ \E k \in Kinds : Connect(c, k)
                          \/ Request(c) \/ SendData(c) \/ SendEnd(c)
                          \/ Receive(c) \/ Hangup(c) \/ Kill(c)
    BY <1>1 DEF ClientNext
  <2> QED BY <2>1, ConnectInv, RequestInv, SendDataInv, SendEndInv, LeaveInv
<1>2. CASE DaemonNext
  BY <1>2, AcceptInv, PassInv, ReadFrameInv, ReapInv, PickInv, PushInv, DeliverFrameInv
     DEF DaemonNext
<1>3. CASE AgentNext
  BY <1>3, AgentFrameInv, AgentOwnInv DEF AgentNext
<1>4. CASE UNCHANGED vars
  <2>1. UNCHANGED <<cl, up, down, backlog, slot, dead, pend, holder, session, statQ, overrun, toCard, ready,
                    pc, cur, busy, h2c, c2h, agent>>
    BY <1>4 DEF vars, relayVars
  <2>2. /\ dead \subseteq Connected /\ ready \in BOOLEAN /\ busy \in BOOLEAN
        /\ cur \in 1 .. NSlots + 1
        /\ pc \in {"accept", "read", "reap", "pick", "push", "deliver"}
    BY Zenon DEF RelayInv, TypeOK, DaemonType
  <2>3. ready' \in BOOLEAN /\ busy' \in BOOLEAN
    BY <2>1, <2>2, Zenon
  <2>4. dead' \subseteq Connected /\ cur' \in 1 .. NSlots + 1
        /\ pc' \in {"accept", "read", "reap", "pick", "push", "deliver"}
    BY <2>1, <2>2
  <2> QED BY <2>1, <2>3, <2>4, QuietInv
<1> QED BY <1>1, <1>2, <1>3, <1>4 DEF Next

\* The daemon's session is the card's, for every number of clients, slots
\* and frames: it thinks a session runs exactly while one is asked for,
\* served or ending, whoever leaves in between (serve.S, agent.S).
THEOREM SessionIsCards == ASSUME PhictlClients PROVE Spec => []RelayInv
<1>1. Init => RelayInv
  BY InitInv
<1>2. RelayInv /\ [Next]_vars => RelayInv'
  BY NextInv
<1> QED BY <1>1, <1>2, PTL DEF Spec

\* What a client sends reaches its own session only, not the next one's.
THEOREM InputStaysHome == ASSUME PhictlClients PROVE Spec => []NoForeignInput
<1>1. RelayInv => NoForeignInput
  <2> SUFFICES ASSUME RelayInv, agent.mode \in {"exec", "put"}, h2c # <<>>,
                      Head(h2c).tag \in Stream
               PROVE  Head(h2c).who = agent.owner
    BY DEF NoForeignInput
  <2>1. Serving(agent.owner)
    BY InSession
  <2>2. h2c \in Seq(Frame) /\ toCard \in Seq(Frame)
    BY Queues DEF RelayInv
  <2>3. Len(h2c) \in Nat \ {0} /\ Len(toCard) \in Nat /\ Head(h2c) = h2c[1]
    BY <2>2, EmptySeq, LenProperties
  <2>4. 1 \in 1 .. Len(h2c) + Len(toCard) /\ 1 =< Len(h2c)
    BY <2>3
  <2>5. Head(h2c) = Way[1] /\ 1 \in 1 .. Len(Way)
    BY <2>2, <2>3, <2>4, ConcatProperties DEF Way
  <2> QED BY <2>1, <2>5 DEF Serving, OwnFrom, Polls, Stream
<1> QED BY <1>1, SessionIsCards, PTL

----------------------------------------------------------------------------
(* The queue of requesters.                                                *)

\* Three queues in a row, place by place.
LEMMA ThreeParts ==
  ASSUME NEW S, NEW X \in Seq(S), NEW Y \in Seq(S), NEW Z \in Seq(S)
  PROVE  /\ Len(X) \in Nat /\ Len(Y) \in Nat /\ Len(Z) \in Nat
         /\ X \o (Y \o Z) \in Seq(S)
         /\ Len(X \o (Y \o Z)) = Len(X) + Len(Y) + Len(Z)
         /\ \A i \in 1 .. Len(X) : (X \o (Y \o Z))[i] = X[i]
         /\ \A i \in Len(X) + 1 .. Len(X) + Len(Y) : (X \o (Y \o Z))[i] = Y[i - Len(X)]
         /\ \A i \in Len(X) + Len(Y) + 1 .. Len(X) + Len(Y) + Len(Z) :
              (X \o (Y \o Z))[i] = Z[i - Len(X) - Len(Y)]
<1> DEFINE x == Len(X)
           y == Len(Y)
           z == Len(Z)
           T == Y \o Z
           A == X \o T
<1>1. /\ T \in Seq(S) /\ Len(T) = y + z
      /\ \A i \in 1 .. y + z : T[i] = IF i =< y THEN Y[i] ELSE Z[i - y]
  BY ConcatProperties
<1> HIDE DEF T
<1>2. /\ A \in Seq(S) /\ Len(A) = x + Len(T)
      /\ \A i \in 1 .. x + Len(T) : A[i] = IF i =< x THEN X[i] ELSE T[i - x]
  <2>1. T \in Seq(S)
    BY <1>1
  <2> QED BY <2>1, ConcatProperties
<1>3. x \in Nat /\ y \in Nat /\ z \in Nat
  BY LenProperties
<1> HIDE DEF A, x, y, z
<1>4. Len(A) = x + y + z
  BY <1>1, <1>2, <1>3
<1>5. \A i \in 1 .. x : A[i] = X[i]
  <2>1. \A i \in 1 .. x : i \in 1 .. x + (y + z) /\ i =< x
    BY <1>3
  <2> QED BY <1>1, <1>2, <2>1
<1>6. \A i \in x + 1 .. x + y : A[i] = Y[i - x]
  <2>1. \A i \in x + 1 .. x + y : /\ i \in 1 .. x + (y + z) /\ ~(i =< x)
                                  /\ i - x \in 1 .. y + z /\ i - x =< y
    BY <1>3
  <2> QED BY <1>1, <1>2, <2>1
<1>7. \A i \in x + y + 1 .. x + y + z : A[i] = Z[i - x - y]
  <2>1. \A i \in x + y + 1 .. x + y + z :
           /\ i \in 1 .. x + (y + z) /\ ~(i =< x)
           /\ i - x \in 1 .. y + z /\ ~(i - x =< y) /\ (i - x) - y = i - x - y
    BY <1>3
  <2> QED BY <1>1, <1>2, <2>1
<1> QED BY <1>2, <1>3, <1>4, <1>5, <1>6, <1>7 DEF A, T, x, y, z

\* Where a poll was, it is recognised.
LEMMA MatchFacts ==
  ASSUME NEW q, NEW line, Matches(q, line)
  PROVE  \E at \in [1 .. Len(q) -> 1 .. Len(line)] :
           /\ \A j, k \in 1 .. Len(q) : j < k => at[j] < at[k]
           /\ \A i \in 1 .. Len(line) :
                line[i].tag \in Polls <=> \E k \in 1 .. Len(q) : at[k] = i
           /\ \A k \in 1 .. Len(q) : Len(q) - k < StatCap => line[at[k]].who = q[k]
           /\ \A k \in 1 .. Len(q) : line[at[k]].tag \in Polls
<1>1. PICK at \in [1 .. Len(q) -> 1 .. Len(line)] :
        /\ \A j, k \in 1 .. Len(q) : j < k => at[j] < at[k]
        /\ \A i \in 1 .. Len(line) :
             line[i].tag \in Polls <=> \E k \in 1 .. Len(q) : at[k] = i
        /\ \A k \in 1 .. Len(q) : Len(q) - k < StatCap => line[at[k]].who = q[k]
  BY DEF Matches
<1>2. \A k \in 1 .. Len(q) : line[at[k]].tag \in Polls
  BY <1>1
<1> QED BY <1>1, <1>2

\* Frames that are no polls may come, go and be replaced anywhere.
LEMMA MatchSplice ==
  ASSUME NEW S, NEW X \in Seq(S), NEW Y \in Seq(S), NEW W \in Seq(S), NEW Z \in Seq(S),
         NEW q \in Seq(Conn), NoneOf(Y, Polls), NoneOf(W, Polls), Matches(q, X \o (Y \o Z))
  PROVE  Matches(q, X \o (W \o Z))
<1> DEFINE A == X \o (Y \o Z)
           B == X \o (W \o Z)
           x == Len(X)
           y == Len(Y)
           w == Len(W)
           z == Len(Z)
           m == Len(q)
<1>1. /\ x \in Nat /\ y \in Nat /\ z \in Nat /\ Len(A) = x + y + z
      /\ \A i \in 1 .. x : A[i] = X[i]
      /\ \A i \in x + 1 .. x + y : A[i] = Y[i - x]
      /\ \A i \in x + y + 1 .. x + y + z : A[i] = Z[i - x - y]
  BY ThreeParts, SMTT(90)
<1>2. /\ w \in Nat /\ Len(B) = x + w + z
      /\ \A i \in 1 .. x : B[i] = X[i]
      /\ \A i \in x + 1 .. x + w : B[i] = W[i - x]
      /\ \A i \in x + w + 1 .. x + w + z : B[i] = Z[i - x - w]
  BY ThreeParts, SMTT(90)
<1>3. PICK at \in [1 .. m -> 1 .. Len(A)] :
        /\ \A j, k \in 1 .. m : j < k => at[j] < at[k]
        /\ \A i \in 1 .. Len(A) : A[i].tag \in Polls <=> \E k \in 1 .. m : at[k] = i
        /\ \A k \in 1 .. m : m - k < StatCap => A[at[k]].who = q[k]
        /\ \A k \in 1 .. m : A[at[k]].tag \in Polls
  BY MatchFacts
<1>4. /\ \A i \in 1 .. y : Y[i].tag \notin Polls
      /\ \A i \in 1 .. w : W[i].tag \notin Polls
  BY DEF NoneOf
<1> HIDE DEF A, B, x, y, z, w, m
<1> DEFINE To(i) == IF i =< x THEN i ELSE i - y + w
<1>5. \A i \in x + 1 .. x + y : A[i].tag \notin Polls
  <2>1. \A i \in x + 1 .. x + y : i - x \in 1 .. y
    BY <1>1
  <2> QED BY <1>1, <1>4, <2>1
<1>6. \A i \in x + 1 .. x + w : B[i].tag \notin Polls
  <2>1. \A i \in x + 1 .. x + w : i - x \in 1 .. w
    BY <1>1, <1>2
  <2> QED BY <1>2, <1>4, <2>1
<1>7. \A k \in 1 .. m : at[k] \in 1 .. x \/ at[k] \in x + y + 1 .. x + y + z
  <2>1. \A k \in 1 .. m : at[k] \in 1 .. x + y + z /\ at[k] \notin x + 1 .. x + y
    BY <1>1, <1>3, <1>5
  <2>2. \A i \in 1 .. x + y + z : i \in 1 .. x \/ i \in x + 1 .. x + y \/ i \in x + y + 1 .. x + y + z
    BY <1>1
  <2> QED BY <2>1, <2>2
<1>8. /\ \A i \in 1 .. x : To(i) = i /\ To(i) \in 1 .. x + w + z
      /\ \A i \in x + y + 1 .. x + y + z :
           To(i) = i - y + w /\ To(i) \in x + w + 1 .. x + w + z /\ To(i) \in 1 .. x + w + z
           /\ To(i) - x - w = i - x - y
  BY <1>1, <1>2
<1>9. \A i, j \in (1 .. x) \cup (x + y + 1 .. x + y + z) : /\ i < j => To(i) < To(j)
  BY <1>1, <1>2
<1>10. \A i \in (1 .. x) \cup (x + y + 1 .. x + y + z) : B[To(i)] = A[i]
  <2> HIDE DEF To
  <2> QED BY <1>1, <1>2, <1>8
<1>11. \A i \in 1 .. x + w + z :
         \/ i \in x + 1 .. x + w
         \/ \E j \in (1 .. x) \cup (x + y + 1 .. x + y + z) : To(j) = i
  <2>1. TAKE i \in 1 .. x + w + z
  <2>2. CASE i =< x
    <3>1. i \in 1 .. x
      BY <1>1, <2>2
    <3> HIDE DEF To
    <3> QED BY <1>8, <3>1
  <2>3. CASE i > x + w
    <3>1. i + y - w \in x + y + 1 .. x + y + z /\ (i + y - w) - y + w = i
      BY <1>1, <1>2, <2>3
    <3>2. To(i + y - w) = i
      <4> HIDE DEF To
      <4> QED BY <1>8, <3>1
    <3> HIDE DEF To
    <3> QED BY <3>1, <3>2
  <2>4. CASE i > x /\ i =< x + w
    BY <1>1, <1>2, <2>4
  <2> QED BY <1>1, <1>2, <2>2, <2>3, <2>4
<1>12. \A i \in (1 .. x) \cup (x + y + 1 .. x + y + z) : To(i) \notin x + 1 .. x + w
  BY <1>1, <1>2
<1>13. \A i, j \in (1 .. x) \cup (x + y + 1 .. x + y + z) : To(i) = To(j) => i = j
  BY <1>1, <1>2
<1>14. (1 .. x) \cup (x + y + 1 .. x + y + z) \subseteq 1 .. Len(A)
  BY <1>1
<1> DEFINE P == (1 .. x) \cup (x + y + 1 .. x + y + z)
           bt == [k \in 1 .. m |-> To(at[k])]
<1> HIDE DEF To
<1>15. /\ \A k \in 1 .. m : at[k] \in P
       /\ P \subseteq 1 .. Len(A) /\ \A i \in P : B[To(i)] = A[i] /\ To(i) \in 1 .. Len(B)
       /\ \A i, j \in P : (i < j => To(i) < To(j)) /\ (To(i) = To(j) => i = j)
       /\ \A i \in 1 .. Len(B) : B[i].tag \in Polls => \E j \in P : To(j) = i
  BY <1>2, <1>6, <1>7, <1>8, <1>9, <1>10, <1>11, <1>13, <1>14
<1> HIDE DEF P
<1>16. bt \in [1 .. m -> 1 .. Len(B)] /\ \A k \in 1 .. m : bt[k] = To(at[k])
  BY <1>15
<1> HIDE DEF bt
<1>17. \A j, k \in 1 .. m : j < k => bt[j] < bt[k]
  <2>1. SUFFICES ASSUME NEW j \in 1 .. m, NEW k \in 1 .. m, j < k PROVE bt[j] < bt[k]
    OBVIOUS
  <2>2. at[j] < at[k] /\ at[j] \in P /\ at[k] \in P
    BY <1>3, <1>15, <2>1
  <2>3. To(at[j]) < To(at[k])
    BY <1>15, <2>2, Zenon
  <2> QED BY <1>16, <2>3
<1>18. \A k \in 1 .. m : B[bt[k]] = A[at[k]]
  <2>1. TAKE k \in 1 .. m
  <2>2. at[k] \in P /\ bt[k] = To(at[k])
    BY <1>15, <1>16
  <2>3. B[To(at[k])] = A[at[k]]
    BY <1>15, <2>2, Zenon
  <2> QED BY <2>2, <2>3
<1>19. \A i \in 1 .. Len(B) : B[i].tag \in Polls <=> \E k \in 1 .. m : bt[k] = i
  <2>1. TAKE i \in 1 .. Len(B)
  <2>2. ASSUME B[i].tag \in Polls PROVE \E k \in 1 .. m : bt[k] = i
    <3>1. PICK j \in P : To(j) = i
      BY <1>15, <2>2
    <3>2. A[j].tag \in Polls /\ j \in 1 .. Len(A)
      BY <1>15, <2>2, <3>1
    <3>3. PICK k \in 1 .. m : at[k] = j
      BY <1>3, <3>2
    <3> QED BY <1>16, <3>1, <3>3
  <2>3. ASSUME NEW k \in 1 .. m, bt[k] = i PROVE B[i].tag \in Polls
    <3>1. A[at[k]].tag \in Polls
      BY <1>3
    <3>2. B[i] = A[at[k]]
      BY <1>18, <2>3
    <3> QED BY <3>1, <3>2
  <2> QED BY <2>2, <2>3
<1>20. \A k \in 1 .. m : m - k < StatCap => B[bt[k]].who = q[k]
  <2>1. SUFFICES ASSUME NEW k \in 1 .. m, m - k < StatCap PROVE B[bt[k]].who = q[k]
    OBVIOUS
  <2>2. A[at[k]].who = q[k]
    BY <1>3, <2>1
  <2> QED BY <1>18, <2>2
<1>21. Matches(q, B)
  BY <1>16, <1>17, <1>19, <1>20 DEF Matches, m
<1> QED BY <1>21 DEF B

\* A poll at the end of the line has its requester at the end of the queue.
LEMMA MatchAppend ==
  ASSUME NEW S, NEW L \in Seq(S), NEW f \in S, NEW q \in Seq(Conn), NEW c \in Conn,
         f.tag \in Polls, f.who = c, Matches(q, L)
  PROVE  Matches(Remember(q, c), Append(L, f))
<1> DEFINE n == Len(L)
           m == Len(q)
           M == Append(L, f)
           p == Remember(q, c)
<1>1. /\ n \in Nat /\ Len(M) = n + 1 /\ (\A i \in 1 .. n : M[i] = L[i]) /\ M[n + 1] = f
  BY AppendProperties, LenProperties
<1>2. /\ m \in Nat /\ Len(p) = m + 1 /\ p[m + 1] = c /\ StatCap \in Nat
      /\ \A i \in 1 .. m : (m + 1) - i < StatCap => p[i] = q[i]
  BY RememberFacts, LenProperties, Caps
<1>3. PICK at \in [1 .. m -> 1 .. n] :
        /\ \A j, k \in 1 .. m : j < k => at[j] < at[k]
        /\ \A i \in 1 .. n : L[i].tag \in Polls <=> \E k \in 1 .. m : at[k] = i
        /\ \A k \in 1 .. m : m - k < StatCap => L[at[k]].who = q[k]
        /\ \A k \in 1 .. m : L[at[k]].tag \in Polls
  BY MatchFacts
<1> HIDE DEF n, m, M, p
<1> DEFINE bt == [k \in 1 .. m + 1 |-> IF k = m + 1 THEN n + 1 ELSE at[k]]
<1>4. /\ \A k \in 1 .. m + 1 : k \in 1 .. m \/ k = m + 1
      /\ \A k \in 1 .. m : k \in 1 .. m + 1 /\ k # m + 1
      /\ \A i \in 1 .. n + 1 : i \in 1 .. n \/ i = n + 1
      /\ \A i \in 1 .. n : i \in 1 .. n + 1 /\ i # n + 1 /\ i < n + 1
      /\ n + 1 \in 1 .. n + 1 /\ m + 1 \in 1 .. m + 1
      /\ \A j, k \in 1 .. m + 1 : j < k => j \in 1 .. m
  BY <1>1, <1>2
<1>5. /\ bt \in [1 .. m + 1 -> 1 .. n + 1] /\ bt[m + 1] = n + 1
      /\ \A k \in 1 .. m : bt[k] = at[k] /\ at[k] \in 1 .. n
  BY <1>3, <1>4
<1> HIDE DEF bt
<1>6. \A j, k \in 1 .. m + 1 : j < k => bt[j] < bt[k]
  <2>1. SUFFICES ASSUME NEW j \in 1 .. m + 1, NEW k \in 1 .. m + 1, j < k PROVE bt[j] < bt[k]
    OBVIOUS
  <2>2. j \in 1 .. m
    BY <1>4, <2>1
  <2>3. CASE k \in 1 .. m
    BY <1>3, <1>5, <2>1, <2>2, <2>3
  <2>4. CASE k = m + 1
    <3>1. bt[j] \in 1 .. n /\ bt[k] = n + 1
      BY <1>5, <2>2, <2>4
    <3> QED BY <1>4, <3>1
  <2> QED BY <1>4, <2>3, <2>4
<1>7. \A i \in 1 .. n + 1 : M[i].tag \in Polls <=> \E k \in 1 .. m + 1 : bt[k] = i
  <2>1. TAKE i \in 1 .. n + 1
  <2>2. CASE i = n + 1
    BY <1>1, <1>4, <1>5, <2>2
  <2>3. CASE i \in 1 .. n
    <3>1. M[i] = L[i]
      BY <1>1, <2>3
    <3>2. (\E k \in 1 .. m + 1 : bt[k] = i) <=> (\E k \in 1 .. m : at[k] = i)
      BY <1>4, <1>5, <2>3
    <3> QED BY <1>3, <2>3, <3>1, <3>2
  <2> QED BY <1>4, <2>2, <2>3
<1>8. \A k \in 1 .. m + 1 : (m + 1) - k < StatCap => M[bt[k]].who = p[k]
  <2>1. SUFFICES ASSUME NEW k \in 1 .. m + 1, (m + 1) - k < StatCap PROVE M[bt[k]].who = p[k]
    OBVIOUS
  <2>2. CASE k = m + 1
    BY <1>1, <1>2, <1>5, <2>2
  <2>3. CASE k \in 1 .. m
    <3>1. bt[k] = at[k] /\ at[k] \in 1 .. n /\ p[k] = q[k] /\ m - k < StatCap
      BY <1>2, <1>5, <2>1, <2>3
    <3>2. M[bt[k]] = L[at[k]]
      BY <1>1, <3>1
    <3> QED BY <1>3, <2>3, <3>1, <3>2
  <2> QED BY <1>4, <2>2, <2>3
<1>9. Matches(p, M)
  <2>1. Len(p) = m + 1 /\ Len(M) = n + 1
    BY <1>1, <1>2
  <2>2. bt \in [1 .. Len(p) -> 1 .. Len(M)]
    BY <1>5, <2>1
  <2>3. \A j, k \in 1 .. Len(p) : j < k => bt[j] < bt[k]
    BY <1>6, <2>1
  <2>4. \A i \in 1 .. Len(M) : M[i].tag \in Polls <=> \E k \in 1 .. Len(p) : bt[k] = i
    BY <1>7, <2>1
  <2>5. \A k \in 1 .. Len(p) : Len(p) - k < StatCap => M[bt[k]].who = p[k]
    BY <1>8, <2>1
  <2> QED BY <2>2, <2>3, <2>4, <2>5, Zenon DEF Matches
<1> QED BY <1>9 DEF p, M

\* The poll at the head of the line is the oldest requester's, unless more
\* than StatCap wait.
LEMMA MatchTail ==
  ASSUME NEW S, NEW L \in Seq(S), L # <<>>, NEW q \in Seq(Conn), L[1].tag \in Polls,
         Matches(q, L)
  PROVE  /\ q # <<>> /\ (Len(q) =< StatCap => q[1] = L[1].who)
         /\ Matches(Tail(q), Tail(L))
<1> DEFINE n == Len(L)
           m == Len(q)
           M == Tail(L)
           p == Tail(q)
<1>1. /\ n \in Nat \ {0} /\ Len(M) = n - 1 /\ \A i \in 1 .. n - 1 : M[i] = L[i + 1]
  BY HeadTailProperties, LenProperties, EmptySeq
<1>2. m \in Nat /\ StatCap \in Nat
  BY LenProperties, Caps
<1>3. PICK at \in [1 .. m -> 1 .. n] :
        /\ \A j, k \in 1 .. m : j < k => at[j] < at[k]
        /\ \A i \in 1 .. n : L[i].tag \in Polls <=> \E k \in 1 .. m : at[k] = i
        /\ \A k \in 1 .. m : m - k < StatCap => L[at[k]].who = q[k]
        /\ \A k \in 1 .. m : L[at[k]].tag \in Polls
  BY MatchFacts
<1>4. 1 \in 1 .. n
  BY <1>1
<1>5. PICK k1 \in 1 .. m : at[k1] = 1
  BY <1>3, <1>4
<1>6. m > 0 /\ 1 \in 1 .. m
  BY <1>2, <1>5
<1>7. k1 = 1
  <2>1. ASSUME 1 < k1 PROVE FALSE
    <3>1. at[1] < at[k1] /\ at[1] \in 1 .. n
      BY <1>3, <1>6, <2>1
    <3> QED BY <1>5, <3>1
  <2> QED BY <1>2, <2>1
<1>8. q # <<>> /\ (m =< StatCap => q[1] = L[1].who)
  BY <1>2, <1>3, <1>5, <1>6, <1>7, EmptySeq
<1>9. /\ Len(p) = m - 1 /\ \A k \in 1 .. m - 1 : p[k] = q[k + 1]
  BY <1>8, HeadTailProperties
<1> HIDE DEF n, m, M, p
<1>10. /\ \A k \in 1 .. m - 1 : k + 1 \in 1 .. m /\ 1 < k + 1
       /\ \A i \in 1 .. n - 1 : i + 1 \in 1 .. n
       /\ \A k \in 1 .. m : k # 1 => k - 1 \in 1 .. m - 1 /\ (k - 1) + 1 = k
       /\ \A i \in 1 .. n : 1 < i => i - 1 \in 1 .. n - 1 /\ (i - 1) + 1 = i
       /\ \A j, k \in 1 .. m - 1 : j < k => j + 1 < k + 1
       /\ \A i, j \in 1 .. n : i < j => i - 1 < j - 1
       /\ \A i \in 1 .. n - 1 : i + 1 # 1 /\ \A j \in 1 .. n : j - 1 = i <=> j = i + 1
  BY <1>1, <1>2
<1>11. \A k \in 1 .. m - 1 : 1 < at[k + 1] /\ at[k + 1] \in 1 .. n
  BY <1>3, <1>5, <1>6, <1>7, <1>10
<1> DEFINE bt == [k \in 1 .. m - 1 |-> at[k + 1] - 1]
<1>12. /\ bt \in [1 .. m - 1 -> 1 .. n - 1] /\ \A k \in 1 .. m - 1 : bt[k] = at[k + 1] - 1
  BY <1>10, <1>11
<1> HIDE DEF bt
<1>13. \A j, k \in 1 .. m - 1 : j < k => bt[j] < bt[k]
  <2>1. SUFFICES ASSUME NEW j \in 1 .. m - 1, NEW k \in 1 .. m - 1, j < k PROVE bt[j] < bt[k]
    OBVIOUS
  <2>2. at[j + 1] < at[k + 1]
    BY <1>3, <1>10, <2>1
  <2>3. at[j + 1] - 1 < at[k + 1] - 1
    BY <1>10, <1>11, <2>2
  <2> QED BY <1>12, <2>3
<1>14. \A i \in 1 .. n - 1 : M[i].tag \in Polls <=> \E k \in 1 .. m - 1 : bt[k] = i
  <2>1. TAKE i \in 1 .. n - 1
  <2>2. M[i] = L[i + 1] /\ i + 1 \in 1 .. n /\ i + 1 # 1
    BY <1>1, <1>10
  <2>3. ASSUME M[i].tag \in Polls PROVE \E k \in 1 .. m - 1 : bt[k] = i
    <3>1. PICK k \in 1 .. m : at[k] = i + 1
      BY <1>3, <2>2, <2>3
    <3>2. k # 1
      BY <1>5, <1>7, <2>2, <3>1
    <3>3. k - 1 \in 1 .. m - 1 /\ (k - 1) + 1 = k
      BY <1>10, <3>2
    <3>4. bt[k - 1] = at[k] - 1 /\ (i + 1) - 1 = i
      BY <1>12, <3>3
    <3> QED BY <3>1, <3>3, <3>4
  <2>4. ASSUME NEW k \in 1 .. m - 1, bt[k] = i PROVE M[i].tag \in Polls
    <3>1. at[k + 1] = i + 1 /\ k + 1 \in 1 .. m
      BY <1>10, <1>11, <1>12, <2>4
    <3> QED BY <1>3, <2>2, <3>1
  <2> QED BY <2>3, <2>4
<1>15. \A k \in 1 .. m - 1 : (m - 1) - k < StatCap => M[bt[k]].who = p[k]
  <2>1. SUFFICES ASSUME NEW k \in 1 .. m - 1, (m - 1) - k < StatCap PROVE M[bt[k]].who = p[k]
    OBVIOUS
  <2>2. bt[k] \in 1 .. n - 1 /\ bt[k] + 1 = at[k + 1]
    BY <1>10, <1>11, <1>12
  <2>3. M[bt[k]] = L[at[k + 1]]
    BY <1>1, <2>2
  <2>4. m - (k + 1) < StatCap
    BY <1>2, <2>1
  <2> QED BY <1>3, <1>9, <1>10, <2>3, <2>4
<1>16. Matches(p, M)
  <2>1. Len(p) = m - 1 /\ Len(M) = n - 1
    BY <1>1, <1>9
  <2>2. bt \in [1 .. Len(p) -> 1 .. Len(M)]
    BY <1>12, <2>1
  <2>3. \A j, k \in 1 .. Len(p) : j < k => bt[j] < bt[k]
    BY <1>13, <2>1
  <2>4. \A i \in 1 .. Len(M) : M[i].tag \in Polls <=> \E k \in 1 .. Len(p) : bt[k] = i
    BY <1>14, <2>1
  <2>5. \A k \in 1 .. Len(p) : Len(p) - k < StatCap => M[bt[k]].who = p[k]
    BY <1>15, <2>1
  <2> QED BY <2>2, <2>3, <2>4, <2>5, Zenon DEF Matches
<1> QED BY <1>8, <1>16 DEF p, M, m

\* An answer takes the place of its question.
LEMMA MatchSame ==
  ASSUME NEW L, NEW M, NEW q, Len(M) = Len(L), Matches(q, L),
         \A i \in 1 .. Len(L) : /\ M[i].tag \in Polls <=> L[i].tag \in Polls
                                /\ M[i].who = L[i].who
  PROVE  Matches(q, M)
<1>1. PICK at \in [1 .. Len(q) -> 1 .. Len(L)] :
        /\ \A j, k \in 1 .. Len(q) : j < k => at[j] < at[k]
        /\ \A i \in 1 .. Len(L) : L[i].tag \in Polls <=> \E k \in 1 .. Len(q) : at[k] = i
        /\ \A k \in 1 .. Len(q) : Len(q) - k < StatCap => L[at[k]].who = q[k]
  BY DEF Matches
<1>2. \A i \in 1 .. Len(L) : M[i].tag \in Polls <=> \E k \in 1 .. Len(q) : at[k] = i
  BY <1>1
<1>3. \A k \in 1 .. Len(q) : Len(q) - k < StatCap => M[at[k]].who = q[k]
  BY <1>1
<1>4. at \in [1 .. Len(q) -> 1 .. Len(M)]
  OBVIOUS
<1>5. \A i \in 1 .. Len(M) : M[i].tag \in Polls <=> \E k \in 1 .. Len(q) : at[k] = i
  BY <1>2
<1>6. \A j, k \in 1 .. Len(q) : j < k => at[j] < at[k]
  BY <1>1
<1> QED BY <1>3, <1>4, <1>5, <1>6, Zenon DEF Matches

\* The frames of the line, whichever way they go.
AnyFrame == Frame \cup CardFrame

\* The line is a sequence, in two parts.
LEMMA LineParts ==
  ASSUME RelayInv
  PROVE  /\ c2h \in Seq(AnyFrame) /\ Way \in Seq(AnyFrame) /\ statQ \in Seq(Conn)
         /\ Line \in Seq(AnyFrame)
<1>1. c2h \in Seq(CardFrame) /\ Way \in Seq(Frame) /\ statQ \in Seq(Conn)
  BY Queues DEF RelayInv
<1>2. Frame \subseteq AnyFrame /\ CardFrame \subseteq AnyFrame
  BY DEF AnyFrame
<1>3. c2h \in Seq(AnyFrame)
  BY <1>1, <1>2, SeqMonotonic
<1>4. Way \in Seq(AnyFrame)
  BY <1>1, <1>2, SeqMonotonic
<1>5. Line \in Seq(AnyFrame)
  BY <1>3, <1>4, ConcatProperties DEF Line
<1> QED BY <1>1, <1>3, <1>4, <1>5

\* Concatenation of these queues.
LEMMA Joins ==
  /\ <<>> \in Seq(AnyFrame)
  /\ \A x \in Seq(AnyFrame) : x \o <<>> = x /\ <<>> \o x = x
  /\ \A x, y \in Seq(AnyFrame) : x \o y \in Seq(AnyFrame)
  /\ \A x, y, z \in Seq(AnyFrame) : (x \o y) \o z = x \o (y \o z)
  /\ \A f \in AnyFrame : <<f>> \in Seq(AnyFrame)
<1>1. <<>> \in Seq(AnyFrame)
  BY EmptySeq
<1>2. \A x \in Seq(AnyFrame) : x \o <<>> = x /\ <<>> \o x = x
  BY ConcatEmptySeq
<1>3. \A x, y \in Seq(AnyFrame) : x \o y \in Seq(AnyFrame)
  BY ConcatProperties
<1>4. \A x, y, z \in Seq(AnyFrame) : (x \o y) \o z = x \o (y \o z)
  BY ConcatAssociative
<1>5. \A f \in AnyFrame : <<f>> \in Seq(AnyFrame)
  OBVIOUS
<1> QED BY <1>1, <1>2, <1>3, <1>4, <1>5

\* ... which is associative.
LEMMA JoinsAssociate ==
  ASSUME NEW x \in Seq(AnyFrame), NEW y \in Seq(AnyFrame), NEW z \in Seq(AnyFrame)
  PROVE  (x \o y) \o z = x \o (y \o z)
  BY Joins

\* What joins the way to the card joins the line.
LEMMA GrowsOrder ==
  ASSUME RelayInv, StatOrder, WayGrows, c2h' = c2h PROVE StatOrder'
<1>1. /\ c2h \in Seq(AnyFrame) /\ Way \in Seq(AnyFrame) /\ statQ \in Seq(Conn)
      /\ Line \in Seq(AnyFrame) /\ Matches(statQ, Line)
  BY LineParts DEF StatOrder
<1>2. CASE UNCHANGED <<Way, statQ, overrun>>
  BY <1>2 DEF StatOrder, Line
<1>3. ASSUME NEW r \in Seq(Frame), Way' = Way \o r, NoneOf(r, Polls),
             UNCHANGED <<statQ, overrun>>
      PROVE  StatOrder'
  <2>1. r \in Seq(AnyFrame)
    <3>1. Frame \subseteq AnyFrame
      BY DEF AnyFrame
    <3> QED BY <3>1, SeqMonotonic
  <2>2. Line' = Line \o (r \o <<>>) /\ Line = Line \o (<<>> \o <<>>)
    <3>1. Line' = c2h \o (Way \o r)
      BY <1>3 DEF Line
    <3>2. c2h \in Seq(AnyFrame) /\ Way \in Seq(AnyFrame) /\ r \in Seq(AnyFrame)
      BY <1>1, <2>1
    <3>3. (c2h \o Way) \o r = c2h \o (Way \o r)
      BY <3>2, JoinsAssociate
    <3>4. r \o <<>> = r /\ Line \o <<>> = Line /\ <<>> \o <<>> = <<>>
      BY <1>1, <2>1, Joins, Zenon
    <3> QED BY <3>1, <3>3, <3>4 DEF Line
  <2>3. NoneOf(<<>>, Polls) /\ <<>> \in Seq(AnyFrame)
    <3>1. NoneOf(<<>>, Polls)
      BY DEF NoneOf
    <3> QED BY <3>1, Joins, Zenon
  <2>4. Matches(statQ, Line \o (<<>> \o <<>>))
    BY <1>1, <2>2
  <2>5. Matches(statQ, Line \o (r \o <<>>))
    BY <1>1, <1>3, <2>1, <2>3, <2>4, MatchSplice
  <2> QED BY <1>3, <2>2, <2>5 DEF StatOrder
<1>4. ASSUME NEW f \in Frame, f.tag \in Polls, Way' = Way \o <<f>>,
             statQ' = Remember(statQ, f.who), overrun' = (overrun \/ Len(statQ) >= StatCap)
      PROVE  StatOrder'
  <2>1. f \in AnyFrame /\ f.who \in Conn
    BY DEF AnyFrame, Frame
  <2>2. Line' = Append(Line, f)
    <3>1. Line' = c2h \o (Way \o <<f>>)
      BY <1>4 DEF Line
    <3>2. (c2h \o Way) \o <<f>> = c2h \o (Way \o <<f>>)
      <4>1. c2h \in Seq(AnyFrame) /\ Way \in Seq(AnyFrame) /\ <<f>> \in Seq(AnyFrame)
        BY <1>1, <2>1, Joins
      <4> QED BY <4>1, JoinsAssociate
    <3>3. Append(Line, f) = Line \o <<f>>
      BY <1>1, <2>1, AppendIsConcat
    <3> QED BY <3>1, <3>2, <3>3 DEF Line
  <2>3. Matches(Remember(statQ, f.who), Append(Line, f))
    BY <1>1, <1>4, <2>1, MatchAppend
  <2>4. Len(statQ') > StatCap => overrun'
    <3>1. Len(statQ') = Len(statQ) + 1 /\ Len(statQ) \in Nat /\ StatCap \in Nat
      BY <1>1, <1>4, <2>1, RememberFacts, LenProperties, Caps
    <3>2. Len(statQ') > StatCap => Len(statQ) >= StatCap
      BY <3>1
    <3> QED BY <1>4, <3>2, Zenon
  <2> QED BY <1>4, <2>2, <2>3, <2>4 DEF StatOrder
<1> QED BY <1>2, <1>3, <1>4 DEF WayGrows

\* What the agent's steps do to the way when they send w: nothing, or its
\* head goes, a poll for a poll of the same client.
AgentMoves(w) ==
  \/ Way' = Way /\ NoneOf(w, Polls)
  \/ Way # <<>> /\ Way' = Tail(Way) /\ Way[1].tag \notin Polls /\ NoneOf(w, Polls)
  \/ /\ Way # <<>> /\ Way' = Tail(Way) /\ Way[1].tag \in Polls
     /\ \E g \in AnyFrame : w = <<g>> /\ g.tag \in Polls /\ g.who = Way[1].who

\* The agent replaces the head of the way by its answer to it.
LEMMA AgentOrder ==
  ASSUME RelayInv, StatOrder, UNCHANGED <<statQ, overrun>>, NEW w \in Seq(AnyFrame), c2h' = c2h \o w,
         AgentMoves(w)
  PROVE  StatOrder'
<1>1. /\ c2h \in Seq(AnyFrame) /\ Way \in Seq(AnyFrame) /\ statQ \in Seq(Conn)
      /\ Line \in Seq(AnyFrame) /\ Matches(statQ, Line)
  BY LineParts DEF StatOrder
<1>2. CASE Way' = Way /\ NoneOf(w, Polls)
  <2>1. Line' = c2h \o (w \o Way) /\ Line = c2h \o (<<>> \o Way)
    <3>1. Line' = (c2h \o w) \o Way
      BY <1>2 DEF Line
    <3>2. (c2h \o w) \o Way = c2h \o (w \o Way) /\ <<>> \o Way = Way
      BY <1>1, Joins, ZenonT(60)
    <3> QED BY <3>1, <3>2 DEF Line
  <2>2. NoneOf(<<>>, Polls) /\ <<>> \in Seq(AnyFrame)
    <3>1. NoneOf(<<>>, Polls)
      BY DEF NoneOf
    <3> QED BY <3>1, Joins, Zenon
  <2>3. Matches(statQ, c2h \o (<<>> \o Way))
    BY <1>1, <2>1
  <2>4. Matches(statQ, c2h \o (w \o Way))
    BY <1>1, <1>2, <2>2, <2>3, MatchSplice
  <2> QED BY <2>1, <2>4 DEF StatOrder
<1>3. ASSUME Way # <<>>, Way' = Tail(Way)
      PROVE  /\ <<Way[1]>> \in Seq(AnyFrame) /\ Tail(Way) \in Seq(AnyFrame)
             /\ Line = c2h \o (<<Way[1]>> \o Tail(Way)) /\ Line' = c2h \o (w \o Tail(Way))
  <2>1. Tail(Way) \in Seq(AnyFrame) /\ Way[1] \in AnyFrame /\ Way = <<Way[1]>> \o Tail(Way)
    <3>1. Tail(Way) \in Seq(AnyFrame) /\ Head(Way) \in AnyFrame /\ Head(Way) = Way[1]
      BY <1>1, <1>3, HeadTailProperties
    <3>2. Len(Way) \in Nat \ {0} /\ SubSeq(Way, 1, Len(Way)) = Way /\ Tail(Way) = SubSeq(Way, 2, Len(Way))
      BY <1>1, <1>3, EmptySeq, SubSeqFull, TailIsSubSeq
    <3>3. 1 \in 1 .. Len(Way) /\ Len(Way) \in 1 .. Len(Way)
      BY <3>2
    <3>4. SubSeq(Way, 1, Len(Way)) = <<Way[1]>> \o SubSeq(Way, 1 + 1, Len(Way))
      BY <1>1, <3>3, SubSeqRecursiveFirst
    <3>5. 1 + 1 = 2
      OBVIOUS
    <3> QED BY <3>1, <3>2, <3>4, <3>5
  <2>2. <<Way[1]>> \in Seq(AnyFrame)
    BY <2>1, Joins
  <2>3. Line' = (c2h \o w) \o Tail(Way)
    BY <1>3 DEF Line
  <2>4. (c2h \o w) \o Tail(Way) = c2h \o (w \o Tail(Way))
    <3>1. c2h \in Seq(AnyFrame) /\ w \in Seq(AnyFrame) /\ Tail(Way) \in Seq(AnyFrame)
      BY <1>1, <2>1
    <3> QED BY <3>1, JoinsAssociate
  <2> QED BY <2>1, <2>2, <2>3, <2>4 DEF Line
<1>4. CASE Way # <<>> /\ Way' = Tail(Way) /\ Way[1].tag \notin Polls /\ NoneOf(w, Polls)
  <2>1. NoneOf(<<Way[1]>>, Polls)
    BY <1>4, OneFrame
  <2>2. Matches(statQ, c2h \o (<<Way[1]>> \o Tail(Way)))
    BY <1>1, <1>3, <1>4
  <2>3. Matches(statQ, c2h \o (w \o Tail(Way)))
    BY <1>1, <1>3, <1>4, <2>1, <2>2, MatchSplice
  <2> QED BY <1>3, <1>4, <2>3 DEF StatOrder
<1>5. CASE /\ Way # <<>> /\ Way' = Tail(Way) /\ Way[1].tag \in Polls
           /\ \E g \in AnyFrame : w = <<g>> /\ g.tag \in Polls /\ g.who = Way[1].who
  <2> DEFINE X == c2h
             Z == Tail(Way)
             u == <<Way[1]>>
             L == X \o (u \o Z)
             M == X \o (w \o Z)
             x == Len(X)
             z == Len(Z)
  <2>1. /\ X \in Seq(AnyFrame) /\ Z \in Seq(AnyFrame) /\ u \in Seq(AnyFrame)
        /\ Line = L /\ Line' = M
    BY <1>1, <1>3, <1>5
  <2>2. /\ Len(u) = 1 /\ Len(w) = 1 /\ u[1] = Way[1]
        /\ w[1].tag \in Polls /\ w[1].who = Way[1].who
    BY <1>5
  <2> HIDE DEF X, Z, u
  <2>3. /\ x \in Nat /\ z \in Nat /\ Len(L) = x + 1 + z /\ Len(M) = x + 1 + z
        /\ \A i \in 1 .. x : L[i] = X[i] /\ M[i] = X[i]
        /\ \A i \in x + 1 .. x + 1 : L[i] = u[i - x] /\ M[i] = w[i - x]
        /\ \A i \in x + 1 + 1 .. x + 1 + z : L[i] = Z[i - x - 1] /\ M[i] = Z[i - x - 1]
    <3>0. X \in Seq(AnyFrame) /\ Z \in Seq(AnyFrame) /\ u \in Seq(AnyFrame)
      BY <2>1
    <3>1. /\ x \in Nat /\ z \in Nat /\ Len(L) = x + Len(u) + z
          /\ \A i \in 1 .. x : L[i] = X[i]
          /\ \A i \in x + 1 .. x + Len(u) : L[i] = u[i - x]
          /\ \A i \in x + Len(u) + 1 .. x + Len(u) + z : L[i] = Z[i - x - Len(u)]
      BY <3>0, ThreeParts
    <3>2. /\ Len(M) = x + Len(w) + z
          /\ \A i \in 1 .. x : M[i] = X[i]
          /\ \A i \in x + 1 .. x + Len(w) : M[i] = w[i - x]
          /\ \A i \in x + Len(w) + 1 .. x + Len(w) + z : M[i] = Z[i - x - Len(w)]
      BY <3>0, ThreeParts, SMTT(30)
    <3> HIDE DEF L, M, x, z
    <3> QED BY <2>2, <3>1, <3>2
  <2> HIDE DEF L, M, x, z
  <2>4. \A i \in 1 .. x + 1 + z : \/ i \in 1 .. x \/ i \in x + 1 + 1 .. x + 1 + z
                                  \/ i \in x + 1 .. x + 1 /\ i - x = 1
    BY <2>3
  <2>5. \A i \in 1 .. x + 1 + z : /\ M[i].tag \in Polls <=> L[i].tag \in Polls
                                  /\ M[i].who = L[i].who
    BY <1>5, <2>2, <2>3, <2>4
  <2>6. Matches(statQ, L) /\ Len(M) = Len(L) /\ Len(L) = x + 1 + z
    BY <1>1, <2>1, <2>3
  <2>7. \A i \in 1 .. Len(L) : /\ M[i].tag \in Polls <=> L[i].tag \in Polls
                               /\ M[i].who = L[i].who
    BY <2>5, <2>6
  <2>8. Matches(statQ, M)
    BY <2>6, <2>7, MatchSame
  <2> QED BY <2>1, <2>8 DEF StatOrder
<1> QED BY <1>2, <1>4, <1>5 DEF AgentMoves


\* Cutting off a first frame.
LEMMA TailOfCons ==
  ASSUME NEW S, NEW h \in S, NEW Z \in Seq(S)
  PROVE  <<h>> \o Z \in Seq(S) /\ <<h>> \o Z # <<>> /\ (<<h>> \o Z)[1] = h /\ Tail(<<h>> \o Z) = Z
<1> DEFINE u == <<h>>
           L == u \o Z
<1>1. u \in Seq(S) /\ Len(u) = 1 /\ u[1] = h /\ Len(Z) \in Nat
  BY LenProperties
<1> HIDE DEF u
<1>2. /\ L \in Seq(S) /\ Len(L) = Len(u) + Len(Z)
      /\ \A i \in 1 .. Len(u) + Len(Z) : L[i] = IF i =< Len(u) THEN u[i] ELSE Z[i - Len(u)]
  <2>1. u \in Seq(S)
    BY <1>1
  <2> QED BY <2>1, ConcatProperties
<1> HIDE DEF L
<1>3. Len(L) = 1 + Len(Z) /\ L[1] = h
  <2>1. 1 \in 1 .. 1 + Len(Z) /\ 1 =< 1
    BY <1>1
  <2> QED BY <1>1, <1>2, <2>1
<1>4. L # <<>>
  <2>1. Len(L) # 0
    BY <1>1, <1>3
  <2> QED BY <2>1, EmptySeq
<1>5. Tail(L) \in Seq(S) /\ Len(Tail(L)) = Len(L) - 1 /\ \A i \in 1 .. Len(Tail(L)) : Tail(L)[i] = L[i + 1]
  BY <1>2, <1>4, HeadTailProperties
<1>6. Len(Tail(L)) = Len(Z)
  BY <1>1, <1>3, <1>5
<1>7. \A i \in 1 .. Len(Z) : Tail(L)[i] = Z[i]
  <2>1. \A i \in 1 .. Len(Z) : i + 1 \in 1 .. 1 + Len(Z) /\ ~(i + 1 =< 1) /\ (i + 1) - 1 = i
    BY <1>1
  <2> QED BY <1>1, <1>2, <1>5, <1>6, <2>1
<1>8. Tail(L) = Z
  BY <1>5, <1>6, <1>7, SeqEqual
<1> QED BY <1>2, <1>3, <1>4, <1>8 DEF L, u

\* client_send to the client a frame belongs to, or after an overrun.
LEMMA SendOwn ==
  ASSUME TypeOK, NoCrossTalk, NEW c \in Conn, NEW f \in CardFrame, Send(c, f),
         f.who = c \/ (overrun /\ f.tag = "StatReply"), overrun => overrun'
  PROVE  NoCrossTalk'
<1>1. down \in [Conn -> Seq(CardFrame)]
  BY Zenon DEF TypeOK, ClientType
<1>2. CASE down' = down
  BY <1>2 DEF NoCrossTalk
<1>3. CASE down' = [down EXCEPT ![c] = Append(@, f)]
  <2>1. /\ down'[c] = Append(down[c], f) /\ down[c] \in Seq(CardFrame)
        /\ \A d \in Conn \ {c} : down'[d] = down[d]
    BY <1>1, <1>3
  <2>2. /\ Len(Append(down[c], f)) = Len(down[c]) + 1 /\ Len(down[c]) \in Nat
        /\ \A i \in 1 .. Len(down[c]) : Append(down[c], f)[i] = down[c][i]
        /\ Append(down[c], f)[Len(down[c]) + 1] = f
    BY <2>1, AppendProperties, LenProperties
  <2>3. \A i \in 1 .. Len(down[c]) + 1 : i \in 1 .. Len(down[c]) \/ i = Len(down[c]) + 1
    BY <2>2
  <2>4. \A i \in 1 .. Len(down'[c]) :
          down'[c][i].who = c \/ (overrun' /\ down'[c][i].tag = "StatReply")
    BY <2>1, <2>2, <2>3 DEF NoCrossTalk
  <2> QED BY <2>1, <2>4 DEF NoCrossTalk
<1> QED BY <1>2, <1>3 DEF Send

\* deliver gives a StatReply to the client it answers, unless the ring of
\* ids was overrun, and everything else
\* to the client whose session it belongs to.
LEMMA DeliverOrder ==
  ASSUME RelayInv, StatOrder, NoCrossTalk, DeliverFrame PROVE StatOrder' /\ NoCrossTalk'
<1> DEFINE h == Head(c2h)
           Z == Tail(c2h) \o Way
<1>1. /\ c2h # <<>> /\ c2h' = Tail(c2h) /\ Deliver(h) /\ UNCHANGED <<toCard, h2c, overrun>>
  BY DEF DeliverFrame, Deliver
<1>2. /\ c2h \in Seq(AnyFrame) /\ Way \in Seq(AnyFrame) /\ statQ \in Seq(Conn)
      /\ Line \in Seq(AnyFrame) /\ Matches(statQ, Line)
  BY LineParts DEF StatOrder
<1>3. c2h \in Seq(CardFrame) /\ TypeOK /\ SessionAgrees
  BY Queues DEF RelayInv
<1>4. h \in CardFrame /\ h \in AnyFrame /\ h = c2h[1] /\ 1 \in 1 .. Len(c2h)
  <2>1. Len(c2h) \in Nat \ {0} /\ h \in CardFrame /\ h = c2h[1]
    BY <1>1, <1>3, EmptySeq, HeadTailProperties
  <2> QED BY <2>1 DEF AnyFrame
<1>5. Tail(c2h) \in Seq(AnyFrame) /\ c2h = <<h>> \o Tail(c2h)
  <2>1. Tail(c2h) \in Seq(AnyFrame)
    BY <1>1, <1>2, HeadTailProperties
  <2>2. Len(c2h) \in Nat \ {0} /\ SubSeq(c2h, 1, Len(c2h)) = c2h /\ Tail(c2h) = SubSeq(c2h, 2, Len(c2h))
    BY <1>1, <1>2, EmptySeq, SubSeqFull, TailIsSubSeq
  <2>3. 1 \in 1 .. Len(c2h) /\ Len(c2h) \in 1 .. Len(c2h) /\ 1 + 1 = 2
    BY <2>2
  <2>4. SubSeq(c2h, 1, Len(c2h)) = <<c2h[1]>> \o SubSeq(c2h, 1 + 1, Len(c2h))
    BY <1>2, <2>3, SubSeqRecursiveFirst
  <2> HIDE DEF h
  <2> QED BY <1>4, <2>1, <2>2, <2>3, <2>4
<1> HIDE DEF h
<1>6. Line = <<h>> \o Z /\ Line' = Z /\ Z \in Seq(AnyFrame)
  <2>1. Line' = Z
    BY <1>1 DEF Line, Way
  <2>2. <<h>> \in Seq(AnyFrame)
    BY <1>4, Joins
  <2>3. Tail(c2h) \in Seq(AnyFrame) /\ Way \in Seq(AnyFrame)
    BY <1>2, <1>5
  <2>4. (<<h>> \o Tail(c2h)) \o Way = <<h>> \o (Tail(c2h) \o Way)
    BY <2>2, <2>3, JoinsAssociate
  <2>5. Z \in Seq(AnyFrame)
    BY <2>3, Joins
  <2>6. Line = (<<h>> \o Tail(c2h)) \o Way
    BY <1>5, Zenon DEF Line
  <2> QED BY <2>1, <2>4, <2>5, <2>6, Zenon
<1> HIDE DEF Z
<1>7. CASE h.tag = "StatReply"
  <2>1. Line # <<>> /\ Line[1] = h /\ Tail(Line) = Z
    BY <1>4, <1>6, TailOfCons
  <2>2. Line[1].tag \in Polls
    BY <1>7, <2>1 DEF Polls
  <2>3. /\ statQ # <<>> /\ (Len(statQ) =< StatCap => statQ[1] = h.who)
        /\ Matches(Tail(statQ), Z)
    BY <1>2, <2>1, <2>2, MatchTail
  <2>0. /\ Len(statQ) \in Nat /\ StatCap \in Nat /\ statQ[1] \in Conn
        /\ Len(Tail(statQ)) = Len(statQ) - 1 /\ (Len(statQ) > StatCap => overrun)
    BY <1>2, <2>3, HeadTailProperties, EmptySeq, ElementOfSeq, LenProperties, Caps DEF StatOrder
  <2>4. /\ statQ' = Tail(statQ)
        /\ IF statQ[1] \in Connected THEN Send(statQ[1], h) ELSE UNCHANGED <<down, dead>>
    BY <1>1, <1>7, <2>3 DEF Deliver, StatTarget
  <2>5. StatOrder'
    <3>1. Len(statQ') > StatCap => Len(statQ) > StatCap
      BY <2>0, <2>4
    <3>2. Len(statQ') > StatCap => overrun'
      BY <1>1, <2>0, <3>1
    <3> QED BY <1>6, <2>3, <2>4, <3>2 DEF StatOrder
  <2>6. h.who = statQ[1] \/ (overrun /\ h.tag = "StatReply")
    <3>1. Len(statQ) =< StatCap \/ Len(statQ) > StatCap
      BY <2>0
    <3> QED BY <1>7, <2>0, <2>3, <3>1
  <2>7. Send(statQ[1], h) => NoCrossTalk'
    BY <1>1, <1>3, <1>4, <2>0, <2>6, SendOwn
  <2>8. down' = down => NoCrossTalk'
    BY <1>1 DEF NoCrossTalk
  <2>9. Send(statQ[1], h) \/ down' = down
    BY <2>4
  <2> QED BY <2>5, <2>7, <2>8, <2>9
<1>8. CASE h.tag # "StatReply"
  <2>1. h.tag \notin Polls
    BY <1>4, <1>8 DEF CardFrame, Polls, Terminator
  <2>2. statQ' = statQ /\ ((Send(holder, h) /\ holder \in Connected) \/ down' = down)
    BY <1>1, <1>8 DEF Deliver
  <2>3. StatOrder'
    <3>1. NoneOf(<<h>>, Polls)
      BY <2>1, OneFrame
    <3>2. NoneOf(<<>>, Polls)
      BY DEF NoneOf
    <3>3. <<>> \in Seq(AnyFrame) /\ <<h>> \in Seq(AnyFrame)
      BY <1>4, Joins
    <3>4. /\ <<>> \o (<<h>> \o Z) = <<h>> \o Z /\ <<>> \o (<<>> \o Z) = Z
      <4>1. <<h>> \o Z \in Seq(AnyFrame)
        BY <1>6, <3>3, Joins
      <4> QED BY <1>6, <4>1, Joins, Zenon
    <3>5. Matches(statQ, <<>> \o (<<h>> \o Z))
      BY <1>2, <1>6, <3>4
    <3>6. Matches(statQ, <<>> \o (<<>> \o Z))
      BY <1>2, <1>6, <3>1, <3>2, <3>3, <3>5, MatchSplice
    <3> QED BY <1>1, <1>6, <2>2, <3>4, <3>6 DEF StatOrder
  <2>4. CASE down' = down
    BY <1>1, <2>3, <2>4 DEF NoCrossTalk
  <2>5. CASE Send(holder, h) /\ holder \in Connected
    <3>1. ~PollsFrom(c2h, 1)
      BY <1>4, <2>1 DEF PollsFrom
    <3>2. session # "none"
      BY <1>3, <3>1 DEF SessionAgrees
    <3>3. PICK o \in Conn : holder \in {None, o} /\ OwnFrom(c2h, 1, o)
      BY <1>3, <3>1, <3>2 DEF SessionAgrees, Asking, Serving, Ended
    <3>4. holder = o
      BY <2>5, <3>3 DEF Connected
    <3>5. h.who = o
      BY <1>4, <2>1, <3>3 DEF OwnFrom
    <3> QED BY <1>1, <1>3, <1>4, <2>3, <2>5, <3>4, <3>5, SendOwn
  <2> QED BY <2>2, <2>4, <2>5
<1> QED BY <1>7, <1>8

\* The agent's steps: what it takes from the way it answers in the line.
LEMMA AgentKeepsOrder ==
  ASSUME RelayInv, StatOrder, NoCrossTalk, AgentNext PROVE StatOrder' /\ NoCrossTalk'
<1>1. UNCHANGED hostOnly
  BY DEF AgentNext, AgentStart, AgentFrame, AgentOutput, ExecExit, GetDone
<1>2. UNCHANGED <<toCard, statQ, overrun, down>>
  BY <1>1, AgentSide
<1>3. NoCrossTalk'
  BY <1>2 DEF NoCrossTalk
<1>4. c2h \in Seq(AnyFrame) /\ CardFrame \subseteq AnyFrame
  BY LineParts DEF AnyFrame
<1>5. c2h \o <<>> = c2h /\ <<>> \in Seq(AnyFrame) /\ NoneOf(<<>>, Polls)
  <2>1. NoneOf(<<>>, Polls)
    BY DEF NoneOf
  <2> QED BY <1>4, <2>1, Joins, Zenon
<1>6. ASSUME AgentMoves(<<>>), c2h' = c2h PROVE StatOrder'
  <2>1. c2h' = c2h \o <<>>
    BY <1>5, <1>6
  <2> QED BY <1>2, <1>5, <1>6, <2>1, AgentOrder
<1>7. ASSUME NEW g \in CardFrame, AgentMoves(<<g>>), c2h' = c2h \o <<g>> PROVE StatOrder'
  <2>1. g \in AnyFrame
    BY <1>4
  <2>2. <<g>> \in Seq(AnyFrame)
    BY <2>1, Joins
  <2> QED BY <1>2, <1>7, <2>2, AgentOrder
<1>8. ASSUME NEW t \in Terminator, agent.mode # "main", Leave(t)
      PROVE  \E g \in CardFrame : c2h' = c2h \o <<g>> /\ NoneOf(<<g>>, Polls)
  <2>1. agent.owner \in Conn
    BY <1>8, InSession
  <2> DEFINE g == [tag |-> t, who |-> agent.owner]
  <2>2. g \in CardFrame /\ c2h' = c2h \o <<g>>
    BY <1>8, <2>1, ReplyType DEF Leave
  <2>3. g.tag \notin Polls
    BY DEF Terminator, Polls
  <2> HIDE DEF g
  <2>4. NoneOf(<<g>>, Polls)
    BY <2>3, OneFrame
  <2> QED BY <2>2, <2>4
<1>9. CASE AgentStart
  <2>1. Way' = Way /\ c2h' = c2h
    BY <1>2, <1>9 DEF AgentStart, Way
  <2> QED BY <1>3, <1>5, <1>6, <2>1 DEF AgentMoves
<1>10. CASE AgentOutput
  <2>1. /\ agent.mode # "main" /\ h2c' = h2c
        /\ \E t \in {"Stdout", "GetData"} : Reply(t, agent.owner)
    BY <1>10 DEF AgentOutput
  <2>2. PICK t \in {"Stdout", "GetData"} : Reply(t, agent.owner)
    BY <2>1
  <2>3. agent.owner \in Conn
    BY <2>1, InSession
  <2> DEFINE g == [tag |-> t, who |-> agent.owner]
  <2>4. g \in CardFrame /\ c2h' = c2h \o <<g>>
    BY <2>2, <2>3, ReplyType
  <2>5. g.tag \notin Polls
    BY DEF Polls
  <2> HIDE DEF g
  <2>6. NoneOf(<<g>>, Polls)
    BY <2>5, OneFrame
  <2>7. Way' = Way
    BY <1>2, <2>1 DEF Way
  <2>8. AgentMoves(<<g>>)
    BY <2>6, <2>7 DEF AgentMoves
  <2> QED BY <1>3, <1>7, <2>4, <2>8
<1>11. CASE ExecExit \/ GetDone
  <2>1. PICK t \in Terminator : Leave(t) /\ agent.mode # "main"
    BY <1>11 DEF ExecExit, GetDone, Terminator
  <2>2. PICK g \in CardFrame : c2h' = c2h \o <<g>> /\ NoneOf(<<g>>, Polls)
    BY <1>8, <2>1
  <2>3. Way' = Way
    BY <1>2, <1>11 DEF Way, ExecExit, GetDone
  <2>4. AgentMoves(<<g>>)
    BY <2>2, <2>3 DEF AgentMoves
  <2> QED BY <1>3, <1>7, <2>2, <2>4
<1>12. CASE AgentFrame
  <2> DEFINE f == Head(h2c)
  <2>1. /\ h2c # <<>> /\ h2c' = Tail(h2c)
        /\ \/ f.tag = "Stat" /\ Reply("StatReply", f.who)
           \/ f.tag \notin Polls /\ c2h' = c2h
           \/ f.tag \notin Polls /\ \E t \in Terminator : Reply(t, f.who)
           \/ f.tag \notin Polls /\ agent.mode # "main" /\ \E t \in Terminator : Leave(t)
    <3>1. SessionRequest \cap Polls = {}
      BY DEF SessionRequest, Polls
    <3> QED BY <1>12, <3>1, AgentShape DEF Enter
  <2>2. /\ Way # <<>> /\ Way' = Tail(Way) /\ f = Way[1] /\ f \in Frame
    BY <1>2, <2>1, WayTail
  <2>3. f.who \in Conn
    BY <2>2 DEF Frame
  <2> HIDE DEF f
  <2>4. CASE f.tag = "Stat" /\ Reply("StatReply", f.who)
    <3> DEFINE g == [tag |-> "StatReply", who |-> f.who]
    <3>1. g \in CardFrame /\ c2h' = c2h \o <<g>>
      BY <2>3, <2>4, ReplyType
    <3>2. g.tag \in Polls /\ g.who = Way[1].who /\ Way[1].tag \in Polls /\ g \in AnyFrame
      BY <1>4, <2>2, <2>4, <3>1 DEF Polls
    <3> HIDE DEF g
    <3>3. AgentMoves(<<g>>)
      BY <2>2, <3>2 DEF AgentMoves
    <3> QED BY <1>3, <1>7, <3>1, <3>3
  <2>5. CASE f.tag \notin Polls /\ c2h' = c2h
    <3>1. AgentMoves(<<>>)
      BY <1>5, <2>2, <2>5 DEF AgentMoves
    <3> QED BY <1>3, <1>6, <2>5, <3>1
  <2>6. ASSUME f.tag \notin Polls, NEW t \in Terminator, Reply(t, f.who) PROVE StatOrder'
    <3> DEFINE g == [tag |-> t, who |-> f.who]
    <3>1. g \in CardFrame /\ c2h' = c2h \o <<g>>
      BY <2>3, <2>6, ReplyType
    <3>2. g.tag \notin Polls
      BY DEF Terminator, Polls
    <3> HIDE DEF g
    <3>3. NoneOf(<<g>>, Polls)
      BY <3>2, OneFrame
    <3>4. AgentMoves(<<g>>)
      BY <2>2, <2>6, <3>3 DEF AgentMoves
    <3> QED BY <1>7, <3>1, <3>4
  <2>7. ASSUME f.tag \notin Polls, agent.mode # "main", NEW t \in Terminator, Leave(t)
        PROVE  StatOrder'
    <3>1. PICK g \in CardFrame : c2h' = c2h \o <<g>> /\ NoneOf(<<g>>, Polls)
      BY <1>8, <2>7
    <3>2. AgentMoves(<<g>>)
      BY <2>2, <2>7, <3>1 DEF AgentMoves
    <3> QED BY <1>7, <3>1, <3>2
  <2> QED BY <1>3, <2>1, <2>4, <2>5, <2>6, <2>7
<1> QED BY <1>9, <1>10, <1>11, <1>12 DEF AgentNext

\* A step that moves nothing between the daemon and the card, and takes
\* nothing but the oldest frames from the sockets, disturbs neither.
LEMMA ClientKeepsOrder ==
  ASSUME RelayInv, StatOrder, NoCrossTalk, ClientNext PROVE StatOrder' /\ NoCrossTalk'
<1>1. PICK c \in Conn : \/ \E k \in Kinds : Connect(c, k)
                        \/ Request(c) \/ SendData(c) \/ SendEnd(c)
                        \/ Receive(c) \/ Hangup(c) \/ Kill(c)
  BY DEF ClientNext
<1>2. UNCHANGED <<h2c, toCard, c2h, statQ, overrun>>
  BY <1>1 DEF Connect, Request, SendData, SendEnd, Receive, Hangup, Kill, daemonOnly, relayVars
<1>3. StatOrder'
  BY <1>2 DEF StatOrder, Line, Way
<1>4. down \in [Conn -> Seq(CardFrame)]
  BY Zenon DEF RelayInv, TypeOK, ClientType
<1>5. \/ down' = down \/ down' = [down EXCEPT ![c] = <<>>]
      \/ down[c] # <<>> /\ down' = [down EXCEPT ![c] = Tail(@)]
  BY <1>1 DEF Connect, Request, SendData, SendEnd, Receive, Hangup, Kill
<1>6. CASE down' = down
  BY <1>2, <1>3, <1>6 DEF NoCrossTalk
<1>7. CASE down' = [down EXCEPT ![c] = <<>>]
  <2>1. down'[c] = <<>> /\ \A d \in Conn \ {c} : down'[d] = down[d]
    BY <1>4, <1>7
  <2>2. \A i : i \notin 1 .. Len(<<>>)
    OBVIOUS
  <2> QED BY <1>2, <1>3, <2>1, <2>2 DEF NoCrossTalk
<1>8. CASE down[c] # <<>> /\ down' = [down EXCEPT ![c] = Tail(@)]
  <2>1. /\ down'[c] = Tail(down[c]) /\ down[c] \in Seq(CardFrame)
        /\ \A d \in Conn \ {c} : down'[d] = down[d]
    BY <1>4, <1>8
  <2>2. /\ Len(Tail(down[c])) = Len(down[c]) - 1 /\ Len(down[c]) \in Nat
        /\ \A i \in 1 .. Len(Tail(down[c])) : Tail(down[c])[i] = down[c][i + 1]
    BY <1>8, <2>1, HeadTailProperties, LenProperties
  <2>3. \A i \in 1 .. Len(down[c]) - 1 : i + 1 \in 1 .. Len(down[c])
    BY <2>2
  <2>4. \A i \in 1 .. Len(down'[c]) :
          down'[c][i].who = c \/ (overrun' /\ down'[c][i].tag = "StatReply")
    BY <1>2, <2>1, <2>2, <2>3 DEF NoCrossTalk
  <2> QED BY <1>2, <1>3, <2>1, <2>4 DEF NoCrossTalk
<1> QED BY <1>5, <1>6, <1>7, <1>8

\* handle_frame answers nobody but the client it read.
LEMMA ReadKeepsOrder ==
  ASSUME RelayInv, StatOrder, NoCrossTalk, ReadFrame PROVE StatOrder' /\ NoCrossTalk'
<1>1. StatOrder'
  BY ReadFrameInv, GrowsOrder
<1>2. slot[cur] \in Conn
  <2>1. slot \in [Slots -> Conn \cup {None}]
    BY Zenon DEF RelayInv, TypeOK, DaemonType
  <2> QED BY <2>1 DEF ReadFrame
<1>0. overrun => overrun'
  <2>1. overrun' = overrun \/ overrun' = (overrun \/ Len(statQ) >= StatCap)
    BY DEF ReadFrame, HandleFrame
  <2> QED BY <2>1, Zenon
<1>3. \/ down' = down
      \/ \E t \in DOMAIN LocalReply : Send(slot[cur], [tag |-> LocalReply[t], who |-> slot[cur]])
  BY DEF ReadFrame, HandleFrame
<1>4. \/ down' = down
      \/ Send(slot[cur], [tag |-> "SensorsReply", who |-> slot[cur]])
  <2>1. DOMAIN LocalReply = {"Sensors"} /\ LocalReply["Sensors"] = "SensorsReply"
    BY DEF LocalReply
  <2>2. \A t \in DOMAIN LocalReply : LocalReply[t] = "SensorsReply"
    BY <2>1
  <2> QED BY <1>3, <2>2
<1>5. CASE down' = down
  BY <1>0, <1>1, <1>5 DEF NoCrossTalk
<1>6. CASE Send(slot[cur], [tag |-> "SensorsReply", who |-> slot[cur]])
  <2> DEFINE f == [tag |-> "SensorsReply", who |-> slot[cur]]
  <2>1. f \in CardFrame /\ f.who = slot[cur]
    BY <1>2 DEF CardFrame
  <2> HIDE DEF f
  <2>2. Send(slot[cur], f) /\ TypeOK
    BY <1>6 DEF f, RelayInv
  <2> QED BY <1>0, <1>1, <1>2, <2>1, <2>2, SendOwn
<1> QED BY <1>4, <1>5, <1>6

\* The daemon's pass.
LEMMA DaemonKeepsOrder ==
  ASSUME RelayInv, StatOrder, NoCrossTalk, DaemonNext PROVE StatOrder' /\ NoCrossTalk'
<1>1. CASE \/ \E c \in Conn : Accept(c)
           \/ AcceptEnd \/ ReadSkip \/ ReadEof \/ ReadBad \/ ReadEnd \/ DeliverNone
  <2>1. UNCHANGED <<down, statQ, overrun, h2c, toCard, c2h>>
    BY <1>1 DEF Accept, AcceptEnd, ReadSkip, ReadEof, ReadBad, ReadEnd, DeliverNone, relayVars
  <2>2. StatOrder'
    BY <2>1 DEF StatOrder, Line, Way
  <2>3. NoCrossTalk'
    BY <2>1 DEF NoCrossTalk
  <2> QED BY <2>2, <2>3
<1>2. CASE Reap \/ Pick
  <2>1. UNCHANGED <<down, overrun>>
    BY <1>2 DEF Reap, Pick
  <2>2. StatOrder'
    BY <1>2, ReapInv, PickInv, GrowsOrder
  <2>3. NoCrossTalk'
    BY <2>1 DEF NoCrossTalk
  <2> QED BY <2>2, <2>3
<1>3. CASE Push
  <2>1. Way' = Way /\ UNCHANGED <<down, statQ, overrun, c2h>>
    BY <1>3, PushInv
  <2>2. StatOrder'
    BY <2>1 DEF StatOrder, Line
  <2>3. NoCrossTalk'
    BY <2>1 DEF NoCrossTalk
  <2> QED BY <2>2, <2>3
<1> QED BY <1>1, <1>2, <1>3, ReadKeepsOrder, DeliverOrder DEF DaemonNext

\* The order of the polls, and what it is needed for, with the invariant
\* they rest on.
OrderInv == RelayInv /\ StatOrder /\ NoCrossTalk

\* Every behaviour keeps them.
LEMMA OrderKept == ASSUME PhictlClients PROVE Spec => []OrderInv
<1>1. Init => OrderInv
  <2> SUFFICES ASSUME Init PROVE OrderInv
    OBVIOUS
  <2>1. /\ statQ = <<>> /\ toCard = <<>> /\ h2c = <<>> /\ c2h = <<>>
        /\ down = [c \in Conn |-> <<>>]
    BY DEF Init
  <2>2. Line = <<>>
    BY <2>1, Joins DEF Line, Way
  <2>3. Matches(<<>>, <<>>)
    <3>1. \A i : i \notin 1 .. Len(<<>>)
      OBVIOUS
    <3> DEFINE at == [k \in 1 .. Len(<<>>) |-> 1]
    <3>2. at \in [1 .. Len(<<>>) -> 1 .. Len(<<>>)]
      BY <3>1
    <3> HIDE DEF at
    <3> QED BY <3>1, <3>2 DEF Matches
  <2>4. NoCrossTalk
    <3>1. \A i : i \notin 1 .. Len(<<>>)
      OBVIOUS
    <3>2. \A c \in Conn : down[c] = <<>>
      BY <2>1
    <3> QED BY <3>1, <3>2 DEF NoCrossTalk
  <2>5. ~(Len(statQ) > StatCap)
    BY <2>1, Caps
  <2> QED BY <2>1, <2>2, <2>3, <2>4, <2>5, InitInv DEF OrderInv, StatOrder
<1>2. OrderInv /\ [Next]_vars => OrderInv'
  <2> SUFFICES ASSUME OrderInv, [Next]_vars PROVE OrderInv'
    OBVIOUS
  <2>1. RelayInv /\ StatOrder /\ NoCrossTalk
    BY DEF OrderInv
  <2>2. RelayInv'
    BY <2>1, NextInv
  <2>3. CASE UNCHANGED vars
    <3>1. UNCHANGED <<down, statQ, overrun, h2c, toCard, c2h>>
      BY <2>3 DEF vars, relayVars
    <3>2. StatOrder'
      BY <2>1, <3>1 DEF StatOrder, Line, Way
    <3>3. NoCrossTalk'
      BY <2>1, <3>1 DEF NoCrossTalk
    <3> QED BY <2>2, <3>2, <3>3 DEF OrderInv
  <2>4. CASE Next
    <3>1. StatOrder' /\ NoCrossTalk'
      BY <2>1, <2>4, ClientKeepsOrder, DaemonKeepsOrder, AgentKeepsOrder DEF Next
    <3> QED BY <2>2, <3>1 DEF OrderInv
  <2> QED BY <2>3, <2>4
<1> QED BY <1>1, <1>2, PTL DEF Spec

\* The ring of requesters matches the polls under way one for one, in
\* order, whichever session they are interleaved with, and its newest
\* StatCap ids are right; it holds more only after an overrun (handle_frame,
\* deliver).
THEOREM PollsInOrder == ASSUME PhictlClients PROVE Spec => []StatOrder
<1>1. OrderInv => StatOrder
  BY DEF OrderInv
<1> QED BY <1>1, OrderKept, PTL

\* Whatever a client is sent answers its own request, although frames carry
\* no identity, except a StatReply once the ring of StatCap requesters was
\* overrun (deliver, client_send).
THEOREM AnswersOwn == ASSUME PhictlClients PROVE Spec => []NoCrossTalk
<1>1. OrderInv => NoCrossTalk
  BY DEF OrderInv
<1> QED BY <1>1, OrderKept, PTL
=============================================================================
