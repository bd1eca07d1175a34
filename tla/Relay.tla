------------------------------ MODULE Relay ------------------------------
(***************************************************************************)
(* The control socket of the daemon (host/asm/phictl/serve.S), the phictl  *)
(* clients on one side of it (client.S) and the card's agent on the other  *)
(* (card/agent/agent.S, exec.S, xfer.S), at the granularity of frames.     *)
(*                                                                         *)
(* The daemon is one thread: serve_step accepts, reads the clients slot by *)
(* slot, reaps the dead ones, gives a free card to a waiting client,       *)
(* pushes what it has for the card into the ring and delivers what the     *)
(* card sent.  Clients and agent run concurrently with every one of those  *)
(* steps.  One client at a time holds the card; Stat requests are          *)
(* interleaved and their replies matched by order alone.                   *)
(*                                                                         *)
(* A frame is its tag and, as history the code does not have, the          *)
(* connection whose request it belongs to.  Frame boundaries, bodies and   *)
(* buffer sizes are not modelled here; sockets are FIFO queues.            *)
(***************************************************************************)
EXTENDS Naturals, Sequences, FiniteSets

CONSTANTS Conn,         \* connections; each is made at most once
          None,         \* no connection (id 0, fd 0)
          Permitted,    \* those whose peer uid is the owner's or root
          NSlots,       \* client slots (MAX_CLIENTS, 16 in the code)
          Kinds,        \* what clients ask for
          MaxRequests,  \* requests per connection (1 for phictl)
          MaxData,      \* bound: Stdin or PutData frames per connection
          MaxOut,       \* bound: Stdout or GetData frames per session
          StatCap,      \* ids the ring stat_q holds (64 in the code)
          RingCap,      \* frames an rpc ring holds
          ToCardLimit   \* frames in to_card above which nobody is read

ASSUME ConnAssumption == None \notin Conn /\ Permitted \subseteq Conn
ASSUME BoundAssumption ==
  /\ {NSlots, MaxRequests, StatCap, RingCap, ToCardLimit} \subseteq Nat \ {0}
  /\ {MaxData, MaxOut} \subseteq Nat
ASSUME KindAssumption ==
  Kinds \subseteq {"exec", "put", "get", "ping", "stat", "sensors", "bad", "odd"}

VARIABLES
  cl,       \* the clients: state, kind, and how far their script is
  up, down, \* the sockets: frames to the daemon, frames to the client
  backlog,  \* connections the daemon has not accepted yet
  slot,     \* clients[]: the connection in each slot
  dead,     \* CL_DEAD
  pend,     \* each client's pending frames
  holder, session, toCard,
  statQ,    \* the ids in stat_q, from stat_qh to stat_qt
  overrun,  \* history: more than StatCap ids were in it
  ready,    \* rpc_ready
  pc, cur, busy,   \* where in the pass the daemon is
  h2c, c2h, \* the rpc channel's rings
  agent     \* the agent: up, mode, owner, eof, frames sent in this session

clientVars == <<cl, up>>
relayVars == <<slot, dead, pend, holder, session, statQ, overrun, toCard>>
vars == <<cl, up, down, backlog, relayVars, ready, pc, cur, busy, h2c, c2h, agent>>

----------------------------------------------------------------------------
(* Frames and sessions.                                                    *)

\* What a client asks with.  No phictl command sends the last two: a frame
\* the decoder refuses, and one that has no business at the card (a reply).
RequestTag == [exec |-> "Exec", put |-> "PutOpen", get |-> "Get",
               ping |-> "Ping", stat |-> "Stat", sensors |-> "Sensors",
               bad |-> "Bad", odd |-> "Odd"]
DataTag == [exec |-> "Stdin", put |-> "PutData"]
EndTag == [exec |-> "StdinEof", put |-> "PutClose"]

SessionRequest == {"Exec", "PutOpen", "Get", "Ping"}
Stream == {"Stdin", "StdinEof", "PutData", "PutClose"}
Terminator == {"Exit", "Error", "GetEnd", "Pong"}
LocalReply == [Sensors |-> "SensorsReply"]

Slots == 1 .. NSlots
Connected == {slot[i] : i \in Slots} \ {None}

\* forward_frame: the session state follows the frame.
SessionAfter(s, tag) ==
  CASE tag = "Exec" -> "execOpen"
    [] tag = "StdinEof" /\ s = "execOpen" -> "execClosed"
    [] tag = "PutOpen" -> "putOpen"
    [] tag = "PutClose" /\ s = "putOpen" -> "putClosed"
    [] tag \in {"Get", "Ping"} -> "other"
    [] OTHER -> s

\* ... and follows a whole queue of frames in turn: the last request among
\* them opens a session, and the first later frame that changes it closes it.
SessionAfterAll(s, frames) ==
  LET asks == {i \in 1 .. Len(frames) : frames[i].tag \in SessionRequest}
      last == IF asks = {} THEN 0 ELSE CHOOSE i \in asks : \A j \in asks : j =< i
      opened == IF asks = {} THEN s ELSE SessionAfter(s, frames[last].tag)
      ends == {i \in last + 1 .. Len(frames) : SessionAfter(opened, frames[i].tag) # opened}
  IN IF ends = {} THEN opened
     ELSE SessionAfter(opened, frames[CHOOSE i \in ends : \A j \in ends : i =< j].tag)

\* client_wants_read (the decoder's room is not modelled).
WantsRead(c) ==
  /\ c \notin dead
  /\ pend[c] = <<>> \/ c = holder
  /\ Len(toCard) < ToCardLimit

\* client_send: a write to a client that has gone marks it dead.
Send(c, f) ==
  IF cl[c].st = "closed"
  THEN dead' = dead \cup {c} /\ down' = down
  ELSE dead' = dead /\ down' = [down EXCEPT ![c] = Append(@, f)]

----------------------------------------------------------------------------
(* The clients (cmd_exec, cmd_put, cmd_get, simple_request).               *)

daemonOnly == <<backlog, relayVars, ready, pc, cur, busy, h2c, c2h, agent>>

Connect(c, k) ==
  /\ cl[c].st = "off"
  /\ cl' = [cl EXCEPT ![c].st = "open", ![c].kind = k]
  /\ backlog' = backlog \cup {c}
  /\ UNCHANGED <<up, down, relayVars, ready, pc, cur, busy, h2c, c2h, agent>>

SendFrame(c, tag) == up' = [up EXCEPT ![c] = Append(@, tag)]

Request(c) ==
  /\ cl[c].st = "open" /\ cl[c].reqs < MaxRequests
  /\ cl' = [cl EXCEPT ![c].reqs = @ + 1]
  /\ SendFrame(c, RequestTag[cl[c].kind])
  /\ UNCHANGED <<down, daemonOnly>>

\* Input for a command, or the contents of a file.
SendData(c) ==
  /\ cl[c].st = "open" /\ cl[c].reqs > 0 /\ ~cl[c].ended
  /\ cl[c].kind \in DOMAIN DataTag /\ cl[c].data < MaxData
  /\ cl' = [cl EXCEPT ![c].data = @ + 1]
  /\ SendFrame(c, DataTag[cl[c].kind])
  /\ UNCHANGED <<down, daemonOnly>>

SendEnd(c) ==
  /\ cl[c].st = "open" /\ cl[c].reqs > 0 /\ ~cl[c].ended
  /\ cl[c].kind \in DOMAIN EndTag
  /\ cl' = [cl EXCEPT ![c].ended = TRUE]
  /\ SendFrame(c, EndTag[cl[c].kind])
  /\ UNCHANGED <<down, daemonOnly>>

\* A put reads its one reply only after PutClose; everyone leaves at the
\* frame that ends its request.
Receive(c) ==
  /\ cl[c].st = "open" /\ down[c] # <<>>
  /\ cl[c].kind = "put" => cl[c].ended
  /\ IF Head(down[c]).tag \in Terminator \cup {"StatReply", "SensorsReply"}
     THEN /\ cl' = [cl EXCEPT ![c].st = "closed"]
          /\ down' = [down EXCEPT ![c] = <<>>]
     ELSE /\ down' = [down EXCEPT ![c] = Tail(@)]
          /\ cl' = cl
  /\ UNCHANGED <<up, daemonOnly>>

\* The daemon closed the connection (refused, or dropped it).
Hangup(c) ==
  /\ cl[c].st = "open" /\ c \notin backlog \cup Connected /\ down[c] = <<>>
  /\ cl' = [cl EXCEPT ![c].st = "closed"]
  /\ UNCHANGED <<up, down, daemonOnly>>

\* A client may be killed at any moment.
Kill(c) ==
  /\ cl[c].st = "open"
  /\ cl' = [cl EXCEPT ![c].st = "closed"]
  /\ down' = [down EXCEPT ![c] = <<>>]
  /\ UNCHANGED <<up, daemonOnly>>

----------------------------------------------------------------------------
(* The daemon's pass: accept_clients.                                      *)

\* Every waiting connection is taken: the first free slot, or refused when
\* the peer is somebody else or the table is full.
Accept(c) ==
  /\ pc = "accept" /\ c \in backlog
  /\ backlog' = backlog \ {c}
  /\ LET free == {i \in Slots : slot[i] = None}
         first == CHOOSE i \in free : \A j \in free : i =< j
     IN IF c \in Permitted /\ free # {}
        THEN /\ slot' = [slot EXCEPT ![first] = c]
             /\ pend' = [pend EXCEPT ![c] = <<>>]
        ELSE UNCHANGED <<slot, pend>>
  /\ UNCHANGED <<clientVars, down, dead, holder, session, statQ, overrun, toCard,
                 ready, pc, cur, busy, h2c, c2h, agent>>

\* Nothing is relayed before the card has reached init (rpc_attach).
AcceptEnd ==
  /\ pc = "accept" /\ backlog = {}
  /\ ready \/ agent.up
  /\ ready' = TRUE /\ pc' = "read" /\ cur' = 1
  /\ UNCHANGED <<clientVars, down, backlog, relayVars, busy, h2c, c2h, agent>>

(* clients_to_card: one read of each client's socket, cut into frames.     *)

ReadSkip ==
  LET c == slot[cur]
  IN /\ pc = "read" /\ cur \in Slots /\ ~busy
     /\ \/ c = None
        \/ c # None /\ ~WantsRead(c)
        \/ c # None /\ up[c] = <<>> /\ cl[c].st = "open"
     /\ cur' = cur + 1
     /\ UNCHANGED <<clientVars, down, backlog, relayVars, ready, pc, busy, h2c, c2h, agent>>

\* End of file is seen only when the client is read at all.
ReadEof ==
  LET c == slot[cur]
  IN /\ pc = "read" /\ cur \in Slots /\ ~busy
     /\ c # None /\ WantsRead(c) /\ up[c] = <<>> /\ cl[c].st = "closed"
     /\ dead' = dead \cup {c}
     /\ cur' = cur + 1
     /\ UNCHANGED <<clientVars, down, backlog, slot, pend, holder, session, statQ, overrun,
                    toCard, ready, pc, busy, h2c, c2h, agent>>

\* A frame dec_next refuses costs the client its connection; what came in
\* before it has been handled, what follows is not looked at.
ReadBad ==
  LET c == slot[cur]
  IN /\ pc = "read" /\ cur \in Slots /\ c # None
     /\ busy \/ WantsRead(c)
     /\ up[c] # <<>> /\ Head(up[c]) = "Bad"
     /\ dead' = dead \cup {c}
     /\ cur' = cur + 1 /\ busy' = FALSE
     /\ UNCHANGED <<clientVars, down, backlog, slot, pend, holder, session, statQ, overrun,
                    toCard, ready, pc, h2c, c2h, agent>>

\* Mutant: an id the ring has no room for is left out, its Stat is not.
RememberUnlessFull(q, c) == IF Len(q) >= StatCap THEN q ELSE Append(q, c)

\* stat_q is a ring of StatCap ids, written without a look at how many are
\* waiting.  statQ is what deliver finds there from stat_qh on: a new id is
\* found at its own place and at the waiting ones that share its slot.
Remember(q, c) ==
  [i \in 1 .. Len(q) + 1 |-> IF (Len(q) + 1 - i) % StatCap = 0 THEN c ELSE q[i]]

\* handle_frame: answered here, queued for the card with the requester
\* remembered, forwarded for the holder, or held until the card is free (a
\* client with something held is not read, and one read fits the buffer,
\* so its overflow, which drops the client, does not happen).
HandleFrame(c, tag) ==
  LET f == [tag |-> tag, who |-> c]
  IN \/ /\ tag \in DOMAIN LocalReply
        /\ Send(c, [tag |-> LocalReply[tag], who |-> c])
        /\ UNCHANGED <<pend, session, statQ, overrun, toCard>>
     \/ /\ tag = "Stat"
        /\ toCard' = Append(toCard, f)
        /\ statQ' = Remember(statQ, c) /\ overrun' = (overrun \/ Len(statQ) >= StatCap)
        /\ UNCHANGED <<down, dead, pend, session>>
     \/ /\ tag \notin DOMAIN LocalReply \cup {"Stat"} /\ c = holder
        /\ session' = SessionAfter(session, tag)
        /\ toCard' = Append(toCard, f)
        /\ UNCHANGED <<down, dead, pend, statQ, overrun>>
     \/ /\ tag \notin DOMAIN LocalReply \cup {"Stat"} /\ c # holder
        /\ pend' = [pend EXCEPT ![c] = Append(@, f)]
        /\ UNCHANGED <<down, dead, session, statQ, overrun, toCard>>

\* A read may bring several frames: they are all handled, whatever the
\* first of them did to the client's standing.
ReadFrame ==
  LET c == slot[cur]
  IN /\ pc = "read" /\ cur \in Slots /\ c # None
     /\ busy \/ WantsRead(c)
     /\ up[c] # <<>> /\ Head(up[c]) # "Bad"
     /\ HandleFrame(c, Head(up[c]))
     /\ up' = [up EXCEPT ![c] = Tail(@)]
     /\ \E more \in BOOLEAN :
          /\ more => Len(up[c]) > 1
          /\ busy' = more
          /\ cur' = IF more THEN cur ELSE cur + 1
     /\ UNCHANGED <<cl, backlog, slot, holder, ready, pc, h2c, c2h, agent>>

ReadEnd ==
  /\ pc = "read" /\ cur = NSlots + 1
  /\ pc' = "reap"
  /\ UNCHANGED <<clientVars, down, backlog, relayVars, ready, cur, busy, h2c, c2h, agent>>

\* Mutant: a departed holder's session is left open.
CloseForNothing(s) == <<>>

\* What the daemon sends to close what a departed holder left open.
CloseFor(s) ==
  CASE s = "execOpen" -> <<"StdinEof">>
    [] s = "putOpen" -> <<"PutClose">>
    [] OTHER -> <<>>

\* The holder after the dead clients are gone.
HolderAfter(gone) == IF holder \in gone THEN None ELSE holder

\* reap_clients: a dead holder abandons its session; slots are freed.
Reap ==
  LET gone == dead \cap Connected
      close == IF holder \in gone THEN CloseFor(session) ELSE <<>>
  IN /\ pc = "reap"
     /\ toCard' = toCard \o [i \in 1 .. Len(close) |-> [tag |-> close[i], who |-> holder]]
     /\ session' = IF close = <<>> THEN session ELSE SessionAfter(session, close[1])
     /\ holder' = HolderAfter(gone)
     /\ slot' = [i \in Slots |-> IF slot[i] \in gone THEN None ELSE slot[i]]
     /\ dead' = {}
     /\ pend' = [c \in Conn |-> IF c \in gone THEN <<>> ELSE pend[c]]
     /\ pc' = "pick"
     /\ UNCHANGED <<clientVars, down, backlog, statQ, overrun, ready, cur, busy, h2c, c2h, agent>>

\* Mutant: the card is handed on while a departed holder's session runs.
MayPickEarly == holder = None

\* The card is free only with neither a session nor a holder.
MayPick == session = "none" /\ holder = None

\* pick_holder: the first slot with pending frames gets the card.
Pick ==
  LET waiting == {i \in Slots : slot[i] # None /\ pend[slot[i]] # <<>>}
      first == CHOOSE i \in waiting : \A j \in waiting : i =< j
      c == slot[first]
  IN /\ pc = "pick" /\ pc' = "push"
     /\ IF MayPick /\ waiting # {}
        THEN /\ holder' = c
             /\ session' = SessionAfterAll(session, pend[c])
             /\ toCard' = toCard \o pend[c]
             /\ pend' = [pend EXCEPT ![c] = <<>>]
        ELSE UNCHANGED <<holder, session, toCard, pend>>
     /\ UNCHANGED <<clientVars, down, backlog, slot, dead, statQ, overrun, ready, cur,
                    busy, h2c, c2h, agent>>

\* push_to_card: whatever the ring takes.
Push ==
  LET room == RingCap - Len(h2c)
      n == IF Len(toCard) =< room THEN Len(toCard) ELSE room
  IN /\ pc = "push" /\ pc' = "deliver"
     /\ h2c' = h2c \o SubSeq(toCard, 1, n)
     /\ toCard' = SubSeq(toCard, n + 1, Len(toCard))
     /\ UNCHANGED <<clientVars, down, backlog, slot, dead, pend, holder, session,
                    statQ, overrun, ready, cur, busy, c2h, agent>>

\* Mutant: a StatReply goes to the newest requester.
StatTargetNewest(q) == q[Len(q)]

\* Replies to Stat carry no identity: the next goes to the id at stat_qh,
\* which is the oldest requester's unless the ring was overrun.
StatTarget(q) == q[1]

\* Mutant: an Error does not end the session.
EndsSessionNotError(tag) == tag \in Terminator \ {"Error"}

EndsSession(tag) == tag \in Terminator

\* deliver: a StatReply to the id at stat_qh, anything else to the
\* holder, to nobody when they have gone; a terminator frees the card.
Deliver(f) ==
  LET stat == f.tag = "StatReply"
      target == IF stat THEN IF statQ = <<>> THEN None ELSE StatTarget(statQ)
                        ELSE holder
  IN /\ statQ' = IF stat /\ statQ # <<>> THEN Tail(statQ) ELSE statQ
     /\ overrun' = overrun
     /\ IF target \in Connected THEN Send(target, f) ELSE UNCHANGED <<down, dead>>
     /\ IF ~stat /\ EndsSession(f.tag)
        THEN session' = "none" /\ holder' = None
        ELSE UNCHANGED <<session, holder>>

\* card_to_clients: some of what the ring holds, at least a piece.
DeliverFrame ==
  /\ pc = "deliver" /\ c2h # <<>>
  /\ Deliver(Head(c2h))
  /\ c2h' = Tail(c2h)
  /\ pc' \in {"deliver", "accept"}
  /\ UNCHANGED <<clientVars, backlog, slot, pend, toCard, ready, cur, busy, h2c, agent>>

DeliverNone ==
  /\ pc = "deliver" /\ c2h = <<>>
  /\ pc' = "accept"
  /\ UNCHANGED <<clientVars, down, backlog, relayVars, ready, cur, busy, h2c, c2h, agent>>

----------------------------------------------------------------------------
(* The card's agent.                                                       *)

hostOnly == <<clientVars, down, backlog, relayVars, ready, pc, cur, busy>>

\* Init starts the agent (POST K7, the region's flag).
AgentStart ==
  /\ ~agent.up
  /\ agent' = [agent EXCEPT !.up = TRUE]
  /\ UNCHANGED <<hostOnly, h2c, c2h>>

\* f_send blocks while the ring is full.
Reply(tag, c) == /\ Len(c2h) < RingCap
                 /\ c2h' = Append(c2h, [tag |-> tag, who |-> c])

Enter(mode, c) == /\ agent' = [agent EXCEPT !.mode = mode, !.owner = c,
                                            !.eof = FALSE, !.outs = 0]
                  /\ c2h' = c2h
Leave(tag) == /\ Reply(tag, agent.owner)
              /\ agent' = [agent EXCEPT !.mode = "main", !.owner = None,
                                        !.eof = FALSE, !.outs = 0]
Ignore == UNCHANGED <<agent, c2h>>

\* The frames that open a session, outside one; opening may fail.
MainRequest(f) ==
  \/ f.tag = "Exec" /\ Enter("exec", f.who)
  \/ f.tag = "PutOpen" /\ Enter("put", f.who)
  \/ f.tag = "Get" /\ Enter("get", f.who)
  \/ f.tag \in {"Exec", "PutOpen", "Get"} /\ Reply("Error", f.who) /\ agent' = agent
  \/ f.tag = "Ping" /\ Reply("Pong", f.who) /\ agent' = agent

\* A stream frame that outlived its session has nothing to answer; what has
\* no business at the card is answered with an Error.
MainStray(f) ==
  /\ f.tag \notin SessionRequest
  /\ IF f.tag \in Stream THEN Ignore ELSE Reply("Error", f.who) /\ agent' = agent

\* ex_frame: anything else is dropped, never answered.
ExecFrame(f) ==
  IF f.tag = "StdinEof"
  THEN agent' = [agent EXCEPT !.eof = TRUE] /\ c2h' = c2h
  ELSE Ignore

PutFrame(f) ==
  \/ f.tag = "PutData" /\ (Ignore \/ Leave("Error"))
  \/ f.tag = "PutClose" /\ (Leave("Exit") \/ Leave("Error"))
  \/ f.tag \notin {"PutData", "PutClose"} /\ Ignore

\* Stat is answered in every mode.
StatModes == {"main", "exec", "put", "get"}

AgentFrame ==
  LET f == Head(h2c)
  IN /\ agent.up /\ h2c # <<>>
     /\ h2c' = Tail(h2c)
     /\ \/ /\ f.tag = "Stat"
           /\ IF agent.mode \in StatModes
              THEN Reply("StatReply", f.who) /\ agent' = agent
              ELSE Ignore
        \/ /\ f.tag # "Stat"
           /\ \/ agent.mode = "main" /\ (MainRequest(f) \/ MainStray(f))
              \/ agent.mode = "exec" /\ ExecFrame(f)
              \/ agent.mode = "put" /\ PutFrame(f)
              \/ agent.mode = "get" /\ Ignore
     /\ UNCHANGED hostOnly

\* The command's output, and file contents: a get looks at the ring first.
AgentOutput ==
  /\ agent.mode \in {"exec", "get"} /\ agent.outs < MaxOut
  /\ agent.mode = "get" => h2c = <<>>
  /\ Reply(IF agent.mode = "exec" THEN "Stdout" ELSE "GetData", agent.owner)
  /\ agent' = [agent EXCEPT !.outs = @ + 1]
  /\ UNCHANGED <<hostOnly, h2c>>

\* The command exits when it likes.
ExecExit ==
  /\ agent.mode = "exec" /\ Leave("Exit")
  /\ UNCHANGED <<hostOnly, h2c>>

GetDone ==
  /\ agent.mode = "get" /\ h2c = <<>>
  /\ Leave("GetEnd") \/ Leave("Error")
  /\ UNCHANGED <<hostOnly, h2c>>

----------------------------------------------------------------------------
Init ==
  /\ cl = [c \in Conn |-> [st |-> "off", kind |-> "none", reqs |-> 0,
                           data |-> 0, ended |-> FALSE]]
  /\ up = [c \in Conn |-> <<>>] /\ down = [c \in Conn |-> <<>>]
  /\ backlog = {} /\ slot = [i \in Slots |-> None] /\ dead = {}
  /\ pend = [c \in Conn |-> <<>>]
  /\ holder = None /\ session = "none" /\ toCard = <<>>
  /\ statQ = <<>> /\ overrun = FALSE
  /\ ready = FALSE /\ pc = "accept" /\ cur = 1 /\ busy = FALSE
  /\ h2c = <<>> /\ c2h = <<>>
  /\ agent = [up |-> FALSE, mode |-> "main", owner |-> None, eof |-> FALSE, outs |-> 0]

ClientNext ==
  \E c \in Conn :
    \/ \E k \in Kinds : Connect(c, k)
    \/ Request(c)
    \/ SendData(c)
    \/ SendEnd(c)
    \/ Receive(c)
    \/ Hangup(c)
    \/ Kill(c)

DaemonNext ==
  \/ \E c \in Conn : Accept(c)
  \/ AcceptEnd
  \/ ReadSkip
  \/ ReadEof
  \/ ReadBad
  \/ ReadFrame
  \/ ReadEnd
  \/ Reap
  \/ Pick
  \/ Push
  \/ DeliverFrame
  \/ DeliverNone

AgentNext == AgentStart \/ AgentFrame \/ AgentOutput \/ ExecExit \/ GetDone

Next == ClientNext \/ DaemonNext \/ AgentNext

Spec == Init /\ [][Next]_vars

\* The daemon's loop and the agent's never stop; a client reads what it was
\* sent, has finite input, and sees its connection close.  A command is
\* sure to exit only once its standard input is closed.  Nobody has to
\* connect, and nobody has to be killed.
Fairness ==
  /\ WF_vars(DaemonNext)
  /\ WF_vars(AgentStart) /\ WF_vars(AgentFrame) /\ WF_vars(GetDone)
  /\ WF_vars(agent.eof /\ ExecExit)
  /\ \A c \in Conn :
       /\ WF_vars(Request(c)) /\ WF_vars(SendEnd(c))
       /\ WF_vars(Receive(c)) /\ WF_vars(Hangup(c))

FairSpec == Spec /\ Fairness

----------------------------------------------------------------------------
(* Properties.                                                             *)

Frame == [tag : SessionRequest \cup Stream \cup {"Stat"}, who : Conn]
CardFrame == [tag : Terminator \cup {"Stdout", "GetData", "StatReply", "SensorsReply"},
              who : Conn]
UpTag == SessionRequest \cup Stream \cup {"Stat", "Sensors", "Bad"}

ClientType ==
  /\ cl \in [Conn -> [st : {"off", "open", "closed"}, kind : Kinds \cup {"none"},
                      reqs : 0 .. MaxRequests, data : 0 .. MaxData, ended : BOOLEAN]]
  /\ \A c \in Conn : cl[c].kind = "none" => cl[c].st = "off"
  /\ up \in [Conn -> Seq(UpTag)] /\ down \in [Conn -> Seq(CardFrame)]

\* In particular the holder is a client whose slot is still taken, so a
\* reply never goes to a reused slot.
DaemonType ==
  /\ backlog \subseteq Conn /\ dead \subseteq Connected
  /\ slot \in [Slots -> Conn \cup {None}] /\ pend \in [Conn -> Seq(Frame)]
  /\ holder \in Connected \cup {None}
  /\ session \in {"none", "execOpen", "execClosed", "putOpen", "putClosed", "other"}
  /\ statQ \in Seq(Conn) /\ overrun \in BOOLEAN /\ toCard \in Seq(Frame)
  /\ ready \in BOOLEAN /\ busy \in BOOLEAN /\ cur \in 1 .. NSlots + 1
  /\ pc \in {"accept", "read", "reap", "pick", "push", "deliver"}

CardType ==
  /\ h2c \in Seq(Frame) /\ Len(h2c) =< RingCap
  /\ c2h \in Seq(CardFrame) /\ Len(c2h) =< RingCap
  /\ agent \in [up : BOOLEAN, mode : {"main", "exec", "put", "get"},
                owner : Conn \cup {None}, eof : BOOLEAN, outs : 0 .. MaxOut]

\* Every variable keeps its shape, as long as nobody sends what no phictl
\* command sends.
TypeOK == ClientType /\ DaemonType /\ CardType

\* Whatever a client is sent answers that client's own request, although
\* frames carry no identity: not the rest of an abandoned session, not a
\* Stat somebody else asked for, once no more than StatCap of those wait at a
\* time (deliver; serve.md: the next client starts clean).
NoCrossTalk ==
  \A c \in Conn : \A i \in 1 .. Len(down[c]) :
    down[c][i].who = c \/ (overrun /\ down[c][i].tag = "StatReply")

\* Input and file contents reach the session of the client that sent them:
\* what a client had under way when its session ended, and the StdinEof or
\* PutClose the daemon sends for a departed one, never land in the next
\* session (main_loop ignores them in between).
NoForeignInput ==
  (agent.mode \in {"exec", "put"} /\ h2c # <<>> /\ Head(h2c).tag \in Stream)
     => Head(h2c).who = agent.owner

\* The frames on their way to the card, the oldest first, and everything
\* between the daemon and the card, the answers before the questions.
Way == h2c \o toCard
Line == c2h \o Way
Polls == {"Stat", "StatReply"}

NoneOf(q, tags) == \A i \in 1 .. Len(q) : q[i].tag \notin tags
OneOf(q, tags, k) == \A i \in 1 .. Len(q) : q[i].tag \in tags <=> i = k
PollsFrom(q, n) == \A i \in n .. Len(q) : q[i].tag \in Polls
OwnFrom(q, n, o) == \A i \in n .. Len(q) : q[i].tag \in Polls \/ q[i].who = o

\* The three places a session of o can be in: its request is on its way to
\* the agent, with nothing but o's frames behind it; the agent is in it; or
\* its last reply is on its way back, with nothing behind it.
Asking(o) ==
  /\ agent.mode = "main" /\ PollsFrom(c2h, 1)
  /\ \E k \in 1 .. Len(Way) : OneOf(Way, SessionRequest, k) /\ OwnFrom(Way, k, o)
Serving(o) ==
  /\ agent.mode # "main" /\ agent.owner = o
  /\ NoneOf(Way, SessionRequest) /\ OwnFrom(Way, 1, o)
  /\ NoneOf(c2h, Terminator) /\ OwnFrom(c2h, 1, o)
Ended(o) ==
  /\ agent.mode = "main" /\ NoneOf(Way, SessionRequest) /\ OwnFrom(c2h, 1, o)
  /\ \E k \in 1 .. Len(c2h) : OneOf(c2h, Terminator, k) /\ PollsFrom(c2h, k + 1)

\* The daemon's idea of the session is the card's: it thinks a session runs
\* exactly while one request is on its way, being served, or has its last
\* reply on its way back, and that request is the holder's unless the
\* holder has gone.
SessionAgrees ==
  IF session = "none"
  THEN agent.mode = "main" /\ NoneOf(Way, SessionRequest) /\ PollsFrom(c2h, 1)
  ELSE \E o \in Conn : holder \in {None, o} /\ (Asking(o) \/ Serving(o) \/ Ended(o))

\* A client's one request comes before everything else it sends: it is
\* never behind other frames, nor sent by a client that has the card.
AskedOnce ==
  \A c \in Conn :
    /\ \A i \in 1 .. Len(up[c]) :
         up[c][i] \in SessionRequest => i = 1 /\ pend[c] = <<>> /\ c # holder
    /\ \A i \in 1 .. Len(pend[c]) :
         /\ pend[c][i].who = c /\ pend[c][i].tag \notin Polls
         /\ pend[c][i].tag \in SessionRequest => i = 1
    /\ c = holder => pend[c] = <<>>
    /\ cl[c].reqs = 0 => up[c] = <<>> /\ pend[c] = <<>> /\ c # holder

\* The daemon's variables keep their types, its session is the card's, and
\* no client opens a session inside its own.
RelayInv == TypeOK /\ SessionAgrees /\ AskedOnce

\* The ids in q match the polls in a line one for one, in order, and the
\* newest StatCap of them are those of the clients that asked.
Matches(q, line) ==
  \E at \in [1 .. Len(q) -> 1 .. Len(line)] :
    /\ \A j, k \in 1 .. Len(q) : j < k => at[j] < at[k]
    /\ \A i \in 1 .. Len(line) : line[i].tag \in Polls <=> \E k \in 1 .. Len(q) : at[k] = i
    /\ \A k \in 1 .. Len(q) : Len(q) - k < StatCap => line[at[k]].who = q[k]

\* There are as many ids in stat_q as Stat requests and replies under way,
\* whichever session they are interleaved with and whoever has gone, and the
\* newest StatCap of them are right: an overrun spoils the older ones only,
\* and is over once no more than StatCap wait.
StatOrder == Matches(statQ, Line) /\ (Len(statQ) > StatCap => overrun)

\* A StatReply goes to the client whose Stat it answers ("a StatReply to the
\* oldest waiting requester", deliver).  It does not when the ring of ids is
\* overrun: the oldest requester's place holds the newest one's id.
StatToOldest ==
  \A c \in Conn : \A i \in 1 .. Len(down[c]) :
    down[c][i].tag = "StatReply" => down[c][i].who = c

\* A client that asked for something and stays gets its answer (or is
\* refused), whatever the others do, leave open or abandon.  Only a Stat may
\* stay without one, its reply having gone to another after an overrun.
Served ==
  \A c \in Conn : (cl[c].st = "open" /\ cl[c].reqs > 0)
                  ~> (cl[c].st = "closed" \/ (overrun /\ cl[c].kind = "stat"))

\* The session of a holder that left mid-way ends: its command's input is
\* closed, its put is completed, and the card is free for the next client.
CardFreed == (session # "none" /\ holder = None) ~> (session = "none")
=============================================================================
