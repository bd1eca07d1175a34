----------------------------- MODULE ExecFlow -----------------------------
(***************************************************************************)
(* Flow control along one `phictl exec` session.  The command's input goes *)
(* client -> socket -> daemon (to_card) -> ring -> agent (in_buf) -> pipe, *)
(* its output pipe -> agent -> ring -> daemon -> socket -> client.  Every  *)
(* stage is bounded, the client, the daemon and the agent are one thread   *)
(* each, and each of the three does blocking writes: the client to its     *)
(* socket (send_tx), the daemon to a client (write_all_nb), the agent to   *)
(* /dev/phirpc (f_send).  Another client asks for one Stat sample at any   *)
(* moment.                                                                 *)
(*                                                                         *)
(* The unit is a frame of input or output (16 and 32 KiB in the code);     *)
(* standard output and standard error are one pipe here.                   *)
(***************************************************************************)
EXTENDS Naturals, Sequences, FiniteSets

CONSTANTS InTotal,      \* frames of standard input the client has
          OutTotal,     \* frames of output the command may write
          UpCap, DownCap,  \* the socket's two buffers
          ReadMax,      \* frames one read, one fill or one pop brings
          ToCardLimit,  \* to_card at which clients are not read
          H2cCap, C2hCap,  \* the rpc rings, in input and in output frames
          Backlog,      \* INPUT_BACKLOG
          InCap,        \* INCAP, the agent's input buffer
          PipeCap       \* each of the command's pipes

ASSUME CapAssumption ==
  /\ {UpCap, DownCap, ReadMax, ToCardLimit, H2cCap, C2hCap, Backlog, PipeCap} \subseteq Nat \ {0}
  /\ {InTotal, OutTotal} \subseteq Nat
  /\ InCap \in Nat /\ InCap >= Backlog + ReadMax

VARIABLES
  cpc, cframe, csock, inLeft, stdinOpen, got, \* the client
  up, down,                   \* its socket
  toCard, dec, stat,          \* the daemon; the Stat request's progress
  h2c, c2h,                   \* the rings
  apc, rx, tx, inq, inOpen, inEof, late,      \* the agent
  inPipe, outPipe,            \* the command's pipes
  cmd, shut, seenEof, used, made  \* the command; frames it read and wrote

clientVars == <<cpc, cframe, csock, inLeft, stdinOpen, got>>
daemonVars == <<toCard, dec, stat>>
inputVars == <<inq, inOpen, inPipe>>
agentVars == <<apc, rx, tx, inEof, late>>
cmdVars == <<cmd, shut, seenEof, used, made>>
vars == <<clientVars, up, down, daemonVars, h2c, c2h, agentVars, inputVars, outPipe, cmdVars>>

Least(a, b) == IF a =< b THEN a ELSE b
Front(s, n) == SubSeq(s, 1, Least(n, Len(s)))
Rest(s, n) == SubSeq(s, Least(n, Len(s)) + 1, Len(s))
Count(s, tag) == Cardinality({i \in 1 .. Len(s) : s[i] = tag})

----------------------------------------------------------------------------
(* The client's loop (cmd_exec).                                           *)

clientFrame == <<up, down, daemonVars, h2c, c2h, agentVars, inputVars, outPipe, cmdVars>>

\* One poll of the socket and standard input.  Input, when it is there, is
\* read and sent first; the socket is read after that if this poll saw it.
ClientPoll ==
  /\ cpc = "poll"
  /\ csock' = (down # <<>>)
  /\ \/ /\ stdinOpen
        /\ cpc' = "send"
        /\ cframe' = IF inLeft > 0 THEN "Stdin" ELSE "StdinEof"
        /\ inLeft' = IF inLeft > 0 THEN inLeft - 1 ELSE 0
        /\ stdinOpen' = (inLeft > 0)
     \/ /\ down # <<>>
        /\ cpc' = "recv"
        /\ UNCHANGED <<cframe, inLeft, stdinOpen>>
  /\ got' = got
  /\ UNCHANGED clientFrame

\* send_tx blocks while the socket is full.
ClientSend ==
  /\ cpc = "send" /\ Len(up) < UpCap
  /\ up' = Append(up, cframe)
  /\ cpc' = IF csock THEN "recv" ELSE "poll"
  /\ cframe' = "none"
  /\ UNCHANGED <<csock, inLeft, stdinOpen, got, down, daemonVars, h2c, c2h,
                 agentVars, inputVars, outPipe, cmdVars>>

\* One read of the socket; Exit ends the client.
ClientRecv ==
  LET frames == Front(down, ReadMax)
  IN /\ cpc = "recv"
     /\ down' = Rest(down, ReadMax)
     /\ got' = got + Count(frames, "Stdout")
     /\ cpc' = IF Count(frames, "Exit") > 0 THEN "gone" ELSE "poll"
     /\ UNCHANGED <<cframe, csock, inLeft, stdinOpen, up, daemonVars, h2c, c2h,
                    agentVars, inputVars, outPipe, cmdVars>>

----------------------------------------------------------------------------
(* The daemon's pass (serve_step).                                         *)

daemonFrame == <<clientVars, agentVars, inputVars, outPipe, cmdVars>>

\* The other client's Stat is queued behind what is already there.
DaemonStat ==
  /\ dec = <<>> /\ stat = "none" /\ Len(toCard) < ToCardLimit
  /\ stat' = "asked"
  /\ toCard' = Append(toCard, "Stat")
  /\ UNCHANGED <<up, down, dec, h2c, c2h, daemonFrame>>

RingRoom == H2cCap - Len(h2c)

\* Mutant: the card is drained only once everything for it is on its way.
PopMaxIdle(left) == IF left = <<>> THEN ReadMax ELSE 0

\* The card's ring is drained whatever is left for the card.
PopMax(left) == ReadMax

\* Up to the delivery: clients_to_card reads the client unless to_card is
\* close to full, push_to_card fills the ring, card_to_clients takes one
\* piece off the other.
DaemonPass ==
  LET n == IF Len(toCard) < ToCardLimit THEN ReadMax ELSE 0
      queue == toCard \o Front(up, n)
      left == Rest(queue, RingRoom)
  IN /\ dec = <<>>
     /\ up' = Rest(up, n)
     /\ h2c' = h2c \o Front(queue, RingRoom)
     /\ toCard' = left
     /\ dec' = Front(c2h, PopMax(left))
     /\ c2h' = Rest(c2h, PopMax(left))
     /\ UNCHANGED <<down, stat, daemonFrame>>

\* deliver, client_send: the write waits for room in the client's socket,
\* and the whole pass with it.  A client that has gone takes nothing.
DaemonDeliver ==
  /\ dec # <<>>
  /\ \/ /\ Head(dec) = "StatReply"
        /\ stat' = "answered" /\ down' = down
     \/ /\ Head(dec) # "StatReply" /\ cpc # "gone" /\ Len(down) < DownCap
        /\ down' = Append(down, Head(dec)) /\ stat' = stat
     \/ /\ Head(dec) # "StatReply" /\ cpc = "gone"
        /\ UNCHANGED <<down, stat>>
  /\ dec' = Tail(dec)
  /\ UNCHANGED <<up, toCard, h2c, c2h, daemonFrame>>

----------------------------------------------------------------------------
(* The agent (ex_loop, ex_done, main_loop).  tx is the frame f_send is     *)
(* writing: while there is one the agent does nothing else.                *)

agentFrame == <<clientVars, up, down, daemonVars, cmdVars>>

AgentSend ==
  /\ tx # <<>> /\ Len(c2h) < C2hCap
  /\ c2h' = c2h \o tx /\ tx' = <<>>
  /\ UNCHANGED <<h2c, apc, rx, inEof, late, inputVars, outPipe, agentFrame>>

\* Mutant: the input buffer is taken to be as small as the backlog.
InFitsBacklog(n) == n =< Backlog

\* in_push drops a frame the buffer has no room for, without a word.
InFits(n) == n =< InCap

\* in_flush: what the pipe takes goes into it; it is closed once all is
\* written after StdinEof, or as soon as it breaks, and the rest dropped.
Breaks == inOpen /\ inq > 0 /\ shut
Taken == IF inOpen /\ ~Breaks THEN Least(inq, PipeCap - inPipe) ELSE 0
Left == IF Breaks THEN 0 ELSE inq - Taken
\* Mutant: StdinEof never closes the pipe.
StaysOpenAfterEof == inOpen /\ ~Breaks

StaysOpen == inOpen /\ ~Breaks /\ ~(Left = 0 /\ inEof)
Flush == inPipe' = inPipe + Taken /\ inOpen' = StaysOpen

\* Mutant: Stat is dropped like any other frame during a command.
ReplyNothing(tag) == <<>>

Reply(tag) == IF tag = "Stat" THEN <<"StatReply">> ELSE <<>>

\* ex_frame, with q frames queued: Stdin is queued unless the input has
\* ended, StdinEof noted, Stat answered.
Handle(tag, q, open) ==
  /\ inq' = IF tag = "Stdin" /\ open /\ ~inEof /\ InFits(q + 1) THEN q + 1 ELSE q
  /\ inEof' = (inEof \/ tag = "StdinEof")
  /\ tx' = Reply(tag)

\* A frame already buffered is handled, then the output looked at.
AgentFrame ==
  /\ apc = "loop" /\ tx = <<>> /\ cmd # "exited" /\ rx # <<>>
  /\ Flush /\ Handle(Head(rx), Left, StaysOpen)
  /\ rx' = Tail(rx)
  /\ apc' = "pump"
  /\ UNCHANGED <<h2c, c2h, late, outPipe, agentFrame>>

\* pump_poll(0): at most one read of the output pipe.
AgentPump ==
  /\ apc = "pump" /\ tx = <<>> /\ apc' = "loop"
  /\ IF outPipe > 0 THEN outPipe' = outPipe - 1 /\ tx' = <<"Stdout">>
                    ELSE UNCHANGED <<outPipe, tx>>
  /\ UNCHANGED <<h2c, c2h, rx, inEof, late, inputVars, agentFrame>>

\* The device is left alone while the input backlog is full.
DeviceReady(queued) == queued < Backlog /\ h2c # <<>>

\* With no frame buffered: flush, then poll the pipes and the device.
AgentPoll ==
  /\ apc = "loop" /\ tx = <<>> /\ cmd # "exited" /\ rx = <<>>
  /\ Flush /\ inq' = Left
  /\ IF outPipe > 0 THEN outPipe' = outPipe - 1 /\ tx' = <<"Stdout">>
                    ELSE UNCHANGED <<outPipe, tx>>
  /\ apc' = IF DeviceReady(inq') THEN "fill" ELSE "loop"
  /\ UNCHANGED <<h2c, c2h, rx, inEof, late, agentFrame>>

\* fill, and the first frame it brought.
AgentFill ==
  /\ apc = "fill" /\ tx = <<>> /\ apc' = "loop"
  /\ Handle(Head(h2c), inq, inOpen)
  /\ rx' = Tail(Front(h2c, ReadMax))
  /\ h2c' = Rest(h2c, ReadMax)
  /\ UNCHANGED <<c2h, late, inOpen, inPipe, outPipe, agentFrame>>

\* ex_done: the input goes, the output gets OUTPUT_GRACE_MS.
AgentDone ==
  /\ apc = "loop" /\ tx = <<>> /\ cmd = "exited"
  /\ apc' = "grace" /\ inOpen' = FALSE /\ inq' = 0
  /\ UNCHANGED <<h2c, c2h, rx, tx, inEof, late, inPipe, outPipe, agentFrame>>

AgentGracePump ==
  /\ apc = "grace" /\ tx = <<>> /\ outPipe > 0 /\ ~late
  /\ outPipe' = outPipe - 1 /\ tx' = <<"Stdout">>
  /\ UNCHANGED <<h2c, c2h, apc, rx, inEof, late, inputVars, agentFrame>>

\* The grace runs out while f_send waits for the ring; reading what the
\* pipe holds takes no such time by itself.
AgentGraceOver ==
  /\ apc = "grace" /\ tx # <<>> /\ Len(c2h) = C2hCap /\ ~late
  /\ late' = TRUE
  /\ UNCHANGED <<h2c, c2h, apc, rx, tx, inEof, inputVars, outPipe, agentFrame>>

\* End of file on the output, or no grace left: Exit, and the pipes close.
AgentExit ==
  /\ apc = "grace" /\ (outPipe = 0 \/ late)
  /\ tx = <<>>
  /\ tx' = <<"Exit">> /\ apc' = "main" /\ outPipe' = 0
  /\ UNCHANGED <<h2c, c2h, rx, inEof, late, inputVars, agentFrame>>

\* Outside the session: input that came too late is ignored.
AgentMain ==
  /\ apc = "main" /\ tx = <<>> /\ rx \o h2c # <<>>
  /\ tx' = Reply(Head(rx \o h2c))
  /\ IF rx # <<>> THEN rx' = Tail(rx) /\ h2c' = h2c
     ELSE rx' = Tail(Front(h2c, ReadMax)) /\ h2c' = Rest(h2c, ReadMax)
  /\ UNCHANGED <<c2h, apc, inEof, late, inputVars, outPipe, agentFrame>>

----------------------------------------------------------------------------
(* The command (external): it reads, writes and exits as it likes, and     *)
(* waits on its pipes like any process.                                    *)

cmdFrame == <<clientVars, up, down, daemonVars, h2c, c2h, agentVars, inq, inOpen>>

\* What it may do next, having read or closed its input, or not.
Chosen(eof, m) ==
  \/ cmd' = "exited"
  \/ cmd' \in {"read", "close"} /\ ~eof
  \/ cmd' = "write" /\ m < OutTotal

CmdRead ==
  /\ cmd = "read"
  /\ \/ inPipe > 0 /\ inPipe' = inPipe - 1 /\ used' = used + 1 /\ seenEof' = seenEof
     \/ inPipe = 0 /\ ~inOpen /\ seenEof' = TRUE /\ UNCHANGED <<inPipe, used>>
  /\ Chosen(seenEof', made)
  /\ UNCHANGED <<shut, made, outPipe, cmdFrame>>

\* It may close its standard input without reading it all.
CmdClose ==
  /\ cmd = "close"
  /\ shut' = TRUE /\ inPipe' = 0
  /\ Chosen(TRUE, made)
  /\ UNCHANGED <<seenEof, used, made, outPipe, cmdFrame>>

CmdWrite ==
  /\ cmd = "write" /\ outPipe < PipeCap
  /\ outPipe' = outPipe + 1 /\ made' = made + 1
  /\ Chosen(seenEof \/ shut, made')
  /\ UNCHANGED <<shut, seenEof, used, inPipe, cmdFrame>>

----------------------------------------------------------------------------
\* The Exec request has just started the command.
Init ==
  /\ cpc = "poll" /\ cframe = "none" /\ csock = FALSE
  /\ inLeft = InTotal /\ stdinOpen = TRUE /\ got = 0
  /\ up = <<>> /\ down = <<>>
  /\ toCard = <<>> /\ dec = <<>> /\ stat = "none"
  /\ h2c = <<>> /\ c2h = <<>>
  /\ apc = "loop" /\ rx = <<>> /\ tx = <<>> /\ late = FALSE
  /\ inq = 0 /\ inOpen = TRUE /\ inEof = FALSE
  /\ inPipe = 0 /\ outPipe = 0
  /\ cmd \in {"read", "close", "exited"} \cup (IF OutTotal > 0 THEN {"write"} ELSE {})
  /\ shut = FALSE /\ seenEof = FALSE /\ used = 0 /\ made = 0

ClientNext == ClientPoll \/ ClientSend \/ ClientRecv
DaemonNext == DaemonStat \/ DaemonPass \/ DaemonDeliver
AgentNext == \/ AgentSend \/ AgentFrame \/ AgentPump \/ AgentPoll \/ AgentFill
             \/ AgentDone \/ AgentGracePump \/ AgentGraceOver \/ AgentExit \/ AgentMain
CmdNext == CmdRead \/ CmdClose \/ CmdWrite

Next == ClientNext \/ DaemonNext \/ AgentNext \/ CmdNext
Spec == Init /\ [][Next]_vars

\* The three loops of the repository's programs keep running.
LoopFairness == /\ WF_vars(ClientNext) /\ WF_vars(AgentNext)
                /\ WF_vars(DaemonNext)

\* ... and the command does, too: it has finite output, reads to the end of
\* its input at most, and so exits unless it waits for ever on a pipe.
FairSpec == Spec /\ LoopFairness /\ WF_vars(CmdNext)

----------------------------------------------------------------------------
(* Properties.                                                             *)

Tag == {"Stdin", "StdinEof", "Stat", "Stdout", "Exit", "StatReply"}

\* Every stage stays within its buffer: to_card passes the limit by at most
\* one read, and the agent's input queue passes INPUT_BACKLOG by at most
\* what the decoder had buffered (the room INCAP has to spare).
TypeOK ==
  /\ cpc \in {"poll", "send", "recv", "gone"} /\ cframe \in {"none", "Stdin", "StdinEof"}
  /\ csock \in BOOLEAN /\ stdinOpen \in BOOLEAN /\ inLeft \in 0 .. InTotal
  /\ got \in 0 .. OutTotal /\ stat \in {"none", "asked", "answered"}
  /\ \A q \in {up, down, toCard, dec, h2c, c2h, rx, tx} : q \in Seq(Tag)
  /\ Len(up) =< UpCap /\ Len(down) =< DownCap
  /\ Len(toCard) < ToCardLimit + ReadMax
  /\ Len(h2c) =< H2cCap /\ Len(c2h) =< C2hCap
  /\ Len(dec) =< ReadMax
  /\ apc \in {"loop", "pump", "fill", "grace", "main"}
  /\ Len(rx) < ReadMax /\ Len(tx) =< 1
  /\ inq \in 0 .. Backlog + ReadMax - 1 /\ inPipe \in 0 .. PipeCap /\ outPipe \in 0 .. PipeCap
  /\ inOpen \in BOOLEAN /\ inEof \in BOOLEAN /\ late \in BOOLEAN
  /\ shut \in BOOLEAN /\ seenEof \in BOOLEAN
  /\ cmd \in {"read", "close", "write", "exited"}
  /\ used \in 0 .. InTotal /\ made \in 0 .. OutTotal

\* The frames on their way to the agent, the oldest first, and those on
\* their way to the client.
Sending == IF cframe = "none" THEN <<>> ELSE <<cframe>>
InWay == rx \o (h2c \o (toCard \o (up \o Sending)))
OutWay == down \o dec \o c2h \o tx

\* No input is lost on the way: while the command may still read, every
\* frame the client took from its standard input is somewhere between the
\* client and the command, although in_push drops what it cannot hold.
\* Later there is never more than was taken.
Supply == inLeft + Count(InWay, "Stdin") + inq + inPipe + used
InputConserved == Supply =< InTotal /\ (inOpen /\ ~shut => Supply = InTotal)

\* A command that reads to the end of its input has read all of it: once
\* the pipe is closed for it, the rest is in the pipe.
InputComplete ==
  /\ seenEof => used = InTotal
  /\ ~inOpen /\ ~shut /\ cmd # "exited" => inPipe + used = InTotal

\* StdinEof is the last of the input wherever it is: no Stdin comes behind
\* it, the client has none left and the agent waits for none after it.
EofLast(s) == \A i, j \in 1 .. Len(s) : s[i] = "StdinEof" /\ s[j] = "Stdin" => j < i
EofInOrder ==
  /\ EofLast(InWay)
  /\ stdinOpen => ~inEof /\ Count(InWay, "StdinEof") = 0
  /\ ~stdinOpen => inLeft = 0
  /\ inEof => Count(InWay, "Stdin") = 0

\* The agent turns to the device only with room for one more piece of it,
\* so INCAP's room to spare over INPUT_BACKLOG is enough.
RoomToSpare ==
  /\ inq + Len(rx) < Backlog + ReadMax
  /\ apc = "fill" => inq < Backlog /\ h2c # <<>> /\ rx = <<>>
  /\ apc \in {"grace", "main"} => inq = 0 /\ ~inOpen /\ cmd = "exited"

\* The client gets no more output than the command wrote.
OutputBounded == got + Count(OutWay, "Stdout") + outPipe =< made

\* What the client and the command are in the middle of.
Busy ==
  /\ cpc = "send" <=> cframe # "none"
  /\ cmd \in {"read", "close"} => ~seenEof /\ ~shut
  /\ cmd = "write" => made < OutTotal

\* The way of the input: every stage within its buffer, nothing lost between
\* them, and end of file only after all of it (in_push, in_flush, fill,
\* clients_to_card).
InputInv == /\ TypeOK /\ InputConserved /\ InputComplete
            /\ EofInOrder /\ RoomToSpare /\ OutputBounded /\ Busy

\* An agent blocked on a full card-to-host ring gets going again: the relay
\* drains the ring on every pass, whoever waits for whom on the input's way.
\* It takes a pass that comes back, so the client's socket has to hold what
\* the client does not read while it sends.
AgentUnblocked == (tx # <<>> /\ Len(c2h) = C2hCap) ~> (Len(c2h) < C2hCap)

\* Stat is answered, also while a command runs.
StatAnswered == (stat = "asked") ~> (stat = "answered")

\* The session comes to its end and the client sees it, however often client,
\* daemon and agent wait on the way of the input, when the client's socket
\* takes the output.
SessionEnds == <>(cpc = "gone")
=============================================================================
