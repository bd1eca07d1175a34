# Formal models of the Phi 3120A host and card software

TLA+ models of the parts of this repository where two or more programs meet
(the rings in card memory, the control relay between `phictl` clients and the
card's agent, the flow of an `exec` session, the block channel with its DMA
engine, the TCP stack of the port forwarder) and of its Rust crates: the
message format with its decoder, the vector kernels of libknc and their
generator, the instruction encoder, and the audit every binary passes. TLC
checks every model on small instances; TLAPS proves, for every size, every stream
and every file, the safety of the rings, the relay, the `exec` session, the block
channel and the TCP stack, that messages survive encoding and any cutting of
the stream, that the encoder's bytes mean what was asked, that the audit tells
the truth about a file, that blocks are moved whole, that a context switch keeps
the vector registers, and that masked lanes compute what one lane would.

## The system

A host process (`phictl daemon`, x86-64 assembly in `host/asm/phictl`) opens
the card through VFIO, which resets it, loads a kernel, and from then on runs
one loop on one thread: `console_step`, `services_step`, spin for a moment,
sleep. Host and card share a region of card memory laid out by `ring.S` as
channels: console, network, rpc, two block channels. The card's kernel drivers
(`card/kernel/patches`) and its agent (`card/agent`) are the other ends.

| Component | State it keeps | Operations | Meets | What makes it correct |
|---|---|---|---|---|
| Byte rings (`ring.S`, patch 0022) | head, tail, data area; the driver's own index | push, pop, format, attach | host and card, no lock | FIFO, nothing overwritten, lost or repeated; wrap-around and reboot |
| Control relay (`serve.S`) | client table, holder, session, Stat queue, `to_card` | accept, read, reap, pick, push, deliver | clients by socket, agent by ring | replies and input only to the session they belong to; the card is always freed |
| Clients (`client.S`) | a script per command | connect, send, receive, leave | relay | answered or refused |
| Agent (`card/agent`) | mode, input queue, pipes of a command | frame, output, exit, grace | relay, the command | nothing of a session leaks into the next; no input lost |
| Block service and DMA (`disk.S`, `dma.S`) | record in hand, pipeline, sequence numbers, staging buffer | poll, pop, submit, drain, serve, complete | card driver, engine | success means the data moved; flush after writes; every request ends |
| Block driver (patches 0025, 0026, 0028, 0029) | tags, pending counts, `outstanding` | queue, complete, register | block layer, block service | each completion counted once, for its request |
| Forwarder TCP (`tcp.S`, `forward.S`, patch 0021) | a connection's sequence numbers, two buffers, timer | segment in, deliver, read, send, FIN, timer, close | local socket, the card's TCP | both streams in order and whole; closes settle |
| Boot, card, console (`boot.S`, `card.S`, `console.S`) | boot progress, time limits | reset, load, start, watch | hardware, card kernel | planned |
| TAP bridge (`net.S`), services | frames in hand | forward | kernel, ring | planned |
| Messages (`phi-rpc`) | the decoder's buffer | encode, push, next_frame | every stream of frames | the frames sent come out, however the stream is cut; one bad frame costs itself |
| Kernels of libknc (`knc-mvex/src/main.rs`, `knc-rs`) | vector registers, packed blocks | pack, unpack, encode, unffor, memcpy64, memset64, mandel | the card's programs | every bit in its place at every width and alignment; nothing beyond the block |
| Vector state (patch 0024, `kernel_header`) | save area of a task | save, restore | kernel, tasks | a task finds its registers again |
| Encoder (`knc-mvex` lib, conv, transc) | none | one constructor per instruction | generator, card | bytes mean what was asked |
| Audit (`phi-isa-audit`) | position, hits, counts | walk, classify, verdict | every build | in step with the code; fails exactly when it should |
| Region layout (`ring.S` region_format) | channel table | plan, format, open | drivers | planned |
| `phitop`, front end, sensors, sysfs, text | display, options | | | see "Not modelled" |
| hand-written libraries, the rest of the kernel port, scripts, toolchain | | | | see "Not modelled" |

What is hard in it: three programs that each do blocking writes to the next;
frames without session or request identity, matched by order alone; clients
that vanish at any moment; two processors sharing memory with nothing but the
order of writes between them; a DMA engine that may stall after its copy has
been given up; 32-bit numbers that wrap; and code no test reaches in all its
cases, because there is one kernel for each width and no assembler that knows
the instructions. `PROJECT.json` lists each hazard with
its line and the properties aimed at it.

## Modules

| Module | Models | Runs |
|---|---|---|
| `ByteStream` | the promise of one direction of a channel: a bounded FIFO stream | (abstract) |
| `ByteRing` | the ring between `ring_push`/`ring_pop` and the rpc driver; implements `ByteStream` | `ByteRing` |
| `ModArith` | lemmas several proofs share: remainders, counting, joined sequences | (TLAPS) |
| `ByteRingProofs` | the ring's proofs | (TLAPS) |
| `RelayProofs`, `ExecFlowProofs`, `TcpProofs` | the proofs about the module each extends | (TLAPS) |
| `BlockChannelProofs` | the block channel: where every record is, and where its data is | (TLAPS) |
| `CrateProofs` | the message format and the decoder of `phi-rpc`; the kernels of `FastLanes`, `VpuBlocks` and `Mandel` | (TLAPS) |
| `AuditProofs` | the instruction encoder and the audit | (TLAPS) |
| `Relay` | clients, daemon pass, agent, frame by frame | `Relay2`, `RelayLive` |
| `ExecFlow` | every bounded buffer along one `exec` session | `ExecFlow`, `ExecFlowDeadlock` |
| `BlockChannel` | driver, block service, DMA channel, engine | `BlockChannel`, `BlockStale` |
| `Tcp` | the daemon's end of one forwarded connection | `Tcp`, `TcpLive`, `TcpFin` |
| `Joining` | sequences one after another: parts of a message, frames of a stream, instructions of a section or a kernel | `Crates`, `Audit` |
| `Wire` | `phi-rpc`'s messages, encoding and decoding | `Crates` |
| `FrameDecoder` | `phi-rpc`'s `Decoder` at the end of a stream; extends `Wire` | `Crates` |
| `VpuLane` | one lane of the vector unit on symbolic bits | `Crates` |
| `LaneCodec` | pack, unpack, transform and dispatch kernels with `knc-rs`'s `Codec` | `Crates` |
| `FastLanes` | the FastLanes backend; extends `LaneCodec` | `Crates` |
| `VpuBlocks` | memcpy64, memset64, and the vector state over context switches | `Crates` |
| `Mandel` | the masked escape-time loop | `Crates` |
| `Mvex` | the instruction encoder | `Audit` |
| `IsaAudit` | the audit tool; extends `Mvex`, whose output it must step over | `Audit` |

The modules whose names begin with `MC` give the others the sets a cfg cannot
write down; `MCCrates` puts the kernel modules, which share the lane's variables,
and the decoder, of which the kernels know nothing, into one specification. `ExecFlow` and `Tcp` take plain numbers and are run directly.
Each operator whose comment begins with "Mutant" is a plausible slip in the
definition below it; no specification uses it.

### ByteRing

A push is four steps (compute room and read the own index; first piece; second
piece if the copy wraps; publish the index), a pop the mirror image, and the
two interleave freely. `cardEnd` says which end is the card's: that end uses
its driver variable (`cached`), the other one reads its index back from the
ring, as the code does. `Boot` resets everything in the middle of any copy and
formats the ring over the old data; `Attach` is the driver's init. `sent` and
`rcvd` are history and, being the state of `ByteStream`, the refinement mapping.

### Relay

The daemon's pass is a sequence of steps under `pc`; client and agent steps
come between any two. A frame is a tag; the connection it belongs to is
history that no guard looks at. `HandleFrame`, `Reap`, `Pick`, `Deliver` follow
`handle_frame`, `reap_clients`, `pick_holder` and `deliver` branch by branch.
Several frames of one read are handled one after the other (`busy`). `Kill`
takes a client away at any moment. What a peer of a foreign uid meets is what a
full table gives: `Accept` refuses it; the runs have a full table. `Traffic`,
which the daemon answers itself, is handled like `Sensors` and has no tag of
its own. A client may also send what no `phictl` command sends: a frame the
decoder refuses (`Bad`, `ReadBad` drops the client) or a message of the wrong
direction (`Odd`, which `main_loop` answers with an Error).

`stat_q` is a ring of `StatCap` ids, 64 in the code, that `handle_frame` writes
without a look at how many wait. `statQ` is what `deliver` finds there from
`stat_qh` on: `Remember` puts a new id at its own place and at every waiting one
that shares its slot. `overrun` is history.

`RelayInv` says where a session can be, whatever the daemon's variables hold:
`Asking` (its request is on the way to the agent, with nothing but the owner's
frames behind it), `Serving` (the agent is in it) or `Ended` (its last reply is
on the way back, with nothing behind it). `SessionAgrees` has the daemon's
`session` set exactly then, `AskedOnce` keeps a client's request in front of
everything else it sends. `StatOrder` matches the queue of requesters with the
polls in `Line`, everything between daemon and card with the answers first: one
id for each, in order, and the newest `StatCap` of them the right ones.
What `pick_holder` makes of a whole queue (`SessionAfterAll`) is stated without
a fold; `ReplayAssumption` of `MCRelay` has TLC compare it with
`forward_frame` repeated, for every queue of up to four frames.

### ExecFlow

One session with counters and short queues for every buffer between the
client's standard input and the command and back, and the three blocking
writes: `ClientSend` (`send_tx`), `DaemonDeliver` (`write_all_nb`), `AgentSend`
(`f_send`). `AgentPoll`, `AgentFrame`, `AgentFill` and `AgentPump` are the turns
of `ex_loop`; `AgentDone`, `AgentGracePump`, `AgentGraceOver` and `AgentExit`
are `ex_done`. The command is external: it reads, closes its input, writes and
exits as it likes. A second client's `Stat` may come at any pass.

### BlockChannel

The driver cuts a request into records and counts completions; the host's
`blk_step` is `HostPoll`, `HostPop`, `HostSubmit`, `HostDrain`, `HostServe`,
`HostWait`, with `HostAnswer` for every completion that waits for room. The
engine executes lines in order, the copy and the status write being separate
steps, and may stop between any two. `late` is "COPY_TIMEOUT_MS since the last
progress". Lengths are in half sectors so that a segment of a fraction of a
sector exists. `landed`, `issued` and `abandoned` are history.

`HostDrain` waits for `LastTaken`, the sequence number in front of the oldest
record in the pipeline, because that is where `blk_step` reads it
(`SV_IF_TAIL - 1`): it drains nothing. It still fails everything when the engine
has made no progress for too long, as `dma_wait` does.

`ServiceInv` has three parts. `Books`: status words, counters, descriptor ring
and pipeline agree; every record is in exactly one place from the ring to its
completion (`Out`, `Once`), belongs to the request that has its tag (`Owned`)
and is counted there (`PendingCounts`). `FlushOrder`: nothing posted before a
flush is behind it in the ring of records nor, for the services that have no
pipeline (`InPlace`), in the host or among the answers. `LandInv`: every record anybody still knows is one its
request was cut into, and, unless a staged copy was given up, what the engine
has passed has arrived and what is answered well has arrived.

### Tcp

`HostRecv` is `tcp_in` for one frame; `HostDeliver` to `HostClose` are the six
numbered parts of `conn_step`. The i-th byte of a stream is the number i. Both
rings drop a frame that does not fit, and the card may drop any. The card's TCP
is external: it takes bytes in order within its window, repeats, probes, resets,
and may ask for the daemon's address, which `arp_in` answers.

`AfterAck` takes a second argument, `rest`, any member of `Rests`: `arm_rto`
leaves the remainder of `now_ms`'s division, some number below 1000000, in the
register that `tcp_in` then compares with `fin_seq + 1`. Of the two values in the
runs one may be that number and one never is: the two outcomes the code can have.
`hostShut` tells `shutdown(SHUT_WR)` of the card's end of file from the
`shutdown(SHUT_RDWR)` of a connection that is over.

### Wire and FrameDecoder

A message is a tag and the tuple of its fields in wire order. `EncodeBody`
follows `encode`, `put_stat` and `put_devs`; `ReadSchema` lists the reads of
`decode_body`, `Reader::stat` and `Reader::devs` in their order, and
`ReadFields` performs them with the cursor's failures: a read is given a cursor
and returns a value and the cursor behind it, or nothing. The two are separate
texts, as in the source, so a field that one side forgets or swaps shows. Text
has characters of one, two and three bytes, so that clipping can cut one. A byte
of a number counts to `Base` = 4 instead of 256: a u16 ends at 15 and lists and
strings reach that end. `encode` is that of a release build, whose
`debug_assert` on MAX_FRAME is gone. `push` brings 1 to 300 bytes, after which
`next_frame` is called until it says there is no more, as every caller does;
`since` and `from` are history.

### VpuLane and the kernels

A kernel is the sequence of instructions its generator function emits, and a
step of the model executes one pass of the generator's outer loop. None of the
integer kernels moves data between lanes, so the model follows one lane. Each
bit of a word is 0, 1 or the name of an input bit; what comes of or-ing two
different names is `Junk`, and so is everything not written yet. A run on names
is a run on all inputs. Sums and differences stay formal, since the kernels add
only after the bits are in place. `LaneCodec` makes the calls of `knc-rs`'s
self-test: encode, pack, unpack, for every width from 0 to 33, through the
binding or the C entry points. `FastLanes` adds the column of the vector and
the alignment of the input. `VpuBlocks` counts in blocks of 64 bytes; a store
that is not globally ordered waits in `mem.wc`. Its `CtxSwitch` is the saving
and restoring half of patch 0024 with the offsets of `kernel_header`.
`Mandel` computes modulo `Prime` with `Lanes`, in the run 7 and two: loop and reference need only agree on
which operations are applied to what, and every pair of starting points and
escape times occurs.

### Mvex and IsaAudit

A constructor is an entry of one of the `...Forms` tables: map, prefix, W,
opcode, and what its signature and assertions accept. `Encode` assembles a
request with `mvex`, `with_sss` and the eviction hint; `Fields` reads bytes back
by the layout in the head comment of `lib.rs`. `IsaAudit` walks files: sections
of instructions, each with its bytes, what the disassembler (external) says of
it, and what the card does with it. Its steps are one round of
`scan_bytes_counting` each. Off the start of an instruction the disassembler
returns rubbish of one byte. `sort_by_key` is stable insertion by address. Names
are strings: the families of illegal features are told by how a name starts
(`starts_with`), and `--ignore` is compared letter by letter without regard to
case. A section whose data cannot be read (`readable`) is skipped as in
`audit_one`; `Executed` takes it to have nothing for the card to load. An
instruction is reported for one reason only (`GivenReason`), and it is that one
the caller has to ignore. `mvex` asks of a register number only that it is below
32, so a compare into mask 9 is accepted and read back as 9.

Two assumptions say what files there are. `JobsTyped`: a section is a sequence of
whole instructions; a vector instruction has the bytes the card's manual gives
it (`IsVector`, external), any other does not begin like one (`IsOther`).
`JobsJudged`: on single instructions the card and the audit's lists agree; that
the lists are right about the card is a matter of measurement, recorded in the
repository's documents, and not of this code.

## Runs

| Run | Expect | Shows |
|---|---|---|
| `ByteRing` | pass | a ring of 4 bytes with indices modulo 8, so both the data area and the indices wrap within 9 bytes; both orientations; one reboot anywhere |
| `Relay2` | pass | two clients of seven kinds, killed anywhere or dropped for a bad frame: no cross-talk, no foreign input, replies to two waiting Stats in order, the daemon's session agrees with the card's |
| `RelayLive` | pass | two clients connected at once compete for the card, over a ring of one Stat requester that is overrun: everyone else is served or refused, abandoned sessions end, and an overrun spoils only the ids it overwrites |
| `ExecFlow` | pass | a client that blocks on its own socket, output that just fits the way to it: input whole, a blocked agent goes on, Stat answered, the session ends |
| `ExecFlowDeadlock` | violation | neither fits: the ring of blocking writes closes |
| `BlockChannel` | pass | six kinds of service, two requests of one or two segments, a stalling engine |
| `BlockStale` | violation | a late copy through the staging buffer |
| `Tcp` | pass | two bytes each way, drops, retransmission, closes, resets: both streams in order, ends of file last |
| `TcpLive` | pass | a FIN is acknowledged or the connection given up |
| `TcpFin` | violation | an acknowledged FIN does not change the state |
| `Crates` | pass | every kernel on symbolic input: 32 widths in three modes, FastLanes at four alignments and four columns, block counts 0 to 9, context switches, the masked loop; and 385 streams (all 21 tags at their limits, every truncation, malformed, unknown and oversize frames, mixtures) in pieces of six sizes |
| `Audit` | pass | all 53 constructors with registers on both sides of every extension bit; pairs of instructions, odd sections and archives under six sets of flags |

Each property's comment says which code it is about. `PROJECT.json` names for
every property a mutant of the code that breaks it.

### Findings

Three runs show a disagreement between the code and what the repository says.

* `ExecFlowDeadlock`: `wire.md` argues that the relay cannot deadlock the agent
  because it drains the card's ring on every pass. The pass itself waits in
  `write_all_nb` for a client that is blocked in `send_tx`. It takes both halves:
  `ExecFlow` shows that a client blocked on its input does no harm while the
  output fits the way back (one frame of room less and the session deadlocks);
  with `UpCap` 4, `DownCap` 1 and `OutTotal` 4 in the same cfg, a daemon blocked on
  output does none while the client can get rid of its input (5 minutes).
* `BlockStale`: a copy that timed out stays in the descriptor ring. With the
  image as the backing store it then works on the staging buffer of the next
  request, which is reported good. `BlockChannel` shows that nothing of the
  kind happens to host memory, nor to the image while no copy times out.
* `TcpFin`: `tcp_in` keeps the acknowledgement number in a register over a call
  that overwrites it, so a FIN's acknowledgement does not take the connection
  out of FIN-WAIT-1, CLOSING or LAST-ACK, and the slot is not freed. `TcpLive`
  shows what does hold (`FinSettles`): the FIN reaches the card or the connection
  is given up.

Five more are stated as formulas of the modules, with the constants under which
TLC refutes them when they are added to a cfg:

* `FlushNeverOvertakes` under `BlockChannel.cfg`: `disk.S:515` and `disk.md:35-36`
  have the pipeline drained before a flush. `blk_step` reads the sequence number
  to wait for at the consumer's index, one record before the oldest in the
  pipeline. Only host memory over the engine has a pipeline, so what a flush
  there promises is the order of writes and no more.
* `ClosedComplete` under `Tcp.cfg`: a connection that closes skips the delivery of
  what it has received (`tcp.S:988`), against `tcp.md:23-24`. Today FIN-WAIT-2 is
  reached only through the coincidence described under `Tcp`; once the
  acknowledgement is recognised, always.
* `CardInOrder` with `Isns` {13}, `HostBytes` 3, `SndCap` 4, `CardCap` 3:
  `cmpl`/`jae` at `tcp.S:852` compares the FIN's number as a plain unsigned one,
  against `tcp.S:40-41`. In `Tcp` the local side's numbers stay clear of the wrap
  and the card's cross it; there both streams are right.
* `StatToOldest` under `RelayLive.cfg`: `serve.S:822-823` and `serve.md` send a
  StatReply to the oldest waiting requester; the ring of ids is overrun by the 65th.
* `NoCrossTalk` under `Relay2.cfg` with the kind `odd`: the agent's comment has the
  daemon read its Error as the end of what was forwarded, and `serve.md:32-33` has
  the next client start clean. An odd frame opens no session, so when its sender
  leaves nothing waits for the Error, and it ends the next client's session.

Met while modelling, without a formula of their own:

* `exec.md` has only a background process's output lost. The command's own is,
  too, when the ring stays full for the 300 ms of `ex_done` (`exec.S:308`).
* A flush, and every request of bounce mode, is subtracted from `outstanding`
  and never added (patch 0029). Only the poller's spinning depends on it.
* `tcp.md` says the FIN goes out once everything is acknowledged; the code (and
  the model) sends it once everything is sent.
* `phi-rpc` says the receiver never sees an invalid frame; a release build's
  `encode` writes one longer than MAX_FRAME. `FramesIntact` has it refused, and
  says nothing of the frames buffered behind it.
* `mvex_length` does not count the displacement of an address with an index and
  no base. The generator emits none; `InStep`, `VerdictSound` and `ReportExact`
  leave out sections with one (`NoBase`).
* `vcmppd`, `vcmpps`, `vmovapd_load` and the immediate shifts take a memory
  operand with a conversion and drop it. `DecodesToRequest` asks for the
  conversion only of constructors that encode one.
* `CET_IBT` is in the audit's illegal list, so its suspect branch is dead. Hits
  are in address order within an archive member, not across members. An
  instruction the disassembler calls invalid never fails the audit.
* `blocks * 64` in `memcpy64` wraps for counts of 2^58 and more.

### Bounds

`MaxSent` and `MaxBoots` (ByteRing): 9 bytes go once round the indices and more
than twice round the data. `MaxData`, `MaxOut`, `MaxRequests` (Relay): one frame
of input and of output is enough for a late one to exist in every queue; every
`phictl` command makes one request. Two connections are enough for a departed
holder and its successor; properties relate at most two. `StatCap` is 64 in
the code: with 2 (`Relay2`) the queue holds two ids in order and `NoCrossTalk` is
about Stat replies, too, with 1 (`RelayLive`) the second Stat overruns it; the
theorems are for every size. `RelayLive` has a slot for each of its two clients, so
that they do contend for the card, and leaves out data. `InTotal`, `OutTotal`
and the capacities (ExecFlow): each buffer is small enough to fill and to be
passed by a read, and `InCap` leaves exactly the spare room the code's constants
do. `UpCap` 1 in `ExecFlow` has the client block on its socket, with `DownCap` 3
just enough for the two frames of output and the Exit; the agent still blocks on
its ring of one frame. `ExecFlowDeadlock` is what lies beyond. `MaxReqs` 2, `TxCap` 3, `RxCap` 2, `MaxInFlight` 2 (BlockChannel): every
ring fills, two requests overlap, a tag is reused. `HostBytes`, `CardBytes` 2,
`RcvCap` 1, `RingCap` 1, one retransmission on each side (Tcp; `TcpLive` has one
byte of the local side): every buffer and ring fills, windows close, each kind of segment can be lost and repeated.
`Base` 4 and `MAX_FRAME` 250 (Crates): lists, strings and
frames reach their ends. `Columns` and `Residues` (Crates):
the first and last column and alignment and two between, so that each column is
filled by either half load. `MaxBlocks` 9: no, one and two unrolled passes with
every remainder. `MaxCtxGen` 2: each task changes its registers twice.
`EaxModulus`: any modulus above 33 behaves as 2^32 does.
Symmetry is used for the connections of `Relay2`, a run without liveness. Deadlock is checked in the runs of `Relay` and in `BlockChannel`, whose daemons
never stop, and in `Crates` and `Audit`, where only a call that has
returned, a stream read to its end or a tool that has exited may rest; the
other systems have a bounded amount of work and then rest.

### Fairness

* `ByteRing`: the daemon's loop and the driver's poll timer run, a push begun is
  finished, a booted card attaches. Nobody must start a push.
* `RelayLive`: the daemon's and the agent's loops run; a client sends its
  request and its end of input, and reads what it is sent; a command is sure to
  exit only once its input is closed.
* `ExecFlow`: one weak fairness condition per program, which is what a
  scheduler gives a thread; the command is finite.
* `BlockChannel`: daemon, poller and workqueue run, time passes. The engine has
  no fairness at all. That the daemon's loop runs is an assumption here; the
  deadlock of `ExecFlowDeadlock` breaks it.
* `TcpLive`, `TcpFin`: the daemon's loop runs; a timer that runs again and again is found due
  (strong fairness, because the timer is looked at once in a pass). The card has
  no fairness.

## Proofs

Each theorem holds for every value of the constants that satisfies the named
assumptions of its module. Those ask for positive capacities and, where the code
relies on a relation between two of its constants, for that relation: the index
width is a multiple of the ring's size (`ByteRing`), `INCAP` leaves one read of
room over `INPUT_BACKLOG` (`ExecFlow`), the sequence space is larger than what
is in flight (`Tcp`), a frame's length field can hold `MAX_FRAME` (`Wire`). For
the decoder and the audit they say what a stream of frames and a file are
(`StreamsFramed`, `JobsTyped`, `JobsJudged`).

| Module | Theorem | States |
|---|---|---|
| `ByteRingProofs` | `TypeCorrect`, `RingInvariant` | `[]TypeOK`, `[]IInv` |
| | `RingNeverOverfull`, `RingPublishedIntact`, `RingCopiesDisjoint` | the run's invariants |
| | `RingRefinesStream` | the ring implements `ByteStream` |
| `ExecFlowProofs` | `InputSafe` | `[]InputInv` |
| `RelayProofs` | `SessionIsCards`, `InputStaysHome`, `PollsInOrder`, `AnswersOwn` | `[]RelayInv`, `[]NoForeignInput`, `[]StatOrder`, `[]NoCrossTalk`, if `PhictlClients` |
| `BlockChannelProofs` | `BooksRight`, `CompletionsFit` | `[]Books`, `[]CompletionsMatch` |
| | `FlushIsLast` | `[](FlushOrder /\ FlushAfterWrites)`: services without a pipeline |
| | `ServiceRight`, `GoodMeansMoved` | `[]ServiceInv`, `[]MovedUnlessAbandoned` |
| `TcpProofs` | `DeliversInOrder`, `ShutsAfterAll` | `[]HostInOrder`, `[]ShutComplete` |
| | `ConnectionAgrees`, `CardGetsStream`, `CardEndIsLast` | `[]TcpInv`, `[]CardInOrder`, `[]CardEofComplete`, if `NoWrap` |
| `CrateProofs` | `DecoderHoldsNothing` | `[]NothingHeldBack` |
| | `DecoderTellsFrames`, `StreamsComeBack` | `[]FramesIntact`, if each frame by itself decodes to what it should; if every frame is one a sender or a line can make |
| | `RoundTrip` | what `decode_body` makes of `EncodeBody`, whole, cut and extended |
| | `BlocksAreExact` | `BlocksSpec => []BlocksExact` |
| | `RegistersSurviveSwitches` | `CtxSpec => []TaskKeepsRegisters` |
| | `UnfforIsLayout` | `FlsSpec => []UnfforMatchesLayout` |
| | `MandelIsScalar` | `MandelSpec => []LanesIndependent` |
| `AuditProofs` | `EncoderReadsBack` | `[]DecodesToRequest` |
| | `EncodedLength` | `mvex_length` of every encoded request is its length |
| | `WalkInStep`, `ReportIsExact`, `VerdictIsSound` | `[]InStep`, `[]ReportExact`, `[]VerdictSound` |

All invariants used are stated in the models and checked by TLC in the runs,
except where a proof module names one of its own. Every module has one lemma
per action; facts about sequences, finite sets and remainders are lemmas of
their own.

**The ring.** None of the properties is inductive by itself, since an index
says nothing of how often it has wrapped. `RingInv` ties everything to
positions in the history: `IndexInv` (each index is its stream length modulo
`IdxMod`, and they are at most `Size` apart), `ContentInv` (what is in flight
lies at its position's slot), `PrefixInv`, and for each copy in progress what
it has done so far (`ProducerInv`, `ConsumerInv`, `DetachedInv`). `UsedIndex`
then turns the wrapping subtraction into an ordinary one, `SlotInjective` keeps
the two copies apart, `Pieces` splits a copy at the end of the data area.
`ModArith` holds the facts about `%`, each derived from the division theorem.

**The exec session.** `InputInv` is inductive as it stands: that no input is
lost (`InputConserved`) needs that the agent reads only when there is room to
spare (`RoomToSpare`), that end of file comes last (`EofInOrder`) needs the
order of the frames on all five stages at once (`InWay`), and what a command has
read at its end of file (`InputComplete`) needs both. A stage hands on a prefix
of its queue, so `InWay` changes only at its ends; the lemmas on `Count` say so.

**The relay.** `RelayInv` is inductive, and `NoForeignInput` follows from it.
`NoCrossTalk` and `StatOrder` are inductive only together with it (`OrderInv`):
a Stat reply goes to the head of the queue, which is the right client because
queue and polls match in order and, unless the ring has been overrun, in their
ids, and any other reply goes to the holder, whose
session it is. Each step keeps the match by removing its first pair, adding a
last one, or turning a question into its answer; a new id may spoil others, but
only ones at least `StatCap` older (`RememberFacts`). All four assume
`PhictlClients`: one request per connection and no message of the wrong direction
(see Findings), as with every `phictl` command. The code does not
enforce it: a request its holder sends inside its own session is forwarded as a
part of the session, `handle_frame` takes the new session for the current one,
and the daemon's idea of the session is no longer the card's.

**The block channel.** `CompletionsMatch` and the bounds follow from `Books`,
which is inductive by itself; a completion is safe to count because the record
it stands for is in no second place. Neither needs the pipeline to be drained.
`FlushAfterWrites`, for the services without a pipeline, needs `FlushOrder` in
addition: the last completion of the flush comes when every record before it
has left `Out`, and with it every earlier write has ended. `MovedUnlessAbandoned`
needs `LandInv`, which relates the pipeline to the engine's ring by sequence
number (`PipeLands`), allows the staging buffer one copy (`StageLands`), and
follows good answers into the requests' counts (`Lands`): a segment of a
request that goes well has arrived or is still out, so when the last completion
comes all have. That each went to its own sectors then follows from their
lengths, all of them whole sectors (`EvenSums`). The hypothesis on `abandoned`
is part of the property: `BlockStale` shows it false without.

**TCP.** What the local side receives needs no hypothesis: `RecvInv` measures
sequence numbers from the card's initial one modulo `SeqMod`, and `tcp_in`
takes payload at exactly `rcv_nxt` only, a comparison that wrapping cannot hurt.
`ShutsAfterAll` says of `SHUT_WR` that all was delivered, and of the `SHUT_RDWR` of
a connection that ended by itself that all was received; more is false
(`ClosedComplete`, see Findings). No proof depends on what the clobbered register holds. What the card receives is proved when no
initial sequence number is within one stream of the end of the sequence space
(`NoWrap`), because there the code's unsigned comparison means what it should;
what happens otherwise is among the findings. `SendInv` says that the send buffer's
head is the byte `snd_una` stands for, that everything on the ring is a piece
of the stream or the FIN behind it, and that the card acknowledges only what it
has; a retransmission is then a piece the card has or the next one.

**Frames.** The decoder's part is `DecoderInv`: what is buffered is the piece of the
stream between what was taken and what arrived (`Window`), and unless a length
field out of range has been met since `from`, it begins where a frame begins
(`Synced`, `LostAfterBad`); `Quiet` says that after a `None` there is nothing to
take. With it, `Told`: the results so far are those of the frames passed. That
each frame by itself is read as it was written is `RoundTrip`, for every message
of every tag, with strings and lists of any length, numbers of any value in
their width, and for every `Base`, 256 included. It is not an induction over
the format but an argument about readers in a row: `Agrees` relates what one
reader makes of some bytes to what one writer put there, with and without bytes
behind them and for every proper prefix; `InARow` puts such readers behind one
another; and the schema of each tag is an instance. `ClipKeeps` shows that
what `clip` cuts is the longest prefix that fits and is still UTF-8. A message
of 2^32 bytes or more is left out, its length field being another number.

**The kernels.** `RunFrom` of a program is shown to be what its recursion says
(`RunDefined`), to go through two programs one after the other (`RunJoin`), and a
generator's loop to be the sequence it emits (`LoopOf`). A row of loads or stores
then has one effect (`LoadsRun`, `StoresRun`), however long it is. `BlocksInv`
has the first `pc.i` blocks moved except those that still wait in `mem.wc`,
the rest as they were, and `pc.i` and `pc.left` adding up to the count; that
the register a clear stores stays zero is part of it, since `Settle` may come
between any two steps. `CtxInv` has the registers of the running task in the
vector unit and those of every other task in its area; each register has a place
of its own (`PlacesOfRegisters`), so a save fills the area (`SaveRuns`) and a
restore the whole register file (`RestoreRuns`), which is why the order of
FXRSTOR and restore matters. `MandelInv` follows each lane by itself: one in the
mask holds the orbit's point after as many steps as the loop has turned, with all
earlier points inside; one that has left holds the first point outside and the
count (`Lane`). Under a mask a program does to a lane what it does alone or
nothing at all (`MaskedLanes`); the arithmetic is modulo `Prime` for any number
above 4, prime or not. The FastLanes kernel is a chain of phases, each a loop
whose turns write registers of their own (`Phase`, `PhaseRuns`); one lemma
follows a group's values through shift, shift, or and mask to what
`scalar_unpack` reads from the same words, the idle mask at the top of a word and
at width 32 included (`ExtractRuns`, `MaskIdle`), and `ScalarBits` turns that into
the bits of the layout. `LoadPair` shows that the two half loads meet wherever
the input starts, and `FlsReads` that the high half never leaves the last line
the input has a word in. `FlsInv` then has every slot before the kernel's place
filled and the others untouched, in both halves, with the base in its register
and, but for the zero-bit kernel, which loads none, the mask.

**The encoder.** `EncodeBytes` computes the bytes of every request, `ReadBack`
every field from the bytes: each is a sum of digits, and taking one out again is
division with remainder (`ModArith`). That no other instruction has the same
bytes follows from the numbers of the constructors: `Code` makes one number
of map, prefix, W, hint and opcode, `Codes` lists it for all 53, and `CodesTell`
compares them.

**The audit.** `WalkInStep` needs that the walk is on a boundary or at a section's
start (`StepInv`), and that `mvex_length` at a boundary is the length of the
instruction there, whatever follows it (`StepOver`). What was counted needs to
know how much of the file that is: `Place` relates member, section and position
to the number of instructions passed, through skipped members, skipped sections
and section ends. `Reported` adds that the vector count and the set of
severities and reasons are those of the first so many instructions of the
file (`Tells`), that sorting neither loses nor adds a hit (`SortFacts`), and what
the exit status was computed from. `WorstFacts` is the fold over an instruction's
reasons: the severity is that of the worst, and the reason is the first of that
severity, which is `GivenReason`. `VerdictSound` follows.

Where a proof counts upward (sums of segment lengths, the last frame of a kind
in a queue, a fold, a recursive function's value), it argues by the least number
that fails (`CountUp`, `LeastNumber`), since the library's induction rules take
an operator the provers cannot instantiate. That a recursive function is what
its definition says is proved the same way (`JoinedDefined`, `SortDefined`,
`WorstDefined`, `NumberDefined`, `RunDefined`, `MaskedDefined`, `OrbitDefined`).

Only model-checked: all liveness (`EveryByteTaken`, `Served`, `CardFreed`,
`AgentUnblocked`, `StatAnswered`, `SessionEnds`, `EveryRequestEnds`,
`FinSettles`), fairness and ENABLED being out of the prover's reach; and
`LaneCodec` (`PackedIsStream`, `UnpackMatchesScalar`, `CascadeRestores`). That
module has no parameter: its widths, modes and entry points are finitely many, its
bits symbolic, and TLC visits them all, so a theorem would add no case; the packer
collects its pieces by filtering a loop, one program per width, which a prover
would have to unroll. No module uses RECURSIVE.

## Not modelled

Option parsing, text, sensors, sysfs, VFIO and POST codes (`main.S`, `text.S`,
`sensors.S`, `sysfs.S`, `vfio.S`, `postcode.S`, the agent's `text.S` and the
sampling of `stat.S`): conversions and device access without protocol state.
Drawing in `phitop`. The generator's probes (`probe`, `int_probe`), which ask the
card what it does, and the timing of `knc-rs`'s self-test. Printing, symbol names
and `by_reason` of the audit. Numerical code written by hand in C and assembly,
and the examples. The kernel port beyond the vector state: it stands on hardware
behaviour that the repository does not define. The message format as `wire.S`
writes it a second time. Scripts, toolchain, vendored code. Checksums, Ethernet
and IP headers.

## Plan

1. Done: `ByteRing`, `Relay`, `ExecFlow`, `BlockChannel` and `Tcp` with their
   proofs, `Wire` and `FrameDecoder`, the kernels, `Mvex` and `IsaAudit`.
2. `wire.S`'s and the agent's incremental decoders shown to implement
   `FrameDecoder`.
3. `RegionLayout`: plan_end, region_format, region_open and the drivers' lookups:
   channels disjoint and aligned for every choice of sizes, the engine's areas
   apart from them; as theorems.
4. `Boot`: `boot.S`, `card.S`, `console.S` and patches 0011 and 0016: reset,
   load, start, the waits with their time limits, and the daemon's loop with
   spin and sleep (no lost wake-up, every service stepped).
5. `TapBridge`: `net.S` and patch 0021's receive path, frames whole or not at
   all, built on `ByteStream`.
6. `TopModel`: `phitop`'s sampling and reconnecting.
7. Proofs: every safety invariant of a passing run is proved but those of
   `LaneCodec`, where TLC's run is already complete.
