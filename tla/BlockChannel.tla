---------------------------- MODULE BlockChannel ----------------------------
(***************************************************************************)
(* A block channel: the card's driver knc_blk.c (kernel patches 0025,      *)
(* 0026, 0028, 0029) on one side, the daemon's block service (disk.S) with *)
(* the SBOX DMA engine it drives (dma.S) on the other.                     *)
(*                                                                         *)
(* The card posts one record per physical segment of a request and counts  *)
(* the completions; the host serves records in order.  Host memory over    *)
(* the engine is pipelined: a record is answered when the engine's status  *)
(* word says its copy is done, up to MaxInFlight at a time.  Everything    *)
(* else is served in place, behind a wait that is meant to drain the       *)
(* pipeline and waits for a record already taken out of it (HostDrain).  A *)
(* copy that makes no progress for COPY_TIMEOUT_MS fails every record in   *)
(* flight.  The engine itself is external: it executes its ring in order.  *)
(*                                                                         *)
(* Lengths and offsets are in half sectors, so that a segment that is not  *)
(* a whole number of sectors exists.  Data is identified by the record it  *)
(* belongs to.  The rings' bytes are the business of ByteRing.             *)
(***************************************************************************)
EXTENDS Integers, Sequences, FiniteSets

CONSTANTS NoReq,        \* a free tag
          Services,     \* [backend, path, bounce, slots] a service may be
          MaxDepth,     \* tags in direct mode (KNC_BLK_MAX_SLOTS)
          SegLists,     \* the physical segments a request may have
          TxCap, RxCap, \* the rings, in records and in completions
          MaxInFlight,  \* MAX_IN_FLIGHT; the descriptor ring has one line more
          MaxReqs       \* bound: requests the block layer starts

ASSUME ServiceAssumption ==
  \A s \in Services : /\ s.backend \in {"ram", "file"} /\ s.path \in {"dma", "aperture"}
                      /\ s.bounce \in BOOLEAN /\ s.slots \in 0 .. MaxDepth
ASSUME SegAssumption ==
  \A l \in SegLists : l \in Seq(Nat \ {0}) /\ l # <<>>
ASSUME BoundAssumption ==
  /\ {TxCap, RxCap, MaxInFlight} \subseteq Nat \ {0} /\ {MaxDepth, MaxReqs} \subseteq Nat
  /\ NoReq \notin [id : Nat, pending : Nat, ok : BOOLEAN]

VARIABLES
  svc,                          \* the service
  disk, direct, reqs, outstanding,  \* the driver
  issued,                       \* history: every request, and how it ended
  tx, rx,                       \* request records, completions
  hpc, rec, ans, then,          \* the host: step, record, answers to give
  ifq,                          \* records in the pipeline (SV_IF_*)
  submitted, completed, pending, late,  \* DC_*; late: PROGRESS is too old
  eq, hostWord, cardWord,       \* the engine's ring, the two status words
  staging,                      \* whose data the staging buffer holds
  landed,                       \* history: records whose data arrived
  abandoned                     \* history: a staged copy was given up

cardVars == <<disk, direct, reqs, outstanding, issued>>
hostVars == <<hpc, rec, ans, then, ifq>>
dmaVars == <<submitted, completed, pending, late>>
engineVars == <<eq, hostWord, cardWord>>
vars == <<svc, cardVars, tx, rx, hostVars, dmaVars, engineVars, staging, landed, abandoned>>

\* The sums of the first 0, 1, 2, ... numbers of a list.
Sums(l) ==
  LET upTo[i \in 0 .. Len(l)] == IF i = 0 THEN 0 ELSE upTo[i - 1] + l[i]
  IN upTo
Larger(a, b) == IF a >= b THEN a ELSE b
Data == {"read", "write"}

----------------------------------------------------------------------------
(* The card: requests go out.                                              *)

Depth == IF direct THEN MaxDepth ELSE svc.slots

\* One record per segment of a data request in direct mode; sector is the
\* running sum of whole sectors (sg->length >> 9), mem the segment's place
\* in the request.  One record in every other case.
RecordsOf(tag, id, op, segs) ==
  IF direct /\ op \in Data
  THEN [i \in 1 .. Len(segs) |->
          [tag |-> tag, id |-> id, op |-> op, seg |-> i, len |-> segs[i],
           mem |-> Sums(segs)[i - 1],
           sector |-> Sums([j \in 1 .. Len(segs) |-> segs[j] \div 2])[i - 1]]]
  ELSE <<[tag |-> tag, id |-> id, op |-> op, seg |-> 1,
          len |-> Sums(segs)[Len(segs)], mem |-> 0, sector |-> 0]>>

\* Only the direct path counts the request.
Counted(op) == IF direct /\ op \in Data THEN 1 ELSE 0

\* knc_blk_queue_rq: with no room in the ring it leaves the request to the
\* block layer, which offers it again.
QueueRq(tag, op, segs) ==
  LET id == Len(issued) + 1
      records == RecordsOf(tag, id, op, segs)
  IN /\ disk = "ready" /\ tag =< Depth /\ reqs[tag] = NoReq
     /\ id =< MaxReqs /\ Len(tx) + Len(records) =< TxCap
     /\ reqs' = [reqs EXCEPT ![tag] = [id |-> id, pending |-> Len(records), ok |-> TRUE]]
     /\ outstanding' = outstanding + Counted(op)
     /\ issued' = Append(issued, [op |-> op, segs |-> segs, n |-> Len(records), end |-> "none"])
     /\ tx' = tx \o records
     /\ UNCHANGED <<svc, disk, direct, rx, hostVars, dmaVars, engineVars, staging, landed, abandoned>>

----------------------------------------------------------------------------
(* The card: completions come in (knc_blk_poll, knc_blk_complete_one).     *)

\* Mutant: the first record's completion completes the request.
LastRecordFirst(tag) == TRUE

LastRecord(tag) == reqs[tag].pending = 1

\* A completion for a tag nobody has started is dropped.
Stray(c) == c.tag > Depth \/ (c.tag =< Depth /\ reqs[c.tag] = NoReq)

CompleteIdent(c) ==
  /\ IF disk = "none"
     THEN disk' = "registering" /\ direct' = ~c.bounce
     ELSE UNCHANGED <<disk, direct>>
  /\ UNCHANGED <<reqs, outstanding, issued>>

CompleteRecord(c) ==
  LET ok == reqs[c.tag].ok /\ c.status = 0
      id == reqs[c.tag].id
  IN /\ IF LastRecord(c.tag)
        THEN /\ reqs' = [reqs EXCEPT ![c.tag] = NoReq]
             /\ outstanding' = outstanding - 1
             /\ issued' = [issued EXCEPT ![id].end = IF ok THEN "ok" ELSE "error"]
        ELSE /\ reqs' = [reqs EXCEPT ![c.tag].pending = @ - 1, ![c.tag].ok = ok]
             /\ UNCHANGED <<outstanding, issued>>
     /\ UNCHANGED <<disk, direct>>

CompleteOne ==
  /\ rx # <<>> /\ rx' = Tail(rx)
  /\ LET c == Head(rx)
     IN \/ c.op = "ident" /\ CompleteIdent(c)
        \/ /\ c.op # "ident"
           /\ IF Stray(c) THEN UNCHANGED cardVars ELSE CompleteRecord(c)
  /\ UNCHANGED <<svc, tx, hostVars, dmaVars, engineVars, staging, landed, abandoned>>

\* knc_blk_register, from a workqueue: no bounce slots and no direct path
\* means no disk.
Register ==
  /\ disk = "registering"
  /\ disk' = IF Depth = 0 THEN "absent" ELSE "ready"
  /\ UNCHANGED <<svc, direct, reqs, outstanding, issued, tx, rx, hostVars,
                 dmaVars, engineVars, staging, landed, abandoned>>

----------------------------------------------------------------------------
(* The DMA channel (dma_poll, dma_submit, dma_wait).                       *)

InFlight == submitted - completed

\* The engine writes one status word or the other, in order: the larger one
\* is where it is.  The card's word is read over the bus, so only when a
\* copy into the card is awaited.
Word == IF pending > hostWord THEN Larger(hostWord, cardWord) ELSE hostWord

\* Mutant: only nonsense in the status word fails the channel.
PollFailsAhead == InFlight > 0 /\ Word > submitted

PollFails == InFlight > 0 /\ (Word > submitted \/ (Word =< completed /\ late))

\* What every dma_poll that does not fail leaves behind.
PollUpdate ==
  /\ completed' = Larger(completed, Word)
  /\ pending' = IF Word > completed /\ pending =< Word THEN 0 ELSE pending
  /\ late' = (late /\ Word =< completed)
  /\ submitted' = submitted

RingFull == InFlight >= MaxInFlight

Line(r) == [rec |-> r, seq |-> submitted + 1, copied |-> FALSE]

\* A line of descriptors goes in: the copy, then the status write, which
\* goes to the memory the copy goes to.
Submit(r) ==
  /\ eq' = Append(eq, Line(r))
  /\ submitted' = submitted + 1
  /\ pending' = IF r.op = "read" THEN submitted + 1 ELSE pending
  /\ UNCHANGED <<completed, late, hostWord, cardWord>>

----------------------------------------------------------------------------
(* The host's pass (blk_step).                                             *)

OnEngine == svc.path = "dma"

\* Mutant: the image over the engine is pipelined, too.
PipelinedImage(r) == OnEngine /\ r.op \in Data

Pipelined(r) == svc.backend = "ram" /\ OnEngine /\ r.op \in Data

Completion(r, st) == [op |-> r.op, tag |-> r.tag, id |-> r.id, seg |-> r.seg,
                      status |-> st, bounce |-> svc.bounce]

\* Everything in list is answered with st, oldest first; then pc.
Answer(list, st, pc) ==
  /\ ans' = [i \in 1 .. Len(list) |-> Completion(list[i].rec, st)]
  /\ then' = pc /\ hpc' = "answer"

AnswerThis(st) == Answer(<<[rec |-> rec]>>, st, "poll")

\* How many records at the pipeline's tail are done by copy seq.
Finished(seq) ==
  LET counts == {n \in 0 .. Len(ifq) : \A i \in 1 .. n : ifq[i].seq =< seq}
  IN CHOOSE n \in counts : \A m \in counts : m =< n

\* Mutant: the oldest record is skipped.
DoneButOldest(seq) == SubSeq(ifq, 2, Finished(seq))

\* complete_done takes what it answers out of the pipeline.
Done(seq) == SubSeq(ifq, 1, Finished(seq))
NotDone(seq) == SubSeq(ifq, Finished(seq) + 1, Len(ifq))

hostFrame == <<svc, cardVars, rx, engineVars, staging, landed, abandoned>>

\* Copies the engine finished since the last look, or none if it failed.
HostPoll ==
  /\ hpc = "poll"
  /\ \/ /\ ~OnEngine \/ ifq = <<>>
        /\ hpc' = "pop" /\ UNCHANGED <<ans, then, ifq, dmaVars>>
     \/ /\ OnEngine /\ ifq # <<>> /\ ~PollFails
        /\ PollUpdate
        /\ Answer(Done(completed'), 0, "pop") /\ ifq' = NotDone(completed')
     \/ /\ OnEngine /\ ifq # <<>> /\ PollFails
        /\ Answer(ifq, 5, "pop") /\ ifq' = <<>>
        /\ UNCHANGED dmaVars
  /\ UNCHANGED <<tx, rec, hostFrame>>

\* Where a record goes: the pipeline, or its place in the order.
Route(r) == IF Pipelined(r) THEN "submit"
            ELSE IF ifq = <<>> THEN "serve" ELSE "drain"

HostPop ==
  /\ hpc = "pop"
  /\ IF tx = <<>>
     THEN hpc' = "poll" /\ UNCHANGED <<tx, rec>>
     ELSE tx' = Tail(tx) /\ rec' = Head(tx) /\ hpc' = Route(Head(tx))
  /\ UNCHANGED <<ans, then, ifq, dmaVars, hostFrame>>

\* complete: waits for room in the ring.
HostAnswer ==
  /\ hpc = "answer"
  /\ \/ /\ ans = <<>>
        /\ hpc' = then /\ UNCHANGED <<ans, rx>>
     \/ /\ ans # <<>> /\ Len(rx) < RxCap
        /\ rx' = Append(rx, Head(ans)) /\ ans' = Tail(ans) /\ hpc' = hpc
  /\ UNCHANGED <<svc, cardVars, tx, rec, then, ifq, dmaVars, engineVars, staging, landed, abandoned>>

\* Mutant: only the length's sign is looked at.
ValidAny(r) == r.len > 0

\* check_record (the block layer stays within the capacity).
Valid(r) == r.len > 0 /\ r.len % 2 = 0

\* submit_ram and dma_submit, which waits while the ring is full.
HostSubmit ==
  /\ hpc = "submit"
  /\ \/ /\ ~Valid(rec)
        /\ AnswerThis(22) /\ UNCHANGED <<ifq, dmaVars, engineVars>>
     \/ /\ Valid(rec) /\ RingFull /\ ~PollFails
        /\ PollUpdate /\ UNCHANGED <<hpc, ans, then, ifq, engineVars>>
     \/ /\ Valid(rec) /\ RingFull /\ PollFails
        /\ AnswerThis(5) /\ UNCHANGED <<ifq, dmaVars, engineVars>>
     \/ /\ Valid(rec) /\ ~RingFull
        /\ Submit(rec)
        /\ IF Pipelined(rec)
           THEN hpc' = "poll" /\ ifq' = Append(ifq, [rec |-> rec, seq |-> submitted + 1])
           ELSE hpc' = "wait" /\ ifq' = ifq
        /\ UNCHANGED <<ans, then>>
  /\ UNCHANGED <<svc, cardVars, tx, rx, rec, staging, landed, abandoned>>

\* The wait before a record that is served in place.  The sequence number
\* it waits for is read at SV_IF_TAIL - 1, where complete_done or fail_all
\* took the last record out, and not at SV_IF_HEAD - 1, where submit_ram put
\* the newest: the copy before the oldest one in the pipeline (0, in a fresh
\* buffer, before the first).  complete_done then answers what that number
\* covers: none of the records in the pipeline.
LastTaken == Head(ifq).seq - 1

HostDrain ==
  /\ hpc = "drain"
  /\ \/ /\ PollFails
        /\ Answer(ifq, 5, "serve") /\ ifq' = <<>> /\ UNCHANGED dmaVars
     \/ /\ ~PollFails /\ PollUpdate
        /\ IF completed' >= LastTaken
           THEN Answer(Done(LastTaken), 0, "serve") /\ ifq' = NotDone(LastTaken)
           ELSE UNCHANGED <<hpc, ans, then, ifq>>
  /\ UNCHANGED <<tx, rec, hostFrame>>

\* serve_one: identify, flush, and the data requests of the image or of the
\* aperture path.  The file system calls may fail; the aperture cannot.
HostServe ==
  /\ hpc = "serve"
  /\ \/ /\ rec.op = "ident" /\ AnswerThis(0) /\ UNCHANGED <<staging, landed>>
     \/ /\ rec.op = "flush"
        /\ \E st \in {0, 5} : /\ st = 5 => svc.backend = "file"
                              /\ AnswerThis(st)
        /\ UNCHANGED <<staging, landed>>
     \/ /\ rec.op \in Data /\ ~Valid(rec)
        /\ AnswerThis(22) /\ UNCHANGED <<staging, landed>>
     \/ /\ rec.op \in Data /\ Valid(rec) /\ ~OnEngine
        /\ \/ AnswerThis(0) /\ landed' = landed \cup {rec}
           \/ svc.backend = "file" /\ AnswerThis(5) /\ landed' = landed
        /\ staging' = staging
     \/ /\ rec.op \in Data /\ Valid(rec) /\ OnEngine
        /\ \/ /\ hpc' = "submit"
              /\ staging' = IF rec.op = "read" THEN {rec} ELSE staging
              /\ UNCHANGED <<ans, then>>
           \/ rec.op = "read" /\ AnswerThis(5) /\ staging' \in {staging, {}}
        /\ landed' = landed
  /\ UNCHANGED <<svc, cardVars, tx, rx, rec, ifq, dmaVars, engineVars, abandoned>>

\* dma_copy's wait.  A write then goes from the staging buffer to the image.
HostWait ==
  /\ hpc = "wait"
  /\ \/ /\ PollFails /\ AnswerThis(5)
        /\ abandoned' = TRUE /\ UNCHANGED <<dmaVars, landed>>
     \/ /\ ~PollFails /\ PollUpdate /\ abandoned' = abandoned
        /\ \/ /\ completed' < submitted
              /\ UNCHANGED <<hpc, ans, then, landed>>
           \/ /\ completed' = submitted
              /\ AnswerThis(0)
              /\ landed' = IF rec.op = "write" THEN landed \cup staging ELSE landed
           \/ /\ completed' = submitted /\ rec.op = "write"
              /\ AnswerThis(5) /\ landed' = landed
  /\ UNCHANGED <<svc, cardVars, tx, rx, rec, ifq, engineVars, staging>>

----------------------------------------------------------------------------
(* The engine (external) and time.                                         *)

\* The copy at the front of the ring.  With the image as the backing store
\* the host's side of it is the staging buffer.
EngineCopy ==
  LET r == Head(eq).rec
      staged == svc.backend = "file"
  IN /\ eq # <<>> /\ ~Head(eq).copied
     /\ eq' = [eq EXCEPT ![1].copied = TRUE]
     /\ staging' = IF staged /\ r.op = "write" THEN {r} ELSE staging
     /\ landed' = landed \cup (IF ~staged THEN {r}
                               ELSE IF r.op = "read" THEN staging ELSE {})
     /\ UNCHANGED <<svc, cardVars, tx, rx, hostVars, dmaVars, hostWord, cardWord, abandoned>>

\* ... and the status write behind it.
EngineStatus ==
  /\ eq # <<>> /\ Head(eq).copied
  /\ eq' = Tail(eq)
  /\ IF Head(eq).rec.op = "read"
     THEN cardWord' = Head(eq).seq /\ hostWord' = hostWord
     ELSE hostWord' = Head(eq).seq /\ cardWord' = cardWord
  /\ UNCHANGED <<svc, cardVars, tx, rx, hostVars, dmaVars, staging, landed, abandoned>>

\* COPY_TIMEOUT_MS pass since the last progress dma_poll saw.
TimePasses ==
  /\ InFlight > 0 /\ ~late /\ late' = TRUE
  /\ UNCHANGED <<svc, cardVars, tx, rx, hostVars, submitted, completed, pending,
                 engineVars, staging, landed, abandoned>>

----------------------------------------------------------------------------
IdentRecord == [tag |-> 0, id |-> 0, op |-> "ident", seg |-> 1, len |-> 0,
                mem |-> 0, sector |-> 0]

\* Both ends are up: the driver has posted identify (knc_blk_probe), the
\* service has chosen its path (blk_open, open_dma_path).
Init ==
  /\ svc \in Services
  /\ disk = "none" /\ direct = FALSE
  /\ reqs = [t \in 1 .. MaxDepth |-> NoReq] /\ outstanding = 0
  /\ issued = <<>>
  /\ tx = <<IdentRecord>> /\ rx = <<>>
  /\ hpc = "poll" /\ rec = IdentRecord /\ ans = <<>> /\ then = "poll" /\ ifq = <<>>
  /\ submitted = 0 /\ completed = 0 /\ pending = 0 /\ late = FALSE
  /\ eq = <<>> /\ hostWord = 0 /\ cardWord = 0
  /\ staging = {} /\ landed = {} /\ abandoned = FALSE

Queue == \E tag \in 1 .. MaxDepth :
           \/ \E op \in Data, segs \in SegLists : QueueRq(tag, op, segs)
           \/ QueueRq(tag, "flush", <<>>)
Host == \/ HostPoll \/ HostPop \/ HostAnswer \/ HostSubmit
        \/ HostDrain \/ HostServe \/ HostWait
Engine == EngineCopy \/ EngineStatus

Next == Queue \/ CompleteOne \/ Register \/ Host \/ Engine \/ TimePasses
Spec == Init /\ [][Next]_vars

\* The daemon's loop, the poller thread and the workqueue run, and time
\* goes by.  Nothing is asked of the engine.
FairSpec == /\ Spec /\ WF_vars(Host) /\ WF_vars(CompleteOne) /\ WF_vars(Register)
            /\ WF_vars(TimePasses)

----------------------------------------------------------------------------
(* Properties.                                                             *)

Record == [tag : 0 .. MaxDepth, id : 0 .. MaxReqs, op : Data \cup {"flush", "ident"},
           seg : Nat, len : Nat, mem : Nat, sector : Nat]
Request == [id : 1 .. MaxReqs, pending : Nat \ {0}, ok : BOOLEAN]
Issued == [op : Data \cup {"flush"}, segs : SegLists \cup {<<>>}, n : Nat \ {0},
           end : {"none", "ok", "error"}]
Reply == [op : Data \cup {"flush", "ident"}, tag : 0 .. MaxDepth, id : 0 .. MaxReqs,
          seg : Nat, status : {0, 5, 22}, bounce : BOOLEAN]

CardType ==
  /\ disk \in {"none", "registering", "ready", "absent"} /\ direct \in BOOLEAN
  /\ reqs \in [1 .. MaxDepth -> Request \cup {NoReq}] /\ outstanding \in Int
  /\ issued \in Seq(Issued) /\ Len(issued) =< MaxReqs
  /\ tx \in Seq(Record) /\ Len(tx) =< TxCap /\ rx \in Seq(Reply) /\ Len(rx) =< RxCap

HostType ==
  /\ svc \in Services /\ rec \in Record /\ ans \in Seq(Reply)
  /\ hpc \in {"poll", "pop", "answer", "submit", "drain", "serve", "wait"}
  /\ then \in {"poll", "pop", "serve"}
  /\ ifq \in Seq([rec : Record, seq : Nat])

EngineType ==
  /\ {submitted, completed, pending, hostWord, cardWord} \subseteq Nat /\ late \in BOOLEAN
  /\ eq \in Seq([rec : Record, seq : Nat, copied : BOOLEAN])
  /\ staging \subseteq Record /\ landed \subseteq Record /\ abandoned \in BOOLEAN

\* The shapes of the driver's, the service's and the channel's state.
TypeOK == CardType /\ HostType /\ EngineType

\* The descriptor ring never fills up completely (head = tail means empty
\* to the engine), and the pipeline's ring of one entry more than
\* MAX_IN_FLIGHT is never overrun: dma_submit itself polls while the ring
\* is full, and records whose copies it sees done stay in the pipeline.
RingsHold == Len(eq) =< MaxInFlight /\ Len(ifq) =< MaxInFlight + 1

\* Where the engine is: the last copy a status word reports.
Position == submitted - Len(eq)

\* The status words and the two counters agree with the engine's ring: the
\* larger word is where the engine is, and the channel is never ahead of it.
EngineInv ==
  /\ Larger(hostWord, cardWord) = Position /\ completed =< Position
  /\ InFlight =< MaxInFlight
  /\ \A i \in 1 .. Len(eq) : eq[i].seq = Position + i /\ (eq[i].copied => i = 1)

\* The host has a record in hand, to be answered once it is served.
Holding == \/ hpc \in {"submit", "drain", "serve", "wait"}
           \/ hpc = "answer" /\ then = "serve"

\* The pipeline holds the newest copies, and is used by host memory over the
\* engine alone.
PipeInv ==
  /\ \A i \in 1 .. Len(ifq) : ifq[i].seq = submitted - Len(ifq) + i /\ Pipelined(ifq[i].rec)
  /\ hpc # "poll" => Len(ifq) =< MaxInFlight
  /\ hpc # "answer" => ans = <<>>
  /\ Holding => /\ hpc # "submit" => ~Pipelined(rec)
                /\ hpc \in {"submit", "wait"} => OnEngine /\ rec.op \in Data
                /\ hpc = "drain" => ifq # <<>>

\* What a record and its completion have in common, and all of them that
\* are under way: posted, in the host's hands, or answered.
Stub(e) == [op |-> e.op, tag |-> e.tag, id |-> e.id, seg |-> e.seg]
Stubs(q) == {Stub(q[i]) : i \in 1 .. Len(q)}
Piped == [i \in 1 .. Len(ifq) |-> ifq[i].rec]
Held == IF Holding THEN <<rec>> ELSE <<>>
Out == Stubs(rx) \cup Stubs(ans) \cup Stubs(Piped) \cup Stubs(Held) \cup Stubs(tx)

\* No record is in two places.
Once == Len(rx) + Len(ans) + Len(Piped) + Len(Held) + Len(tx) = Cardinality(Out)

\* Each belongs to the request that has its tag, which waits for it.
Owned(s) ==
  IF s.op = "ident" THEN s.id = 0
  ELSE /\ s.tag \in 1 .. Depth /\ reqs[s.tag] # NoReq /\ reqs[s.tag].id = s.id
       /\ s.op = issued[s.id].op /\ s.seg \in 1 .. issued[s.id].n

\* Every record of a request in progress is somewhere, so the request's
\* count of missing completions is right.
PendingCounts ==
  \A t \in 1 .. MaxDepth : reqs[t] # NoReq =>
    reqs[t].pending = Cardinality({s \in Out : s.id = reqs[t].id})

\* A request has a tag of its own until it ends.
Tagged ==
  /\ disk = "none" => issued = <<>>
  /\ \A id \in 1 .. Len(issued) :
       issued[id].end = "none" <=> \E t \in 1 .. MaxDepth : reqs[t] # NoReq /\ reqs[t].id = id
  /\ \A t, u \in 1 .. MaxDepth :
       reqs[t] # NoReq /\ reqs[u] # NoReq /\ reqs[t].id = reqs[u].id => t = u
  /\ \A t \in 1 .. MaxDepth : reqs[t] # NoReq => reqs[t].id =< Len(issued)

\* The service's books: rings and pipeline within their bounds whatever the
\* engine does, no record in two places, and every request's count of
\* missing completions right (dma_submit, blk_step, knc_blk_queue_rq).
Books ==
  /\ TypeOK /\ RingsHold /\ EngineInv /\ PipeInv
  /\ Once /\ (\A s \in Out : Owned(s)) /\ PendingCounts /\ Tagged

\* The services that have no pipeline: the image, and the aperture path.
InPlace == svc.backend = "file" \/ ~OnEngine

\* Records are taken up in the order they were posted; where there is no
\* pipeline they are answered in it, too, as far as a flush can tell: none
\* that was posted before a flush is behind it.
Before(a, b) == a.id =< b.id /\ (a.op = "flush" => a.id < b.id)
Replies == rx \o ans
FlushOrder ==
  /\ \A i, j \in 1 .. Len(tx) : i < j => Before(tx[i], tx[j])
  /\ Holding => \A i \in 1 .. Len(tx) : Before(rec, tx[i])
  /\ InPlace =>
       \A i \in 1 .. Len(Replies) : Replies[i].op = "flush" =>
         /\ \A j \in i + 1 .. Len(Replies) : Before(Replies[i], Replies[j])
         /\ \A s \in Stubs(Piped) \cup Stubs(Held) \cup Stubs(tx) : Before(Replies[i], s)

\* A record is one its request was cut into.
OfRequest(r) ==
  r.id # 0 =>
    /\ r.id \in 1 .. Len(issued)
    /\ LET all == RecordsOf(r.tag, r.id, issued[r.id].op, issued[r.id].segs)
       IN issued[r.id].n = Len(all) /\ r.seg \in 1 .. Len(all) /\ r = all[r.seg]

\* The records in the engine's ring, and all that anybody still knows of.
Copies == {eq[i].rec : i \in 1 .. Len(eq)}
Known == landed \cup staging \cup Copies \cup {rec} \cup {tx[i] : i \in 1 .. Len(tx)}
           \cup {ifq[i].rec : i \in 1 .. Len(ifq)}

\* The data of a segment is where it belongs.
Arrived(id, seg) == \E r \in landed : r.id = id /\ r.seg = seg /\ Valid(r)

\* The engine's ring holds the copies of the pipeline that are still to be
\* done; what it has passed has arrived.
PipeLands ==
  /\ \A i \in 1 .. Len(ifq) :
       /\ Valid(ifq[i].rec)
       /\ IF ifq[i].seq =< Position THEN ifq[i].rec \in landed
          ELSE eq[ifq[i].seq - Position].rec = ifq[i].rec
  /\ svc.backend = "ram" /\ eq # <<>> /\ eq[1].copied => eq[1].rec \in landed

\* The staging buffer serves one copy at a time, as long as none is given up.
StageLands ==
  svc.backend = "file" =>
    IF hpc = "wait"
    THEN /\ Valid(rec) /\ Len(eq) =< 1 /\ (eq # <<>> => eq[1].rec = rec)
         /\ rec.op = "read" => staging = {rec}
         /\ eq = <<>> \/ eq[1].copied =>
              IF rec.op = "read" THEN rec \in landed ELSE staging = {rec}
    ELSE /\ eq = <<>> /\ completed = submitted
         /\ hpc = "submit" /\ rec.op = "read" => staging = {rec}

\* Good answers are for data that has arrived.
Good(op, id, n) ==
  op \in Data => \A seg \in 1 .. n : Arrived(id, seg) \/ \E s \in Out : s.id = id /\ s.seg = seg

Lands ==
  /\ \A i \in 1 .. Len(Replies) :
       Replies[i].op \in Data /\ Replies[i].status = 0 => Arrived(Replies[i].id, Replies[i].seg)
  /\ \A t \in 1 .. MaxDepth : reqs[t] # NoReq /\ reqs[t].ok =>
       Good(issued[reqs[t].id].op, reqs[t].id, issued[reqs[t].id].n)
  /\ \A id \in 1 .. Len(issued) : issued[id].op \in Data /\ issued[id].end = "ok" =>
       \A seg \in 1 .. issued[id].n : Arrived(id, seg)

\* Where the data is: every record anybody knows is a part of its request,
\* and, unless a staged copy was given up, what is answered well has arrived.
LandInv ==
  /\ \A r \in Known : OfRequest(r)
  /\ \A r \in landed \cup staging \cup Copies : r.id # 0
  /\ ~abandoned => PipeLands /\ StageLands /\ Lands

\* The books are right, no flush of a service without a pipeline has
\* overtaken a write, and a good answer is for data that has arrived: the inductive invariant of the channel
\* (knc_blk_complete_one, blk_step, dma_submit, dma_poll).
ServiceInv == Books /\ FlushOrder /\ LandInv

\* Every completion on its way, or about to be, is for a record its request
\* still waits for, once: knc_blk_complete_one never meets an idle or
\* unknown tag, and no completion is counted for the next user of the tag.
CompletionsMatch ==
  LET out == rx \o (IF hpc = "answer" THEN ans ELSE <<>>)
  IN \A i \in 1 .. Len(out) : out[i].op # "ident" =>
       /\ ~Stray(out[i]) /\ reqs[out[i].tag].id = out[i].id
       /\ \A j \in 1 .. Len(out) :
            <<out[i].id, out[i].seg>> = <<out[j].id, out[j].seg>> => i = j

\* A read or write that ended well moved every segment to its own place:
\* all its records' data arrived before the block layer heard of it, and
\* each went to the sectors its memory belongs to (the comments at do_read
\* and do_write: 0 when the bytes reached the card, the store).
OkMeansMoved ==
  \A id \in 1 .. Len(issued) :
    (issued[id].op \in Data /\ issued[id].end = "ok") =>
      /\ {r.seg : r \in {x \in landed : x.id = id}} = 1 .. issued[id].n
      /\ \A r \in landed : r.id = id => 2 * r.sector = r.mem

\* ... always for host memory, whatever the engine does; for the image as
\* long as no copy through the staging buffer was given up.
MovedUnlessAbandoned == ~abandoned => OkMeansMoved

\* When a flush has ended well, every write started before it has ended,
\* too (and, if well, its data has arrived: OkMeansMoved).  blk_step says so
\* of every service ("everything else keeps its place: the pipeline drains
\* first"), and disk.md ("so a flush never overtakes a write").
FlushNeverOvertakes ==
  \A f \in 1 .. Len(issued) :
    (issued[f].op = "flush" /\ issued[f].end = "ok") =>
      \A id \in 1 .. f - 1 : issued[id].op = "write" => issued[id].end # "none"

\* It is so of the image, whose flush is an fdatasync, on both paths, and of
\* host memory through the aperture: their records go through serve_one one
\* by one.
FlushAfterWrites == InPlace => FlushNeverOvertakes

\* Every request ends, in success or error, even when the engine stops for
\* good: the driver's own timeout never ends one.
EveryRequestEnds ==
  \A id \in 1 .. MaxReqs : (Len(issued) >= id) ~> (Len(issued) >= id /\ issued[id].end # "none")
=============================================================================
