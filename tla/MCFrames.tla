------------------------------ MODULE MCFrames ------------------------------
(* Streams for the decoder: every kind of message at and around the limits of
   its fields, every truncation of the structured ones, and mixtures.       *)
EXTENDS FrameDecoder

\* Text of n one-byte characters, and the same ending in a longer character.
Text(n) == [i \in 1..n |-> 7]
Ends2(n) == Text(n) \o <<Lead2, Contin>>
Ends3(n) == Text(n) \o <<Lead3, Contin, Contin>>
NearLimit == {Text(MAX_STRING + d) : d \in {-1, 0, 1}}
             \cup {Ends2(MAX_STRING + d) : d \in {-2, -1, 0}}
             \cup {Ends3(MAX_STRING + d) : d \in {-3, -2, -1, 0}}
Texts == {<< >>, Text(1), Ends2(1)} \cup NearLimit

ExecMsg(args, env, cwd) == Msg("Exec", <<args, env, cwd>>)
Pair == <<Text(1), Text(2)>>
Execs == {ExecMsg(<< >>, << >>, None), ExecMsg(<<<<Text(2)>>>>, <<Pair>>, << >>),
          ExecMsg(<<<<Text(1)>>, <<Ends3(MAX_STRING - 1)>>>>, <<Pair>>, Ends2(MAX_STRING - 1)),
          ExecMsg([i \in 1..(MAX_LIST + 1) |-> <<IF i = 1 THEN Text(1) ELSE << >>>>],
               [i \in 1..(MAX_LIST + 2) |-> <<<< >>, IF i = 1 THEN Text(1) ELSE << >>>>], None)}

Dev(n) == <<Text(n), 5, (U32 * U32) - 1>>
Proc(name) == <<U32 - 1, 27, TRUE, 9, 10, 11, name>>
StatOf(cpus, temps, disks, nets, procs) ==
    Msg("StatReply",
        <<3, cpus, 4, 5, 6, 7, 8, (U32 * U32) - 2, 1, 2, U16 - 1, 12, 13, temps, -1, 14, 15,
          disks, nets, procs, 16, 17>>)
Stats == {StatOf(<<<<1, 2, 3>>, <<2, 4, 5>>>>, <<<<-8>>, <<7>>>>, <<Dev(1)>>, << >>, <<Proc(Text(2))>>),
          StatOf(<< >>, [i \in 1..(MAX_LIST + 1) |-> <<-i \div 2>>], << >>, <<Dev(2)>>, << >>),
          StatOf(<< >>, << >>, << >>, << >>, <<Proc(Ends3(MAX_STRING - 1)), [Proc(<< >>) EXCEPT ![3] = FALSE]>>)}

Messages ==
    {Msg(t, << >>) : t \in Bare} \cup {Msg(t, <<s>>) : t \in OneString, s \in Texts}
    \cup {Msg(t, <<d>>) : t \in Payload, d \in {<< >>, <<0, Never, 14>>}}
    \cup {Msg("PutOpen", <<s, U32 - 1>>) : s \in Texts}
    \cup {Msg("Exit", <<v>>) : v \in {0, -1, 0 - U32 \div 2, U32 \div 2 - 1}}
    \cup {Msg("GetEnd", <<v>>) : v \in {0, (U32 * U32) - 1}}
    \cup {Msg("TrafficReply", [i \in 1..6 |-> i])} \cup Execs \cup Stats

ToCut == {ExecMsg(<<<<Text(2)>>>>, <<Pair>>, Text(1)), Msg("PutOpen", <<Ends2(1), 3>>), Msg("Pong", <<Ends3(0)>>),
          Msg("Exit", <<1>>), Msg("GetEnd", <<1>>), Msg("TrafficReply", [i \in 1..6 |-> i]),
          StatOf(<<<<1, 2, 3>>>>, <<<<1>>>>, <<Dev(1)>>, <<Dev(0)>>, <<Proc(Text(1))>>)}
Cuts == UNION {{Cut(m, n) : n \in 0..(Len(EncodeBody(m)) - 1)} : m \in ToCut}
NotText == {[Sent(Msg("Pong", <<s>>)) EXCEPT !.expect = Err("Malformed")] :
               s \in {<<Never>>, <<Contin>>, <<Lead2>>, <<7, Lead3, Contin>>}}

Ping == Sent(Msg("Ping", << >>))
Broken == {Unknown(0, << >>), Unknown(22, <<14>>), Padded(Msg("Ping", << >>), <<1, 0, 0, 0, 14>>),
           Padded(Msg("Get", <<Text(1)>>), <<Never>>)} \cup NotText
Bad == {Oversize(0, 14, << >>), Oversize(MAX_FRAME + 1, 2, <<1, 0, 0, 0, 14>>)}
Largest == Sent(Msg("Stdin", <<[i \in 1..(MAX_FRAME - 1) |-> i % 3]>>))
TooLong == {Msg("Stdin", <<[i \in 1..MAX_FRAME |-> i % 3]>>),
            ExecMsg([i \in 1..14 |-> <<Text(MAX_STRING)>>], << >>, Text(8))}
Short == {Ping, Sent(Msg("Get", <<Text(1)>>)), Unknown(22, <<14>>), Cut(Msg("Exit", <<1>>), 2)} \cup Bad

MCStreams == {<<Sent(m), Ping>> : m \in Messages} \cup {<<c, Ping>> : c \in Cuts \cup Broken}
             \cup {<<a, b, c>> : a \in Short, b \in Short, c \in {Ping}} \cup {<<Largest, Ping>>}
             \cup {<<Ping, Sent(m), Ping>> : m \in TooLong}
MCPieces == {1, 4, 5, 9, 40, 300}
=============================================================================
