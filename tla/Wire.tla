-------------------------------- MODULE Wire --------------------------------
(***************************************************************************)
(* The message format of the rpc channel: host/crates/phi-rpc/src/lib.rs,  *)
(* the reference for the two assembly implementations. Encoding and        *)
(* decoding are written side by side in the source, field by field, and so *)
(* they are here: EncodeBody from encode, put_stat and put_devs, and       *)
(* ReadSchema from decode_body, Reader::stat and Reader::devs.             *)
(*                                                                         *)
(* The format is scaled down: a byte of a number counts up to Base instead *)
(* of 256, so that u16 holds Base^2 values and a string or a list can      *)
(* reach MAX_STRING or MAX_LIST, the largest u16, which is where clipping  *)
(* and wrapping meet.                                                      *)
(***************************************************************************)
EXTENDS Joining

CONSTANTS
    Base,       \* what a byte of a number counts up to (256 in the code)
    MAX_FRAME   \* the largest length field either side accepts

\* How many values u16 and u32 have.
U16 == Base * Base
U32 == U16 * U16

ASSUME WireBounds == Base \in Nat /\ Base >= 2 /\ MAX_FRAME \in 1..(U32 - 2)

MAX_STRING == U16 - 1
MAX_LIST == U16 - 1

-----------------------------------------------------------------------------
(* Bytes of text. Contin is a UTF-8 continuation byte, Lead2 and Lead3 begin
   a character of two and of three bytes, and Never occurs in no text.       *)
Contin == 28
Lead2 == 29
Lead3 == 30
Never == 31

ValidUtf8(s) ==
    \A i \in DOMAIN s :
        /\ s[i] # Never
        /\ s[i] = Lead2 => i + 1 <= Len(s)
        /\ s[i] = Lead3 => i + 2 <= Len(s)
        /\ s[i] = Contin <=> \/ i > 1 /\ s[i - 1] \in {Lead2, Lead3}
                             \/ i > 2 /\ s[i - 2] = Lead3

is_char_boundary(s, end) == end = 0 \/ end = Len(s) \/ s[end + 1] # Contin

\* The cut in the middle of a character.
clipAnywhere(s, max) == IF Len(s) <= max THEN s ELSE SubSeq(s, 1, max)
\* The cut walks down from max to a character boundary.
clip(s, max) ==
    IF Len(s) <= max THEN s
    ELSE LET down[end \in 0..max] == IF is_char_boundary(s, end) THEN end ELSE down[end - 1]
         IN  SubSeq(s, 1, down[max])

-----------------------------------------------------------------------------
(* Writing *)
LittleEndian(v, n) ==
    LET rest[i \in 0..n] == IF i = 0 THEN v ELSE rest[i - 1] \div Base
    IN  [i \in 1..n |-> rest[i - 1] % Base]
put_u16(v) == LittleEndian(v % U16, 2)
put_u32(v) == LittleEndian(v % U32, 4)
put_u64(v) == LittleEndian(v, 8)
put_u8(v) == <<v>>

count(n) == IF n > MAX_LIST THEN MAX_LIST ELSE n
put_count(n) == put_u16(count(n))
put_str(s) == LET b == clip(s, MAX_STRING) IN put_u16(Len(b)) \o b

put_list(xs, Item(_)) ==
    put_count(Len(xs)) \o Concat([i \in 1..count(Len(xs)) |-> Item(xs[i])])
put_u64s(vs) == Concat([i \in DOMAIN vs |-> put_u64(vs[i])])

put_devs(list) ==
    put_list(list, LAMBDA d : Concat(<<put_str(d[1]), put_u64(d[2]), put_u64(d[3])>>))

\* s is the tuple of Stat's fields in wire order (see StatReads).
put_stat(s) ==
    Concat(<<
        put_u64(s[1]),
        put_list(s[2], LAMBDA c : Concat(<<put_u16(c[1]), put_u32(c[2]), put_u32(c[3])>>)),
        put_u64(s[3]), put_u64(s[4]), put_u64(s[5]), put_u64(s[6]), put_u64(s[7]), put_u64(s[8]),
        put_u16(s[9]), put_u16(s[10]), put_u16(s[11]), put_u32(s[12]), put_u32(s[13]),
        put_list(s[14], LAMBDA t : Concat(<<put_u16(t[1])>>)),
        put_u16(s[15]), put_u32(s[16]), put_u32(s[17]),
        put_devs(s[18]), put_devs(s[19]),
        put_list(s[20], LAMBDA p :
            Concat(<<put_u32(p[1]), put_u8(p[2]), put_u8(IF p[3] THEN 1 ELSE 0),
                     put_u64(p[4]), put_u64(p[5]), put_u32(p[6]), put_str(p[7])>>)),
        put_u32(s[21]), put_u32(s[22])>>)

TAG == [Exec |-> 1, Stdin |-> 2, StdinEof |-> 3, Stdout |-> 4, Stderr |-> 5, Exit |-> 6,
        PutOpen |-> 7, PutData |-> 8, PutClose |-> 9, Get |-> 10, GetData |-> 11,
        GetEnd |-> 12, Error |-> 13, Ping |-> 14, Pong |-> 15, Sensors |-> 16,
        SensorsReply |-> 17, Stat |-> 18, StatReply |-> 19, Traffic |-> 20,
        TrafficReply |-> 21]
Tags == DOMAIN TAG
Payload == {"Stdin", "Stdout", "Stderr", "PutData", "GetData"}
Bare == {"StdinEof", "PutClose", "Ping", "Sensors", "Stat", "Traffic"}
OneString == {"Get", "Error", "Pong", "SensorsReply"}

\* An absent working directory; it is written as the empty string.
None == <<-1>>

\* A message is its tag and the tuple of its fields.
EncodeBody(m) ==
    CASE m.tag = "Exec" ->
            Concat(<<put_list(m.f[1], LAMBDA a : Concat(<<put_str(a[1])>>)),
                     put_list(m.f[2], LAMBDA e : Concat(<<put_str(e[1]), put_str(e[2])>>)),
                     put_str(IF m.f[3] = None THEN << >> ELSE m.f[3])>>)
      [] m.tag \in Payload -> m.f[1]
      [] m.tag \in Bare -> << >>
      [] m.tag \in OneString -> put_str(m.f[1])
      [] m.tag = "Exit" -> put_u32(m.f[1])
      [] m.tag = "PutOpen" -> Concat(<<put_str(m.f[1]), put_u32(m.f[2])>>)
      [] m.tag = "GetEnd" -> put_u64(m.f[1])
      [] m.tag = "StatReply" -> put_stat(m.f)
      [] m.tag = "TrafficReply" -> put_u64s(m.f)

Frame(tag, body) == put_u32(1 + Len(body)) \o <<tag>> \o body
encode(m) == Frame(TAG[m.tag], EncodeBody(m))

-----------------------------------------------------------------------------
(* Reading: a cursor [ok, pos, vals] over a body, that fails for good when it
   runs out of bytes or meets text that is not UTF-8.                       *)
Number(b) ==
    LET up[i \in 0..Len(b)] == IF i = 0 THEN 0 ELSE up[i - 1] * Base + b[1 + (Len(b) - i)]
    IN  up[Len(b)]
Signed(v, size) == IF v >= size \div 2 THEN v - size ELSE v

Malformed == [ok |-> FALSE, pos |-> 0, vals |-> << >>]
take(body, r, n) == SubSeq(body, r.pos + 1, r.pos + n)
Room(body, r, n) == n <= Len(body) - r.pos
Width(kind) == CASE kind \in {"u8", "bool"} -> 1 [] kind \in {"u16", "i16"} -> 2
                 [] kind \in {"u32", "i32"} -> 4 [] kind = "u64" -> 8

ReadNumber(body, r, kind) ==
    LET n == Width(kind)
        v == Number(take(body, r, n))
        val == CASE kind = "i16" -> Signed(v % U16, U16)
                 [] kind = "i32" -> Signed(v % U32, U32)
                 [] kind = "bool" -> v # 0
                 [] OTHER -> v
    IN  IF Room(body, r, n) THEN [ok |-> TRUE, pos |-> r.pos + n, vals |-> Append(r.vals, val)]
                            ELSE Malformed

ReadStr(body, r) ==
    LET n == Number(take(body, r, 2))
        s == SubSeq(body, r.pos + 3, r.pos + 2 + n)
    IN  IF Room(body, r, 2) /\ Room(body, r, 2 + n) /\ ValidUtf8(s)
          THEN [ok |-> TRUE, pos |-> r.pos + 2 + n, vals |-> Append(r.vals, s)]
          ELSE Malformed

ReadOne(body, r, kind) ==
    IF ~r.ok THEN Malformed ELSE IF kind = "str" THEN ReadStr(body, r) ELSE ReadNumber(body, r, kind)

ReadFlat(body, r, kinds) ==
    LET after[i \in 0..Len(kinds)] == IF i = 0 THEN r ELSE ReadOne(body, after[i - 1], kinds[i])
    IN  after[Len(kinds)]

\* n items one after another, gathered as one value.
ReadItem(body, r, kinds) ==
    LET item == ReadFlat(body, [r EXCEPT !.vals = << >>], kinds)
    IN  IF r.ok /\ item.ok THEN [item EXCEPT !.vals = Append(r.vals, item.vals)] ELSE Malformed
ReadItems(body, r, kinds, n) ==
    LET after[i \in 0..n] == IF i = 0 THEN r ELSE ReadItem(body, after[i - 1], kinds)
    IN  after[n]
ReadList(body, r, kinds) ==
    LET start == [ok |-> TRUE, pos |-> r.pos + 2, vals |-> << >>]
        end == ReadItems(body, start, kinds, Number(take(body, r, 2)))
    IN  IF Room(body, r, 2) /\ end.ok
          THEN [end EXCEPT !.vals = Append(r.vals, end.vals)]
          ELSE Malformed

\* A field is <<"one", kind>>, <<"list", kinds>> or <<"rest">>.
One(kind) == <<"one", kind>>
List(kinds) == <<"list", kinds>>
Rest == <<"rest">>
ReadField(body, r, field) ==
    CASE ~r.ok -> Malformed
      [] r.ok /\ field[1] = "list" -> ReadList(body, r, field[2])
      [] r.ok /\ field[1] = "rest" ->
            [ok |-> TRUE, pos |-> Len(body),
             vals |-> Append(r.vals, SubSeq(body, r.pos + 1, Len(body)))]
      [] OTHER -> ReadOne(body, r, field[2])
ReadFields(body, schema) ==
    LET after[i \in 0..Len(schema)] ==
            IF i = 0 THEN [ok |-> TRUE, pos |-> 0, vals |-> << >>]
            ELSE ReadField(body, after[i - 1], schema[i])
    IN  after[Len(schema)]

DevReads == List(<<"str", "u64", "u64">>)
StatReads ==
    <<One("u64"), List(<<"u16", "u32", "u32">>),
      One("u64"), One("u64"), One("u64"), One("u64"), One("u64"), One("u64"),
      One("u16"), One("u16"), One("u16"), One("u32"), One("u32"),
      List(<<"i16">>), One("i16"), One("u32"), One("u32"), DevReads, DevReads,
      List(<<"u32", "u8", "bool", "u64", "u64", "u32", "str">>),
      One("u32"), One("u32")>>

ReadSchema(tag) ==
    CASE tag = "Exec" -> <<List(<<"str">>), List(<<"str", "str">>), One("str")>>
      [] tag \in Payload -> <<Rest>>
      [] tag \in Bare -> << >>
      [] tag \in OneString -> <<One("str")>>
      [] tag = "Exit" -> <<One("i32")>>
      [] tag = "PutOpen" -> <<One("str"), One("u32")>>
      [] tag = "GetEnd" -> <<One("u64")>>
      [] tag = "StatReply" -> StatReads
      [] tag = "TrafficReply" -> [i \in 1..6 |-> One("u64")]

\* decode_body: a message, or why it is none. Bytes after the last field are
\* not looked at, and an empty working directory is no working directory.
Err(why) == [err |-> why]
Msg(tag, f) == [tag |-> tag, f |-> f]
decode_body(tagByte, body) ==
    IF ~ \E t \in Tags : TAG[t] = tagByte THEN Err("Tag")
    ELSE LET t == CHOOSE u \in Tags : TAG[u] = tagByte
             r == ReadFields(body, ReadSchema(t))
         IN  IF ~r.ok THEN Err("Malformed")
             ELSE IF t = "Exec" /\ r.vals[3] = << >>
               THEN Msg(t, [r.vals EXCEPT ![3] = None])
               ELSE Msg(t, r.vals)
=============================================================================
