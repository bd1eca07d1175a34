---------------------------- MODULE MCByteRing ----------------------------
(* ByteRing on a ring of 4 bytes whose indices wrap at 8.                   *)
EXTENDS ByteRing

MCByte == {0, 1}
MCPayload == {<<1>>, <<0, 1, 1>>}
=============================================================================
