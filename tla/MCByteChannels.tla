--------------------------- MODULE MCByteChannels ---------------------------
(* ByteChannels for TLC: the console, and the bridge in either direction. *)
EXTENDS ByteChannels, TLC

CONSTANTS x, y

With(ch, count, host, changes, resets) ==
    [channel |-> ch, bytes |-> count, sends |-> host, settings |-> changes,
     upsets |-> resets]
MCSetup == {With("debug", 5, 0, 0, 1), With("bridge", 0, 0, 2, 0),
            With("bridge", 2, 0, 0, 1), With("bridge", 1, 1, 1, 0),
            With("bridge", 0, 3, 0, 1)}
MCPacket == {<<>>, <<x, y>>}
MCPutTimeout == [debug |-> 1, bridge |-> 2]
MCFlushTimeout == [debug |-> 2, bridge |-> 3]
=============================================================================
