----------------------------- MODULE MCAdbCodec -----------------------------
(* AdbCodec for TLC, on a noisy line: bytes of one bit, packets of one byte. *)
(* MCAdbHost checks the sizes of the code on a clean line.                   *)
EXTENDS AdbCodec

MCShortRequests == { [command |-> "talk", header |-> <<1>>,
                      data |-> <<<<0>>>>, datalen |-> 0],
                     [command |-> "listen", header |-> <<0>>,
                      data |-> <<<<1>>>>, datalen |-> 1] }
MCNone == {<<>>}

\* Too short for a bit or a gap, the two halves of a bit, a gap, too long.
MCPulses == {30, 65, 100, 300}
=============================================================================
