------------------------------ MODULE MCAdbHost ------------------------------
(* AdbHost for TLC, with the sizes of the code: bytes of 8 bits, packets of  *)
(* 8 bytes.                                                                 *)
EXTENDS AdbHost

MCAnswer(n, first) == [i \in 1 .. 8 * n |-> IF i <= 8 THEN ToBits(first)[i] ELSE i % 2]

\* Silence; the pen (176 is 0xB0: out of proximity) and the eraser (4 in the
\* low nibble), in and out of proximity; a side button; an old UltraPad; the
\* two bytes of a register.
MCAnswers == {<<>>} \union { MCAnswer(8, f) : f \in {224, 228, 229, 160} }
                    \union { MCAnswer(5, f) : f \in {192, 64} }
                    \union { MCAnswer(2, 224) }
MCRequests == { Dialog[i] : i \in DOMAIN Dialog }
MCPulses == {30, 65, 100, 300}
=============================================================================
