----------------------------- MODULE MCSerialRx -----------------------------
(* SerialRx for TLC: see the cfg file for the sizes.                        *)
EXTENDS SerialRx
=============================================================================
