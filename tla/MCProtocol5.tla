----------------------------- MODULE MCProtocol5 -----------------------------
(* Protocol5Serial for TLC: packets of three bytes; a pen, an eraser, an      *)
(* airbrush and a 4D mouse.  The generic tools are the pen and the eraser.   *)
EXTENDS Protocol5Serial, TLC

CONSTANTS pen, eraser, airbrush, mouse

MCKind == [t \in Tool |-> CASE t = pen -> "pen"
                            [] t = eraser -> "eraser"
                            [] t = airbrush -> "airbrush"
                            [] t = mouse -> "mouse4D"]
MCGeneric == ("pen" :> pen) @@ ("eraser" :> eraser)
=============================================================================
