----------------------------- MODULE MCButtonPen -----------------------------
(* ButtonPen for TLC: a tool of each kind the reports tell apart.            *)
EXTENDS ButtonPen, TLC

CONSTANTS pen, eraser, airbrush, mouse, lens

MCKind == (pen :> "pen") @@ (eraser :> "eraser") @@ (airbrush :> "airbrush")
          @@ (mouse :> "mouse4D") @@ (lens :> "lens")
MCGeneric == ("pen" :> pen) @@ ("eraser" :> eraser)
=============================================================================
