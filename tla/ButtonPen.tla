------------------------------ MODULE ButtonPen ------------------------------
(***************************************************************************)
(* intuos2_button.cpp: a tablet button played to the driver of an Intuos2  *)
(* by a pen, while the tool on the tablet goes on producing pen events.    *)
(* The tablet and the caller of send_intuos2_button_event are external:    *)
(* a tool comes before its reports and leaves after them, and a button     *)
(* goes through "in" before any other state and "out" in the end.  (The    *)
(* callers that exist are in a loop that is never entered.)                *)
(***************************************************************************)
EXTENDS WacomUsb

VARIABLES atTablet,    \* the tool on the tablet
          button       \* the state of the button

bvars == <<atTablet, button, usbVars>>

ButtonInit == atTablet = NoTool /\ button = "out" /\ UsbInit

First(t) == CASE Kind[t] \in {"pen", "eraser"} -> {"pen"}
              [] Kind[t] = "airbrush" -> {"pen", "wheel"}
              [] Kind[t] = "mouse4D" -> {"mouse", "rotation"}
              [] OTHER -> {"mouse"}

\* A tool comes, reports and leaves; its events go to send_protocol5_packet.
Event(t, first, proximity, present) ==
    /\ \E mouse \in IF Kind[t] = "eraser" THEN BOOLEAN ELSE {Kind[t] \in Mice} :
          SendProtocol5([proximity |-> proximity, first |-> first, tool |-> t,
                         eraser |-> Kind[t] = "eraser", is_mouse |-> mouse],
                        present)
    /\ UNCHANGED button

Come(t) == atTablet = NoTool /\ atTablet' = t /\ Event(t, "in", TRUE, t)
PenReport == /\ atTablet # NoTool
             /\ \E first \in First(atTablet), p \in BOOLEAN :
                    Event(atTablet, first, p, atTablet)
             /\ UNCHANGED atTablet
Go == /\ atTablet # NoTool
      /\ atTablet' = NoTool
      /\ Event(atTablet, "out", FALSE, NoTool)

\* The pen that plays the button: it has no id, and its proximity is only set
\* when it comes in and goes out (else it is whatever the stack held).
ButtonEvent(p) == [proximity |-> p, eraser |-> FALSE, is_mouse |-> FALSE,
                   tool |-> NoTool, first |-> "pen"]

\* Button::in; the event that follows in the code finds the special operation
\* begun, and is held back (so is the event of Button::out, before it ends).
ButtonIn == /\ button = "out"
            /\ button' = "in"
            /\ BeginSpecial(atTablet)
            /\ UNCHANGED atTablet

ButtonMoves == /\ button # "out"
               /\ button' \in {"hovering", "down", "held_down", "up"}
               /\ \E p \in BOOLEAN : SendProtocol5(ButtonEvent(p), atTablet)
               /\ UNCHANGED atTablet

ButtonOut == /\ button # "out"
             /\ button' = "out"
             /\ EndSpecial
             /\ UNCHANGED atTablet

ButtonNext == \/ PenReport \/ Go \/ (\E t \in Tool : Come(t))
              \/ ButtonIn \/ ButtonMoves \/ ButtonOut

ButtonSpec == ButtonInit /\ [][ButtonNext]_bvars
-----------------------------------------------------------------------------
\* While the pen that plays a button hovers over it or presses it, the driver has been
\* told of a pen, unless a report was lost ("set stylus (pen) in proximity", "pen
\* moving over button", "pen pressing down button", send_intuos2_button_event).
PenIsSeen == ~missed /\ button \in {"hovering", "down", "held_down"} => host # NoTool
=============================================================================
