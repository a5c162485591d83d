--------------------------- MODULE MCSerialTablets ---------------------------
(* SerialTablets for TLC: words of four bits, a playback of a few packets, and *)
(* each tablet with each USB protocol.                                         *)
EXTENDS SerialTablets, TLC

CONSTANTS pen, eraser, puck

MCKind == (pen :> "pen") @@ (eraser :> "eraser") @@ (puck :> "mouse2D")
MCGeneric == ("pen" :> pen) @@ ("eraser" :> eraser)

MCSpot == {[position |-> 0, pressure |-> 0], [position |-> 3, pressure |-> 1],
           [position |-> 8, pressure |-> 6]}

Limits(low, high, usbLow, usbHigh) ==
    [min |-> low, max |-> high, usbMin |-> usbLow, usbMax |-> usbHigh]
Plain == [limits |-> Limits(0, 12, 0, 15), anchors |-> Limits(0, 0, 0, 0),
          pressureMax |-> 7, usbPressureMax |-> 15]
Anchored == [limits |-> Limits(0, 12, 0, 14), anchors |-> Limits(4, 8, 2, 10),
             pressureMax |-> 7, usbPressureMax |-> 3]
\* One anchor, and a USB tablet that does not begin at 0.
Half == [limits |-> Limits(0, 12, 1, 15), anchors |-> Limits(3, 0, 5, 15),
         pressureMax |-> 8, usbPressureMax |-> 15]

\* After the pen left, and at once: with a delay, a count and a pause of 0.
Once == [trigOnProxOut |-> TRUE, startDelaySeconds |-> 2, nbIterations |-> 2,
         pauseDelay |-> 1, packet_size |-> 2, length |-> 6]
Zeros == [trigOnProxOut |-> FALSE, startDelaySeconds |-> 0, nbIterations |-> 0,
          pauseDelay |-> 0, packet_size |-> 3, length |-> 7]

With(tab, usb, calib, debug, cons, number) ==
    [tablet |-> tab, usb |-> usb, calibration |-> calib, script |-> debug,
     console |-> cons, packets |-> number]
MCSetup == {With("protocol4", "protocol4", Plain, NoScript, FALSE, 4),
            With("protocol4", "bamboo", Anchored, NoScript, FALSE, 3),
            With("protocol4", "protocol5", Half, NoScript, FALSE, 3),
            With("isdv4", "protocol4", Half, NoScript, FALSE, 3),
            With("isdv4", "bamboo", Anchored, NoScript, TRUE, 4),
            With("isdv4", "protocol5", Plain, NoScript, TRUE, 3),
            With("topaz", "bamboo", Half, Zeros, FALSE, 2),
            With("topaz", "protocol5", Anchored, Once, FALSE, 2)}
=============================================================================
