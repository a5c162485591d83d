---------------------------- MODULE PenTransform ----------------------------
(***************************************************************************)
(* pen_data_transform.cpp: from the coordinates and the pressure of the    *)
(* tablet to those of the USB tablet, in words of a bounded width.  The    *)
(* horizontal and the vertical computation are the same, so that one of    *)
(* them stands for both.  A calibration gives the limits of both tablets   *)
(* and, if it has any, two anchors between which the scale is another.     *)
(***************************************************************************)
EXTENDS Naturals

CONSTANT Word    \* 2^16, the values of a uint16_t

ASSUME WordAssumption == Word \in Nat \ {0}

\* The limits of an area on the tablet and on the USB tablet.
Area == [min : 0 .. Word - 1, max : 0 .. Word - 1,
         usbMin : 0 .. Word - 1, usbMax : 0 .. Word - 1]
Calibration == [limits : Area, anchors : Area,
                pressureMax : 0 .. Word - 1, usbPressureMax : 0 .. Word - 1]

\* init: anchors that are all zero are none; one that is zero on the tablet, or
\* outside its limits, is moved to the limit.  Those of the USB tablet are not.
HasAnchor(c) == c.anchors # [min |-> 0, max |-> 0, usbMin |-> 0, usbMax |-> 0]
Anchors(c) ==
    [c.anchors EXCEPT
       !.max = IF @ = 0 \/ @ > c.limits.max THEN c.limits.max ELSE @,
       !.min = IF @ = 0 \/ @ < c.limits.min THEN c.limits.min ELSE @]

\* Slip: the product is computed in 16 bits.
SlipComputePosition(v, a) ==
    LET norm == (v - a.min) % Word
        span == (a.usbMax - a.usbMin) % Word
    IN  CASE v >= a.max -> a.usbMax
          [] v < a.max /\ norm = 0 -> a.usbMin
          [] OTHER -> (((norm * span) % Word) \div a.max + a.usbMin) % Word

\* compute_position.  What is below the minimum is not cropped: it wraps.
ComputePosition(v, a) ==
    LET norm == (v - a.min) % Word
        span == (a.usbMax - a.usbMin) % Word
    IN  CASE v >= a.max -> a.usbMax
          [] v < a.max /\ norm = 0 -> a.usbMin
          [] OTHER -> ((norm * span) \div a.max + a.usbMin) % Word

\* compute_x_position and compute_y_position: below, between or above the anchors.
Position(v, c) ==
    LET l == c.limits
        a == Anchors(c)
    IN  CASE ~HasAnchor(c) -> ComputePosition(v, l)
          [] HasAnchor(c) /\ v < a.min ->
                ComputePosition(v, [l EXCEPT !.max = a.min, !.usbMax = a.usbMin])
          [] HasAnchor(c) /\ v >= a.min /\ v > a.max ->
                ComputePosition(v, [l EXCEPT !.min = a.max, !.usbMin = a.usbMax])
          [] OTHER -> ComputePosition(v, a)

\* compute_pressure and scale_uint16.  The special case of 255 to 511 doubles the
\* value, as the general one does but for the last.
Pressure(v, c) ==
    CASE v = c.pressureMax -> c.usbPressureMax
      [] v # c.pressureMax /\ c.pressureMax = 0 -> 0
      [] v # c.pressureMax /\ 2 * c.pressureMax + 1 = c.usbPressureMax -> 2 * v
      [] OTHER -> ((v * c.usbPressureMax) \div c.pressureMax) % Word
=============================================================================
