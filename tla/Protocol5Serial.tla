--------------------------- MODULE Protocol5Serial ---------------------------
(***************************************************************************)
(* protocol5_serial.cpp once the tablet transmits: its packets, byte by    *)
(* byte over a serial line that may lose some, become pen events and, by   *)
(* way of WacomUsb, what the driver is told.                               *)
(*                                                                         *)
(* A packet is PkgLen bytes; only the first has its top bit set, and says  *)
(* what the packet is.  The bytes after it carry the tool's identity (in a *)
(* packet that brings a tool in) or its position.  The tablet is external: *)
(* it brings a tool in, reports on it and takes it out, and may break off  *)
(* a report to begin another, as the comments of the source say it does.   *)
(***************************************************************************)
EXTENDS Naturals, Sequences, WacomUsb

CONSTANTS PkgLen,      \* WACOM_PKGLEN_PROTOCOL5 (9)
          MaxPackets   \* bound: packets the tablet begins

ASSUME PkgAssumption == PkgLen \in Nat /\ PkgLen > 1 /\ MaxPackets \in Nat

VARIABLES \* the tablet
          onTablet,    \* the tool on it
          packet,      \* the packet it is sending ...
          sent,        \* ... the bytes of it already sent ...
          packets,     \* ... and its number
          \* the line
          damaged,     \* history: a packet was cut short and no header came since
          apart,       \* history: no header was lost while damaged
          trusted,     \* history: nothing was lost since the last tool left
          \* the parser
          buffer,      \* the first datalen bytes of buffer
          eraser_mode,
          discard_first,
          penEvent,
          acted        \* history: the packets whose bytes were last acted on

tabletVars == <<onTablet, packet, sent, packets>>
parserVars == <<buffer, eraser_mode, discard_first, penEvent, acted>>
p5vars == <<tabletVars, damaged, apart, trusted, parserVars, usbVars>>

Types == {"in", "out", "pen", "wheel", "mouse", "rotation"}
\* What a tablet says of a tool of some kind.
TypesOf(kind) == CASE kind \in {"pen", "eraser"} -> {"pen"}
                   [] kind = "airbrush" -> {"pen", "wheel"}
                   [] kind = "mouse4D" -> {"mouse", "rotation"}
                   [] OTHER -> {"mouse"}

Packet == [type : Types, tool : Tool \union {NoTool}, near : BOOLEAN]
Idle == [type |-> "out", tool |-> NoTool, near |-> FALSE]
Byte == [type : Types \union {"body"}, near : BOOLEAN,
         tool : Tool \union {NoTool}, number : 0 .. MaxPackets]
\* The byte at a position of a packet; its number is a history.
ByteAt(p, i, n) == [type |-> IF i = 1 THEN p.type ELSE "body",
                    near |-> i = 1 /\ p.near,
                    tool |-> IF i = 1 THEN NoTool ELSE p.tool,
                    number |-> n]

Init == /\ onTablet = NoTool /\ packet = Idle /\ sent = PkgLen /\ packets = 0
        /\ damaged = FALSE /\ apart = TRUE /\ trusted = TRUE
        /\ buffer = <<>> /\ eraser_mode = FALSE /\ discard_first = FALSE
        /\ penEvent = [proximity |-> FALSE, eraser |-> FALSE, is_mouse |-> FALSE,
                       tool |-> NoTool, first |-> "out"]
        /\ acted = {}
        /\ UsbInit
-----------------------------------------------------------------------------
(* The tablet.                                                              *)

Begin(p) == /\ packets < MaxPackets
            /\ packet' = p
            /\ sent' = 0
            /\ packets' = packets + 1
            /\ damaged' = (damaged \/ sent < PkgLen)
            /\ UNCHANGED <<apart, trusted, parserVars, usbVars>>

BringIn(t) == /\ sent = PkgLen
              /\ onTablet = NoTool
              /\ onTablet' = t
              /\ Begin([type |-> "in", tool |-> t, near |-> TRUE])

TakeOut == /\ sent = PkgLen
           /\ onTablet # NoTool
           /\ onTablet' = NoTool
           /\ Begin(Idle)

\* A report, near the surface or not; one it was sending may be broken off.
ReportOn(near) == /\ sent = PkgLen \/ (packet.type \notin {"in", "out"} /\ sent > 0)
                  /\ onTablet # NoTool
                  /\ \E type \in TypesOf(Kind[onTablet]) :
                        Begin([type |-> type, tool |-> NoTool, near |-> near])
                  /\ UNCHANGED onTablet
-----------------------------------------------------------------------------
(* The parser: onSerialByteReceived in the packet state.                    *)

\* Slip: a header does not begin a new packet.
SlipAppended(b) == IF buffer = <<>> /\ b.type = "body" THEN <<>> ELSE Append(buffer, b)
\* The buffer with one more byte: a header begins anew, other bytes wait for one.
Appended(b) == CASE b.type # "body" -> <<b>>
                 [] b.type = "body" /\ buffer = <<>> -> <<>>
                 [] OTHER -> Append(buffer, b)

Complete(p) == Len(p) = PkgLen

\* The tools that a packet may name: one, or any if its bytes are of two packets.
ToolsNamed(p) ==
    LET one == {t \in Tool : \A i \in 2 .. PkgLen : p[i].tool = t}
    IN  CASE p[1].type # "in" -> {NoTool}
          [] one = {} -> Tool
          [] OTHER -> one

InEvent(type, t, mouse) ==
    [proximity |-> TRUE, first |-> type, eraser |-> Kind[t] = "eraser",
     is_mouse |-> mouse, tool |-> t]

\* Slip: is_mouse is not cleared when a pen comes.
SlipEventOf(p, t) ==
    LET type == p[1].type IN
    CASE type = "in"  -> InEvent(type, t, Kind[t] \in Mice \/ penEvent.is_mouse)
      [] type = "out" -> [penEvent EXCEPT !.proximity = FALSE, !.first = type]
      [] OTHER -> [penEvent EXCEPT !.proximity = p[1].near, !.first = type,
                      !.is_mouse = @ \/ type \in {"mouse", "rotation"}]
\* Slip: a report always says that the tool is near (as line 466 once did).
SlipReportEvent(p, t) ==
    LET type == p[1].type IN
    CASE type = "in"  -> InEvent(type, t, Kind[t] \in Mice)
      [] type = "out" -> [penEvent EXCEPT !.proximity = FALSE, !.first = type]
      [] OTHER -> [penEvent EXCEPT !.proximity = TRUE, !.first = type]
\* A packet of a pen or an airbrush, an eraser's if it came in as one, and one of
\* a mouse.
PenPacket(p) == [penEvent EXCEPT !.proximity = p[1].near, !.first = p[1].type,
                                 !.eraser = eraser_mode]
MousePacket(p) == [penEvent EXCEPT !.proximity = p[1].near, !.first = p[1].type,
                                   !.is_mouse = TRUE]

\* The pen event that a packet makes of the previous one.  An eraser that comes
\* in is given the is_mouse of the tool before it.
EventOf(p, t) ==
    LET type == p[1].type IN
    CASE type = "in"  -> InEvent(type, t, IF Kind[t] = "eraser"
                                            THEN penEvent.is_mouse ELSE Kind[t] \in Mice)
      [] type = "out" -> [penEvent EXCEPT !.proximity = FALSE, !.first = type]
      [] type \in {"pen", "wheel"} -> PenPacket(p)
      [] OTHER -> MousePacket(p)

\* The first report of a 4D mouse is not sent on, nor any of an unknown mouse.
Sendable(type) ==
    type = "mouse" => \/ ToolKind(penEvent.tool) \in {"lens", "mouse2D"}
                      \/ ToolKind(penEvent.tool) = "mouse4D" /\ ~discard_first

\* eraser_mode and discard_first (airbrushes and mice set it; only a mouse reads it).
Act(p, t) == LET type == p[1].type IN
          /\ acted' = {p[i].number : i \in 1 .. PkgLen}
          /\ penEvent' = EventOf(p, t)
          /\ eraser_mode' = CASE type = "in"  -> penEvent'.eraser
                              [] type = "out" -> FALSE
                              [] OTHER -> eraser_mode
          /\ discard_first' = CASE type = "in" -> \/ discard_first
                                                  \/ Kind[t] \notin {"pen", "eraser"}
                                [] type = "rotation" -> FALSE
                                [] OTHER -> discard_first
          /\ \/ Sendable(type) /\ SendProtocol5(penEvent', onTablet)
             \/ ~Sendable(type) /\ UNCHANGED usbVars

\* The tablet's next byte arrives ...
Arrive == /\ sent < PkgLen
          /\ sent' = sent + 1
          /\ LET b == ByteAt(packet, sent', packets)
                 p == Appended(b)
             IN  /\ damaged' = (damaged /\ b.type = "body")
                 /\ \/ /\ ~Complete(p)
                       /\ buffer' = p
                       /\ UNCHANGED <<eraser_mode, discard_first, penEvent, acted,
                                      trusted, usbVars>>
                    \/ /\ Complete(p)
                       /\ buffer' = <<>>
                       /\ \E t \in ToolsNamed(p) : Act(p, t)
                       /\ trusted' = \/ trusted
                                     \/ report' = "leave" /\ onTablet = NoTool
          /\ UNCHANGED <<onTablet, packet, packets, apart>>

\* ... or is lost.
Lose == /\ sent < PkgLen
        /\ sent' = sent + 1
        /\ apart' = (apart /\ ~(damaged /\ sent = 0))
        /\ damaged' = TRUE
        /\ trusted' = FALSE
        /\ UNCHANGED <<onTablet, packet, packets, parserVars, usbVars>>

Tablet == TakeOut \/ (\E t \in Tool : BringIn(t)) \/ (\E near \in BOOLEAN : ReportOn(near))

Next == Tablet \/ Arrive \/ Lose

Spec == Init /\ [][Next]_p5vars
-----------------------------------------------------------------------------
TypeOK == /\ onTablet \in Tool \union {NoTool}
          /\ packet \in Packet /\ sent \in 0 .. PkgLen /\ packets \in 0 .. MaxPackets
          /\ damaged \in BOOLEAN /\ apart \in BOOLEAN /\ trusted \in BOOLEAN
          /\ buffer \in Seq(Byte) /\ Len(buffer) < PkgLen
          /\ eraser_mode \in BOOLEAN /\ discard_first \in BOOLEAN
          /\ penEvent \in PenEvent
          /\ acted \subseteq 0 .. MaxPackets
          /\ UsbTypeOK

\* However many bytes are lost, the driver takes reports for another tool's only
\* until it has once been told that the tool left: from then on, and until a byte
\* or a report is lost again, each report is about the tool it was introduced to
\* and, but for an eraser, of its kind (onSerialByteReceived over
\* do_send_protocol5_packet).
ReportsOf(kind) == CASE kind \in {"pen", "eraser"} -> {"pen"}
                     [] kind = "airbrush" -> {"pen", "wheel"}
                     [] kind = "mouse4D" -> {"mouse4D", "rotation"}
                     [] OTHER -> {kind}
RightTool == trusted /\ ~missed /\ report \in DataKinds =>
                /\ host = about /\ host # NoTool
                /\ Kind[host] = "eraser" \/ report \in ReportsOf(Kind[host])

\* In the same circumstances the driver knows, after each packet, which tool is
\* near the tablet, or that none is (a 4D mouse's first report is held back).
KeepsUp == /\ trusted /\ ~missed
           /\ sent = PkgLen
           /\ ~(packet.type = "mouse" /\ discard_first)
           => host = IF packet.near THEN onTablet ELSE NoTool

\* A pen event is made of the bytes of one packet, if no header is lost after a
\* packet that was cut short ("any byte after the first that contains HEADER_BIT
\* makes the packet invalid", onSerialByteReceived).
OnePacket == apart => \A i, j \in acted : i = j
=============================================================================
