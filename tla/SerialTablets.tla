---------------------------- MODULE SerialTablets ----------------------------
(***************************************************************************)
(* protocol4_serial.cpp, isdv4_serial.cpp and topaz_serial.cpp once their  *)
(* tablets transmit: packets, byte by byte over a serial line that may     *)
(* lose some, become pen events and, by way of PenReports, what the driver *)
(* is told.                                                                *)
(*                                                                         *)
(* Only the first byte of a packet has its top bit set.  The first byte    *)
(* says whether a tool is near, the second stands for those of the         *)
(* position and the pressure, and the third for those of the tip and the   *)
(* switches; which of them tells the eraser from the pen depends on the    *)
(* tablet.  An ISDV4 tablet first answers a query, if the console is on.   *)
(* The tablets are external.                                               *)
(***************************************************************************)
EXTENDS PenReports, Sequences, FiniteSets

CONSTANTS Setup,       \* the tablet, USB protocol, calibration, script, console,
                       \* and the bound: packets the tablet may begin
          Spot,        \* the positions and pressures the tablet may report
          AnswerLen    \* WACOM_PKGLEN_TPCCTL (11)

PkgLen == 3    \* WACOM_PKGLEN_PROTOCOL4 (7), WACOM_PKGLEN_TPC (9), TOPAZ_PACKET (5)

ASSUME TabletAssumption == AnswerLen \in Nat /\ AnswerLen > PkgLen
ASSUME SetupAssumption == \A s \in Setup : /\ s.tablet \in {"protocol4", "isdv4", "topaz"}
                                           /\ s.usb \in UsbProtocol

VARIABLES \* the tablet
          tablet,       \* EXTDATA_SLAVE_PROTOCOL
          onTablet,     \* the tool on it
          fooled,       \* it came with its second switch pressed
          packet,       \* the packet it is sending ...
          sent,         \* ... the bytes of it already sent ...
          packets,      \* ... and how many it may still begin
          trusted,      \* history: nothing was lost since the last tool left
          \* the parser
          itsCurState,
          buffer,       \* the first datalen bytes of buffer
          in_proximity, eraser_mode,
          penEvent

tabletVars == <<onTablet, fooled, packet, sent, packets>>
parserVars == <<itsCurState, buffer, in_proximity, eraser_mode, penEvent>>
vars == <<tablet, tabletVars, trusted, parserVars, reportsVars>>

\* What the bytes of a packet say.
Saying == [near : BOOLEAN, mouse : BOOLEAN, end : BOOLEAN, spot : Spot]
Nothing == [near |-> FALSE, mouse |-> FALSE, end |-> FALSE,
            spot |-> [position |-> 0, pressure |-> 0]]
Idle == [answer |-> FALSE, says |-> Nothing]
Answer == [Idle EXCEPT !.answer = TRUE]

Length(p) == IF p.answer THEN AnswerLen ELSE PkgLen
Quiet == sent = Length(packet)

\* A byte of a packet; those of an answer or left in the receive buffer are of no
\* place in one.
ByteAt(p, i) == [head |-> i = 1, at |-> IF p.answer THEN 0 ELSE i, says |-> p.says]
Stale == [head |-> FALSE, at |-> 0, says |-> Nothing]

\* The init functions: at once ready for packets, ...
Ready == /\ itsCurState = "packet" /\ buffer = <<>>
         /\ packet = Idle /\ sent = PkgLen /\ trusted = TRUE

\* ... or, of ISDV4 with a console, when the tablet has answered.  It flushes a
\* receive buffer that a byte may come into: the copy of its tail, torn, leaves
\* bytes in it for the answer, or instead of it.
Query == /\ packet = Answer /\ sent = 0
         /\ \/ itsCurState = "query_packet" /\ buffer = <<>> /\ trusted = TRUE
            \/ itsCurState = "query_packet" /\ buffer = <<Stale>> /\ trusted = TRUE
            \/ itsCurState = "packet" /\ buffer = <<>> /\ trusted = FALSE

Init == /\ \E s \in Setup :
              /\ tablet = s.tablet /\ packets = s.packets
              /\ ReportsInit(s.usb, s.calibration, s.script)
              /\ IF s.tablet = "isdv4" /\ s.console THEN Query ELSE Ready
        /\ in_proximity = FALSE /\ eraser_mode = FALSE
        /\ penEvent = [proximity |-> FALSE, eraser |-> FALSE, is_mouse |-> FALSE,
                       position |-> 0, pressure |-> 0]
        /\ onTablet = NoTool /\ fooled = FALSE
-----------------------------------------------------------------------------
(* The tablet, which transmits when it is told to.                          *)

ToolsOf == [protocol4 |-> Tool, isdv4 |-> {t \in Tool : t # Puck},
            topaz |-> {Generic["pen"]}]

Begin(says) == /\ Quiet /\ itsCurState = "packet"
               /\ packets > 0
               /\ packet' = [answer |-> FALSE, says |-> says]
               /\ sent' = 0
               /\ packets' = packets - 1
               /\ UNCHANGED <<tablet, trusted, parserVars, reportsVars>>

\* The end of the pen and its second switch are one bit.
SaysOf(t, switch, spot) == [near |-> TRUE, mouse |-> t = Puck,
                            end |-> Kind[t] = "eraser" \/ switch, spot |-> spot]
HasSwitch(t) == Kind[t] # "eraser" /\ tablet # "topaz"

BringIn(t, switch, spot) ==
    /\ onTablet = NoTool /\ t \in ToolsOf[tablet]
    /\ switch => HasSwitch(t)
    /\ onTablet' = t /\ fooled' = switch
    /\ Begin(SaysOf(t, switch, spot))

ReportOn(switch, spot) ==
    /\ onTablet # NoTool
    /\ switch => HasSwitch(onTablet)
    /\ Begin(SaysOf(onTablet, switch, spot))
    /\ UNCHANGED <<onTablet, fooled>>

TakeOut == /\ onTablet # NoTool
           /\ onTablet' = NoTool /\ fooled' = FALSE
           /\ Begin([Nothing EXCEPT !.mouse = onTablet = Puck])

Tablet == \/ TakeOut
          \/ \E switch \in BOOLEAN, spot \in Spot :
                ReportOn(switch, spot) \/ \E t \in Tool : BringIn(t, switch, spot)
-----------------------------------------------------------------------------
(* The parsers: onSerialByteReceived.                                       *)

\* The packet with one more byte: a header begins anew, other bytes wait for one.
Framed(b) == CASE b.head -> <<b>>
               [] ~b.head /\ buffer = <<>> -> <<>>
               [] OTHER -> Append(buffer, b)

\* What a byte says in some place of a packet; that of another place says anything.
At(p, i, of(_), r) == p[i].at = i => of(r) = of(p[i].says)
Near(r) == r.near
Mouse(r) == r.mouse
EndBit(r) == r.end
Where(r) == r.spot

\* What the three parsers may read in a packet: the bit of the end, or switch, is
\* in the first byte or in a later one, or there is none, nor a mouse.
ReadProtocol4(p) == {r \in Saying : /\ At(p, 1, Near, r) /\ At(p, 1, Mouse, r)
                                    /\ At(p, 2, Where, r) /\ At(p, 3, EndBit, r)}
ReadIsdv4(p) == {r \in Saying : /\ At(p, 1, Near, r) /\ At(p, 1, EndBit, r)
                                /\ At(p, 2, Where, r) /\ ~r.mouse}
ReadTopaz(p) == {r \in Saying : /\ At(p, 1, Near, r) /\ At(p, 2, Where, r)
                                /\ ~r.mouse /\ ~r.end}

\* One of a Topaz with bits where there are none is dropped.
Dropped(p) == tablet = "topaz" /\ \E i \in 2 .. PkgLen : p[i].at # i

\* Slip: the tool state is not reset when the tool leaves.
SlipResetToolState(r) ==
    [near |-> in_proximity \/ r.near, eraser |-> IF in_proximity THEN eraser_mode
                                                 ELSE r.near /\ r.end]
\* Slip: the second switch turns a pen over.
SlipDetectToolState(r) == [near |-> r.near, eraser |-> r.near /\ r.end]
\* The tool that comes in is a pen or an eraser until it leaves.
DetectToolState(r) ==
    [near |-> r.near,
     eraser |-> CASE ~in_proximity /\ r.near -> r.end
                  [] in_proximity /\ ~r.near -> FALSE
                  [] OTHER -> eraser_mode]

Act(r) == LET tool == DetectToolState(r) IN
          /\ in_proximity' = tool.near
          /\ eraser_mode' = tool.eraser
          /\ penEvent' = [proximity |-> r.near, eraser |-> tool.eraser,
                          is_mouse |-> r.mouse, position |-> r.spot.position,
                          pressure |-> r.spot.pressure]
          /\ InputPenEvent(penEvent', onTablet)
          /\ trusted' = (trusted \/ (report' = "leave" /\ onTablet = NoTool))

Ignored == UNCHANGED <<trusted, in_proximity, eraser_mode, penEvent, reportsVars>>

\* A byte of a packet: stored, or acted on with the others.
Packet(p) == \/ /\ Len(p) < PkgLen
                /\ buffer' = p
                /\ Ignored
             \/ /\ Len(p) = PkgLen
                /\ buffer' = <<>>
                /\ \/ Dropped(p) /\ Ignored
                   \/ tablet = "protocol4" /\ \E r \in ReadProtocol4(p) : Act(r)
                   \/ tablet = "isdv4" /\ \E r \in ReadIsdv4(p) : Act(r)
                   \/ tablet = "topaz" /\ \E r \in ReadTopaz(p) : Act(r)

\* A byte of the answer, whatever it is; after the last one packets are asked for.
QueryPacket(p) == /\ Ignored
                  /\ \/ Len(p) < AnswerLen /\ buffer' = p /\ UNCHANGED itsCurState
                     \/ /\ Len(p) = AnswerLen
                        /\ buffer' = <<>> /\ itsCurState' = "packet"

\* The tablet's next byte arrives ...
Arrive == /\ ~Quiet
          /\ sent' = sent + 1
          /\ LET b == ByteAt(packet, sent') IN
             \/ /\ itsCurState = "packet"
                /\ Packet(Framed(b))
                /\ UNCHANGED itsCurState
             \/ itsCurState = "query_packet" /\ QueryPacket(Append(buffer, b))
          /\ UNCHANGED <<tablet, onTablet, fooled, packet, packets>>

\* ... or is lost.
Lose == /\ ~Quiet
        /\ sent' = sent + 1
        /\ trusted' = FALSE
        /\ UNCHANGED <<tablet, onTablet, fooled, packet, packets, parserVars,
                        reportsVars>>

Playback == Timer \/ Processing
Rest == UNCHANGED <<tablet, tabletVars, trusted, parserVars, usbVars, usbProtocol,
                    calibration, xformed>>

Next == Tablet \/ Arrive \/ Lose \/ (Playback /\ Rest)

\* The timer interrupts, and the main loop goes round.
Spec == Init /\ [][Next]_vars /\ WF_vars(Playback /\ Rest)
-----------------------------------------------------------------------------
\* However many bytes are lost, the driver never sees a pen turned over to its
\* other end, unless it was not told that it left: whatever its switches, which
\* share a bit with its end, do meanwhile (in_proximity, eraser_mode).
Ends == {Generic["pen"], Generic["eraser"]}
NotTurnedOver == [][{host, host'} \subseteq Ends /\ host # host' => missed]_vars

\* If nothing was lost since a tool last left, the driver knows which tool is near
\* the tablet, or that none is, after each packet: but a pen that comes with its
\* second switch pressed is an eraser ("we might have been fooled by tip and second
\* sideswitch when it came into prox"), and only protocol IV knows a puck.
AsSeen == CASE onTablet = NoTool -> NoTool
            [] onTablet = Puck /\ usbProtocol = "protocol4" -> Puck
            [] OTHER -> Generic[IF fooled \/ Kind[onTablet] = "eraser"
                                THEN "eraser" ELSE "pen"]
KeepsUp == trusted /\ ~missed /\ Quiet /\ ~packet.answer => host = AsSeen

\* A position and a pressure within the tablet's limits are within those of the
\* USB tablet, and a pen that goes on in one direction, or is pressed harder, does
\* not make the cursor go back, or the stroke thinner (compute_position, with
\* anchors or without them, compute_pressure).
Tracks ==
    [][xformed' # NoTool =>
         /\ xformed'.position \in calibration.limits.usbMin .. calibration.limits.usbMax
         /\ xformed'.pressure \in 0 .. calibration.usbPressureMax
         /\ xformed # NoTool =>
              /\ penEvent.position <= penEvent'.position =>
                    xformed.position <= xformed'.position
              /\ penEvent.pressure <= penEvent'.pressure =>
                    xformed.pressure <= xformed'.pressure]_<<penEvent, xformed>>
=============================================================================
