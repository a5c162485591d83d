------------------------- MODULE SerialTabletsProofs -------------------------
(* SerialTablets, for any tools, tablets and calibrations, and whatever bytes *)
(* and reports are lost: a pen is never turned over, and while none is the    *)
(* driver knows the tool.  PenTransform, for words of any width: positions    *)
(* and pressures stay within their areas, and never go back while the pen     *)
(* goes on.                                                                   *)
EXTENDS SerialTablets, TLAPS

USE ToolAssumption, PuckAssumption

\* The tool that the parser takes to be near.
Latched == Generic[IF eraser_mode THEN "eraser" ELSE "pen"]

\* NotTurnedOver is not inductive: what the driver knows, what the parser keeps and,
\* for protocol V, whether wacom_usb has introduced a tool, must be one.
IInv == /\ ~in_special_operation
        /\ ~missed /\ usbProtocol = "protocol5" => (currentlyInRange <=> host # NoTool)
        /\ ~missed /\ host \in Ends => in_proximity /\ host = Latched

\* What a report may do to the driver's idea of the tool: it stays, the tool leaves,
\* or one is introduced.
LEMMA SendStateTells ==
    ASSUME NEW tool, NEW present, SendState(tool, present), ~missed'
    PROVE  host' = tool /\ (tool # NoTool => ~missed /\ report' # "leave")
<1>1. /\ host' = tool /\ missed' = (missed /\ tool # NoTool)
      /\ tool # NoTool => report' # "leave"
  BY DEF SendState
<1> QED BY <1>1

\* An event that is not lost leaves the driver without a tool or with the event's:
\* in protocol V the one that was introduced, if one was.
LEMMA EventTells ==
    ASSUME IInv, NEW e, e.proximity \in BOOLEAN, NEW present, InputPenEvent(e, present),
           ~missed'
    PROVE  /\ usbProtocol = "protocol5" => (currentlyInRange' <=> host' # NoTool)
           /\ ~e.proximity => host' = NoTool
           /\ e.proximity => /\ ~missed /\ report' # "leave"
                            /\ host' = CASE usbProtocol = "protocol4" /\ e.is_mouse -> Puck
                                         [] usbProtocol = "protocol5" /\ host # NoTool -> host
                                         [] OTHER -> End(e)
<1>1. End(e) # NoTool
  BY DEF End
<1>2. CASE usbProtocol = "protocol4" /\ SendProtocol4(e, present)
  <2> DEFINE tool == CASE e.proximity /\ e.is_mouse -> Puck
                       [] e.proximity /\ ~e.is_mouse -> End(e)
                       [] OTHER -> NoTool
  <2>1. /\ ~e.proximity => tool = NoTool
        /\ e.proximity => tool = (IF e.is_mouse THEN Puck ELSE End(e)) /\ tool # NoTool
    BY <1>1
  <2>2. SendState(tool, present)
    BY <1>2 DEF SendProtocol4
  <2> HIDE DEF tool
  <2> QED BY <1>2, <2>1, <2>2, SendStateTells
<1>3. CASE usbProtocol = "bamboo" /\ SendBambooPen(e, present)
  <2> DEFINE tool == IF e.proximity THEN End(e) ELSE NoTool
  <2>1. SendState(tool, present)
    BY <1>3 DEF SendBambooPen
  <2>2. (~e.proximity => tool = NoTool) /\ (e.proximity => tool = End(e) /\ tool # NoTool)
    BY <1>1
  <2> HIDE DEF tool
  <2> QED BY <1>3, <2>1, <2>2, SendStateTells
<1>4. CASE usbProtocol = "protocol5" /\ SendUnnamed(e, present)
  <2> DEFINE f == [proximity |-> e.proximity, eraser |-> e.eraser,
                   is_mouse |-> e.is_mouse, tool |-> NoTool, first |-> "pen"]
  <2>1. Named(f) = End(e) /\ f.proximity = e.proximity
    BY DEF Named, End
  <2>2. SendProtocol5(f, present)
    BY <1>4 DEF SendUnnamed
  <2> HIDE DEF f
  <2>3. DoSend(f, present) /\ currentlyInRange' = e.proximity
    BY <2>1, <2>2 DEF IInv, SendProtocol5, DoSend, Introduce, Leave
  <2>4. CASE f.proximity /\ currentlyInRange /\ Send(DataKind(f), NoTool, present)
    <3>1. DataKind(f) # "enter" /\ DataKind(f) # "leave"
      BY DEF DataKind, PenKind, MouseKind
    <3>2. host' = host /\ report' = DataKind(f) /\ missed' = (missed /\ DataKind(f) # "leave")
      BY <2>4, <3>1 DEF Send
    <3>3. ~missed
      BY <3>1, <3>2
    <3> QED BY <1>4, <2>1, <2>3, <2>4, <3>1, <3>2, <3>3 DEF IInv
  <2>5. CASE f.proximity /\ ~currentlyInRange /\ Send("enter", Named(f), present)
    <3>1. host' = End(e) /\ report' = "enter" /\ missed' = (missed /\ "enter" # "leave")
      BY <2>1, <2>5 DEF Send
    <3>2. ~missed
      BY <3>1
    <3>3. host = NoTool
      BY <1>4, <2>5, <3>2 DEF IInv
    <3> QED BY <1>1, <1>4, <2>1, <2>3, <2>5, <3>1, <3>2, <3>3
  <2>6. CASE ~f.proximity /\ currentlyInRange /\ Send("leave", NoTool, present)
    <3>1. host' = NoTool
      BY <2>6 DEF Send
    <3> QED BY <2>1, <2>3, <2>6, <3>1
  <2>7. CASE ~f.proximity /\ ~currentlyInRange /\ UNCHANGED reportVars
    <3>1. host' = host /\ ~missed
      BY <2>7 DEF reportVars
    <3> QED BY <1>4, <2>1, <2>3, <2>7, <3>1 DEF IInv
  <2> QED BY <2>3, <2>4, <2>5, <2>6, <2>7 DEF DoSend, Introduce, Leave
<1> QED BY <1>2, <1>3, <1>4 DEF InputPenEvent

\* A report that is lost leaves the driver as it was.
LEMMA LostTells ==
    ASSUME NEW e, NEW present, InputPenEvent(e, present), missed', ~missed
    PROVE  host' = host
<1>1. ASSUME NEW kind, NEW tool, Send(kind, tool, present) PROVE host' = host
  BY <1>1 DEF Send
<1>2. ASSUME NEW tool, SendState(tool, present) PROVE host' = host
  BY <1>2 DEF SendState
<1>3. ASSUME NEW f, SendProtocol5(f, present) PROVE host' = host
  BY <1>1, <1>3 DEF SendProtocol5, DoSend, Introduce, Leave, reportVars
<1> QED BY <1>2, <1>3 DEF InputPenEvent, SendUnnamed, SendProtocol4, SendBambooPen

\* A packet, whatever is read in it.
LEMMA ActKeeps ==
    ASSUME IInv, NEW r \in Saying, Act(r)
    PROVE  /\ IInv'
           /\ {host, host'} \subseteq Ends /\ host # host' => missed
<1> DEFINE tool == DetectToolState(r)
           e == penEvent'
<1>1. /\ in_proximity' = r.near /\ eraser_mode' = tool.eraser
      /\ e.proximity = r.near /\ e.eraser = eraser_mode'
      /\ InputPenEvent(e, onTablet) /\ r.near \in BOOLEAN
  BY DEF Act, DetectToolState, Saying
<1>2. in_proximity /\ r.near => eraser_mode' = eraser_mode
  BY <1>1 DEF DetectToolState
<1>3. End(e) = Latched'
  BY <1>1 DEF End, Latched
<1> HIDE DEF tool, e
<1>4. ~in_special_operation' /\ usbProtocol' = usbProtocol
  BY <1>1 DEF IInv, InputPenEvent, SendUnnamed, SendProtocol5
<1>5. in_proximity /\ r.near => Latched' = Latched
  BY <1>2 DEF Latched
<1>6. CASE ~missed'
  <2>1. /\ usbProtocol = "protocol5" => (currentlyInRange' <=> host' # NoTool)
        /\ host' \in Ends => r.near /\ ~missed /\ host' \in {Latched', host}
    <3>1. Puck \notin Ends /\ NoTool \notin Ends
      BY DEF Ends
    <3> QED BY <1>1, <1>3, <1>6, <3>1, EventTells
  <2>2. host' \in Ends => in_proximity' /\ host' = Latched'
    BY <1>1, <1>5, <2>1 DEF IInv
  <2>3. IInv'
    BY <1>4, <2>1, <2>2 DEF IInv, Ends
  <2>4. {host, host'} \subseteq Ends => host' = host
    BY <1>5, <2>1, <2>2 DEF IInv
  <2> QED BY <2>3, <2>4
<1>7. CASE missed'
  <2>1. IInv'
    BY <1>4, <1>7 DEF IInv
  <2>2. ~missed => host' = host
    BY <1>1, <1>7, LostTells
  <2> QED BY <2>1, <2>2
<1> QED BY <1>6, <1>7

\* Every other step leaves the driver and the tool state of the parser alone.
LEMMA OthersKeep ==
    ASSUME IInv, UNCHANGED <<in_proximity, eraser_mode, usbVars, usbProtocol>>
    PROVE  IInv' /\ host' = host
BY DEF IInv, usbVars, reportVars, Latched, Ends

LEMMA StepKeeps == /\ IInv /\ [Next]_vars => IInv'
                   /\ IInv /\ [Next]_vars =>
                        ({host, host'} \subseteq Ends /\ host # host' => missed)
<1> SUFFICES ASSUME IInv, [Next]_vars
             PROVE  /\ IInv'
                    /\ {host, host'} \subseteq Ends /\ host # host' => missed
  OBVIOUS
<1> DEFINE Kept == UNCHANGED <<in_proximity, eraser_mode, usbVars, usbProtocol>>
<1>1. Kept \/ \E r \in Saying : Act(r)
  <2>1. CASE Tablet
    BY <2>1 DEF Tablet, TakeOut, ReportOn, BringIn, Begin, parserVars, reportsVars
  <2>2. CASE Arrive
    <3>1. ASSUME NEW p, Packet(p) PROVE Kept \/ \E r \in Saying : Act(r)
      BY <3>1 DEF Packet, Ignored, reportsVars, ReadProtocol4, ReadIsdv4, ReadTopaz
    <3>2. ASSUME NEW p, QueryPacket(p) PROVE Kept
      BY <3>2 DEF QueryPacket, Ignored, reportsVars
    <3> QED BY <2>2, <3>1, <3>2 DEF Arrive
  <2>3. CASE Lose
    BY <2>3 DEF Lose, parserVars, reportsVars
  <2>4. CASE Playback /\ Rest
    BY <2>4 DEF Rest, parserVars
  <2>5. CASE UNCHANGED vars
    BY <2>5 DEF vars, parserVars, reportsVars
  <2> QED BY <2>1, <2>2, <2>3, <2>4, <2>5 DEF Next
<1> QED BY <1>1, ActKeeps, OthersKeep
-----------------------------------------------------------------------------
\* The driver never sees a pen turned over to its other end, unless it was not told
\* that it left (the onSerialByteReceived of the three tablets, wacom_usb.cpp).
THEOREM NeverTurnedOver == Spec => NotTurnedOver
<1>1. Init => IInv
  BY DEF Init, ReportsInit, UsbInit, IInv, Ends
<1> QED BY <1>1, StepKeeps, PTL DEF Spec, NotTurnedOver
-----------------------------------------------------------------------------
(* What the driver knows while nothing is lost.                               *)

\* The end of the tool that is on the tablet, as its first packet told it.
EndOf == fooled \/ Kind[onTablet] = "eraser"

\* A packet says what is on the tablet.
Says == /\ ~packet.answer => /\ {packet.says.near, packet.says.mouse,
                                 packet.says.end} \subseteq BOOLEAN
                             /\ packet.says.near <=> onTablet # NoTool
                             /\ packet.says.near =>
                                   /\ packet.says.mouse <=> onTablet = Puck
                                   /\ tablet # "protocol4" => ~packet.says.mouse
                                   /\ tablet = "topaz" => ~packet.says.end
        /\ packet.answer => onTablet = NoTool
        /\ sent \in 0 .. Length(packet)

\* The parser and the driver know the tool ...
Known == /\ in_proximity <=> onTablet # NoTool
         /\ in_proximity => eraser_mode = EndOf
         /\ host = AsSeen
\* ... or are about to be told of it.
Coming == packet.says.near =>
             \/ ~in_proximity /\ host = NoTool /\ packet.says.end = EndOf
             \/ Known

\* The tablet waits for its answer, the packet is being read, or it has been.
Asking == itsCurState = "query_packet" /\ packet.answer
Reading == /\ itsCurState = "packet" /\ ~packet.answer
           /\ \/ sent = 0 /\ buffer = <<>>
              \/ sent = 1 /\ buffer = <<ByteAt(packet, 1)>>
              \/ sent = 2 /\ buffer = <<ByteAt(packet, 1), ByteAt(packet, 2)>>
Read == itsCurState = "packet" /\ buffer = <<>> /\ sent >= 1

Sync == trusted => /\ Asking \/ Reading \/ Read
                   /\ ~missed /\ Reading => Coming
                   /\ ~missed /\ (Asking \/ Read) => Known

KInv == /\ IInv /\ Says /\ Sync
        /\ itsCurState \in {"query_packet", "packet"}
        /\ itsCurState = "query_packet" => packet.answer
        /\ in_proximity \in BOOLEAN /\ eraser_mode \in BOOLEAN /\ fooled \in BOOLEAN
        /\ eraser_mode => in_proximity
        /\ tablet \in {"protocol4", "isdv4", "topaz"} /\ usbProtocol \in UsbProtocol
        /\ IF onTablet = NoTool THEN ~fooled ELSE onTablet \in ToolsOf[tablet]

\* Nothing that a tool's state depends on changes.
Same == UNCHANGED <<tablet, onTablet, fooled, packet, in_proximity, eraser_mode, usbVars,
                    usbProtocol>>

LEMMA SameKeeps ==
    ASSUME KInv, Same
    PROVE  /\ IInv' /\ (Known => Known') /\ (Coming => Coming')
           /\ missed' = missed
BY DEF KInv, Same, IInv, usbVars, reportVars, Latched, Known, Coming, EndOf, AsSeen, Ends

\* What is read in a packet of which no byte was lost is what it says.
LEMMA ReadsIt ==
    ASSUME KInv, ~packet.answer, NEW r \in Saying,
           NEW p, p = <<ByteAt(packet, 1), ByteAt(packet, 2), ByteAt(packet, 3)>>,
           \/ tablet = "protocol4" /\ r \in ReadProtocol4(p)
           \/ tablet = "isdv4" /\ r \in ReadIsdv4(p)
           \/ tablet = "topaz" /\ r \in ReadTopaz(p)
    PROVE  /\ r.near = packet.says.near
           /\ r.near => r.mouse = packet.says.mouse /\ r.end = packet.says.end
<1>1. \A i \in 1 .. 3 : p[i].at = i /\ p[i].says = packet.says
  BY DEF ByteAt
<1>2. /\ {packet.says.near, packet.says.mouse, packet.says.end} \subseteq BOOLEAN
      /\ packet.says.near => /\ tablet # "protocol4" => ~packet.says.mouse
                             /\ tablet = "topaz" => ~packet.says.end
  BY DEF KInv, Says
<1>3. CASE tablet = "protocol4" /\ r \in ReadProtocol4(p)
  BY <1>1, <1>2, <1>3 DEF ReadProtocol4, At, Near, Mouse, EndBit, Saying
<1>4. CASE tablet = "isdv4" /\ r \in ReadIsdv4(p)
  BY <1>1, <1>2, <1>4 DEF ReadIsdv4, At, Near, EndBit, Saying
<1>5. CASE tablet = "topaz" /\ r \in ReadTopaz(p)
  BY <1>1, <1>2, <1>5 DEF ReadTopaz, At, Near, Saying
<1> QED BY <1>3, <1>4, <1>5

\* Then the driver knows.
LEMMA ActTells ==
    ASSUME KInv, ~packet.answer, ~missed => Coming, NEW r \in Saying, Act(r), ~missed',
           r.near = packet.says.near, UNCHANGED <<onTablet, fooled>>,
           r.near => r.mouse = packet.says.mouse /\ r.end = packet.says.end
    PROVE  Known'
<1> DEFINE e == penEvent'
<1>1. /\ in_proximity' = r.near /\ eraser_mode' = DetectToolState(r).eraser
      /\ e.proximity = r.near /\ e.eraser = eraser_mode' /\ e.is_mouse = r.mouse
      /\ InputPenEvent(e, onTablet) /\ r.near \in BOOLEAN
  BY DEF Act, DetectToolState, Saying
<1>2. /\ ~r.near => host' = NoTool
      /\ r.near => /\ ~missed
                   /\ host' = CASE usbProtocol = "protocol4" /\ r.mouse -> Puck
                                [] usbProtocol = "protocol5" /\ host # NoTool -> host
                                [] OTHER -> Generic[IF eraser_mode' THEN "eraser" ELSE "pen"]
  <2> HIDE DEF e
  <2> QED BY <1>1, EventTells DEF End, KInv
<1> HIDE DEF e
<1>3. UNCHANGED usbProtocol
  BY <1>1 DEF InputPenEvent
<1>4. r.near <=> onTablet # NoTool
  BY DEF KInv, Says
<1>5. CASE ~r.near
  BY <1>1, <1>2, <1>4, <1>5 DEF Known, AsSeen
<1>6. CASE r.near
  <2>1. /\ r.mouse <=> onTablet = Puck
        /\ r.end = packet.says.end /\ onTablet # NoTool /\ Coming /\ packet.says.near
    BY <1>2, <1>4, <1>6 DEF KInv, Says
  <2>2. CASE ~in_proximity /\ host = NoTool /\ packet.says.end = EndOf
    <3>1. eraser_mode' = EndOf
      BY <1>1, <1>6, <2>1, <2>2 DEF DetectToolState
    <3>2. eraser_mode' = EndOf'
      BY <3>1 DEF EndOf
    <3>3. host' = AsSeen'
      BY <1>2, <1>3, <1>6, <2>1, <2>2, <3>1 DEF AsSeen, EndOf
    <3> QED BY <1>1, <1>6, <2>1, <3>2, <3>3 DEF Known
  <2>3. CASE Known
    <3>1. in_proximity /\ eraser_mode = EndOf /\ host = AsSeen
      BY <2>1, <2>3 DEF Known
    <3>2. eraser_mode' = EndOf
      BY <1>1, <1>6, <3>1 DEF DetectToolState
    <3>3. eraser_mode' = EndOf'
      BY <3>2 DEF EndOf
    <3>4. host' = AsSeen'
      BY <1>2, <1>3, <1>6, <2>1, <3>1, <3>2 DEF AsSeen, EndOf
    <3> QED BY <1>1, <1>6, <2>1, <3>3, <3>4 DEF Known
  <2> QED BY <2>1, <2>2, <2>3 DEF Coming
<1> QED BY <1>5, <1>6

\* A parser that had lost its place knows it again when the tool is out.
LEMMA ActRegains ==
    ASSUME KInv, ~trusted, NEW r \in Saying, Act(r), ~missed', trusted',
           UNCHANGED <<onTablet, fooled>>
    PROVE  Known'
<1> DEFINE e == penEvent'
<1>1. /\ in_proximity' = r.near /\ e.proximity = r.near
      /\ InputPenEvent(e, onTablet) /\ r.near \in BOOLEAN
      /\ report' = "leave" /\ onTablet = NoTool
  BY DEF Act, DetectToolState, Saying
<1> HIDE DEF e
<1>2. ~r.near /\ host' = NoTool
  BY <1>1, EventTells DEF KInv
<1> QED BY <1>1, <1>2 DEF Known, AsSeen

LEMMA TabletKeeps == ASSUME KInv, Tablet PROVE KInv'
<1>1. /\ Quiet /\ itsCurState = "packet" /\ sent' = 0 /\ ~packet'.answer
      /\ UNCHANGED <<tablet, trusted, itsCurState, buffer, in_proximity, eraser_mode,
                     usbVars, usbProtocol>>
  BY DEF Tablet, TakeOut, ReportOn, BringIn, Begin, parserVars, reportsVars
<1>2. IInv'
  BY <1>1 DEF KInv, IInv, usbVars, reportVars, Latched, Ends
<1>3. trusted => buffer = <<>> /\ Read /\ (~missed => Known)
  BY <1>1 DEF KInv, Sync, Quiet, Asking, Reading, Read, Length, PkgLen
<1>4. trusted => Reading'
  BY <1>1, <1>3 DEF Reading
<1>5. ~Read' /\ ~Asking'
  BY <1>1 DEF Read, Asking
<1>6. UNCHANGED <<missed, host>>
  BY <1>1 DEF usbVars, reportVars
<1>7. ASSUME /\ IF onTablet' = NoTool THEN ~fooled' ELSE onTablet' \in ToolsOf[tablet]
             /\ Says'
             /\ ~missed /\ trusted => Coming'
             /\ fooled' \in BOOLEAN
      PROVE  KInv'
  <2>1. Sync'
    BY <1>1, <1>4, <1>5, <1>6, <1>7 DEF Sync
  <2> QED BY <1>1, <1>2, <1>7, <2>1 DEF KInv
<1>8. 0 \in 0 .. Length(packet')
  BY <1>1 DEF Length, PkgLen
<1>9. CASE TakeOut
  <2> DEFINE says == [Nothing EXCEPT !.mouse = onTablet = Puck]
  <2>1. packet' = [answer |-> FALSE, says |-> says] /\ onTablet' = NoTool /\ fooled' = FALSE
    BY <1>9 DEF TakeOut, Begin
  <2>2. says.near = FALSE /\ {says.near, says.mouse, says.end} \subseteq BOOLEAN
    BY DEF Nothing
  <2> HIDE DEF says
  <2>3. packet'.says = says
    BY <2>1
  <2>4. Says' /\ Coming'
    BY <1>1, <1>8, <2>1, <2>2, <2>3 DEF Coming, Says
  <2> QED BY <1>7, <2>1, <2>4
<1>10. ASSUME NEW switch \in BOOLEAN, NEW spot \in Spot, NEW t,
              t \in ToolsOf[tablet], switch => HasSwitch(t), t # NoTool,
              onTablet' = t, Begin(SaysOf(t, switch, spot))
       PROVE  Says' /\ packet'.says.end = (Kind[t] = "eraser" \/ switch)
  <2> DEFINE says == SaysOf(t, switch, spot)
  <2>1. packet' = [answer |-> FALSE, says |-> says]
    BY <1>10 DEF Begin
  <2>2. /\ says.near = TRUE /\ says.mouse = (t = Puck)
        /\ says.end = (Kind[t] = "eraser" \/ switch)
        /\ {says.near, says.mouse, says.end} \subseteq BOOLEAN
    BY DEF SaysOf
  <2>3. tablet \in {"protocol4", "isdv4", "topaz"}
    BY DEF KInv
  <2>4. tablet # "protocol4" => t # Puck
    BY <1>10, <2>3 DEF ToolsOf
  <2>5. tablet = "topaz" => Kind[t] # "eraser" /\ ~switch
    BY <1>10 DEF ToolsOf, HasSwitch
  <2> HIDE DEF says
  <2>6. packet'.says = says /\ tablet' = tablet
    BY <1>1, <2>1
  <2> QED BY <1>1, <1>8, <1>10, <2>2, <2>4, <2>5, <2>6 DEF Says
<1>11. ASSUME NEW switch \in BOOLEAN, NEW spot \in Spot, ReportOn(switch, spot)
       PROVE  KInv'
  <2>1. /\ onTablet # NoTool /\ onTablet' = onTablet /\ fooled' = fooled
        /\ onTablet \in ToolsOf[tablet]
    BY <1>11 DEF ReportOn, KInv
  <2>2. Says'
    BY <1>10, <1>11, <2>1 DEF ReportOn
  <2>3. Known => Known'
    BY <1>1, <1>6, <2>1 DEF Known, AsSeen, EndOf
  <2> QED BY <1>1, <1>3, <1>7, <2>1, <2>2, <2>3 DEF Coming, KInv
<1>12. ASSUME NEW switch \in BOOLEAN, NEW spot \in Spot, NEW t \in Tool,
              BringIn(t, switch, spot)
       PROVE  KInv'
  <2>1. onTablet = NoTool /\ onTablet' = t /\ fooled' = switch /\ t \in ToolsOf[tablet]
    BY <1>12 DEF BringIn
  <2>2. Says' /\ packet'.says.end = (Kind[t] = "eraser" \/ switch)
    BY <1>10, <1>12 DEF BringIn
  <2>3. EndOf' = (switch \/ Kind[t] = "eraser")
    BY <2>1 DEF EndOf
  <2>4. Known => ~in_proximity' /\ host' = NoTool
    BY <1>1, <1>6, <2>1 DEF Known, AsSeen
  <2>5. trusted /\ ~missed => Coming'
    BY <1>3, <2>2, <2>3, <2>4 DEF Coming
  <2> QED BY <1>1, <1>7, <2>1, <2>2, <2>5
<1> QED BY <1>9, <1>11, <1>12 DEF Tablet

\* A byte of the packet that is being read is put to those before it.
LEMMA FramedIs ==
    ASSUME Reading, NEW b, b = ByteAt(packet, sent + 1)
    PROVE  /\ sent = 0 => Framed(b) = <<ByteAt(packet, 1)>>
           /\ sent = 1 => Framed(b) = <<ByteAt(packet, 1), ByteAt(packet, 2)>>
           /\ sent = 2 => Framed(b) = <<ByteAt(packet, 1), ByteAt(packet, 2),
                                        ByteAt(packet, 3)>>
<1> DEFINE B(i) == ByteAt(packet, i)
<1>1. b.head <=> sent = 0
  <2>1. b.head = (sent + 1 = 1)
    BY DEF ByteAt
  <2>2. sent + 1 = 1 <=> sent = 0
    BY DEF Reading
  <2> QED BY <2>1, <2>2
<1>2. CASE sent = 0
  BY <1>1, <1>2 DEF Framed
<1>3. CASE sent = 1
  <2>1. buffer = <<B(1)>> /\ b = B(2) /\ buffer # <<>>
    BY <1>3 DEF Reading
  <2> HIDE DEF B
  <2>2. Framed(b) = Append(buffer, b)
    BY <1>1, <1>3, <2>1 DEF Framed
  <2>3. Framed(b) = <<B(1), B(2)>>
    BY <2>1, <2>2
  <2> QED BY <1>3, <2>3 DEF B
<1>4. CASE sent = 2
  <2>1. buffer = <<B(1), B(2)>> /\ b = B(3) /\ buffer # <<>>
    BY <1>4 DEF Reading
  <2> HIDE DEF B
  <2>2. Framed(b) = Append(buffer, b)
    BY <1>1, <1>4, <2>1 DEF Framed
  <2>3. Framed(b) = <<B(1), B(2), B(3)>>
    BY <2>1, <2>2
  <2> QED BY <1>4, <2>3 DEF B
<1> QED BY <1>2, <1>3, <1>4 DEF Reading

\* What every byte that arrives leaves as it was.
LEMMA ArriveIs ==
    ASSUME KInv, Arrive
    PROVE  /\ sent' = sent + 1 /\ sent \in Nat /\ sent' >= 1 /\ sent < Length(packet)
           /\ UNCHANGED <<tablet, onTablet, fooled, packet>>
           /\ Says'
<1>1. /\ sent' = sent + 1 /\ sent # Length(packet) /\ sent \in 0 .. Length(packet)
      /\ UNCHANGED <<tablet, onTablet, fooled, packet>>
  BY DEF Arrive, Quiet, KInv, Says
<1>2. Length(packet) \in Nat
  BY TabletAssumption DEF Length, PkgLen
<1>3. sent' \in 0 .. Length(packet) /\ sent' >= 1 /\ sent < Length(packet)
  BY <1>1, <1>2
<1>4. Says'
  BY <1>1, <1>3 DEF KInv, Says, Length
<1> QED BY <1>1, <1>3, <1>4

LEMMA ArriveKeeps == ASSUME KInv, Arrive PROVE KInv'
<1> DEFINE b == ByteAt(packet, sent + 1)
<1>1. /\ sent' = sent + 1 /\ sent \in Nat /\ sent' >= 1 /\ sent < Length(packet)
      /\ UNCHANGED <<tablet, onTablet, fooled, packet>>
      /\ Says'
  BY ArriveIs
<1>2. b.head <=> sent = 0
  <2>1. b.head = (sent + 1 = 1)
    BY DEF ByteAt
  <2>2. sent + 1 = 1 <=> sent = 0
    BY <1>1
  <2> QED BY <2>1, <2>2
<1>3. \/ itsCurState = "packet" /\ itsCurState' = "packet" /\ Packet(Framed(b))
      \/ itsCurState = "query_packet" /\ QueryPacket(Append(buffer, b))
  BY <1>1 DEF Arrive
<1> HIDE DEF b
\* A byte on which the parser does not act.
<1>4. ASSUME Ignored, itsCurState' \in {"query_packet", "packet"},
             itsCurState' = "query_packet" => packet.answer,
             trusted => /\ Asking => Asking' \/ Read'
                        /\ Reading => Reading'
                        /\ Read => Read'
      PROVE  KInv'
  <2>1. Same /\ trusted' = trusted
    BY <1>1, <1>4 DEF Same, Ignored, reportsVars
  <2>2. IInv' /\ (Known => Known') /\ (Coming => Coming') /\ missed' = missed
    BY <2>1, SameKeeps
  <2>3. /\ ~(Reading' /\ Read') /\ ~(Reading' /\ Asking')
        /\ Asking' => ~Read'
    <3>1. \A x, y : <<x>> # <<>> /\ <<x, y>> # <<>>
      OBVIOUS
    <3> QED BY <1>1, <3>1, SMTT(20) DEF Reading, Asking, Read
  <2>4. Sync'
    BY <1>1, <1>4, <2>1, <2>2, <2>3 DEF KInv, Sync
  <2> QED BY <1>1, <1>4, <2>1, <2>2, <2>4 DEF KInv, Same
<1>5. CASE itsCurState = "query_packet" /\ QueryPacket(Append(buffer, b))
  <2>1. packet.answer /\ ~Reading /\ ~Read /\ Ignored
    BY <1>5 DEF KInv, Reading, Read, QueryPacket
  <2>2. \/ itsCurState' = "query_packet"
        \/ itsCurState' = "packet" /\ buffer' = <<>>
    BY <1>5 DEF QueryPacket
  <2> QED BY <1>1, <1>4, <2>1, <2>2 DEF Asking, Read
<1>6. CASE itsCurState = "packet" /\ itsCurState' = "packet" /\ Packet(Framed(b))
  <2>1. Reading => /\ sent = 0 => Framed(b) = <<ByteAt(packet, 1)>>
                   /\ sent = 1 => Framed(b) = <<ByteAt(packet, 1), ByteAt(packet, 2)>>
                   /\ sent = 2 => Framed(b) = <<ByteAt(packet, 1), ByteAt(packet, 2),
                                                ByteAt(packet, 3)>>
    BY FramedIs DEF b
  <2>2. Read => Framed(b) = <<>>
    BY <1>1, <1>2 DEF Read, Framed
  <2>3. ~Asking
    BY <1>6 DEF Asking
  <2> DEFINE p == Framed(b)
             ReadIn(r) == \/ tablet = "protocol4" /\ r \in ReadProtocol4(p)
                          \/ tablet = "isdv4" /\ r \in ReadIsdv4(p)
                          \/ tablet = "topaz" /\ r \in ReadTopaz(p)
  <2>4. \/ Len(p) < PkgLen /\ buffer' = p /\ Ignored
        \/ Len(p) = PkgLen /\ buffer' = <<>> /\ Dropped(p) /\ Ignored
        \/ Len(p) = PkgLen /\ buffer' = <<>> /\ \E r \in Saying : ReadIn(r) /\ Act(r)
    BY <1>6 DEF Packet, ReadProtocol4, ReadIsdv4, ReadTopaz
  <2> HIDE DEF p, ReadIn
  <2>5. trusted => \/ Reading /\ sent \in 0 .. 1 /\ Len(p) < PkgLen
                   \/ /\ Reading /\ sent = 2 /\ Len(p) = PkgLen
                      /\ p = <<ByteAt(packet, 1), ByteAt(packet, 2), ByteAt(packet, 3)>>
                   \/ Read /\ ~Reading /\ p = <<>> /\ Len(p) < PkgLen
    <3>1. trusted => Reading \/ Read
      BY <2>3 DEF KInv, Sync
    <3>2. \A x, y, z : Len(<<x>>) = 1 /\ Len(<<x, y>>) = 2 /\ Len(<<x, y, z>>) = 3
      OBVIOUS
    <3>3. Reading => sent \in 0 .. 2
      BY DEF Reading
    <3>4. Reading => /\ sent = 0 => Len(p) = 1
                     /\ sent = 1 => Len(p) = 2
                     /\ sent = 2 => Len(p) = 3
      <4> DEFINE B(i) == ByteAt(packet, i)
      <4>1. Reading => /\ sent = 0 => p = <<B(1)>>
                       /\ sent = 1 => p = <<B(1), B(2)>>
                       /\ sent = 2 => p = <<B(1), B(2), B(3)>>
        BY <2>1 DEF p
      <4> HIDE DEF B
      <4> QED BY <3>2, <4>1, Zenon
    <3>5. Read => Len(p) = 0
      BY <2>2 DEF p
    <3>6. /\ Reading /\ sent = 2 =>
                p = <<ByteAt(packet, 1), ByteAt(packet, 2), ByteAt(packet, 3)>>
          /\ Read => p = <<>> /\ ~Reading
      BY <1>1, <2>1, <2>2 DEF p, Read, Reading
    <3>7. Reading => \/ sent \in 0 .. 1 /\ Len(p) < PkgLen
                     \/ sent = 2 /\ Len(p) = PkgLen
      <4> SUFFICES ASSUME Reading
                   PROVE  \/ sent \in 0 .. 1 /\ Len(p) < PkgLen
                          \/ sent = 2 /\ Len(p) = PkgLen
        OBVIOUS
      <4>1. \/ sent = 0 /\ Len(p) = 1
            \/ sent = 1 /\ Len(p) = 2
            \/ sent = 2 /\ Len(p) = 3
        BY <3>3, <3>4
      <4>2. 0 \in 0 .. 1 /\ 1 \in 0 .. 1 /\ PkgLen = 3 /\ 1 < 3 /\ 2 < 3
        BY DEF PkgLen
      <4> QED BY <4>1, <4>2, Zenon
    <3>8. Read => Len(p) < PkgLen
      BY <3>5 DEF PkgLen
    <3> QED BY <3>1, <3>6, <3>7, <3>8
  <2>6. CASE Len(p) < PkgLen /\ buffer' = p /\ Ignored
    <3>1. trusted /\ Reading => Reading'
      BY <1>1, <1>6, <2>1, <2>5, <2>6 DEF Reading, p
    <3>2. trusted /\ Read => Read'
      BY <1>1, <1>6, <2>2, <2>6 DEF Read, p
    <3> QED BY <1>4, <1>6, <2>3, <2>6, <3>1, <3>2
  <2>7. CASE Len(p) = PkgLen /\ buffer' = <<>> /\ Dropped(p) /\ Ignored
    <3>1. ~trusted
      <4>1. \A i \in 1 .. 3 : ByteAt(packet, i).at = IF packet.answer THEN 0 ELSE i
        BY DEF ByteAt
      <4>2. ASSUME trusted PROVE \A i \in 2 .. PkgLen : p[i].at = i
        BY <2>5, <2>7, <4>1, <4>2 DEF PkgLen, Reading
      <4> QED BY <2>7, <4>2 DEF Dropped
    <3> QED BY <1>4, <1>6, <2>7, <3>1
  <2>8. CASE Len(p) = PkgLen /\ buffer' = <<>> /\ \E r \in Saying : ReadIn(r) /\ Act(r)
    <3>1. PICK r \in Saying : ReadIn(r) /\ Act(r)
      BY <2>8
    <3>2. IInv'
      BY <3>1, ActKeeps DEF KInv
    <3>3. Read' /\ ~Asking' /\ ~Reading'
      BY <1>1, <1>6, <2>8 DEF Read, Asking, Reading
    <3>4. ASSUME trusted', ~missed' PROVE Known'
      <4>1. CASE trusted
        <5>1. /\ Reading /\ ~packet.answer
              /\ p = <<ByteAt(packet, 1), ByteAt(packet, 2), ByteAt(packet, 3)>>
          BY <2>5, <2>8, <4>1 DEF Reading
        <5>2. /\ r.near = packet.says.near
              /\ r.near => r.mouse = packet.says.mouse /\ r.end = packet.says.end
          BY <3>1, <5>1, ReadsIt DEF ReadIn
        <5>3. ~missed => Coming
          BY <4>1, <5>1 DEF KInv, Sync
        <5> QED BY <1>1, <3>1, <3>4, <5>1, <5>2, <5>3, ActTells
      <4>2. CASE ~trusted
        BY <1>1, <3>1, <3>4, <4>2, ActRegains
      <4> QED BY <4>1, <4>2
    <3>5. Sync'
      BY <3>3, <3>4 DEF Sync
    <3>6. /\ in_proximity' \in BOOLEAN /\ eraser_mode' \in BOOLEAN
          /\ eraser_mode' => in_proximity'
      <4>1. /\ in_proximity' = r.near
            /\ eraser_mode' = CASE ~in_proximity /\ r.near -> r.end
                                [] in_proximity /\ ~r.near -> FALSE
                                [] OTHER -> eraser_mode
        BY <3>1 DEF Act, DetectToolState
      <4>2. r.near \in BOOLEAN /\ r.end \in BOOLEAN
        BY DEF Saying
      <4> QED BY <4>1, <4>2 DEF KInv
    <3>7. usbProtocol' = usbProtocol
      BY <3>1 DEF Act, InputPenEvent
    <3> QED BY <1>1, <1>6, <3>2, <3>5, <3>6, <3>7 DEF KInv
  <2> QED BY <2>4, <2>6, <2>7, <2>8
<1> QED BY <1>3, <1>5, <1>6

LEMMA NextKeeps == KInv /\ [Next]_vars => KInv'
<1> SUFFICES ASSUME KInv, [Next]_vars PROVE KInv'
  OBVIOUS
<1>1. ASSUME Same, UNCHANGED <<itsCurState, buffer, sent, trusted>> \/ ~trusted',
             Says', itsCurState' = itsCurState
      PROVE  KInv'
  <2>1. IInv' /\ (Known => Known') /\ (Coming => Coming') /\ missed' = missed
    BY <1>1, SameKeeps
  <2>2. Sync'
    BY <1>1, <2>1 DEF KInv, Sync, Asking, Reading, Read, Same
  <2> QED BY <1>1, <2>1, <2>2 DEF KInv, Same
<1>2. CASE Lose
  <2>1. /\ Same /\ ~trusted' /\ itsCurState' = itsCurState
        /\ sent' = sent + 1 /\ sent # Length(packet)
    BY <1>2 DEF Lose, Same, parserVars, reportsVars, Quiet
  <2>2. Length(packet) \in Nat
    BY TabletAssumption DEF Length, PkgLen
  <2>3. Says'
    BY <2>1, <2>2 DEF KInv, Says, Same, Length
  <2> QED BY <1>1, <2>1, <2>3
<1>3. CASE (Playback /\ Rest) \/ UNCHANGED vars
  <2>1. Same /\ UNCHANGED <<itsCurState, buffer, sent, trusted>>
    BY <1>3 DEF Rest, vars, tabletVars, parserVars, reportsVars, Same
  <2>2. Says'
    BY <2>1 DEF KInv, Says, Same, Length
  <2> QED BY <1>1, <2>1, <2>2
<1> QED BY <1>2, <1>3, TabletKeeps, ArriveKeeps DEF Next

LEMMA InitKnows == Init => KInv
<1> SUFFICES ASSUME Init PROVE KInv
  OBVIOUS
<1>1. PICK s \in Setup : /\ tablet = s.tablet
                         /\ ReportsInit(s.usb, s.calibration, s.script)
                         /\ Query \/ Ready
  BY DEF Init
<1>2. /\ in_proximity = FALSE /\ eraser_mode = FALSE /\ onTablet = NoTool /\ fooled = FALSE
      /\ host = NoTool /\ missed = FALSE /\ currentlyInRange = FALSE
      /\ in_special_operation = FALSE /\ usbProtocol = s.usb
  BY <1>1 DEF Init, ReportsInit, UsbInit
<1>3. IInv /\ Known
  BY <1>2 DEF IInv, Ends, Known, AsSeen
<1>4. s.tablet \in {"protocol4", "isdv4", "topaz"} /\ s.usb \in UsbProtocol
  BY SetupAssumption
<1>5. /\ ~Idle.answer /\ Answer.answer
      /\ Idle.says.near = FALSE /\ Idle.says.mouse = FALSE /\ Idle.says.end = FALSE
  BY DEF Idle, Answer, Nothing
<1>6. CASE Ready
  <2>1. Read /\ ~Reading /\ ~Asking /\ sent = PkgLen /\ packet = Idle
    BY <1>5, <1>6 DEF Ready, Read, Reading, Asking, PkgLen
  <2>2. Says
    <3>1. sent \in 0 .. Length(packet) /\ ~packet.answer
      BY <1>5, <2>1 DEF Length, PkgLen
    <3>2. packet.says.near = FALSE /\ packet.says.mouse = FALSE /\ packet.says.end = FALSE
      BY <1>5, <2>1
    <3>3. {packet.says.near, packet.says.mouse, packet.says.end} \subseteq BOOLEAN
      BY <3>2
    <3> QED BY <1>2, <3>1, <3>2, <3>3, Zenon DEF Says
  <2>3. Sync
    BY <1>3, <2>1 DEF Sync
  <2>4. itsCurState = "packet"
    BY <1>6 DEF Ready
  <2> QED BY <1>1, <1>2, <1>3, <1>4, <2>2, <2>3, <2>4 DEF KInv
<1>7. CASE Query
  <2>1. packet = Answer /\ sent = 0 /\ packet.answer
    BY <1>5, <1>7 DEF Query
  <2>2. Says
    BY <1>2, <2>1, TabletAssumption DEF Says, Length
  <2>3. trusted => Asking
    BY <1>7, <2>1 DEF Query, Asking
  <2>4. ~Reading
    BY <2>1 DEF Reading
  <2> QED BY <1>1, <1>2, <1>3, <1>4, <1>7, <2>1, <2>2, <2>3, <2>4 DEF KInv, Sync, Query
<1> QED BY <1>1, <1>6, <1>7

\* While nothing is lost, from when a tool last left, the driver knows after each
\* packet which tool is near the tablet, or that none is (the onSerialByteReceived of
\* the three tablets, do_send_protocol5_packet).
THEOREM DriverKnows == Spec => []KeepsUp
<1>1. KInv => KeepsUp
  <2> SUFFICES ASSUME KInv, trusted, ~missed, Quiet, ~packet.answer PROVE host = AsSeen
    BY DEF KeepsUp
  <2>1. ~Asking /\ ~Reading
    BY DEF Asking, Reading, Quiet, Length, PkgLen
  <2> QED BY <2>1 DEF KInv, Sync, Known
<1> QED BY <1>1, InitKnows, NextKeeps, PTL DEF Spec
-----------------------------------------------------------------------------
(* Scaling.                                                                   *)

\* A product grows with its factor.
LEMMA Product == ASSUME NEW m \in Nat, NEW p \in Nat, NEW q \in Nat, p <= q
                 PROVE  m * p \in Nat /\ m * q \in Nat /\ m * p <= m * q
<1>1. PICK d \in Nat : q = p + d
  <2>1. q - p \in Nat /\ q = p + (q - p)
    OBVIOUS
  <2> QED BY <2>1
<1>2. m * d \in Nat /\ m * p \in Nat
  OBVIOUS
<1>3. m * q = m * p + m * d
  BY <1>1
<1> QED BY <1>2, <1>3

\* What a quotient is.
LEMMA Quotient == ASSUME NEW k \in Nat, NEW m \in Nat \ {0}
                  PROVE  /\ k \div m \in Nat /\ m * (k \div m) \in Nat
                         /\ m * (k \div m) <= k /\ k < m * (k \div m) + m
OBVIOUS

\* A quotient grows with its dividend.
LEMMA QuotientGrows == ASSUME NEW k \in Nat, NEW l \in Nat, NEW m \in Nat \ {0}, k <= l
                       PROVE  k \div m <= l \div m
<1>1. PICK p \in Nat : p = k \div m /\ m * p \in Nat /\ m * p <= k
  BY Quotient
<1>2. PICK q \in Nat : q = l \div m /\ m * q \in Nat /\ l < m * q + m
  BY Quotient
<1> SUFFICES ASSUME q + 1 <= p PROVE FALSE
  BY <1>1, <1>2
<1>3. m * (q + 1) <= m * p
  BY Product
<1>4. m * (q + 1) = m * q + m
  OBVIOUS
<1> QED BY <1>1, <1>2, <1>3, <1>4

\* A part of s is at most s, and no part of it is nothing.
LEMMA QuotientBounded == ASSUME NEW n \in Nat, NEW s \in Nat, NEW m \in Nat \ {0}, n <= m
                         PROVE  (n * s) \div m \in 0 .. s
<1>1. /\ s * n \in Nat /\ s * m \in Nat
      /\ s * n <= s * m
  BY Product
<1>2. PICK k \in Nat : k = n * s
  BY <1>1
<1>3. PICK l \in Nat : l = m * s
  BY <1>1
<1>4. k <= l
  BY <1>1, <1>2, <1>3
<1>5. PICK q \in Nat : q = k \div m /\ m * q \in Nat /\ m * q <= k
  BY Quotient
<1>6. q <= s
  <2> SUFFICES ASSUME s + 1 <= q PROVE FALSE
    BY <1>5
  <2>1. m * (s + 1) <= m * q
    BY <1>5, Product
  <2>2. m * (s + 1) = m * s + m
    OBVIOUS
  <2>3. l + m <= m * q
    BY <1>3, <2>1, <2>2
  <2> QED BY <1>4, <1>5, <2>3
<1> QED BY <1>2, <1>5, <1>6

LEMMA QuotientOfNone == ASSUME NEW s \in Nat, NEW m \in Nat \ {0}
                        PROVE  (0 * s) \div m = 0
<1>1. 0 * s = 0
  OBVIOUS
<1>2. 0 \div m = 0
  OBVIOUS
<1> QED BY <1>1, <1>2

\* A word is its own remainder.
LEMMA SmallWord == ASSUME NEW x \in 0 .. Word - 1 PROVE x % Word = x
BY WordAssumption

\* Below the maximum the position is the quotient, which does not wrap.
LEMMA Scaled ==
    ASSUME NEW a \in Area, a.usbMin <= a.usbMax, NEW v \in a.min .. a.max - 1
    PROVE  LET q == ((v - a.min) * (a.usbMax - a.usbMin)) \div a.max
           IN  /\ q \in 0 .. a.usbMax - a.usbMin
               /\ ComputePosition(v, a) = q + a.usbMin
<1>1. /\ a.min \in Nat /\ a.max \in 1 .. Word - 1
      /\ a.usbMin \in Nat /\ a.usbMax \in 0 .. Word - 1
  BY WordAssumption DEF Area
<1> DEFINE n == v - a.min
           s == a.usbMax - a.usbMin
           q == (n * s) \div a.max
<1>2. n \in 0 .. Word - 1 /\ s \in 0 .. Word - 1 /\ n <= a.max /\ n \in Nat /\ s \in Nat
  BY <1>1, WordAssumption
<1>3. n % Word = n /\ s % Word = s
  BY <1>2, SmallWord
<1>4. ComputePosition(v, a) =
         CASE v >= a.max -> a.usbMax
           [] v < a.max /\ n = 0 -> a.usbMin
           [] OTHER -> (q + a.usbMin) % Word
  BY <1>3 DEF ComputePosition
<1> HIDE DEF n
<1> HIDE DEF s
<1>5. q \in 0 .. s
  BY <1>1, <1>2, QuotientBounded
<1> HIDE DEF q
<1>6. (q + a.usbMin) % Word = q + a.usbMin
  <2>1. q + a.usbMin \in 0 .. Word - 1
    BY <1>1, <1>5, WordAssumption DEF s
  <2> QED BY <2>1, SmallWord
<1>7. n = 0 => q = 0
  BY <1>1, <1>2, QuotientOfNone DEF q
<1>8. ComputePosition(v, a) = q + a.usbMin
  BY <1>1, <1>4, <1>6, <1>7
<1> QED BY <1>5, <1>8 DEF q, n, s

\* A pen that is within the tablet's area, or beyond its maximum, is shown within the
\* area of the USB tablet, and one that goes on in a direction does not make the
\* cursor go back, whatever the areas and the width of a word (compute_position).
THEOREM PositionTracks ==
    ASSUME NEW a \in Area, a.usbMin <= a.usbMax,
           NEW v \in a.min .. Word - 1, NEW w \in v .. Word - 1
    PROVE  /\ ComputePosition(v, a) \in a.usbMin .. a.usbMax
           /\ ComputePosition(v, a) <= ComputePosition(w, a)
<1>1. /\ a.min \in Nat /\ a.max \in 0 .. Word - 1
      /\ a.usbMin \in Nat /\ a.usbMax \in 0 .. Word - 1
  BY WordAssumption DEF Area
<1>2. ASSUME NEW x \in a.min .. Word - 1
      PROVE  ComputePosition(x, a) \in a.usbMin .. a.usbMax
  <2>1. CASE x >= a.max
    BY <1>1, <2>1 DEF ComputePosition
  <2>2. CASE x < a.max
    <3>1. x \in a.min .. a.max - 1
      BY <1>1, <1>2, <2>2, WordAssumption
    <3> DEFINE q == ((x - a.min) * (a.usbMax - a.usbMin)) \div a.max
    <3>2. q \in 0 .. a.usbMax - a.usbMin /\ ComputePosition(x, a) = q + a.usbMin
      BY <3>1, Scaled
    <3> HIDE DEF q
    <3> QED BY <1>1, <3>2
  <2> QED BY <1>1, <2>1, <2>2, WordAssumption
<1>3. v \in a.min .. Word - 1 /\ w \in a.min .. Word - 1
  BY <1>1, WordAssumption
<1>4. ComputePosition(v, a) <= ComputePosition(w, a)
  <2>1. CASE w >= a.max
    <3>1. ComputePosition(w, a) = a.usbMax
      BY <1>1, <1>3, <2>1, WordAssumption DEF ComputePosition
    <3> QED BY <1>1, <1>2, <1>3, <3>1
  <2>2. CASE w < a.max
    <3> DEFINE s == a.usbMax - a.usbMin
               k == (v - a.min) * s
               l == (w - a.min) * s
    <3>1. v \in a.min .. a.max - 1 /\ w \in a.min .. a.max - 1
      BY <1>1, <1>3, <2>2, WordAssumption
    <3>2. /\ ComputePosition(v, a) = (k \div a.max) + a.usbMin
          /\ ComputePosition(w, a) = (l \div a.max) + a.usbMin
          /\ k \div a.max \in Nat /\ l \div a.max \in Nat
      BY <3>1, Scaled
    <3>3. k \in Nat /\ l \in Nat /\ k <= l
      <4>1. s \in Nat /\ v - a.min \in Nat /\ w - a.min \in Nat /\ v - a.min <= w - a.min
        BY <1>1, <3>1
      <4> HIDE DEF s
      <4>2. /\ s * (v - a.min) \in Nat /\ s * (w - a.min) \in Nat
            /\ s * (v - a.min) <= s * (w - a.min)
        BY <4>1, Product
      <4> QED BY <4>1, <4>2
    <3> HIDE DEF k, l
    <3>4. k \div a.max <= l \div a.max
      BY <1>1, <2>2, <3>1, <3>3, QuotientGrows
    <3> QED BY <1>1, <3>2, <3>4
  <2> QED BY <1>1, <1>3, <2>1, <2>2, WordAssumption
<1> QED BY <1>2, <1>3, <1>4
-----------------------------------------------------------------------------
(* The same with anchors, and of the pressure.                                *)

\* The areas of a calibration lie one behind the other, and the tablet reports what is
\* within its limits, or beyond their maximum.
Calibrated(c) ==
    /\ c \in Calibration
    /\ ~HasAnchor(c) => c.limits.usbMin <= c.limits.usbMax
    /\ HasAnchor(c) => /\ c.limits.usbMin <= c.anchors.usbMin
                       /\ c.anchors.usbMin <= c.anchors.usbMax
                       /\ c.anchors.usbMax <= c.limits.usbMax
Reported(e, c) == e.position \in c.limits.min .. Word - 1 /\ e.pressure \in 0 .. c.pressureMax

\* The areas below, between and above the anchors.
Below(c) == [c.limits EXCEPT !.max = Anchors(c).min, !.usbMax = Anchors(c).usbMin]
Above(c) == [c.limits EXCEPT !.min = Anchors(c).max, !.usbMin = Anchors(c).usbMax]

LEMMA AreasAre ==
    ASSUME NEW c, Calibrated(c)
    PROVE  /\ c.limits \in Area /\ Anchors(c) \in Area
           /\ Anchors(c).usbMin = c.anchors.usbMin /\ Anchors(c).usbMax = c.anchors.usbMax
           /\ Below(c) \in Area /\ Below(c).min = c.limits.min
           /\ Below(c).usbMin = c.limits.usbMin /\ Below(c).usbMax = Anchors(c).usbMin
           /\ Above(c) \in Area /\ Above(c).min = Anchors(c).max
           /\ Above(c).usbMin = Anchors(c).usbMax /\ Above(c).usbMax = c.limits.usbMax
<1>1. c.limits \in Area /\ c.anchors \in Area
  BY DEF Calibrated, Calibration
<1>2. /\ Anchors(c) \in Area
      /\ Anchors(c).usbMin = c.anchors.usbMin /\ Anchors(c).usbMax = c.anchors.usbMax
  BY <1>1 DEF Anchors, Area
<1>3. ASSUME NEW l \in Area, NEW a \in Area
      PROVE  LET b == [l EXCEPT !.max = a.min, !.usbMax = a.usbMin]
                 h == [l EXCEPT !.min = a.max, !.usbMin = a.usbMax]
             IN  /\ b \in Area /\ b.min = l.min /\ b.usbMin = l.usbMin /\ b.usbMax = a.usbMin
                 /\ h \in Area /\ h.min = a.max /\ h.usbMin = a.usbMax /\ h.usbMax = l.usbMax
  BY DEF Area
<1> QED BY <1>1, <1>2, <1>3, ZenonT(30) DEF Below, Above

\* PositionTracks, of the whole area of the tablet.
LEMMA AnchoredTracks ==
    ASSUME NEW c, Calibrated(c),
           NEW v \in c.limits.min .. Word - 1, NEW w \in v .. Word - 1
    PROVE  /\ Position(v, c) \in c.limits.usbMin .. c.limits.usbMax
           /\ Position(v, c) <= Position(w, c)
<1> DEFINE l == c.limits
           a == Anchors(c)
<1>1. /\ l \in Area /\ a \in Area /\ Below(c) \in Area /\ Above(c) \in Area
      /\ Below(c).min = l.min /\ Below(c).usbMin = l.usbMin /\ Below(c).usbMax = a.usbMin
      /\ Above(c).min = a.max /\ Above(c).usbMin = a.usbMax /\ Above(c).usbMax = l.usbMax
      /\ HasAnchor(c) => l.usbMin <= a.usbMin /\ a.usbMin <= a.usbMax /\ a.usbMax <= l.usbMax
      /\ ~HasAnchor(c) => l.usbMin <= l.usbMax
  BY AreasAre DEF Calibrated
<1>2. \A x : Position(x, c) =
         CASE ~HasAnchor(c) -> ComputePosition(x, l)
           [] HasAnchor(c) /\ x < a.min -> ComputePosition(x, Below(c))
           [] HasAnchor(c) /\ x >= a.min /\ x > a.max -> ComputePosition(x, Above(c))
           [] OTHER -> ComputePosition(x, a)
  BY Zenon DEF Position, Below, Above
<1> HIDE DEF l, a
<1>3. /\ {l.min, l.usbMin, l.usbMax, a.min, a.max, a.usbMin, a.usbMax} \subseteq Nat
      /\ v \in l.min .. Word - 1 /\ w \in l.min .. Word - 1 /\ v <= w
      /\ v \in Nat /\ w \in Nat /\ Word - 1 \in Nat
  BY <1>1, WordAssumption DEF Area, l
<1>4. CASE ~HasAnchor(c)
  <2>1. Position(v, c) = ComputePosition(v, l) /\ Position(w, c) = ComputePosition(w, l)
    BY <1>2, <1>4
  <2> QED BY <1>1, <1>3, <1>4, <2>1, PositionTracks DEF l
<1>5. CASE HasAnchor(c)
  <2>1. ASSUME NEW x \in l.min .. Word - 1, x < a.min
        PROVE  /\ Position(x, c) = ComputePosition(x, Below(c))
               /\ Position(x, c) \in l.usbMin .. a.usbMin
    <3>1. Position(x, c) = ComputePosition(x, Below(c))
      BY <1>2, <1>3, <1>5, <2>1
    <3>2. x \in x .. Word - 1
      BY <1>3
    <3> QED BY <1>1, <1>5, <3>1, <3>2, PositionTracks
  <2>2. ASSUME NEW x \in l.min .. Word - 1, x >= a.min, x <= a.max
        PROVE  /\ Position(x, c) = ComputePosition(x, a)
               /\ Position(x, c) \in a.usbMin .. a.usbMax
    <3>1. Position(x, c) = ComputePosition(x, a)
      BY <1>2, <1>3, <1>5, <2>2
    <3>2. x \in x .. Word - 1 /\ x \in a.min .. Word - 1
      BY <1>3, <2>2
    <3> QED BY <1>1, <1>5, <3>1, <3>2, PositionTracks
  <2>3. ASSUME NEW x \in l.min .. Word - 1, x >= a.min, x > a.max
        PROVE  /\ Position(x, c) = ComputePosition(x, Above(c))
               /\ Position(x, c) \in a.usbMax .. l.usbMax
    <3>1. Position(x, c) = ComputePosition(x, Above(c))
      BY <1>2, <1>3, <1>5, <2>3
    <3>2. x \in x .. Word - 1 /\ x \in a.max .. Word - 1
      BY <1>3, <2>3
    <3> QED BY <1>1, <1>5, <3>1, <3>2, PositionTracks
  <2>4. Position(v, c) \in l.usbMin .. l.usbMax
    BY <1>1, <1>3, <1>5, <2>1, <2>2, <2>3
  <2>5. Position(v, c) <= Position(w, c)
    <3>1. CASE w < a.min
      BY <1>1, <1>3, <1>5, <2>1, <3>1, PositionTracks
    <3>2. CASE w >= a.min /\ w <= a.max
      <4>1. CASE v < a.min
        BY <1>3, <2>1, <2>2, <3>2, <4>1
      <4>2. CASE v >= a.min
        BY <1>1, <1>3, <1>5, <2>2, <3>2, <4>2, PositionTracks
      <4> QED BY <1>3, <4>1, <4>2
    <3>3. CASE w >= a.min /\ w > a.max
      <4>1. CASE v < a.min
        BY <1>1, <1>3, <1>5, <2>1, <2>3, <3>3, <4>1
      <4>2. CASE v >= a.min /\ v <= a.max
        BY <1>3, <2>2, <2>3, <3>3, <4>2
      <4>3. CASE v >= a.min /\ v > a.max
        BY <1>1, <1>3, <1>5, <2>3, <3>3, <4>3, PositionTracks
      <4> QED BY <1>3, <4>1, <4>2, <4>3
    <3> QED BY <1>3, <3>1, <3>2, <3>3
  <2> QED BY <2>4, <2>5 DEF l
<1> QED BY <1>4, <1>5

LEMMA PressureTracks ==
    ASSUME NEW c, Calibrated(c), NEW v \in 0 .. c.pressureMax, NEW w \in v .. c.pressureMax
    PROVE  /\ Pressure(v, c) \in 0 .. c.usbPressureMax
           /\ Pressure(v, c) <= Pressure(w, c)
<1> DEFINE m == c.pressureMax
           u == c.usbPressureMax
<1>1. m \in 0 .. Word - 1 /\ u \in 0 .. Word - 1
  BY DEF Calibrated, Calibration
<1>2. \A x : Pressure(x, c) =
         CASE x = m -> u
           [] x # m /\ m = 0 -> 0
           [] x # m /\ 2 * m + 1 = u -> 2 * x
           [] OTHER -> ((x * u) \div m) % Word
  BY Zenon DEF Pressure
<1> HIDE DEF m, u
<1>3. v \in 0 .. m /\ w \in 0 .. m /\ v <= w /\ m \in Nat /\ u \in Nat
  BY <1>1, WordAssumption DEF m
<1>4. CASE m = 0
  BY <1>2, <1>3, <1>4 DEF m, u
<1>5. CASE m # 0 /\ 2 * m + 1 = u
  <2>1. \A x \in 0 .. m : Pressure(x, c) = IF x = m THEN u ELSE 2 * x
    BY <1>2, <1>5
  <2> QED BY <1>3, <1>5, <2>1 DEF m, u
<1>6. CASE m # 0 /\ 2 * m + 1 # u
  <2>1. ASSUME NEW x \in 0 .. m, x # m
        PROVE  (x * u) \div m \in 0 .. u /\ Pressure(x, c) = (x * u) \div m
    <3> DEFINE q == (x * u) \div m
    <3>1. q \in 0 .. u
      BY <1>3, <1>6, QuotientBounded
    <3>2. Pressure(x, c) = q % Word
      BY <1>2, <1>6, <2>1
    <3> HIDE DEF q
    <3>3. q \in 0 .. Word - 1
      BY <1>1, <3>1, WordAssumption
    <3> QED BY <3>1, <3>2, <3>3, SmallWord DEF q
  <2>2. Pressure(m, c) = u
    BY <1>2
  <2>3. Pressure(v, c) \in 0 .. u /\ Pressure(w, c) \in 0 .. u
    BY <1>3, <2>1, <2>2
  <2>4. Pressure(v, c) <= Pressure(w, c)
    <3>1. CASE w = m
      BY <1>3, <2>2, <2>3, <3>1
    <3>2. CASE w # m
      <4>1. v # m
        BY <1>3, <3>2
      <4> DEFINE k == v * u
                 n == w * u
      <4>2. k \in Nat /\ n \in Nat /\ k <= n
        <5>1. v \in Nat /\ w \in Nat
          BY <1>3
        <5>2. u * v \in Nat /\ u * w \in Nat /\ u * v <= u * w
          BY <1>3, <5>1, Product
        <5> QED BY <1>3, <5>1, <5>2
      <4>3. Pressure(v, c) = k \div m /\ Pressure(w, c) = n \div m
        BY <1>3, <2>1, <3>2, <4>1
      <4> HIDE DEF k, n
      <4>4. k \div m <= n \div m
        BY <1>3, <1>6, <4>2, QuotientGrows
      <4> QED BY <4>3, <4>4
    <3> QED BY <3>1, <3>2
  <2> QED BY <2>3, <2>4 DEF u
<1> QED BY <1>4, <1>5, <1>6

\* What was reported last was made of the last event.
TracksInv == /\ Calibrated(calibration) /\ \A s \in Spot : Reported(s, calibration)
             /\ xformed # NoTool => /\ xformed = Transform(penEvent)
                                    /\ Reported(penEvent, calibration)
Follows ==
    xformed' # NoTool =>
         /\ xformed'.position \in calibration.limits.usbMin .. calibration.limits.usbMax
         /\ xformed'.pressure \in 0 .. calibration.usbPressureMax
         /\ xformed # NoTool =>
              /\ penEvent.position <= penEvent'.position =>
                    xformed.position <= xformed'.position
              /\ penEvent.pressure <= penEvent'.pressure =>
                    xformed.pressure <= xformed'.pressure

LEMMA ActFollows == ASSUME TracksInv, NEW r \in Saying, Act(r) PROVE TracksInv' /\ Follows
<1> DEFINE c == calibration
           e == penEvent'
<1>1. /\ e.position = r.spot.position /\ e.pressure = r.spot.pressure
      /\ xformed' = (IF Placed(e) THEN Transform(e) ELSE NoTool) /\ c' = c
      /\ r.spot \in Spot
  BY DEF Act, InputPenEvent, Saying
<1>2. Reported(e, c) /\ Calibrated(c)
  BY <1>1 DEF TracksInv, Reported
<1>3. xformed' # NoTool => xformed' = [position |-> Position(e.position, c),
                                       pressure |-> Pressure(e.pressure, c)]
  BY <1>1 DEF Transform
<1>4. TracksInv'
  BY <1>1, <1>2, <1>3 DEF TracksInv, Calibrated, Reported, Transform
<1>5. Follows
  <2> SUFFICES ASSUME xformed' # NoTool
               PROVE  /\ xformed'.position \in c.limits.usbMin .. c.limits.usbMax
                      /\ xformed'.pressure \in 0 .. c.usbPressureMax
                      /\ xformed # NoTool =>
                           /\ penEvent.position <= e.position =>
                                 xformed.position <= xformed'.position
                           /\ penEvent.pressure <= e.pressure =>
                                 xformed.pressure <= xformed'.pressure
    BY DEF Follows
  <2>1. /\ xformed'.position = Position(e.position, c)
        /\ xformed'.pressure = Pressure(e.pressure, c)
    BY <1>3
  <2>2. xformed # NoTool => /\ xformed.position = Position(penEvent.position, c)
                            /\ xformed.pressure = Pressure(penEvent.pressure, c)
                            /\ Reported(penEvent, c)
    BY DEF TracksInv, Transform
  <2> HIDE DEF c, e
  <2>3. c.limits.min \in Nat /\ c.pressureMax \in Nat /\ Word \in Nat
    BY <1>2, WordAssumption DEF Calibrated, Calibration, Area
  <2>4. ASSUME NEW x, Reported(x, c)
        PROVE  /\ x.position \in c.limits.min .. Word - 1 /\ x.position \in Nat
               /\ x.pressure \in 0 .. c.pressureMax /\ x.pressure \in Nat
    BY <2>3, <2>4 DEF Reported
  <2>5. e.position \in e.position .. Word - 1 /\ e.pressure \in e.pressure .. c.pressureMax
    BY <1>2, <2>3, <2>4
  <2>6. /\ Position(e.position, c) \in c.limits.usbMin .. c.limits.usbMax
        /\ Pressure(e.pressure, c) \in 0 .. c.usbPressureMax
    BY <1>2, <2>4, <2>5, AnchoredTracks, PressureTracks
  <2>7. ASSUME xformed # NoTool, penEvent.position <= e.position
        PROVE  Position(penEvent.position, c) <= Position(e.position, c)
    <3>1. e.position \in penEvent.position .. Word - 1
      BY <1>2, <2>2, <2>3, <2>4, <2>7
    <3> QED BY <1>2, <2>2, <2>4, <2>7, <3>1, AnchoredTracks
  <2>8. ASSUME xformed # NoTool, penEvent.pressure <= e.pressure
        PROVE  Pressure(penEvent.pressure, c) <= Pressure(e.pressure, c)
    <3>1. e.pressure \in penEvent.pressure .. c.pressureMax
      BY <1>2, <2>2, <2>3, <2>4, <2>8
    <3> QED BY <1>2, <2>2, <2>4, <2>8, <3>1, PressureTracks
  <2> QED BY <2>1, <2>2, <2>6, <2>7, <2>8
<1> QED BY <1>4, <1>5

LEMMA NextFollows == TracksInv /\ [Next]_vars =>
                        TracksInv' /\ (Follows \/ UNCHANGED <<penEvent, xformed>>)
<1> SUFFICES ASSUME TracksInv, [Next]_vars
             PROVE  TracksInv' /\ (Follows \/ UNCHANGED <<penEvent, xformed>>)
  OBVIOUS
<1> DEFINE Kept == UNCHANGED <<penEvent, xformed, calibration>>
<1>1. Kept \/ \E r \in Saying : Act(r)
  <2>1. CASE Tablet
    BY <2>1 DEF Tablet, TakeOut, ReportOn, BringIn, Begin, parserVars, reportsVars
  <2>2. CASE Arrive
    <3>1. ASSUME NEW p, Packet(p) PROVE Kept \/ \E r \in Saying : Act(r)
      BY <3>1 DEF Packet, Ignored, reportsVars, ReadProtocol4, ReadIsdv4, ReadTopaz
    <3>2. ASSUME NEW p, QueryPacket(p) PROVE Kept
      BY <3>2 DEF QueryPacket, Ignored, reportsVars
    <3> QED BY <2>2, <3>1, <3>2 DEF Arrive
  <2>3. CASE Lose
    BY <2>3 DEF Lose, parserVars, reportsVars
  <2>4. CASE Playback /\ Rest
    BY <2>4 DEF Rest, parserVars
  <2>5. CASE UNCHANGED vars
    BY <2>5 DEF vars, parserVars, reportsVars
  <2> QED BY <2>1, <2>2, <2>3, <2>4, <2>5 DEF Next
<1>2. Kept => TracksInv'
  BY DEF TracksInv, Calibrated, Reported, Transform
<1> QED BY <1>1, <1>2, ActFollows

\* A position and a pressure within the tablet's limits are shown within those of the
\* USB tablet, and neither goes back while the pen's goes on, for any calibration of
\* which the areas follow one another, with anchors or without (pen_data_transform.cpp).
THEOREM PenTracks ==
    ASSUME \A s \in Setup : Calibrated(s.calibration) /\ \A p \in Spot : Reported(p, s.calibration)
    PROVE  Spec => Tracks
<1>1. Init => TracksInv
  BY DEF Init, ReportsInit, TracksInv
<1>2. TracksInv /\ [Next]_vars => TracksInv' /\ (Follows \/ UNCHANGED <<penEvent, xformed>>)
  BY NextFollows
<1> QED BY <1>1, <1>2, PTL DEF Spec, Tracks, Follows
=============================================================================
