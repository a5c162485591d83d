--------------------------- MODULE Protocol5Proofs ---------------------------
(* The reports of protocol V, for any tools and whatever reports are lost.  At *)
(* first what each operation of wacom_usb does to the driver, which is used    *)
(* for every tablet whose events go through it; then ButtonPen; then           *)
(* Protocol5Serial, for any length of packet, any number of them, and whatever *)
(* bytes are lost: what the driver is told makes sense and is about the tool   *)
(* that is there.                                                              *)
EXTENDS Protocol5Serial, ButtonPen, TLAPS

\* Unless a report was lost, the firmware's idea of whether the driver knows of a
\* tool is right.
InRange == ~missed => (currentlyInRange <=> host # NoTool)

DriverInv == UsbTypeOK /\ InRange

DriverStep == [Driver!HNext]_(Driver!hvars)

USE ToolAssumption

\* In the beginning the driver knows of no tool, and none is in range.
LEMMA DriverInit == UsbInit => DriverInv /\ Driver!HInit
<1> SUFFICES ASSUME UsbInit PROVE DriverInv /\ Driver!HInit
  OBVIOUS
<1>1. UsbTypeOK
  <2>1. currentlyInRange \in BOOLEAN /\ in_special_operation \in BOOLEAN
        /\ missed \in BOOLEAN
    BY Zenon DEF UsbInit
  <2> QED BY <2>1 DEF UsbInit, UsbTypeOK
<1> QED BY <1>1 DEF UsbInit, DriverInv, InRange, Driver!HInit

\* A step that leaves the variables of wacom_usb alone is none of the driver's.
LEMMA DriverStutter == DriverInv /\ UNCHANGED usbVars => DriverInv' /\ DriverStep
<1> SUFFICES ASSUME DriverInv, UNCHANGED usbVars PROVE DriverInv' /\ DriverStep
  OBVIOUS
<1>1. UNCHANGED <<currentlyInRange, in_special_operation, host, report, about, missed>>
  BY DEF usbVars, reportVars
<1>2. UNCHANGED Driver!hvars
  BY <1>1 DEF Driver!hvars
<1>3. UsbTypeOK' /\ InRange'
  BY <1>1 DEF DriverInv, UsbTypeOK, InRange
<1> QED BY <1>2, <1>3 DEF DriverInv, DriverStep

\* A report of a kind that fits what is in range keeps the driver right.
LEMMA Sent ==
  ASSUME NEW kind \in DataKinds \union {"enter", "leave"},
         NEW tool, NEW present \in Tool \union {NoTool},
         DriverInv, Send(kind, tool, present),
         kind = "enter" => ~currentlyInRange /\ tool \in Tool,
         kind # "enter" => currentlyInRange,
         currentlyInRange' = (kind # "leave"),
         in_special_operation' \in BOOLEAN
  PROVE  DriverInv' /\ DriverStep
<1> USE DEF DriverInv, UsbTypeOK
<1>1. CASE missed' = TRUE /\ UNCHANGED <<host, report, about>>
  <2>1. Driver!Miss
    BY <1>1 DEF Driver!Miss
  <2>2. currentlyInRange' \in BOOLEAN /\ missed' \in BOOLEAN
    BY <1>1, Zenon
  <2>3. InRange'
    BY <1>1 DEF InRange
  <2> QED BY <1>1, <2>1, <2>2, <2>3 DEF DriverStep, Driver!HNext
<1>2. ASSUME report' = kind, about' = present,
             host' = CASE kind = "enter" -> tool [] kind = "leave" -> NoTool
                       [] OTHER -> host,
             missed' = (missed /\ kind # "leave")
      PROVE  DriverInv' /\ DriverStep
  <2>1. currentlyInRange' \in BOOLEAN /\ missed' \in BOOLEAN
    BY <1>2, Zenon
  <2>2. CASE kind = "enter"
    <3>1. host' = tool /\ tool \in Tool /\ ~currentlyInRange /\ currentlyInRange'
      BY <1>2, <2>2
    <3>2. missed' = missed
      BY <1>2, <2>2
    <3>3. host = NoTool \/ missed
      BY <3>1 DEF InRange
    <3>4. Driver!Enter(tool)
      BY <1>2, <2>2, <3>1, <3>2, <3>3 DEF Driver!Enter
    <3>5. InRange'
      BY <3>1 DEF InRange
    <3> QED BY <1>2, <2>1, <2>2, <3>1, <3>4, <3>5 DEF DriverStep, Driver!HNext
  <2>3. CASE kind = "leave"
    <3>1. host' = NoTool /\ ~missed' /\ currentlyInRange /\ ~currentlyInRange'
      BY <1>2, <2>3
    <3>2. host # NoTool \/ missed
      BY <3>1 DEF InRange
    <3>3. Driver!Leave
      <4>1. missed' = FALSE
        BY <3>1, <2>1
      <4> QED BY <1>2, <2>3, <3>1, <3>2, <4>1 DEF Driver!Leave
    <3>4. InRange'
      BY <3>1 DEF InRange
    <3> QED BY <1>2, <2>1, <2>3, <3>1, <3>3, <3>4 DEF DriverStep, Driver!HNext
  <2>4. CASE kind \in DataKinds
    <3>1. kind # "enter" /\ kind # "leave"
      BY <2>4 DEF DataKinds
    <3>2. host' = host /\ missed' = missed /\ currentlyInRange /\ currentlyInRange'
      BY <1>2, <3>1
    <3>3. host # NoTool \/ missed
      BY <3>2 DEF InRange
    <3>4. Driver!About(kind)
      BY <1>2, <3>2, <3>3 DEF Driver!About
    <3>5. InRange'
      BY <3>2 DEF InRange
    <3> QED BY <1>2, <2>1, <2>4, <3>2, <3>4, <3>5 DEF DriverStep, Driver!HNext
  <2> QED BY <2>2, <2>3, <2>4
<1> QED BY <1>1, <1>2 DEF Send

\* send_protocol5_packet keeps the driver right, whatever the event.
LEMMA DriverEvent ==
  ASSUME NEW e \in PenEvent, NEW present \in Tool \union {NoTool},
         DriverInv, SendProtocol5(e, present)
  PROVE  DriverInv' /\ DriverStep
<1>1. in_special_operation' = in_special_operation
      /\ in_special_operation' \in BOOLEAN
  BY DEF SendProtocol5, DriverInv, UsbTypeOK
<1>2. CASE UNCHANGED <<currentlyInRange, reportVars>>
  BY <1>1, <1>2, DriverStutter DEF usbVars
<1>3. CASE DoSend(e, present)
  <2>1. currentlyInRange' = e.proximity /\ e.proximity \in BOOLEAN
    BY <1>3 DEF DoSend, Introduce, Leave, PenEvent
  <2>2. CASE e.proximity /\ currentlyInRange /\ Send(DataKind(e), NoTool, present)
    <3>1. DataKind(e) \in DataKinds
      BY DEF DataKind, PenKind, MouseKind, DataKinds
    <3>2. DataKind(e) # "enter" /\ DataKind(e) # "leave"
      BY <3>1 DEF DataKinds
    <3>3. currentlyInRange' = (DataKind(e) # "leave")
      BY <2>1, <2>2, <3>2
    <3> QED BY <1>1, <2>2, <3>1, <3>2, <3>3, Sent
  <2>3. CASE e.proximity /\ ~currentlyInRange /\ Send("enter", Named(e), present)
    <3>1. Named(e) \in Tool
      BY DEF Named, PenEvent
    <3>2. currentlyInRange' = ("enter" # "leave")
      BY <2>1, <2>3
    <3> QED BY <1>1, <2>3, <3>1, <3>2, Sent
  <2>4. CASE ~e.proximity /\ currentlyInRange /\ Send("leave", NoTool, present)
    <3>1. currentlyInRange' = ("leave" # "leave")
      BY <2>1, <2>4
    <3> QED BY <1>1, <2>4, <3>1, Sent
  <2>5. CASE ~e.proximity /\ ~currentlyInRange /\ UNCHANGED reportVars
    <3>1. currentlyInRange' = currentlyInRange
      BY <2>1, <2>5 DEF DriverInv, UsbTypeOK
    <3> QED BY <1>1, <2>5, <3>1, DriverStutter DEF usbVars
  <2> QED BY <1>3, <2>2, <2>3, <2>4, <2>5 DEF DoSend, Introduce, Leave
<1> QED BY <1>2, <1>3 DEF SendProtocol5

\* So do the two ends of a special operation.
LEMMA DriverSpecial ==
  ASSUME NEW present \in Tool \union {NoTool},
         DriverInv, BeginSpecial(present) \/ EndSpecial
  PROVE  DriverInv' /\ DriverStep
<1>1. in_special_operation' \in BOOLEAN
  BY Zenon DEF BeginSpecial, EndSpecial, Leave
<1>2. CASE UNCHANGED <<currentlyInRange, reportVars>>
  <2>1. UNCHANGED <<currentlyInRange, host, report, about, missed>>
    BY <1>2 DEF reportVars
  <2>2. DriverInv'
    BY <1>1, <2>1 DEF DriverInv, UsbTypeOK, InRange
  <2> QED BY <2>1, <2>2 DEF DriverStep, Driver!hvars
<1>3. CASE /\ currentlyInRange /\ currentlyInRange' = FALSE
           /\ Send("leave", NoTool, present)
  <2>1. currentlyInRange' = ("leave" # "leave")
    BY <1>3
  <2> QED BY <1>1, <1>3, <2>1, Sent
<1> QED BY <1>2, <1>3 DEF BeginSpecial, EndSpecial, Leave
-----------------------------------------------------------------------------
(* ButtonPen.                                                                 *)

ButtonInv == /\ atTablet \in Tool \union {NoTool}
             /\ in_special_operation <=> button # "out"
             /\ DriverInv

\* An event of the tool on the tablet, held back or not.
LEMMA EventKeeps ==
  ASSUME ButtonInv, NEW t \in Tool, NEW first \in {"in", "out", "pen", "wheel", "mouse",
                                              "rotation"},
         NEW proximity \in BOOLEAN, NEW present \in Tool \union {NoTool},
         Event(t, first, proximity, present),
         atTablet' \in Tool \union {NoTool}
  PROVE  ButtonInv' /\ DriverStep
<1> PICK mouse \in BOOLEAN :
        SendProtocol5([proximity |-> proximity, first |-> first, tool |-> t,
                       eraser |-> Kind[t] = "eraser", is_mouse |-> mouse], present)
  <2>1. (Kind[t] \in Mice) \in BOOLEAN
    <3>1. CASE Kind[t] \in Mice
      BY <3>1
    <3>2. CASE Kind[t] \notin Mice
      BY <3>2
    <3> QED BY <3>1, <3>2
  <2> DEFINE m == Kind[t] \in Mice
             among == IF Kind[t] = "eraser" THEN BOOLEAN ELSE {m}
  <2>2. m \in BOOLEAN
    BY <2>1
  <2>3. PICK mouse \in among :
          SendProtocol5([proximity |-> proximity, first |-> first, tool |-> t,
                         eraser |-> Kind[t] = "eraser", is_mouse |-> mouse], present)
    BY Zenon DEF Event
  <2> HIDE DEF m
  <2>4. mouse \in BOOLEAN
    BY <2>2, <2>3
  <2> QED BY <2>3, <2>4
<1> DEFINE e == [proximity |-> proximity, first |-> first, tool |-> t,
                 eraser |-> Kind[t] = "eraser", is_mouse |-> mouse]
<1>1. e \in PenEvent
  <2>1. (Kind[t] = "eraser") \in BOOLEAN
    BY Zenon
  <2> QED BY <2>1 DEF PenEvent
<1>2. SendProtocol5(e, present)
  OBVIOUS
<1>3. e.tool = t /\ e.proximity = proximity
  OBVIOUS
<1> HIDE DEF e
<1>4. DriverInv' /\ DriverStep
  BY <1>1, <1>2, DriverEvent DEF ButtonInv
<1>5. button' = button /\ in_special_operation' = in_special_operation
  BY <1>2 DEF Event, SendProtocol5
<1> QED BY <1>4, <1>5 DEF ButtonInv

\* The tool comes, reports and goes.
LEMMA ToolKeeps ==
  ASSUME ButtonInv, PenReport \/ Go \/ \E t \in Tool : Come(t)
  PROVE  ButtonInv' /\ DriverStep
<1>1. CASE PenReport
  <2>1. PICK first \in First(atTablet), p \in BOOLEAN : Event(atTablet, first, p, atTablet)
    BY <1>1 DEF PenReport
  <2>2. atTablet \in Tool /\ atTablet' = atTablet
    BY <1>1 DEF PenReport, ButtonInv
  <2>3. first \in {"in", "out", "pen", "wheel", "mouse", "rotation"}
    BY DEF First
  <2> QED BY <2>1, <2>2, <2>3, EventKeeps
<1>2. CASE Go
  <2>1. atTablet \in Tool /\ atTablet' = NoTool
    BY <1>2 DEF Go, ButtonInv
  <2> QED BY <1>2, <2>1, EventKeeps DEF Go
<1>3. ASSUME NEW t \in Tool, Come(t) PROVE ButtonInv' /\ DriverStep
  BY <1>3, EventKeeps DEF Come
<1> QED BY <1>1, <1>2, <1>3

\* The button takes the tool out of range, plays its pen and lets the tool back.
LEMMA ButtonKeeps ==
  ASSUME ButtonInv, ButtonIn \/ ButtonMoves \/ ButtonOut
  PROVE  ButtonInv' /\ DriverStep
<1>1. CASE ButtonIn
  <2>1. DriverInv' /\ DriverStep
    BY <1>1, DriverSpecial DEF ButtonIn, ButtonInv
  <2>2. in_special_operation' = TRUE
    BY <1>1 DEF ButtonIn, BeginSpecial
  <2> QED BY <1>1, <2>1, <2>2 DEF ButtonIn, ButtonInv
<1>2. CASE ButtonMoves
  <2>1. PICK p \in BOOLEAN : SendProtocol5(ButtonEvent(p), atTablet)
    BY <1>2 DEF ButtonMoves
  <2>2. in_special_operation /\ UNCHANGED usbVars
    BY <1>2, <2>1 DEF ButtonMoves, ButtonInv, SendProtocol5, usbVars
  <2>3. DriverInv' /\ DriverStep
    BY <2>2, DriverStutter DEF ButtonInv
  <2> QED BY <1>2, <2>2, <2>3 DEF ButtonMoves, ButtonInv, usbVars
<1>3. CASE ButtonOut
  <2>1. DriverInv' /\ DriverStep
    BY <1>3, DriverSpecial DEF ButtonOut, ButtonInv
  <2>2. in_special_operation' = FALSE
    BY <1>3 DEF ButtonOut, EndSpecial
  <2> QED BY <1>3, <2>1, <2>2 DEF ButtonOut, ButtonInv
<1> QED BY <1>1, <1>2, <1>3

LEMMA ButtonInitHolds == ButtonInit => ButtonInv /\ Driver!HInit
<1> SUFFICES ASSUME ButtonInit PROVE ButtonInv /\ Driver!HInit
  OBVIOUS
<1>1. DriverInv /\ Driver!HInit
  BY DriverInit DEF ButtonInit
<1>2. in_special_operation = FALSE
  BY Zenon DEF ButtonInit, UsbInit
<1> QED BY <1>1, <1>2 DEF ButtonInit, ButtonInv

LEMMA ButtonStepKeeps == ButtonInv /\ [ButtonNext]_bvars => ButtonInv' /\ DriverStep
<1> SUFFICES ASSUME ButtonInv, [ButtonNext]_bvars PROVE ButtonInv' /\ DriverStep
  OBVIOUS
<1>1. CASE UNCHANGED bvars
  <2>1. DriverInv' /\ DriverStep
    BY <1>1, DriverStutter DEF ButtonInv, bvars
  <2> QED BY <1>1, <2>1 DEF bvars, usbVars, ButtonInv
<1> QED BY <1>1, ToolKeeps, ButtonKeeps DEF ButtonNext
-----------------------------------------------------------------------------
\* What the driver is told makes sense in spite of the special operation.
THEOREM ButtonsAreRight == ButtonSpec => ImplementsDriver
<1>1. ButtonInv /\ [ButtonNext]_bvars => [Driver!HNext]_(Driver!hvars)
  BY ButtonStepKeeps DEF DriverStep
<1> QED
  BY <1>1, ButtonInitHolds, ButtonStepKeeps, PTL DEF ButtonSpec, ImplementsDriver, Driver!HSpec
-----------------------------------------------------------------------------
(* The protocol V serial tablet.                                             *)

USE PkgAssumption

\* The parser only collects bytes behind a header.
Headed == buffer # <<>> => buffer[1].type # "body"

IInv == TypeOK /\ Headed /\ DriverInv

\* What the tablet says is about the tool on it.
Says == /\ packet.type = "out" => packet = Idle /\ onTablet = NoTool
        /\ packet.type # "out" => onTablet \in Tool
        /\ packet.type = "in"  => packet.tool = onTablet /\ packet.near
        /\ packet.type \notin {"in", "out"} => packet.type \in TypesOf(Kind[onTablet])

\* Unless something is damaged the buffer holds what was sent of the packet.  All
\* it holds is of one packet: this one, or the one before if nothing was sent of
\* this one.
Whole == /\ ~damaged => Len(buffer) = IF sent = PkgLen THEN 0 ELSE sent
         /\ apart => \A i, j \in 1 .. Len(buffer) : buffer[i].number = buffer[j].number
         /\ apart /\ sent > 0 =>
                \A i \in 1 .. Len(buffer) : buffer[i].number = packets

\* In trusted times the buffer holds the packet that is being sent, as far as it
\* was, or skips the rest of one that says that no tool is there.
InSync == trusted => /\ sent = PkgLen => buffer = <<>>
                     /\ sent > 0 /\ sent < PkgLen =>
                           \/ packet = Idle /\ buffer = <<>>
                           \/ /\ Len(buffer) = sent
                              /\ \A i \in 1 .. sent :
                                    buffer[i] = ByteAt(packet, i, packets)

\* The last report fits what the driver was told before.
LastReport == /\ ~in_special_operation
              /\ ~missed /\ report \in DataKinds => host # NoTool
              /\ ~missed /\ report = "leave" => host = NoTool

\* Did the parser get to know the tool?  Does it know that there is none?
Introduced == onTablet # NoTool /\ ~(packet.type = "in" /\ sent < PkgLen)
KnownGone == \/ packet.type = "in" /\ sent < PkgLen
             \/ packet = Idle /\ sent = PkgLen
             \/ packet = Idle /\ sent > 0 /\ buffer = <<>>

\* In trusted times it knows the tool, and if no report is missing so does the driver.
Known == trusted => /\ Introduced =>
                          /\ penEvent.tool = onTablet
                          /\ \/ Kind[onTablet] = "eraser"
                             \/ penEvent.is_mouse <=> Kind[onTablet] \in Mice
                          /\ ~missed => host \in {NoTool, onTablet}
                    /\ KnownGone /\ ~missed => host = NoTool

ToolInv == Says /\ InSync /\ LastReport /\ Known /\ RightTool /\ KeepsUp

\* A byte of a packet.
LEMMA ByteType ==
  ASSUME NEW p \in Packet, NEW i \in 1 .. PkgLen, NEW n \in 0 .. MaxPackets
  PROVE  ByteAt(p, i, n) \in Byte
<1>1. (i = 1 /\ p.near) \in BOOLEAN
  BY Zenon
<1> QED BY <1>1 DEF ByteAt, Byte, Packet, Types

\* The buffer with one more byte: bytes, behind a header.
LEMMA AppendedType ==
  ASSUME TypeOK, Headed, NEW b \in Byte
  PROVE  /\ Appended(b) \in Seq(Byte) /\ Len(Appended(b)) <= PkgLen
         /\ Appended(b) # <<>> => Appended(b)[1].type # "body"
<1>1. buffer \in Seq(Byte) /\ Len(buffer) < PkgLen
  BY DEF TypeOK
<1>2. CASE b.type # "body"
  BY <1>2 DEF Appended
<1>3. CASE b.type = "body" /\ buffer = <<>>
  BY <1>3 DEF Appended
<1>4. CASE b.type = "body" /\ buffer # <<>>
  <2>1. Appended(b) = Append(buffer, b)
    BY <1>4 DEF Appended
  <2>2. Len(buffer) >= 1 /\ Append(buffer, b)[1] = buffer[1]
    BY <1>1, <1>4
  <2> QED BY <1>1, <1>4, <2>1, <2>2 DEF Headed
<1> QED BY <1>2, <1>3, <1>4

\* A complete packet makes a pen event of a pen event.
LEMMA EventType ==
  ASSUME TypeOK, NEW p \in Seq(Byte), Complete(p), p[1].type # "body",
         NEW t \in ToolsNamed(p)
  PROVE  EventOf(p, t) \in PenEvent
<1>1. p[1] \in Byte
  BY DEF Complete
<1>2. p[1].type \in Types /\ p[1].near \in BOOLEAN
  BY <1>1 DEF Byte
<1>3. penEvent \in PenEvent /\ eraser_mode \in BOOLEAN
  BY DEF TypeOK
<1>4. CASE p[1].type = "in"
  <2>1. t \in Tool
    BY <1>4 DEF ToolsNamed
  <2> DEFINE mouse == IF Kind[t] = "eraser" THEN penEvent.is_mouse ELSE Kind[t] \in Mice
  <2>2. mouse \in BOOLEAN
    <3>1. CASE Kind[t] = "eraser"
      BY <1>3, <3>1 DEF PenEvent
    <3>2. CASE Kind[t] # "eraser"
      <4>1. CASE Kind[t] \in Mice
        BY <3>2, <4>1
      <4>2. CASE Kind[t] \notin Mice
        BY <3>2, <4>2
      <4> QED BY <4>1, <4>2
    <3> QED BY <3>1, <3>2
  <2>3. (Kind[t] = "eraser") \in BOOLEAN
    BY Zenon
  <2> HIDE DEF mouse
  <2>4. InEvent("in", t, mouse) \in PenEvent
    BY <2>1, <2>2, <2>3 DEF InEvent, PenEvent
  <2>5. EventOf(p, t) = InEvent("in", t, mouse)
    BY <1>4 DEF EventOf, PenPacket, MousePacket, mouse
  <2> QED BY <2>4, <2>5
<1>5. CASE p[1].type # "in"
  BY <1>2, <1>3, <1>5 DEF EventOf, PenPacket, MousePacket, PenEvent, Types
<1> QED BY <1>4, <1>5

\* Acting on a packet keeps the parser's types, and the driver right.
LEMMA ActKeeps ==
  ASSUME IInv, NEW p \in Seq(Byte), Complete(p), p[1].type # "body",
         NEW t \in ToolsNamed(p), Act(p, t)
  PROVE  /\ penEvent' \in PenEvent
         /\ eraser_mode' \in BOOLEAN /\ discard_first' \in BOOLEAN
         /\ acted' \subseteq 0 .. MaxPackets
         /\ DriverInv' /\ DriverStep
<1>1. penEvent' \in PenEvent
  BY EventType DEF Act, IInv
<1>2. eraser_mode' \in BOOLEAN
  <2>1. penEvent'.eraser \in BOOLEAN
    BY <1>1 DEF PenEvent
  <2>2. eraser_mode \in BOOLEAN
    BY DEF IInv, TypeOK
  <2> QED BY <2>1, <2>2 DEF Act
<1>3. discard_first' \in BOOLEAN
  <2>1. discard_first \in BOOLEAN
    BY DEF IInv, TypeOK
  <2>2. (discard_first \/ Kind[t] \notin {"pen", "eraser"}) \in BOOLEAN
    BY Zenon
  <2> QED BY <2>1, <2>2 DEF Act
<1>4. acted' \subseteq 0 .. MaxPackets
  <2>1. \A i \in 1 .. PkgLen : p[i] \in Byte
    BY DEF Complete
  <2>2. \A i \in 1 .. PkgLen : p[i].number \in 0 .. MaxPackets
    BY <2>1 DEF Byte
  <2> QED BY <2>2 DEF Act
<1>5. DriverInv' /\ DriverStep
  <2>1. DriverInv /\ onTablet \in Tool \union {NoTool}
    BY DEF IInv, TypeOK
  <2>2. CASE SendProtocol5(penEvent', onTablet)
    BY <1>1, <2>1, <2>2, DriverEvent
  <2>3. CASE UNCHANGED usbVars
    BY <2>1, <2>3, DriverStutter
  <2> QED BY <2>2, <2>3 DEF Act
<1> QED BY <1>1, <1>2, <1>3, <1>4, <1>5

\* A step of the tablet begins a packet, and is no business of the parser's.
LEMMA TabletKeeps ==
  ASSUME IInv, Tablet PROVE IInv' /\ DriverStep
<1>1. ASSUME NEW p \in Packet, Begin(p), onTablet' \in Tool \union {NoTool}
      PROVE  IInv' /\ DriverStep
  <2>1. DriverInv' /\ DriverStep
    BY <1>1, DriverStutter DEF IInv, Begin
  <2>2. damaged' \in BOOLEAN /\ UNCHANGED <<apart, trusted, buffer, eraser_mode,
                                             discard_first, penEvent, acted>>
    BY <1>1 DEF Begin, parserVars
  <2>3. packet' \in Packet /\ sent' \in 0 .. PkgLen /\ packets' \in 0 .. MaxPackets
    BY <1>1 DEF Begin, IInv, TypeOK
  <2>4. TypeOK'
    BY <1>1, <2>1, <2>2, <2>3 DEF IInv, TypeOK, DriverInv
  <2>5. Headed'
    BY <2>2 DEF IInv, Headed
  <2> QED BY <2>1, <2>4, <2>5 DEF IInv
<1>2. CASE TakeOut
  BY <1>1, <1>2 DEF TakeOut, Idle, Packet, Types
<1>3. ASSUME NEW t \in Tool, BringIn(t) PROVE IInv' /\ DriverStep
  BY <1>1, <1>3 DEF BringIn, Packet, Types
<1>4. ASSUME NEW near \in BOOLEAN, ReportOn(near) PROVE IInv' /\ DriverStep
  <2>1. PICK type \in TypesOf(Kind[onTablet]) :
              Begin([type |-> type, tool |-> NoTool, near |-> near])
    BY <1>4 DEF ReportOn
  <2>2. type \in Types
    BY DEF TypesOf, Types
  <2>3. onTablet' \in Tool \union {NoTool}
    BY <1>4 DEF ReportOn, IInv, TypeOK
  <2> QED BY <1>1, <2>1, <2>2, <2>3 DEF Packet
<1> QED BY <1>2, <1>3, <1>4 DEF Tablet

\* So does a byte that arrives, whether or not it completes a packet.
LEMMA ArriveKeeps ==
  ASSUME IInv, Arrive PROVE IInv' /\ DriverStep
<1> DEFINE b == ByteAt(packet, sent', packets)
           p == Appended(b)
<1>1. sent' \in 1 .. PkgLen /\ UNCHANGED <<onTablet, packet, packets, apart>>
  BY DEF Arrive, IInv, TypeOK
<1>2. b \in Byte
  BY <1>1, ByteType DEF IInv, TypeOK
<1>3. /\ p \in Seq(Byte) /\ Len(p) <= PkgLen
      /\ p # <<>> => p[1].type # "body"
  BY <1>2, AppendedType DEF IInv
<1>4. damaged' \in BOOLEAN
  BY Zenon DEF Arrive
<1>5. CASE ~Complete(p) /\ buffer' = p
           /\ UNCHANGED <<eraser_mode, discard_first, penEvent, acted, trusted, usbVars>>
  <2>1. DriverInv' /\ DriverStep
    BY <1>5, DriverStutter DEF IInv
  <2>2. Len(p) < PkgLen
    BY <1>3, <1>5 DEF Complete
  <2>3. TypeOK'
    BY <1>1, <1>3, <1>4, <1>5, <2>1, <2>2 DEF IInv, TypeOK, DriverInv
  <2>4. Headed'
    BY <1>3, <1>5 DEF Headed
  <2> QED BY <2>1, <2>3, <2>4 DEF IInv
<1>6. ASSUME Complete(p), buffer' = <<>>, NEW t \in ToolsNamed(p), Act(p, t),
             trusted' = (trusted \/ (report' = "leave" /\ onTablet = NoTool))
      PROVE  IInv' /\ DriverStep
  <2>1. p[1].type # "body"
    BY <1>3, <1>6 DEF Complete
  <2>2. /\ penEvent' \in PenEvent
        /\ eraser_mode' \in BOOLEAN /\ discard_first' \in BOOLEAN
        /\ acted' \subseteq 0 .. MaxPackets
        /\ DriverInv' /\ DriverStep
    BY <1>3, <1>6, <2>1, ActKeeps
  <2>3. trusted' \in BOOLEAN
    BY <1>6, Zenon
  <2>4. TypeOK'
    BY <1>1, <1>4, <1>6, <2>2, <2>3 DEF IInv, TypeOK, DriverInv
  <2>5. Headed'
    BY <1>6 DEF Headed
  <2> QED BY <2>2, <2>4, <2>5 DEF IInv
<1> QED BY <1>5, <1>6 DEF Arrive

\* And so does the loss of one.
LEMMA LoseKeeps ==
  ASSUME IInv, Lose PROVE IInv' /\ DriverStep
<1>1. DriverInv' /\ DriverStep
  BY DriverStutter DEF IInv, Lose
<1>2. apart' \in BOOLEAN /\ damaged' \in BOOLEAN /\ trusted' \in BOOLEAN
  BY Zenon DEF Lose
<1>3. sent' \in 0 .. PkgLen /\ UNCHANGED <<onTablet, packet, packets, buffer,
                                 eraser_mode, discard_first, penEvent, acted>>
  BY DEF Lose, parserVars, IInv, TypeOK
<1>4. TypeOK'
  BY <1>1, <1>2, <1>3 DEF IInv, TypeOK, DriverInv
<1>5. Headed'
  BY <1>3 DEF IInv, Headed
<1> QED BY <1>1, <1>4, <1>5 DEF IInv

LEMMA InitHolds == Init => IInv /\ Driver!HInit
<1> SUFFICES ASSUME Init PROVE IInv /\ Driver!HInit
  OBVIOUS
<1>1. DriverInv /\ Driver!HInit
  BY DriverInit DEF Init
<1>2. /\ damaged \in BOOLEAN /\ apart \in BOOLEAN /\ trusted \in BOOLEAN
      /\ eraser_mode \in BOOLEAN /\ discard_first \in BOOLEAN
  BY Zenon DEF Init
<1>3. packet \in Packet /\ penEvent \in PenEvent
  BY DEF Init, Idle, Packet, Types, PenEvent
<1>4. TypeOK
  BY <1>1, <1>2, <1>3 DEF Init, TypeOK, DriverInv
<1> QED BY <1>1, <1>4 DEF Init, IInv, Headed

LEMMA StepKeeps == IInv /\ [Next]_p5vars => IInv' /\ DriverStep
<1> SUFFICES ASSUME IInv, [Next]_p5vars PROVE IInv' /\ DriverStep
  OBVIOUS
<1>1. CASE UNCHANGED p5vars
  <2>1. DriverInv' /\ DriverStep
    BY <1>1, DriverStutter DEF IInv, p5vars
  <2>2. TypeOK' /\ Headed'
    BY <1>1, <2>1 DEF p5vars, tabletVars, parserVars, IInv, TypeOK, Headed, DriverInv
  <2> QED BY <2>1, <2>2 DEF IInv
<1> QED BY <1>1, TabletKeeps, ArriveKeeps, LoseKeeps DEF Next
-----------------------------------------------------------------------------
(* Which bytes are in the buffer, and what the parser knows of the tool.     *)

\* A packet is begun when the one before was sent, or in the middle of a report.
LEMMA Begun ==
  ASSUME IInv, Says, Tablet
  PROVE  /\ sent > 0 /\ sent' = 0 /\ packets' = packets + 1
         /\ damaged' = (damaged \/ sent < PkgLen)
         /\ UNCHANGED <<apart, trusted, parserVars, usbVars>>
         /\ Says'
         /\ \/ packet' = Idle /\ sent = PkgLen
            \/ packet'.type = "in" /\ sent = PkgLen /\ onTablet = NoTool
            \/ /\ packet'.type \notin {"in", "out"}
               /\ UNCHANGED onTablet
               /\ sent = PkgLen \/ packet.type \notin {"in", "out"}
<1> USE DEF Says, Begin, Idle
<1>1. sent \in 0 .. PkgLen /\ packet \in Packet /\ onTablet \in Tool \union {NoTool}
  BY DEF IInv, TypeOK
<1>2. CASE TakeOut
  BY <1>1, <1>2 DEF TakeOut
<1>3. CASE \E t \in Tool : BringIn(t)
  BY <1>1, <1>3 DEF BringIn
<1>4. CASE \E near \in BOOLEAN : ReportOn(near)
  <2>1. PICK near \in BOOLEAN : ReportOn(near)
    BY <1>4
  <2>2. PICK type \in TypesOf(Kind[onTablet]) :
              Begin([type |-> type, tool |-> NoTool, near |-> near])
    BY <2>1 DEF ReportOn
  <2>3. type \notin {"in", "out"}
    BY DEF TypesOf
  <2>4. onTablet \in Tool /\ UNCHANGED onTablet
    BY <1>1, <2>1 DEF ReportOn
  <2> QED BY <1>1, <2>1, <2>2, <2>3, <2>4 DEF ReportOn
<1> QED BY <1>2, <1>3, <1>4 DEF Tablet

\* A packet that is begun leaves the bytes of the one before in the buffer.
LEMMA WholeBegun ==
  ASSUME IInv, Whole, OnePacket, Says, Tablet PROVE Whole' /\ OnePacket'
<1>1. /\ sent > 0 /\ sent' = 0
      /\ damaged' = (damaged \/ sent < PkgLen)
      /\ UNCHANGED <<apart, buffer, acted>>
  BY Begun DEF parserVars
<1>2. sent \in 0 .. PkgLen /\ buffer \in Seq(Byte)
  BY DEF IInv, TypeOK
<1>3. ~damaged' => Len(buffer') = 0
  <2>1. ~damaged' => ~damaged /\ ~(sent < PkgLen)
    BY <1>1, Zenon
  <2>4. ~damaged' => ~damaged /\ sent = PkgLen
    BY <1>2, <2>1
  <2>2. ~damaged /\ sent = PkgLen => Len(buffer) = 0
    BY DEF Whole
  <2>3. buffer' = buffer
    BY <1>1
  <2> QED BY <2>4, <2>2, <2>3
<1>4. apart' => \A i, j \in 1 .. Len(buffer') : buffer'[i].number = buffer'[j].number
  BY <1>1 DEF Whole
<1>5. Whole'
  BY <1>1, <1>3, <1>4 DEF Whole
<1> QED BY <1>1, <1>5 DEF OnePacket

\* A byte that arrives is appended to bytes of its own packet, or to none.
LEMMA WholeAppended ==
  ASSUME IInv, Whole, NEW b \in Byte, b.number = packets,
         b.type # "body" <=> sent = 0,
         sent < PkgLen
  PROVE  /\ b.type # "body" \/ ~damaged => Len(Appended(b)) = sent + 1
         /\ apart => \A i \in 1 .. Len(Appended(b)) : Appended(b)[i].number = packets
<1>1. buffer \in Seq(Byte) /\ sent \in 0 .. PkgLen
  BY DEF IInv, TypeOK
<1>2. CASE b.type # "body"
  BY <1>2 DEF Appended
<1>3. CASE b.type = "body" /\ buffer = <<>>
  <2>1. Appended(b) = <<>>
    BY <1>3 DEF Appended
  <2>2. damaged
    BY <1>1, <1>3 DEF Whole
  <2> QED BY <1>3, <2>1, <2>2
<1>4. CASE b.type = "body" /\ buffer # <<>>
  <2>1. Appended(b) = Append(buffer, b)
    BY <1>4 DEF Appended
  <2>2. apart => \A i \in 1 .. Len(buffer) : buffer[i].number = packets
    BY <1>1, <1>4 DEF Whole
  <2>3. ~damaged => Len(buffer) = sent
    BY DEF Whole
  <2> QED BY <1>1, <1>4, <2>1, <2>2, <2>3
<1> QED BY <1>2, <1>3, <1>4

\* So a packet that is complete is made of its own bytes.
LEMMA WholeArrived ==
  ASSUME IInv, Whole, OnePacket, Says, Arrive PROVE Whole' /\ OnePacket'
<1> DEFINE b == ByteAt(packet, sent', packets)
           p == Appended(b)
<1>1. /\ sent \in 0 .. PkgLen - 1 /\ sent' = sent + 1 /\ packets \in 0 .. MaxPackets
      /\ packet \in Packet /\ UNCHANGED <<onTablet, packet, packets, apart>>
      /\ damaged' = (damaged /\ b.type = "body")
  BY DEF Arrive, IInv, TypeOK
<1>2. b \in Byte /\ b.number = packets /\ (b.type # "body" <=> sent = 0)
  <2>1. packet.type # "body"
    BY <1>1 DEF Packet, Types
  <2> QED BY <1>1, <2>1, ByteType DEF ByteAt
<1>3. p \in Seq(Byte) /\ Len(p) <= PkgLen
  BY <1>2, AppendedType DEF IInv
<1>4. /\ ~damaged' => Len(p) = sent'
      /\ apart => \A i \in 1 .. Len(p) : p[i].number = packets
  <2>1. sent < PkgLen
    BY <1>1
  <2>2. /\ b.type # "body" \/ ~damaged => Len(p) = sent + 1
        /\ apart => \A i \in 1 .. Len(p) : p[i].number = packets
    BY <1>2, <2>1, WholeAppended
  <2> QED BY <1>1, <2>2
<1> HIDE DEF b, p
<1>5. CASE ~Complete(p) /\ buffer' = p /\ UNCHANGED acted
  <2>1. Len(p) # PkgLen
    BY <1>5 DEF Complete
  <2>2. Whole'
    BY <1>1, <1>3, <1>4, <1>5, <2>1 DEF Whole
  <2> QED BY <1>1, <1>5, <2>2 DEF OnePacket
<1>6. CASE Complete(p) /\ buffer' = <<>> /\ acted' = {p[i].number : i \in 1 .. PkgLen}
  <2>1. Len(p) = PkgLen
    BY <1>6 DEF Complete
  <2>2. ~damaged' => sent' = PkgLen
    BY <1>4, <2>1
  <2>3. Whole'
    BY <1>1, <1>6, <2>2 DEF Whole
  <2>4. apart => acted' \subseteq {packets}
    BY <1>4, <1>6, <2>1
  <2> QED BY <1>1, <2>3, <2>4 DEF OnePacket
<1> QED BY <1>5, <1>6 DEF Arrive, Act, b, p

\* A byte that is lost in a damaged packet may be the header that was to end it.
LEMMA WholeLost ==
  ASSUME IInv, Whole, OnePacket, Lose PROVE Whole' /\ OnePacket'
<1>1. /\ sent \in 0 .. PkgLen - 1 /\ sent' = sent + 1 /\ damaged' = TRUE
      /\ apart' = (apart /\ ~(damaged /\ sent = 0))
      /\ UNCHANGED <<buffer, packets, acted>> /\ buffer \in Seq(Byte)
  BY DEF Lose, parserVars, IInv, TypeOK
<1>2. CASE sent = 0 /\ ~damaged
  <2>1. Len(buffer) = 0
    BY <1>1, <1>2 DEF Whole
  <2>2. damaged' /\ Len(buffer') = 0
    BY <1>1, <2>1
  <2>3. Whole'
    BY <2>2 DEF Whole
  <2>4. apart' => apart
    BY <1>1, Zenon
  <2> QED BY <1>1, <2>3, <2>4 DEF OnePacket
<1>3. CASE sent = 0 /\ damaged
  <2>1. ~apart'
    BY <1>1, <1>3
  <2>2. damaged'
    BY <1>1
  <2> QED BY <2>1, <2>2 DEF Whole, OnePacket
<1>4. CASE sent > 0
  <2>1. apart' => apart
    BY <1>1
  <2>2. damaged' /\ sent' > 0 /\ packets' = packets /\ buffer' = buffer
    BY <1>1
  <2>3. apart => /\ \A i, j \in 1 .. Len(buffer) : buffer[i].number = buffer[j].number
                 /\ \A i \in 1 .. Len(buffer) : buffer[i].number = packets
    BY <1>4 DEF Whole
  <2>4. Whole'
    BY <2>1, <2>2, <2>3 DEF Whole
  <2> QED BY <1>1, <2>1, <2>4 DEF OnePacket
<1> QED BY <1>1, <1>2, <1>3, <1>4

LEMMA WholeKept ==
  ASSUME IInv, Whole, OnePacket, Says, [Next]_p5vars PROVE Whole' /\ OnePacket'
<1>1. CASE UNCHANGED p5vars
  BY <1>1 DEF p5vars, tabletVars, parserVars, Whole, OnePacket
<1> QED BY <1>1, WholeBegun, WholeArrived, WholeLost DEF Next

\* The tablet begins packets only, and of its tool.
LEMMA SaysKept == ASSUME IInv, Says, [Next]_p5vars PROVE Says'
<1>1. CASE Tablet
  BY <1>1, Begun
<1>2. CASE ~Tablet
  <2>1. UNCHANGED <<onTablet, packet>>
    BY <1>2 DEF Next, Arrive, Lose, p5vars, tabletVars
  <2> QED BY <2>1 DEF Says
<1> QED BY <1>1, <1>2

-----------------------------------------------------------------------------
(* What the driver is told.                                                  *)

\* What an event does to what the driver knows, if no report of it is lost.
LEMMA Told ==
  ASSUME DriverInv, LastReport, NEW e \in PenEvent, NEW present,
         SendProtocol5(e, present)
  PROVE  /\ LastReport'
         /\ e.proximity /\ ~missed' =>
               /\ ~missed
               /\ \/ /\ host # NoTool /\ host' = host
                     /\ report' = DataKind(e) /\ about' = present
                  \/ host = NoTool /\ host' = Named(e) /\ report' = "enter"
         /\ ~e.proximity /\ ~missed' =>
               /\ host' = NoTool
               /\ report' = "leave" \/ (~missed /\ UNCHANGED <<host, report>>)
<1>1. ~in_special_operation /\ ~in_special_operation' /\ DoSend(e, present)
  BY DEF SendProtocol5, LastReport
<1>2. DataKind(e) \in DataKinds /\ DataKind(e) \notin {"enter", "leave"}
  BY DEF DataKind, PenKind, MouseKind, DataKinds
<1>3. CASE e.proximity /\ currentlyInRange /\ Send(DataKind(e), NoTool, present)
  BY <1>1, <1>2, <1>3 DEF Send, DriverInv, InRange, LastReport
<1>4. CASE e.proximity /\ ~currentlyInRange /\ Send("enter", Named(e), present)
  BY <1>1, <1>4 DEF Send, DriverInv, InRange, LastReport, DataKinds
<1>5. CASE ~e.proximity /\ currentlyInRange /\ Send("leave", NoTool, present)
  BY <1>1, <1>5 DEF Send, DriverInv, InRange, LastReport, DataKinds
<1>6. CASE ~e.proximity /\ ~currentlyInRange /\ UNCHANGED reportVars
  BY <1>1, <1>6 DEF DriverInv, InRange, LastReport, reportVars
<1> QED BY <1>1, <1>3, <1>4, <1>5, <1>6 DEF DoSend, Introduce, Leave

\* The facts about the types that the following lemmas use.
LEMMA Typed ==
  ASSUME IInv
  PROVE  /\ sent \in 0 .. PkgLen /\ packet \in Packet /\ packets \in 0 .. MaxPackets
         /\ onTablet \in Tool \union {NoTool} /\ buffer \in Seq(Byte)
         /\ trusted \in BOOLEAN /\ missed \in BOOLEAN /\ penEvent \in PenEvent
         /\ DriverInv
  BY DEF IInv, TypeOK, DriverInv, UsbTypeOK

\* The header of a packet says what it is.
LEMMA HeaderOf ==
  ASSUME NEW p \in Packet, NEW n
  PROVE  ByteAt(p, 1, n).type = p.type /\ ByteAt(p, 1, n).near = p.near
<1>1. p.near \in BOOLEAN
  BY DEF Packet
<1>2. ByteAt(p, 1, n).near = (1 = 1 /\ p.near)
  BY Zenon DEF ByteAt
<1> QED BY <1>1, <1>2 DEF ByteAt

\* In trusted times a packet that is complete is the one that was sent.
LEMMA Faithful ==
  ASSUME IInv, Says, InSync, trusted, sent < PkgLen,
         NEW b \in Byte, b = ByteAt(packet, sent + 1, packets),
         Complete(Appended(b))
  PROVE  /\ sent + 1 = PkgLen
         /\ \A i \in 1 .. PkgLen : Appended(b)[i] = ByteAt(packet, i, packets)
<1>1. sent \in 0 .. PkgLen /\ packet \in Packet /\ buffer \in Seq(Byte)
  BY Typed
<1>2. b.type # "body" <=> sent = 0
  BY <1>1 DEF ByteAt, Packet, Types
<1>3. sent > 0
  <2>1. CASE sent = 0
    BY <1>2, <2>1 DEF Complete, Appended
  <2> QED BY <1>1, <2>1
<1>4. buffer # <<>> /\ Appended(b) = Append(buffer, b)
  BY <1>2, <1>3 DEF Complete, Appended
<1>5. Len(buffer) = sent /\ \A i \in 1 .. sent : buffer[i] = ByteAt(packet, i, packets)
  BY <1>3, <1>4 DEF InSync
<1>6. sent + 1 = PkgLen
  BY <1>1, <1>4, <1>5 DEF Complete
<1> QED BY <1>1, <1>4, <1>5, <1>6

\* A report of a tool is of its kind.
LEMMA KindOfReport ==
  ASSUME NEW t \in Tool, NEW e \in PenEvent, e.tool = t,
         e.first \in TypesOf(Kind[t]),
         Kind[t] = "eraser" \/ (e.is_mouse <=> Kind[t] \in Mice)
  PROVE  Kind[t] = "eraser" \/ DataKind(e) \in ReportsOf(Kind[t])
<1>1. Kind[t] \in {"pen", "eraser", "airbrush", "mouse4D", "mouse2D", "lens"}
  BY ToolAssumption DEF Mice
<1>2. t # NoTool
  BY ToolAssumption
<1>3. CASE Kind[t] = "pen"
  <2>1. e.first \in {"pen"} /\ ReportsOf(Kind[t]) = {"pen"}
    BY <1>3 DEF TypesOf, ReportsOf
  <2>2. ~e.is_mouse
    BY <1>3 DEF Mice
  <2> QED BY <2>1, <2>2 DEF DataKind, PenKind, MouseKind
<1>4. CASE Kind[t] = "airbrush"
  <2>1. e.first \in {"pen", "wheel"} /\ ReportsOf(Kind[t]) = {"pen", "wheel"}
    BY <1>4 DEF TypesOf, ReportsOf
  <2>2. ~e.is_mouse
    BY <1>4 DEF Mice
  <2> QED BY <2>1, <2>2 DEF DataKind, PenKind, MouseKind
<1>5. CASE Kind[t] = "mouse4D"
  <2>1. e.first \in {"mouse", "rotation"} /\ ReportsOf(Kind[t]) = {"mouse4D", "rotation"}
    BY <1>5 DEF TypesOf, ReportsOf
  <2>2. e.is_mouse
    BY <1>5 DEF Mice
  <2>3. ToolKind(e.tool) = "mouse4D"
    BY <1>2, <1>5 DEF ToolKind
  <2> QED BY <2>1, <2>2, <2>3 DEF DataKind, PenKind, MouseKind
<1>6. CASE Kind[t] = "mouse2D"
  BY <1>2, <1>6 DEF TypesOf, DataKind, PenKind, MouseKind, ReportsOf, Mice, ToolKind
<1>7. CASE Kind[t] = "lens"
  BY <1>2, <1>7 DEF TypesOf, DataKind, PenKind, MouseKind, ReportsOf, Mice, ToolKind
<1> QED BY <1>1, <1>3, <1>4, <1>5, <1>6, <1>7

\* A packet that is the tablet's, of which nothing was lost, tells the driver what
\* is on the tablet: what a tool that comes in is ...
LEMMA ActIn ==
  ASSUME IInv, ToolInv, trusted, trusted', sent < PkgLen, sent' = PkgLen,
         UNCHANGED <<onTablet, packet>>, packet.type = "in",
         NEW p, NEW t, Act(p, t), EventOf(p, t) \in PenEvent,
         p[1].type = packet.type, t = onTablet
  PROVE  LastReport' /\ Known' /\ RightTool' /\ KeepsUp'
<1>1. onTablet \in Tool /\ onTablet # NoTool /\ packet.near
  BY ToolAssumption DEF ToolInv, Says
<1>2. ~missed => host = NoTool
  BY DEF ToolInv, Known, KnownGone
<1>3. /\ penEvent'.proximity /\ penEvent'.tool = onTablet
      /\ Kind[onTablet] = "eraser" \/ (penEvent'.is_mouse <=> Kind[onTablet] \in Mice)
      /\ penEvent' \in PenEvent
  BY DEF Act, EventOf, PenPacket, MousePacket, InEvent
<1>4. Named(penEvent') = onTablet
  BY <1>1, <1>3 DEF Named
<1>5. SendProtocol5(penEvent', onTablet)
  BY DEF Act, Sendable
<1>6. /\ LastReport'
      /\ ~missed' => host' = onTablet /\ report' = "enter"
  BY <1>2, <1>3, <1>4, <1>5, Told, Typed DEF ToolInv
<1>7. Known'
  BY <1>1, <1>3, <1>6 DEF Known, Introduced, KnownGone, Idle
<1>8. RightTool'
  BY <1>6 DEF RightTool, DataKinds
<1>9. KeepsUp'
  BY <1>1, <1>6 DEF KeepsUp
<1> QED BY <1>6, <1>7, <1>8, <1>9

\* ... that it left ...
LEMMA ActOut ==
  ASSUME IInv, ToolInv, trusted, trusted', sent < PkgLen, sent' = PkgLen,
         UNCHANGED <<onTablet, packet>>, packet.type = "out",
         NEW p, NEW t, Act(p, t), EventOf(p, t) \in PenEvent,
         p[1].type = packet.type
  PROVE  LastReport' /\ Known' /\ RightTool' /\ KeepsUp'
<1>1. onTablet = NoTool /\ packet = Idle
  BY DEF ToolInv, Says
<1>2. penEvent'.proximity = FALSE /\ penEvent' \in PenEvent
  BY DEF Act, EventOf, PenPacket, MousePacket, PenEvent
<1>3. SendProtocol5(penEvent', onTablet)
  BY DEF Act, Sendable
<1>4. /\ LastReport'
      /\ ~missed' => /\ host' = NoTool
                     /\ report' = "leave" \/ (~missed /\ UNCHANGED <<host, report>>)
  BY <1>2, <1>3, Told, Typed DEF ToolInv
<1>5. Known'
  BY <1>1, <1>4 DEF Known, Introduced
<1>6. ~missed' => report' \notin DataKinds
  BY <1>4 DEF ToolInv, LastReport, DataKinds
<1>7. RightTool'
  BY <1>6 DEF RightTool
<1>8. KeepsUp'
  BY <1>1, <1>4 DEF KeepsUp, Idle
<1> QED BY <1>4, <1>5, <1>7, <1>8

\* ... and what a report on it says.
LEMMA ActReport ==
  ASSUME IInv, ToolInv, trusted, trusted', sent < PkgLen, sent' = PkgLen,
         UNCHANGED <<onTablet, packet>>, packet.type \notin {"in", "out"},
         NEW p, NEW t, Act(p, t), EventOf(p, t) \in PenEvent,
         p[1].type = packet.type, p[1].near = packet.near
  PROVE  LastReport' /\ Known' /\ RightTool' /\ KeepsUp'
<1> DEFINE e == penEvent'
<1>1. /\ onTablet \in Tool /\ onTablet # NoTool /\ onTablet' = onTablet
      /\ packet.type \in TypesOf(Kind[onTablet]) /\ packet \in Packet
  BY ToolAssumption, Typed DEF ToolInv, Says
<1>2. /\ penEvent.tool = onTablet /\ penEvent \in PenEvent
      /\ Kind[onTablet] = "eraser" \/ (penEvent.is_mouse <=> Kind[onTablet] \in Mice)
      /\ ~missed => host \in {NoTool, onTablet}
  BY <1>1, Typed DEF ToolInv, Known, Introduced
<1>3. e.proximity = packet.near /\ e.tool = onTablet /\ e.first = packet.type
  BY <1>2 DEF Act, EventOf, PenPacket, MousePacket, PenEvent
<1>4. Kind[onTablet] = "eraser" \/ (e.is_mouse <=> Kind[onTablet] \in Mice)
  <2>1. CASE packet.type \in {"pen", "wheel"}
    BY <1>2, <2>1 DEF Act, EventOf, PenPacket, MousePacket, PenEvent
  <2>2. CASE packet.type \notin {"pen", "wheel"}
    <3>1. e.is_mouse
      BY <1>2, <2>2 DEF Act, EventOf, PenPacket, MousePacket, PenEvent
    <3>2. Kind[onTablet] \in Mice \/ Kind[onTablet] = "eraser"
      BY <1>1, <2>2, ToolAssumption DEF TypesOf, Mice
    <3> QED BY <3>1, <3>2 DEF Mice
  <2> QED BY <2>1, <2>2
<1>5. e \in PenEvent /\ packet.near \in BOOLEAN
  BY <1>1 DEF Act, Packet
<1>6. ~(Introduced' /\ KnownGone') /\ ~KnownGone'
  BY DEF KnownGone, Idle
<1> HIDE DEF e
<1>7. CASE ~Sendable(packet.type)
  <2>1. UNCHANGED usbVars
    BY <1>7 DEF Act
  <2>2. UNCHANGED <<in_special_operation, host, report, about, missed>>
    BY <2>1 DEF usbVars, reportVars
  <2>3. packet.type = "mouse" /\ discard_first'
    <3>1. packet.type = "mouse" /\ ToolKind(onTablet) \notin {"lens", "mouse2D"}
          /\ ~(ToolKind(onTablet) = "mouse4D" /\ ~discard_first)
      BY <1>2, <1>7 DEF Sendable
    <3>2. ToolKind(onTablet) = "mouse4D"
      BY <1>1, <3>1, ToolAssumption DEF ToolKind, TypesOf, Mice
    <3>3. discard_first' = discard_first
      BY <3>1 DEF Act
    <3> QED BY <3>1, <3>2, <3>3
  <2>4. LastReport' /\ RightTool'
    BY <2>2 DEF ToolInv, LastReport, RightTool
  <2>5. Known'
    BY <1>1, <1>2, <1>3, <1>4, <1>6, <2>2 DEF Known, e
  <2>6. KeepsUp'
    BY <2>3 DEF KeepsUp
  <2> QED BY <2>4, <2>5, <2>6
<1>8. CASE Sendable(packet.type)
  <2>1. SendProtocol5(e, onTablet)
    BY <1>8 DEF Act, e
  <2>2. Named(e) = onTablet
    BY <1>1, <1>3 DEF Named
  <2>3. /\ LastReport'
        /\ e.proximity /\ ~missed' =>
               /\ ~missed
               /\ \/ /\ host # NoTool /\ host' = host
                     /\ report' = DataKind(e) /\ about' = onTablet
                  \/ host = NoTool /\ host' = onTablet /\ report' = "enter"
        /\ ~e.proximity /\ ~missed' =>
               /\ host' = NoTool
               /\ report' = "leave" \/ (~missed /\ UNCHANGED <<host, report>>)
    BY <1>5, <2>1, <2>2, Told, Typed DEF ToolInv
  <2>4. ~missed' => host' = IF packet.near THEN onTablet ELSE NoTool
    BY <1>2, <1>3, <2>3
  <2>5. Known'
    BY <1>1, <1>2, <1>3, <1>4, <1>6, <2>4 DEF Known, e
  <2>6. RightTool'
    <3>1. SUFFICES ASSUME ~missed', report' \in DataKinds
                   PROVE  /\ host' = about' /\ host' # NoTool
                          /\ Kind[host'] = "eraser" \/ report' \in ReportsOf(Kind[host'])
      BY DEF RightTool
    <3>2. CASE ~e.proximity
      BY <2>3, <3>1, <3>2 DEF ToolInv, LastReport, DataKinds
    <3>3. CASE e.proximity
      <4>1. report' # "enter"
        BY <3>1 DEF DataKinds
      <4>2. /\ host' = onTablet /\ about' = onTablet /\ report' = DataKind(e)
        BY <1>2, <2>3, <3>1, <3>3, <4>1
      <4>3. Kind[onTablet] = "eraser" \/ DataKind(e) \in ReportsOf(Kind[onTablet])
        BY <1>1, <1>3, <1>4, <1>5, KindOfReport
      <4> QED BY <1>1, <4>2, <4>3
    <3> QED BY <3>2, <3>3
  <2>7. KeepsUp'
    BY <1>1, <2>4 DEF KeepsUp
  <2> QED BY <2>3, <2>5, <2>6, <2>7
<1> QED BY <1>7, <1>8

\* A packet that is begun changes nothing of what the driver knows.
LEMMA ToolBegun == ASSUME IInv, ToolInv, Tablet PROVE ToolInv'
<1>1. /\ sent' = 0 /\ UNCHANGED <<trusted, parserVars, usbVars>> /\ Says'
      /\ \/ packet' = Idle /\ sent = PkgLen
         \/ packet'.type = "in" /\ sent = PkgLen /\ onTablet = NoTool
         \/ /\ packet'.type \notin {"in", "out"}
            /\ UNCHANGED onTablet
            /\ sent = PkgLen \/ packet.type \notin {"in", "out"}
  BY Begun DEF ToolInv
<1>2. UNCHANGED <<penEvent, in_special_operation, host, report, about, missed>>
  BY <1>1 DEF parserVars, usbVars, reportVars
<1>3. LastReport' /\ RightTool'
  BY <1>1, <1>2 DEF ToolInv, LastReport, RightTool
<1>4. InSync' /\ KeepsUp'
  BY <1>1 DEF InSync, KeepsUp
<1>5. Introduced' => Introduced /\ UNCHANGED onTablet
  BY <1>1 DEF Introduced, Idle, ToolInv, Says
<1>6. KnownGone' => KnownGone
  BY <1>1, ToolAssumption DEF KnownGone, Idle, ToolInv, Says
<1>7. Known'
  BY <1>1, <1>2, <1>5, <1>6 DEF Known, ToolInv
<1> QED BY <1>1, <1>3, <1>4, <1>7 DEF ToolInv

\* Nor does a byte that completes no packet.
LEMMA ToolCollected ==
  ASSUME IInv, ToolInv, sent < PkgLen, sent' = sent + 1,
         UNCHANGED <<onTablet, packet, packets, penEvent, trusted, usbVars>>,
         NEW b \in Byte, b = ByteAt(packet, sent + 1, packets),
         buffer' = Appended(b), ~Complete(Appended(b))
  PROVE  ToolInv'
<1>1. sent \in 0 .. PkgLen /\ packet \in Packet /\ buffer \in Seq(Byte)
  BY Typed
<1>2. UNCHANGED <<in_special_operation, host, report, about, missed>>
  BY DEF usbVars, reportVars
<1>3. Says' /\ LastReport' /\ RightTool'
  BY <1>2 DEF ToolInv, Says, LastReport, RightTool
<1>4. b.type # "body" <=> sent = 0
  BY <1>1 DEF ByteAt, Packet, Types
<1>5. CASE ~trusted
  BY <1>3, <1>5 DEF ToolInv, InSync, Known, KeepsUp
<1>6. CASE trusted /\ sent = 0
  <2>1. Len(buffer') = 1 /\ buffer'[1] = b /\ buffer' # <<>>
    BY <1>4, <1>6 DEF Appended
  <2>2. InSync'
    BY <1>6, <2>1 DEF InSync, Complete
  <2>3. Introduced' => Introduced
    BY <1>6, <2>1 DEF Introduced, Complete
  <2>4. KnownGone' => KnownGone
    BY <1>6, <2>1 DEF KnownGone, Complete, Idle
  <2>5. Known'
    BY <1>2, <2>3, <2>4 DEF Known, ToolInv
  <2>6. KeepsUp'
    BY <1>6, <2>1 DEF KeepsUp, Complete
  <2> QED BY <1>3, <2>2, <2>5, <2>6 DEF ToolInv
<1>7. CASE trusted /\ sent > 0 /\ buffer = <<>>
  <2>1. packet = Idle /\ buffer' = <<>>
    BY <1>4, <1>7 DEF ToolInv, InSync, Appended
  <2>2. KnownGone
    BY <1>7, <2>1 DEF KnownGone
  <2>3. onTablet = NoTool
    BY <2>1 DEF Idle, ToolInv, Says
  <2>4. ~missed => host = NoTool
    BY <1>7, <2>2 DEF ToolInv, Known
  <2> QED BY <1>2, <1>3, <2>1, <2>3, <2>4
          DEF ToolInv, InSync, Known, Introduced, KeepsUp, Idle
<1>8. CASE trusted /\ sent > 0 /\ buffer # <<>>
  <2>1. Len(buffer) = sent /\ \A i \in 1 .. sent : buffer[i] = ByteAt(packet, i, packets)
    BY <1>8 DEF ToolInv, InSync
  <2>2. buffer' = Append(buffer, b)
    BY <1>4, <1>8 DEF Appended
  <2>3. sent' < PkgLen
    BY <1>1, <2>1, <2>2 DEF Complete
  <2>4. Len(buffer') = sent' /\ \A i \in 1 .. sent' : buffer'[i] = ByteAt(packet, i, packets)
    BY <1>1, <2>1, <2>2
  <2>5. InSync'
    BY <2>3, <2>4 DEF InSync
  <2>6. Introduced' => Introduced
    BY <2>3 DEF Introduced
  <2>7. KnownGone' => KnownGone
    BY <1>8, <2>3, <2>4 DEF KnownGone
  <2>8. Known'
    BY <1>2, <2>6, <2>7 DEF Known, ToolInv
  <2>9. KeepsUp'
    BY <2>3 DEF KeepsUp
  <2> QED BY <1>3, <2>5, <2>8, <2>9 DEF ToolInv
<1> QED BY <1>1, <1>5, <1>6, <1>7, <1>8, Typed

\* A packet that is complete is trusted if those before were, or if it makes the
\* driver take leave of a tool that is gone.
LEMMA ToolActed ==
  ASSUME IInv, ToolInv, sent < PkgLen, sent' = sent + 1,
         UNCHANGED <<onTablet, packet, packets>>,
         NEW b \in Byte, b = ByteAt(packet, sent + 1, packets),
         Appended(b) \in Seq(Byte), Complete(Appended(b)), buffer' = <<>>,
         NEW t \in ToolsNamed(Appended(b)), Act(Appended(b), t),
         EventOf(Appended(b), t) \in PenEvent,
         trusted' = (trusted \/ (report' = "leave" /\ onTablet = NoTool))
  PROVE  ToolInv'
<1> DEFINE p == Appended(b)
<1>1. sent \in 0 .. PkgLen /\ packet \in Packet
  BY Typed
<1>2. Says'
  BY DEF ToolInv, Says
<1>3. penEvent' \in PenEvent
  BY DEF Act
<1>4. LastReport'
  <2>1. CASE SendProtocol5(penEvent', onTablet)
    BY <1>3, <2>1, Told, Typed DEF ToolInv
  <2>2. CASE UNCHANGED usbVars
    BY <2>2 DEF usbVars, reportVars, ToolInv, LastReport
  <2> QED BY <2>1, <2>2 DEF Act
<1>5. CASE ~trusted'
  BY <1>2, <1>4, <1>5 DEF ToolInv, InSync, Known, RightTool, KeepsUp
<1>6. CASE ~trusted /\ trusted'
  <2>1. report' = "leave" /\ onTablet = NoTool
    BY <1>6
  <2>2. packet = Idle
    BY <2>1, ToolAssumption DEF ToolInv, Says
  <2>3. ~missed' => host' = NoTool
    BY <1>4, <2>1 DEF LastReport
  <2>4. InSync'
    BY <2>2 DEF InSync
  <2>5. Known' /\ KeepsUp'
    BY <2>1, <2>2, <2>3 DEF Known, Introduced, KeepsUp, Idle
  <2>6. RightTool'
    BY <2>1 DEF RightTool, DataKinds
  <2> QED BY <1>2, <1>4, <2>4, <2>5, <2>6 DEF ToolInv
<1>7. CASE trusted
  <2>1. sent' = PkgLen /\ \A i \in 1 .. PkgLen : p[i] = ByteAt(packet, i, packets)
    BY <1>7, Faithful DEF ToolInv
  <2>2. p[1].type = packet.type /\ p[1].near = packet.near
    <3>1. p[1] = ByteAt(packet, 1, packets)
      BY <2>1
    <3> QED BY <1>1, <3>1, HeaderOf
  <2>3. p[1].near = packet.near
    BY <2>2
  <2>4. packet.type = "in" => t = onTablet
    <3>1. SUFFICES ASSUME packet.type = "in" PROVE t = onTablet
      OBVIOUS
    <3>2. onTablet \in Tool /\ packet.tool = onTablet
      BY <3>1 DEF ToolInv, Says
    <3>3. \A i \in 2 .. PkgLen : p[i].tool = onTablet
      BY <2>1, <3>2 DEF ByteAt
    <3>4. 2 \in 2 .. PkgLen
      OBVIOUS
    <3>5. {u \in Tool : \A i \in 2 .. PkgLen : p[i].tool = u} = {onTablet}
      BY <3>2, <3>3, <3>4
    <3> QED BY <2>2, <3>1, <3>5 DEF ToolsNamed
  <2>5. trusted'
    BY <1>7
  <2>6. LastReport' /\ Known' /\ RightTool' /\ KeepsUp'
    <3> HIDE DEF p
    <3>1. Act(p, t) /\ EventOf(p, t) \in PenEvent
      BY DEF p
    <3>2. CASE packet.type = "in"
      BY <1>7, <2>1, <2>2, <2>4, <2>5, <3>1, <3>2, ActIn
    <3>3. CASE packet.type = "out"
      BY <1>7, <2>1, <2>2, <2>5, <3>1, <3>3, ActOut
    <3>4. CASE packet.type \notin {"in", "out"}
      BY <1>7, <2>1, <2>2, <2>3, <2>5, <3>1, <3>4, ActReport
    <3> QED BY <3>2, <3>3, <3>4
  <2>7. InSync'
    BY <2>1 DEF InSync
  <2> QED BY <1>2, <2>6, <2>7 DEF ToolInv
<1> QED BY <1>5, <1>6, <1>7

\* So it is kept by every byte that arrives, and by every step.
LEMMA ToolKept == ASSUME IInv, ToolInv, [Next]_p5vars PROVE ToolInv'
<1>1. CASE UNCHANGED p5vars
  BY <1>1 DEF p5vars, tabletVars, parserVars, usbVars, reportVars, ToolInv, Says,
              InSync, LastReport, Known, Introduced, KnownGone, RightTool, KeepsUp
<1>2. CASE Tablet
  BY <1>2, ToolBegun
<1>3. CASE Lose
  <2>1. trusted' = FALSE /\ UNCHANGED <<onTablet, packet, parserVars, usbVars>>
    BY <1>3 DEF Lose
  <2>2. UNCHANGED <<in_special_operation, host, report, missed>>
    BY <2>1 DEF usbVars, reportVars
  <2> QED BY <2>1, <2>2 DEF ToolInv, Says, InSync, LastReport, Known, RightTool, KeepsUp
<1>4. CASE Arrive
  <2> DEFINE b == ByteAt(packet, sent + 1, packets)
  <2>1. /\ sent < PkgLen /\ sent' = sent + 1
        /\ UNCHANGED <<onTablet, packet, packets>>
    BY <1>4 DEF Arrive
  <2>2. sent + 1 \in 1 .. PkgLen
    BY <2>1, Typed
  <2>3. b \in Byte
    BY <2>2, Typed, ByteType
  <2>4. /\ Appended(b) \in Seq(Byte)
        /\ Appended(b) # <<>> => Appended(b)[1].type # "body"
    BY <2>3, AppendedType DEF IInv
  <2>5. \/ /\ ~Complete(Appended(b)) /\ buffer' = Appended(b)
           /\ UNCHANGED <<penEvent, trusted, usbVars>>
        \/ /\ Complete(Appended(b)) /\ buffer' = <<>>
           /\ \E t \in ToolsNamed(Appended(b)) : Act(Appended(b), t)
           /\ trusted' = (trusted \/ (report' = "leave" /\ onTablet = NoTool))
    BY <1>4, <2>1 DEF Arrive
  <2> HIDE DEF b
  <2>6. b = ByteAt(packet, sent + 1, packets)
    BY DEF b
  <2>7. CASE ~Complete(Appended(b))
    BY <2>1, <2>3, <2>5, <2>6, <2>7, ToolCollected
  <2>8. CASE Complete(Appended(b))
    <3>1. PICK t \in ToolsNamed(Appended(b)) : Act(Appended(b), t)
      BY <2>5, <2>8
    <3>2. Appended(b)[1].type # "body"
      BY <2>4, <2>8 DEF Complete
    <3>3. EventOf(Appended(b), t) \in PenEvent
      BY <2>4, <2>8, <3>2, EventType DEF IInv
    <3> QED BY <2>1, <2>3, <2>4, <2>5, <2>6, <2>8, <3>1, <3>3, ToolActed
  <2> QED BY <2>7, <2>8
<1> QED BY <1>1, <1>2, <1>3, <1>4 DEF Next

LEMMA ToolInit == Init => ToolInv /\ Whole /\ OnePacket
<1> SUFFICES ASSUME Init PROVE ToolInv /\ Whole /\ OnePacket
  OBVIOUS
<1>1. /\ onTablet = NoTool /\ packet = Idle /\ sent = PkgLen
      /\ buffer = <<>> /\ acted = {}
      /\ ~in_special_operation /\ host = NoTool /\ report = "none"
  BY DEF Init, UsbInit
<1> QED BY <1>1, ToolAssumption
        DEF ToolInv, Says, InSync, LastReport, Known, Introduced, RightTool,
            KeepsUp, Idle, DataKinds, Whole, OnePacket

-----------------------------------------------------------------------------
\* The parser, its buffer and what it makes of packets stay in their sets.
THEOREM TypeCorrect == Spec => []TypeOK
<1>1. IInv => TypeOK
  BY DEF IInv
<1> QED BY <1>1, InitHolds, StepKeeps, PTL DEF Spec

LEMMA EachStep ==
  IInv /\ ToolInv /\ Whole /\ OnePacket /\ [Next]_p5vars
     => IInv' /\ ToolInv' /\ Whole' /\ OnePacket'
<1>1. ToolInv => Says
  BY DEF ToolInv
<1> QED BY <1>1, StepKeeps, ToolKept, WholeKept

\* A pen event is made of the bytes of one packet, unless the header is lost that
\* follows a packet cut short: no other loss makes the parser join two packets.
THEOREM PacketsStayApart == Spec => []OnePacket
BY EachStep, InitHolds, ToolInit, PTL DEF Spec

\* From the moment the driver is told that a tool left, and until a byte or a
\* report is lost again, every report is about the tool that was introduced to it
\* and of that tool's kind, whatever was lost before.
THEOREM ReportsAreOfTheTool == Spec => []RightTool
<1>1. ToolInv => RightTool
  BY DEF ToolInv
<1> QED BY <1>1, EachStep, InitHolds, ToolInit, PTL DEF Spec

\* And after each packet the driver knows the tool that is near, or that none is.
THEOREM DriverKeepsUp == Spec => []KeepsUp
<1>1. ToolInv => KeepsUp
  BY DEF ToolInv
<1> QED BY <1>1, EachStep, InitHolds, ToolInit, PTL DEF Spec

\* Whatever is lost on the serial line or on USB, what the driver is told makes
\* sense, but for the reports lost: a tool is introduced once, before anything is
\* said about it, and taken back before the next.
THEOREM DriverIsRight == Spec => ImplementsDriver
<1>1. IInv /\ [Next]_p5vars => [Driver!HNext]_(Driver!hvars)
  BY StepKeeps DEF DriverStep
<1> QED
  BY <1>1, InitHolds, StepKeeps, PTL DEF Spec, ImplementsDriver, Driver!HSpec
=============================================================================
