----------------------------- MODULE PenReports -----------------------------
(***************************************************************************)
(* pen_event.cpp and the reports of wacom_usb.cpp for every USB protocol.  *)
(* A report of protocol V names its tool only when it comes in range       *)
(* (WacomUsb).  One of protocol IV, or of a Bamboo, says on its own which  *)
(* tool is near; the driver takes the first one after the tool left for    *)
(* its introduction.  A report that says that the pen left triggers the    *)
(* debug playback (DebugProc).                                             *)
(***************************************************************************)
EXTENDS WacomUsb, DebugProc, PenTransform

CONSTANT Puck    \* the tool that a protocol IV report calls a mouse

ASSUME PuckAssumption == Puck \in Tool /\ Puck \notin {Generic["pen"], Generic["eraser"]}

VARIABLES usbProtocol,
          calibration,
          xformed      \* the position and the pressure in the last report, if any

reportsVars == <<usbVars, debugVars, usbProtocol, calibration, xformed>>

UsbProtocol == {"protocol4", "bamboo", "protocol5"}
Xformed == [position : 0 .. Word - 1, pressure : 0 .. Word - 1]

\* transform_pen_data.
Transform(e) == [position |-> Position(e.position, calibration),
                 pressure |-> Pressure(e.pressure, calibration)]

\* The driver gets a report that says which tool is near, or that none is.
SendState(tool, present) ==
    \/ /\ host' = tool /\ about' = present
       /\ report' = CASE tool = NoTool -> "leave"
                      [] tool # NoTool /\ host = NoTool -> "enter"
                      [] OTHER -> "pen"
       /\ missed' = (missed /\ tool # NoTool)
    \/ LossyUsb /\ missed' = TRUE /\ UNCHANGED <<host, report, about>>

End(e) == Generic[IF e.eraser THEN "eraser" ELSE "pen"]

\* send_protocol4_packet and send_bamboo_pen_packet, which has no mouse.
SendProtocol4(e, present) ==
    SendState(CASE e.proximity /\ e.is_mouse -> Puck
                [] e.proximity /\ ~e.is_mouse -> End(e)
                [] OTHER -> NoTool, present)
SendBambooPen(e, present) ==
    SendState(IF e.proximity THEN End(e) ELSE NoTool, present)

\* send_protocol5_packet, for an event of which nobody has set the tool's identity
\* nor serial_packet_first_byte.
SendUnnamed(e, present) ==
    SendProtocol5([proximity |-> e.proximity, eraser |-> e.eraser,
                   is_mouse |-> e.is_mouse, tool |-> NoTool, first |-> "pen"], present)

\* Whether the report has a position, and whether it says that the tool left.
Placed(e) == e.proximity /\ (usbProtocol = "protocol5" => currentlyInRange)
Left(e) == ~e.proximity /\ (usbProtocol = "protocol5" => currentlyInRange)

\* input_pen_event and output_pen_event.
InputPenEvent(e, present) ==
    /\ \/ usbProtocol = "protocol5" /\ SendUnnamed(e, present)
       \/ /\ \/ usbProtocol = "protocol4" /\ SendProtocol4(e, present)
             \/ usbProtocol = "bamboo" /\ SendBambooPen(e, present)
          /\ UNCHANGED <<currentlyInRange, in_special_operation>>
    /\ xformed' = IF Placed(e) THEN Transform(e) ELSE NoTool
    /\ \/ Left(e) /\ ProxOutTrigger
       \/ ~Left(e) /\ UNCHANGED debugVars
    /\ UNCHANGED <<usbProtocol, calibration>>

\* main: the components' init functions, and send_initial_event, which protocol V
\* does not send.
ReportsInit(usb, c, s) ==
    /\ UsbInit
    /\ usbProtocol = usb /\ calibration = c /\ xformed = NoTool
    /\ DebugInit(s, usb # "protocol5")
=============================================================================
