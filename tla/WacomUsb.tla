------------------------------ MODULE WacomUsb ------------------------------
(***************************************************************************)
(* wacom_usb.cpp, protocol V (Intuos2, Intuos5): pen events in, USB        *)
(* reports out.  The reports about a tool do not name it: the driver knows *)
(* it from the report that said the tool came in range, and the firmware   *)
(* remembers in currentlyInRange that it sent one.  A report the host does *)
(* not collect in 50 ms is lost, and nobody looks at the result of the     *)
(* call.  A "special operation" (a tablet button played by a pen) takes    *)
(* the tool out of range and holds back the pen's events.                  *)
(***************************************************************************)
CONSTANTS Tool,       \* the tools: usb tool id and serial number
          NoTool,     \* a tool id of zero
          Kind,       \* what a tool is
          Generic,    \* tools reported when the tablet does not name them
          LossyUsb    \* may usb_send_packet time out?

Mice == {"mouse4D", "mouse2D", "lens"}
ASSUME ToolAssumption == /\ NoTool \notin Tool
                         /\ Kind \in [Tool -> {"pen", "eraser", "airbrush"} \union Mice]
                         /\ Generic \in [{"pen", "eraser"} -> Tool]
                         /\ \A k \in {"pen", "eraser"} : Kind[Generic[k]] = k
                         /\ LossyUsb \in BOOLEAN

VARIABLES currentlyInRange,
          in_special_operation,
          \* the host
          host,     \* the tool the driver has been told of
          report,   \* the kind of the last report it got ...
          about,    \* ... and, a history, the tool that was on the tablet then
          missed    \* history: a report was lost since the last "leave" it got

reportVars == <<host, report, about, missed>>
usbVars == <<currentlyInRange, in_special_operation, reportVars>>

\* A Pen::PenEvent; "first" is what serial_packet_first_byte says it is.
PenEvent == [proximity : BOOLEAN, eraser : BOOLEAN, is_mouse : BOOLEAN,
             tool : Tool \union {NoTool},
             first : {"in", "out", "pen", "wheel", "mouse", "rotation"}]

DataKinds == {"pen", "wheel", "lens", "mouse2D", "rotation", "mouse4D"}

UsbInit == /\ currentlyInRange = FALSE
           /\ in_special_operation = FALSE
           /\ host = NoTool /\ report = "none" /\ about = NoTool
           /\ missed = FALSE
-----------------------------------------------------------------------------
\* usb_send_packet, and the driver that gets the report (or does not).
Send(kind, tool, present) ==
    \/ /\ report' = kind
       /\ about' = present
       /\ host' = CASE kind = "enter" -> tool
                    [] kind = "leave" -> NoTool
                    [] OTHER -> host
       /\ missed' = (missed /\ kind # "leave")
    \/ LossyUsb /\ missed' = TRUE /\ UNCHANGED <<host, report, about>>

\* What is reported about a tool that is in range: a pen (any event that is not
\* a first pen packet is an airbrush's wheel), ...
PenKind(e) == IF e.first = "pen" THEN "pen" ELSE "wheel"

\* ... or one of three mice.
ToolKind(t) == IF t = NoTool THEN "pen" ELSE Kind[t]
MouseKind(e) == CASE ToolKind(e.tool) \in {"lens", "mouse2D"} -> ToolKind(e.tool)
                  [] e.first = "rotation" -> "rotation"
                  [] OTHER -> "mouse4D"

DataKind(e) == IF e.is_mouse THEN MouseKind(e) ELSE PenKind(e)

\* A tool without an id is given one.
Named(e) == IF e.tool # NoTool THEN e.tool
            ELSE Generic[IF e.eraser THEN "eraser" ELSE "pen"]

\* The report that the tool is in range, and the one that it left.
Introduce(e, present) == Send("enter", Named(e), present)
Leave(present) == Send("leave", NoTool, present)

\* Slip: the tool is introduced and reported on at once.
SlipDoSend(e, present) ==
    /\ \/ e.proximity /\ Send(DataKind(e), NoTool, present)
       \/ ~e.proximity /\ currentlyInRange /\ Leave(present)
       \/ ~e.proximity /\ ~currentlyInRange /\ UNCHANGED reportVars
    /\ currentlyInRange' = e.proximity

\* do_send_protocol5_packet, for an event of the tool that is present.
DoSend(e, present) ==
    /\ \/ e.proximity /\ currentlyInRange /\ Send(DataKind(e), NoTool, present)
       \/ e.proximity /\ ~currentlyInRange /\ Introduce(e, present)
       \/ ~e.proximity /\ currentlyInRange /\ Leave(present)
       \/ ~e.proximity /\ ~currentlyInRange /\ UNCHANGED reportVars
    /\ currentlyInRange' = e.proximity

\* send_protocol5_packet, by way of input_pen_event and output_pen_event.
SendProtocol5(e, present) ==
    /\ \/ in_special_operation /\ UNCHANGED <<currentlyInRange, reportVars>>
       \/ ~in_special_operation /\ DoSend(e, present)
    /\ UNCHANGED in_special_operation

\* begin_special_operation_protocol5: the tool is taken out of range ...
BeginSpecial(present) ==
    /\ in_special_operation' = TRUE
    /\ \/ /\ ~in_special_operation /\ currentlyInRange
          /\ currentlyInRange' = FALSE
          /\ Leave(present)
       \/ /\ in_special_operation \/ ~currentlyInRange
          /\ UNCHANGED <<currentlyInRange, reportVars>>

\* ... and end_special_operation_protocol5: its next event brings it back.
EndSpecial == /\ in_special_operation' = FALSE
              /\ UNCHANGED <<currentlyInRange, reportVars>>
-----------------------------------------------------------------------------
UsbTypeOK == /\ currentlyInRange \in BOOLEAN
             /\ in_special_operation \in BOOLEAN
             /\ host \in Tool \union {NoTool}
             /\ report \in DataKinds \union {"none", "enter", "leave"}
             /\ about \in Tool \union {NoTool}
             /\ missed \in BOOLEAN

\* Whatever events the tablets produce, what the driver is told makes sense, up
\* to a report lost on USB, and again once it is told that the tool left
\* (do_send_protocol5_packet, currentlyInRange).
Driver == INSTANCE HostTool WITH Data <- DataKinds
ImplementsDriver == Driver!HSpec
=============================================================================
