------------------------------- MODULE UsbSend -------------------------------
(***************************************************************************)
(* usb.cpp: usb_send_packet, in the main loop, against the interrupts of   *)
(* the USB controller.  The function tries with interrupts disabled and    *)
(* enables them between its tries; the interrupts select endpoints of      *)
(* their own, configure and unconfigure the device, reset endpoints and    *)
(* count the timeout down, once per frame that the host sends.             *)
(*                                                                         *)
(* The controller and the host are external: a bus reset disables the      *)
(* endpoints and empties them before the firmware gets to know, and the    *)
(* host collects a packet when it likes, or not.                           *)
(***************************************************************************)
EXTENDS UsbPipe    \* whose variables are those that a caller and the host see

CONSTANT TxTimeout     \* frames that a caller is willing to wait (50)

\* The endpoints configured are 1 to 3, of two banks each.
ASSUME EndpointAssumption == Endpoint \subseteq 1 .. 3 /\ Endpoint # {}
ASSUME BanksAssumption == Banks \in Nat \ {0} /\ TxTimeout \in Nat

MaxEndpoint == 4   \* MAX_ENDPOINT, one more than the device can have

VARIABLES usb_configuration,   \* is it non-zero?
          tx_timeout_count,
          uenum,       \* UENUM: the endpoint selected
          enabled,     \* are the endpoints enabled?
          halted,      \* those whose STALLRQ is set
          eorsti,      \* EORSTI: the end of a bus reset is to be handled
          pc           \* where usb_send_packet is

usbVars == <<usb_configuration, tx_timeout_count, uenum, enabled, halted, eorsti,
             banks>>
callVars == <<pc, call, result>>
sendVars == <<usbVars, callVars>>

Init == /\ usb_configuration = TRUE /\ enabled = TRUE   \* main waits for that
        /\ tx_timeout_count = 0 /\ uenum = 0 /\ eorsti = FALSE /\ halted = {}
        /\ banks = [e \in Endpoint |-> <<>>]
        /\ pc = "done" /\ call = <<>> /\ result = "none"
-----------------------------------------------------------------------------
(* usb_send_packet.                                                         *)

Call(e, d) == /\ pc = "done"
              /\ pc' = "configured"
              /\ call' = <<e, d>>
              /\ result' = "none"
              /\ UNCHANGED usbVars

Return(r) == pc' = "done" /\ call' = <<>> /\ result' = r

\* Slip: the test is only made on entry.
SlipTestConfigured ==
    /\ \/ /\ pc = "configured" /\ ~usb_configuration
          /\ Return("offline")
       \/ /\ pc = "configured" /\ usb_configuration
          /\ pc' = "first" /\ UNCHANGED <<call, result>>
       \/ pc = "stillConfigured" /\ pc' = "again" /\ UNCHANGED <<call, result>>
    /\ UNCHANGED usbVars

\* On entry, and after each try that failed.
TestConfigured ==
    /\ pc \in {"configured", "stillConfigured"}
    /\ \/ ~usb_configuration /\ Return("offline")
       \/ /\ usb_configuration
          /\ pc' = IF pc = "configured" THEN "first" ELSE "again"
          /\ UNCHANGED <<call, result>>
    /\ UNCHANGED usbVars

\* RWAL of the selected endpoint.
Room == enabled /\ uenum' \in Endpoint \ halted /\ Len(banks[uenum']) < Banks

\* From cli to the next SREG = intr_state: no interrupt is served.
Attempt == /\ \/ /\ Room
                 /\ banks' = [banks EXCEPT ![uenum'] = Append(@, call[2])]
                 /\ Return("sent")
              \/ /\ ~Room
                 /\ pc' = "waiting"
                 /\ UNCHANGED <<banks, call, result>>
           /\ UNCHANGED <<usb_configuration, enabled, halted, eorsti>>

FirstTry == /\ pc = "first"
            /\ tx_timeout_count' = TxTimeout
            /\ uenum' = call[1]
            /\ Attempt

\* Slip: the endpoint is selected once, before the loop.
SlipTryAgain == /\ pc = "again"
                /\ UNCHANGED <<tx_timeout_count, uenum>>
                /\ Attempt

TryAgain == /\ pc = "again"
            /\ uenum' = call[1]
            /\ UNCHANGED tx_timeout_count
            /\ Attempt

TestTimeout == /\ pc = "waiting"
               /\ \/ tx_timeout_count = 0 /\ Return("timeout")
                  \/ /\ tx_timeout_count # 0
                     /\ pc' = "stillConfigured"
                     /\ UNCHANGED <<call, result>>
               /\ UNCHANGED usbVars

Sending == TestConfigured \/ FirstTry \/ TryAgain \/ TestTimeout
-----------------------------------------------------------------------------
(* The interrupts.                                                          *)

\* USB_GEN_vect: the end of a bus reset (a frame's bit is then not looked at) ...
ResetInterrupt == /\ eorsti
                  /\ eorsti' = FALSE
                  /\ uenum' = 0
                  /\ usb_configuration' = FALSE
                  /\ UNCHANGED <<tx_timeout_count, enabled, halted, banks, callVars>>

\* ... or the start of a frame.
FrameInterrupt == /\ ~eorsti /\ usb_configuration
                  /\ tx_timeout_count > 0
                  /\ tx_timeout_count' = tx_timeout_count - 1
                  /\ UNCHANGED <<usb_configuration, uenum, enabled, halted, eorsti,
                                 banks, callVars>>

\* USB_COM_vect: SET_CONFIGURATION (to zero, too, enables the endpoints; whether it
\* ends a halt is left to the controller) ...
SetConfiguration(v) ==
    /\ ~eorsti
    /\ usb_configuration' = v
    /\ enabled' = TRUE /\ halted' \in {halted, {}}
    /\ banks' = [e \in Endpoint |-> <<>>]
    /\ uenum' = CHOOSE e \in Endpoint : \A f \in Endpoint : f <= e
    /\ UNCHANGED <<tx_timeout_count, eorsti, callVars>>

\* ... CLEAR_FEATURE, the end of an endpoint's halt ...
ClearHalt(e) == /\ ~eorsti /\ enabled
                /\ banks' = [f \in Endpoint |-> IF f = e THEN <<>> ELSE banks[f]]
                /\ halted' = halted \ {e}
                /\ uenum' = e
                /\ UNCHANGED <<usb_configuration, tx_timeout_count, enabled, eorsti,
                               callVars>>

\* ... SET_FEATURE, its start: the request is refused with the endpoint selected,
\* which stalls this endpoint in place of endpoint 0 ...
SetHalt(e) == /\ ~eorsti /\ enabled
              /\ halted' = halted \union ({e} \intersect Endpoint)
              /\ uenum' = e
              /\ UNCHANGED <<usb_configuration, tx_timeout_count, enabled, eorsti,
                             banks, callVars>>

\* ... and all others, of the HID interface as well, which select endpoint 0.
Request == /\ ~eorsti
           /\ uenum' = 0
           /\ UNCHANGED <<usb_configuration, tx_timeout_count, enabled, halted, eorsti,
                          banks, callVars>>

Interrupt == \/ ResetInterrupt \/ FrameInterrupt \/ Request
             \/ \E v \in BOOLEAN : SetConfiguration(v)
             \/ \E e \in 1 .. MaxEndpoint : ClearHalt(e) \/ SetHalt(e)
-----------------------------------------------------------------------------
(* The controller and the host.                                             *)

\* The interrupt of a frame clears a bit that is set after it read the others
\* (lines 188 to 191): this reset is not handled.
BusReset == /\ eorsti' \in {TRUE, eorsti}
            /\ enabled' = FALSE /\ halted' = {}
            /\ banks' = [e \in Endpoint |-> <<>>]
            /\ UNCHANGED <<usb_configuration, tx_timeout_count, uenum, callVars>>

Collect(e) == /\ enabled /\ usb_configuration /\ e \notin halted
              /\ banks[e] # <<>>
              /\ banks' = [banks EXCEPT ![e] = Tail(@)]
              /\ UNCHANGED <<usb_configuration, tx_timeout_count, uenum, enabled,
                             halted, eorsti, callVars>>

Bus == Interrupt \/ BusReset \/ \E e \in Endpoint : Collect(e)

Next == Sending \/ Bus \/ \E e \in Endpoint, d \in Data : Call(e, d)

Spec == Init /\ [][Next]_sendVars

\* The main loop runs, an interrupt that is asked for is served, and a device that
\* is configured again and again sees the host's frames: the bus is not suspended.
FairSpec == /\ Spec
            /\ WF_sendVars(Sending) /\ WF_sendVars(ResetInterrupt)
            /\ SF_sendVars(FrameInterrupt)
-----------------------------------------------------------------------------
TypeOK == /\ usb_configuration \in BOOLEAN
          /\ tx_timeout_count \in 0 .. TxTimeout
          /\ uenum \in 0 .. MaxEndpoint /\ halted \subseteq Endpoint
          /\ enabled \in BOOLEAN /\ eorsti \in BOOLEAN
          /\ banks \in [Endpoint -> Seq(Data)]
          /\ \A e \in Endpoint : Len(banks[e]) <= Banks
          /\ pc \in {"done", "configured", "first", "waiting",
                     "stillConfigured", "again"}
          /\ \/ pc = "done" /\ call = <<>>
             \/ pc # "done" /\ call \in Endpoint \X Data
          /\ result \in {"none", "sent", "timeout", "offline"}

\* Whatever the interrupts do between two tries, the packet goes to the endpoint
\* asked for, once, behind the packets sent there before, or the caller is told
\* that it did not (usb_send_packet).
ImplementsPipe == PSpec

\* On a bus that is not suspended usb_send_packet returns, whatever becomes of the
\* device's configuration and of its endpoints meanwhile.
Returns == call # <<>> ~> call = <<>>
=============================================================================
