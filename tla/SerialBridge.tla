---------------------------- MODULE SerialBridge ----------------------------
(***************************************************************************)
(* src/usb_serial: main.cpp carries bytes between a serial line, polled    *)
(* through serial.cpp without a buffer but the USART's own, and the host,  *)
(* at the speed that the host sets.  The four bytes of that speed are read *)
(* one by one while an interrupt may write them; two of them are modelled. *)
(***************************************************************************)
EXTENDS UsbChannel

CONSTANTS Note,          \* any byte of the message that tells the speed
          NoteLen,       \* bytes of that message (5 or 6)
          UsartFifo,     \* bytes that the USART holds (2)
          Coding,        \* the speeds that the host may set
          Packet         \* the packets that it may send

ASSUME BridgeAssumption == /\ Note \in Byte /\ NoteLen \in Nat /\ UsartFifo \in Nat
                           /\ Coding \subseteq Nat /\ Packet \subseteq Seq(Byte)

VARIABLES coding,        \* cdc_line_coding
          baud, lastbaud,
          at, message,   \* where main is, and what is left of its message
          usart,         \* bytes received and not yet polled
          speed,         \* what the USART runs at
          line,          \* what it sent last
          bytes, sends, settings   \* bounds: bytes on the line (or printed), packets
                                   \* of the host, and changes of speed, yet to come

bridgeVars == <<coding, baud, lastbaud, at, message, usart, speed, line, bytes, sends,
                settings>>

BridgeInit == /\ coding = 57600 /\ baud = 0 /\ lastbaud = 0
              /\ at = "low" /\ message = 0
              /\ usart = <<>> /\ speed = 9600 /\ line = <<>>

\* setBaudRate.
SpeedOf(b) == IF b \in {19200, 38400} THEN b ELSE 9600

Idle == channel = "bridge" /\ pc = "done"

\* usb_serial_get_baud, byte by byte.
ReadLow == /\ Idle /\ at = "low"
           /\ baud' = coding % 256
           /\ at' = "high"
           /\ UNCHANGED <<channelVars, coding, lastbaud, message, usart, speed, line,
                          bytes, sends, settings>>
ReadHigh == /\ Idle /\ at = "high"
            /\ baud' = baud + 256 * (coding \div 256)
            /\ at' = IF baud' # lastbaud THEN "set" ELSE "poll"
            /\ UNCHANGED <<channelVars, coding, lastbaud, message, usart, speed, line,
                           bytes, sends, settings>>

\* setBaudRateCode, with its flush.
SetBaudRate == /\ Idle /\ at = "set"
               /\ speed' = SpeedOf(baud) /\ usart' = <<>>
               /\ message' = NoteLen
               /\ at' = "tell"
               /\ UNCHANGED <<channelVars, coding, baud, lastbaud, line, bytes, sends,
                              settings>>

Tell == /\ Idle /\ at = "tell" /\ message > 0
        /\ Call(Note)
        /\ message' = message - 1
        /\ UNCHANGED <<channel, txVars, rxVars, usbVars, flush_timer, heard, coding, baud,
                       lastbaud, at, usart, speed, line, bytes, sends, settings>>

\* Slip: the speed is asked for once more.
SlipRemember == /\ Idle /\ at = "tell" /\ message = 0
                /\ lastbaud' = coding
                /\ at' = "poll"
                /\ UNCHANGED <<channelVars, coding, baud, message, usart, speed, line,
                               bytes, sends, settings>>
Remember == /\ Idle /\ at = "tell" /\ message = 0
            /\ lastbaud' = baud
            /\ at' = "poll"
            /\ UNCHANGED <<channelVars, coding, baud, message, usart, speed, line,
                           bytes, sends, settings>>

\* serialPortProcessing: until the USART is empty.
Poll == /\ Idle /\ at = "poll"
        /\ \/ /\ usart # <<>>
              /\ usart' = Tail(usart)
              /\ Call(Head(usart))
              /\ UNCHANGED at
           \/ /\ usart = <<>>
              /\ at' = "get"
              /\ UNCHANGED <<usart, putVars>>
        /\ UNCHANGED <<channel, txVars, rxVars, usbVars, flush_timer, heard, coding, baud,
                       lastbaud, message, speed, line, bytes, sends, settings>>

\* usb_serial_getchar, which drops packets of no bytes, and takes for one whatever
\* there is in an endpoint that is halted.
IsFilled(k) == packets[k] # <<>> /\ \A i \in 1 .. k - 1 : packets[i] = <<>>
GetChar == /\ Idle /\ at = "get"
           /\ \/ /\ usb_configuration
                 /\ uenum' = "rx"
                 /\ \/ /\ "rx" \notin halted
                       /\ \E k \in 1 .. Len(packets) :
                             /\ IsFilled(k)
                             /\ hand' = <<Head(packets[k])>>
                             /\ packets' = (IF Len(packets[k]) = 1 THEN <<>>
                                                                  ELSE <<Tail(packets[k])>>)
                                           \o SubSeq(packets, k + 1, Len(packets))
                       /\ at' = "send" /\ UNCHANGED given
                    \/ /\ \/ "rx" \in halted
                          \/ \A k \in 1 .. Len(packets) : packets[k] = <<>>
                       /\ EmptyRx
                       /\ at' = "low"
              \/ /\ ~usb_configuration
                 /\ at' = "low"
                 /\ UNCHANGED <<uenum, rxVars>>
           /\ UNCHANGED <<channel, txVars, enabled, halted, eorsti, udfnuml,
                          usb_configuration, upsets, putVars, flush_timer, heard, coding,
                          baud, lastbaud, message, usart, speed, line, bytes, sends,
                          settings>>

\* sendByte; its wait for the USART, which ends by itself, is left out.
SendByte == /\ Idle /\ at = "send"
            /\ line' = hand /\ hand' = <<>> /\ given' = Tail(given)
            /\ at' = "low"
            /\ UNCHANGED <<channel, txVars, packets, usbVars, putVars, flush_timer, heard,
                           coding, baud, lastbaud, message, usart, speed, bytes, sends,
                           settings>>

Bridge == \/ ReadLow \/ ReadHigh \/ SetBaudRate \/ Tell \/ Remember \/ Poll \/ GetChar
          \/ SendByte
-----------------------------------------------------------------------------
\* A byte arrives on the line; the USART drops one that it has no room for.
Arrive(b) == /\ channel = "bridge"
             /\ bytes > 0 /\ bytes' = bytes - 1
             /\ usart' = IF Len(usart) < UsartFifo THEN Append(usart, b) ELSE usart
             /\ UNCHANGED <<channelVars, coding, baud, lastbaud, at, message, speed, line,
                            sends, settings>>

\* CDC_SET_LINE_CODING.
SetLineCoding(b) == /\ channel = "bridge"
                    /\ settings > 0 /\ settings' = settings - 1
                    /\ ~eorsti
                    /\ coding' = b /\ uenum' = "control"
                    /\ UNCHANGED <<channel, txVars, rxVars, enabled, halted, eorsti, udfnuml,
                                   usb_configuration, upsets, putVars, flush_timer, heard,
                                   baud, lastbaud, at, message, usart, speed, line, bytes,
                                   sends>>

\* The host sends a packet, perhaps of no bytes.
HostSend(p) == /\ channel = "bridge"
               /\ sends > 0 /\ sends' = sends - 1
               /\ usb_configuration /\ enabled /\ "rx" \notin halted /\ Len(packets) < Banks
               /\ packets' = Append(packets, p)
               /\ given' = given \o p
               /\ UNCHANGED <<channel, txVars, hand, usbVars, putVars, flush_timer, heard,
                              coding, baud, lastbaud, at, message, usart, speed, line,
                              bytes, settings>>
=============================================================================
