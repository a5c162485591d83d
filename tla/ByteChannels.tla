---------------------------- MODULE ByteChannels ----------------------------
(***************************************************************************)
(* Who puts bytes into a UsbChannel: waxbee's console, which prints into   *)
(* the debug channel at any time, or the serial bridge's main loop.        *)
(***************************************************************************)
EXTENDS SerialBridge

CONSTANT Setup    \* the channel, and the bounds

vars == <<channelVars, bridgeVars>>

Init == /\ ChannelInit /\ BridgeInit
        /\ \E s \in Setup : /\ channel = s.channel /\ bytes = s.bytes
                            /\ sends = s.sends /\ settings = s.settings
                            /\ upsets = s.upsets

\* do_print.
DoPrint(c) == /\ channel = "debug"
              /\ bytes > 0 /\ bytes' = bytes - 1
              /\ Call(c)
              /\ UNCHANGED <<channel, txVars, rxVars, usbVars, flush_timer, heard, coding,
                             baud, lastbaud, at, message, usart, speed, line, sends,
                             settings>>

MainLoop == (Putchar /\ UNCHANGED bridgeVars) \/ Bridge
Frames == Frame /\ UNCHANGED bridgeVars
Resets == ResetInterrupt /\ UNCHANGED bridgeVars
Collects == Collect /\ UNCHANGED bridgeVars
Configures == (Configure \/ Resume) /\ UNCHANGED bridgeVars

Next == \/ MainLoop \/ Frames \/ Resets \/ Collects \/ Configures
        \/ Requests /\ UNCHANGED bridgeVars
        \/ \E b \in Byte : DoPrint(b) \/ Arrive(b)
        \/ \E b \in Coding : SetLineCoding(b)
        \/ \E p \in Packet : HostSend(p)

\* The main loop runs, frames come, and the host collects what is released, configures
\* a device that it finds not to be, and ends a halt that it asked for.
Spec == /\ Init /\ [][Next]_vars
        /\ WF_vars(MainLoop) /\ WF_vars(Frames) /\ WF_vars(Resets)
        /\ WF_vars(Collects) /\ WF_vars(Configures)
-----------------------------------------------------------------------------
\* What putchar says it took reaches the host, in order, filled up or not, and
\* within some frames ("transmit any partially full packet"), and what the host
\* sends reaches the serial line, but for what a reset of the bus or an endpoint
\* throws away: in every interleaving with the interrupts, which select endpoints of
\* their own ("interrupts are disabled so these functions can be used from the main
\* program or interrupt context").
ToHost == INSTANCE ByteStream WITH sent <- accepted, got <- heard
ToLine == INSTANCE ByteStream WITH sent <- given, got <- line
ImplementsStreams == ToHost!BSpec /\ ToLine!BSpec

\* However its bytes are torn by the interrupt that writes them, the serial line
\* ends up at the speed that the host set last (main, usb_serial_get_baud).
SpeedFollows == <>[](speed = SpeedOf(coding))
=============================================================================
