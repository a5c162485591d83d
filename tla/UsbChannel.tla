----------------------------- MODULE UsbChannel -----------------------------
(***************************************************************************)
(* Bytes to the host by way of an endpoint of a few banks: putchar of      *)
(* usb_debug_channel.cpp ("debug") and usb_serial_putchar of usb_serial.c  *)
(* ("bridge"), against the interrupts of USB.  A packet goes to the host   *)
(* when it is full, or some frames after its last byte; the debug channel, *)
(* whose packets have one size, fills it up with zeros.                    *)
(*                                                                         *)
(* putchar works with interrupts disabled, and enables them between its    *)
(* tries; each of them selects an endpoint of its own.  The controller and *)
(* the host are external.                                                  *)
(***************************************************************************)
EXTENDS Naturals, Sequences

CONSTANTS Byte,
          Pad,          \* the zero that fills a packet of the debug channel
          Size,         \* CDC_TX_SIZE (64), DEBUG_TX_SIZE (32)
          Banks,        \* banks of the endpoints (EP_DOUBLE_BUFFER)
          FrameMod,     \* 256, the values of UDFNUML
          PutTimeout,   \* TRANSMIT_TIMEOUT (25), and 4 of the debug channel
          FlushTimeout  \* TRANSMIT_FLUSH_TIMEOUT (5), and 2

Channel == {"debug", "bridge"}

ASSUME ChannelAssumption ==
    /\ Pad \notin Byte /\ Size \in Nat \ {0} /\ Banks \in Nat \ {0}
    /\ PutTimeout \in [Channel -> 1 .. FrameMod - 1]
    /\ FlushTimeout \in [Channel -> Nat \ {0}]

VARIABLES channel,
          \* the controller
          enabled,          \* are the endpoints enabled?
          halted,           \* those of the two for bytes whose STALLRQ is set
          eorsti,           \* the end of a bus reset is to be handled
          uenum,            \* the endpoint selected
          udfnuml,          \* the frame number
          bank,             \* what is in the bank that is being filled
          released,         \* packets the host has not collected
          packets,          \* packets from the host
          \* the channel
          usb_configuration,
          flush_timer,      \* debug_flush_timer, transmit_flush_timer
          previous_timeout, \* previous_timeout, transmit_previous_timeout
          pc, byte, timeout,    \* putchar: where it is, its argument, its timeout
          \* history
          accepted,         \* bytes taken by putchar, and not yet collected
          heard,            \* what the host collected last
          given,            \* bytes from the host that are not yet on the line
          hand,             \* the byte that the main loop took of them
          upsets            \* bound: resets and requests that may still come

txVars == <<bank, released, accepted>>
rxVars == <<packets, given, hand>>
usbVars == <<enabled, halted, eorsti, uenum, udfnuml, usb_configuration, upsets>>
putVars == <<pc, byte, timeout, previous_timeout>>
channelVars == <<channel, txVars, rxVars, usbVars, putVars, flush_timer, heard>>

ChannelInit == /\ enabled = TRUE /\ halted = {} /\ eorsti = FALSE
               /\ uenum = "control" /\ udfnuml = 0
               /\ bank = <<>> /\ released = <<>> /\ packets = <<>>
               /\ usb_configuration = TRUE      \* main waits for that
               /\ flush_timer = 0 /\ previous_timeout = FALSE
               /\ pc = "done" /\ byte = Pad /\ timeout = 0
               /\ accepted = <<>> /\ heard = <<>> /\ given = <<>> /\ hand = <<>>

\* RWAL, of the endpoint that is selected; never set on one that is halted.
Rwal(e) == /\ enabled /\ e \notin halted
           /\ \/ e = "tx" /\ Len(released) < Banks
              \/ e = "rx" /\ packets # <<>> /\ Head(packets) # <<>>
              \/ e = "acm"
-----------------------------------------------------------------------------
(* putchar.                                                                 *)

Call(c) == pc = "done" /\ byte' = c /\ pc' = "configured"
           /\ UNCHANGED <<timeout, previous_timeout>>

TestConfigured == /\ pc = "configured"
                  /\ pc' = IF usb_configuration THEN "first" ELSE "done"
                  /\ UNCHANGED <<channel, txVars, rxVars, usbVars, flush_timer, heard,
                                 byte, timeout, previous_timeout>>

\* The timer of the debug channel is stopped by a packet that is complete.
TimerAfter(full) == IF full /\ channel = "debug" THEN 0 ELSE FlushTimeout[channel]

\* The byte is written to the endpoint selected, and a full packet released.
Write(e) == LET b == Append(bank, byte) IN
            /\ \/ e # "tx" /\ UNCHANGED <<bank, released>>
               \/ e = "tx" /\ Len(b) < Size /\ bank' = b /\ UNCHANGED released
               \/ /\ e = "tx" /\ Len(b) = Size
                  /\ bank' = <<>> /\ released' = Append(released, b)
            /\ flush_timer' = TimerAfter(Len(b) = Size)
            /\ accepted' = Append(accepted, byte)
            /\ pc' = "done"

FirstTry == /\ pc = "first"
            /\ uenum' = "tx"
            /\ \/ /\ previous_timeout /\ ~Rwal("tx")      \* don't wait again
                  /\ pc' = "done"
                  /\ UNCHANGED <<txVars, flush_timer, timeout, previous_timeout>>
               \/ /\ ~(previous_timeout /\ ~Rwal("tx"))
                  /\ previous_timeout' = FALSE
                  /\ timeout' = (udfnuml + PutTimeout[channel]) % FrameMod
                  /\ \/ Rwal("tx") /\ Write("tx")
                     \/ /\ ~Rwal("tx")
                        /\ pc' = "wait"
                        /\ UNCHANGED <<txVars, flush_timer>>
            /\ UNCHANGED <<channel, rxVars, enabled, halted, eorsti, udfnuml, usb_configuration,
                           upsets, heard, byte>>

\* Between two tries.
TestTimeout == /\ pc = "wait"
               /\ \/ /\ udfnuml = timeout
                     /\ previous_timeout' = TRUE
                     /\ pc' = "done"
                  \/ /\ udfnuml # timeout
                     /\ pc' = IF usb_configuration THEN "again" ELSE "done"
                     /\ UNCHANGED previous_timeout
               /\ UNCHANGED <<channel, txVars, rxVars, usbVars, flush_timer, heard, byte,
                              timeout>>

Try(e) == /\ pc = "again"
          /\ uenum' = e
          /\ \/ Rwal(e) /\ Write(e)
             \/ ~Rwal(e) /\ pc' = "wait" /\ UNCHANGED <<txVars, flush_timer>>
          /\ UNCHANGED <<channel, rxVars, enabled, halted, eorsti, udfnuml, usb_configuration,
                         upsets, heard, byte, timeout, previous_timeout>>
\* Slip: the endpoint is not selected again.
SlipTryAgain == Try(uenum)
TryAgain == Try("tx")

Putchar == TestConfigured \/ FirstTry \/ TestTimeout \/ TryAgain
-----------------------------------------------------------------------------
(* The interrupts, between any two steps of the main loop.                  *)

\* flush, of both channels: without a bank that could be released it has no effect, and
\* none that lasts on a halted endpoint, which is emptied when the halt ends.
Padded == bank \o [i \in 1 .. Size - Len(bank) |-> Pad]
Flush == /\ uenum' = "tx"
         /\ IF Rwal("tx")
            THEN /\ released' = Append(released, IF channel = "debug" THEN Padded
                                                                      ELSE bank)
                 /\ bank' = <<>>
            ELSE UNCHANGED <<released, bank>>
         /\ UNCHANGED accepted

\* The start of a frame: one less to wait (start_of_frame_interrupt, USB_GEN_vect).
CountDown == /\ flush_timer' = IF flush_timer > 0 THEN flush_timer - 1 ELSE 0
             /\ \/ flush_timer = 1 /\ Flush
                \/ flush_timer # 1 /\ UNCHANGED <<txVars, uenum>>

\* One that clears the bit of a bus reset, which came after it was read, loses it.
Frame == /\ udfnuml' = (udfnuml + 1) % FrameMod
         /\ eorsti' = FALSE
         /\ \/ usb_configuration /\ CountDown
            \/ ~usb_configuration /\ UNCHANGED <<txVars, uenum, flush_timer>>
         /\ UNCHANGED <<channel, rxVars, enabled, halted, usb_configuration, upsets, putVars,
                        heard>>

ResetInterrupt == /\ eorsti
                  /\ eorsti' = FALSE
                  /\ uenum' = "control"
                  /\ usb_configuration' = FALSE
                  /\ UNCHANGED <<channel, txVars, rxVars, enabled, halted, udfnuml, upsets,
                                 putVars, flush_timer, heard>>

\* What an endpoint that is reset held is lost.
EmptyTx == bank' = <<>> /\ released' = <<>> /\ accepted' = <<>>
EmptyRx == packets' = <<>> /\ given' = hand /\ UNCHANGED hand

\* A bus reset disables the endpoints before the firmware gets to know.
BusReset == /\ upsets > 0 /\ upsets' = upsets - 1
            /\ eorsti' = TRUE /\ enabled' = FALSE /\ halted' = {}
            /\ EmptyTx /\ EmptyRx
            /\ UNCHANGED <<channel, uenum, udfnuml, usb_configuration, putVars,
                           flush_timer, heard>>

\* SET_CONFIGURATION; whether it ends a halt is left to the controller.
Configured(on) == /\ ~eorsti
                  /\ usb_configuration' = on
                  /\ flush_timer' = IF channel = "bridge" THEN 0 ELSE flush_timer
                  /\ uenum' = "tx" /\ enabled' = TRUE /\ halted' \in {halted, {}}
                  /\ EmptyTx /\ EmptyRx
                  /\ UNCHANGED <<channel, eorsti, udfnuml, putVars, heard>>
SetConfiguration == /\ upsets > 0 /\ upsets' = upsets - 1
                    /\ \E on \in BOOLEAN : Configured(on)
Configure == /\ ~(usb_configuration /\ enabled)
             /\ Configured(TRUE)
             /\ UNCHANGED upsets

\* CLEAR_FEATURE and SET_FEATURE of an endpoint, which is left selected, and any other
\* request.
HaltEnds(e) == /\ ~eorsti /\ enabled
               /\ uenum' = e /\ halted' = halted \ {e}
               /\ IF e = "tx" THEN EmptyTx ELSE UNCHANGED txVars
               /\ IF e = "rx" THEN EmptyRx ELSE UNCHANGED rxVars
               /\ UNCHANGED <<channel, enabled, eorsti, udfnuml, usb_configuration,
                              putVars, flush_timer, heard>>
ClearHalt(e) == upsets > 0 /\ upsets' = upsets - 1 /\ HaltEnds(e)
SetHalt(e) == /\ upsets > 0 /\ upsets' = upsets - 1
              /\ ~eorsti /\ enabled
              /\ uenum' = e /\ halted' = halted \union ({e} \ {"acm"})
              /\ UNCHANGED <<channel, txVars, rxVars, enabled, eorsti, udfnuml,
                             usb_configuration, putVars, flush_timer, heard>>
OtherRequest == /\ upsets > 0 /\ upsets' = upsets - 1
                /\ ~eorsti
                /\ uenum' = "control"
                /\ UNCHANGED <<channel, txVars, rxVars, enabled, halted, eorsti, udfnuml,
                               usb_configuration, putVars, flush_timer, heard>>

Requests == \/ BusReset \/ SetConfiguration \/ OtherRequest
            \/ \E e \in {"tx", "rx", "acm"} : ClearHalt(e) \/ SetHalt(e)

\* The host has to end a halt before it can go on.
Resume == \E e \in halted : HaltEnds(e) /\ UNCHANGED upsets

\* A packet without what fills it.
Content(p) == LET n == CHOOSE n \in 0 .. Len(p) : \A i \in 1 .. Len(p) : p[i] = Pad <=> i > n
              IN  SubSeq(p, 1, n)

\* The host collects a packet, and drops what fills it.
Collect == /\ enabled /\ "tx" \notin halted /\ released # <<>>
           /\ released' = Tail(released)
           /\ LET p == Content(Head(released)) IN
              /\ heard' = IF p = <<>> THEN heard ELSE p
              /\ accepted' = SubSeq(accepted, Len(p) + 1, Len(accepted))
           /\ UNCHANGED <<channel, rxVars, usbVars, putVars, flush_timer, bank>>
=============================================================================
