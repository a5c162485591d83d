-------------------------- MODULE Protocol5Handshake --------------------------
(***************************************************************************)
(* protocol5_serial.cpp and protocol4_serial.cpp until the tablet          *)
(* transmits.  A tablet that was powered on is at 9600 baud and silent,    *)
(* but one that a firmware already talked to before it was restarted is at *)
(* the speed it was told and may be transmitting.  initialState brings     *)
(* either back, asks for the model, and a good answer ends with both sides *)
(* at the configured speed.  The two protocols differ in the command that  *)
(* brings the tablet back, in the models supported, and in the speed that  *)
(* they tell the tablet: protocol IV knows only one, whatever is           *)
(* configured.                                                             *)
(*                                                                         *)
(* Each action of the firmware runs to its next delay, in which the tablet *)
(* (external) is assumed to obey what it was sent, and to answer it: the   *)
(* shortest delay, 10 ms, is 9 bytes at 9600 baud.  Bytes sent at another  *)
(* speed than the receiver's are noise: a command is not understood, and   *)
(* what the firmware hears is Chatter, assumed to hold no '~'.  The        *)
(* initial speed is assumed to be configured as 9600 baud; the normal one  *)
(* is any, and another after a restart (a new configuration is programmed  *)
(* into the board while the tablet stays on).                              *)
(***************************************************************************)
EXTENDS Naturals, Sequences, SequencesExt

CONSTANTS AnswerLen,    \* the bytes of a tablet's answer before its \r
          MaxRestarts, MaxFaults,    \* bounds
          MaxRing       \* bound: bytes the main loop is behind the line

ASSUME AnswerAssumption == AnswerLen \in Nat /\ AnswerLen > 2
ASSUME BoundAssumption == /\ MaxRestarts \in Nat /\ MaxFaults \in Nat
                          /\ MaxRing \in Nat

VARIABLES \* the tablet
          protocol,     \* EXTDATA_SLAVE_PROTOCOL
          model,        \* the letters that say what it is, one byte here
          baud, transmitting,
          reply,        \* what is left of an answer
          \* the line
          commands,     \* commands sent and not yet obeyed
          received,     \* serial.cpp's receive buffer
          faults,
          \* the firmware
          normal,       \* EXTDATA_SERIAL_PORT_SPEED
          port,         \* the speed of the USART
          pc,           \* where initialState or the change of speed waits, or "loop"
          itsCurState, buffer,
          restarts,
          reach         \* history: did this run find the tablet in reach?

tabletVars == <<protocol, model, baud, transmitting, reply>>
firmwareVars == <<normal, port, pc, itsCurState, buffer, restarts, reach>>
hvars == <<tabletVars, commands, received, faults, firmwareVars>>

Speed == {9600, 19200, 38400}
\* The letters of the models; a "K" has a ROM of version 1.2 or 1.3.
Model == {"G", "X", "U", "C", "K12", "K13", "other"}
Chatter == {"plain", "#", "\r"}
Byte == Chatter \union {"~"} \union Model
ModelLen == 20    \* the length parse_modelversion wants
Answer == <<"~", "#", model>> \o [i \in 1 .. AnswerLen - 3 |-> "plain"] \o <<"\r">>

Init == /\ \/ protocol = "V" /\ model \in {"G", "X", "other"}
           \/ protocol = "IV" /\ model \in {"U", "C", "K12", "K13", "other"}
        /\ baud = 9600
        /\ transmitting = FALSE /\ reply = <<>>
        /\ commands = <<>> /\ received = <<>> /\ faults = 0
        /\ normal \in Speed /\ port = 9600
        /\ pc = "restore" /\ itsCurState = "packet" /\ buffer = <<>> /\ restarts = 0
        /\ reach = TRUE
-----------------------------------------------------------------------------
(* The tablet.                                                              *)

\* A command, of what the tablet should do and a speed to do it at.
Obeyed(c) ==
    /\ baud' = CASE c.what = "BA" -> c.speed
                 [] c.what = "#" -> 9600    \* a factory reset
                 [] OTHER -> baud
    /\ transmitting' = ((transmitting \/ c.what = "ST") /\ c.what # "#")
    /\ reply' = CASE c.what = "#" -> <<>>
                  [] c.what = "~#" -> Answer
                  [] OTHER -> reply

Obey == /\ commands # <<>>
        /\ commands' = Tail(commands)
        /\ LET c == Head(commands)
           IN  \/ c.at = baud /\ Obeyed(c)
               \/ c.at # baud /\ UNCHANGED <<baud, transmitting, reply>>
        /\ UNCHANGED <<protocol, model, received, faults, firmwareVars>>

Reply == /\ reply # <<>>
         /\ pc = "loop" => Len(received) < MaxRing
         /\ reply' = Tail(reply)
         /\ \/ baud = port /\ received' = Append(received, Head(reply))
            \/ baud # port /\ received' = Append(received, "plain")
         /\ UNCHANGED <<protocol, model, baud, transmitting, commands, faults,
                        firmwareVars>>

\* A byte of an answer is lost or added, but none that frames it or says the model.
Garble == /\ faults < MaxFaults
          /\ reply # <<>> /\ Head(reply) = "plain"
          /\ faults' = faults + 1
          /\ \/ reply' = Tail(reply)
             \/ reply' = <<"plain">> \o reply
          /\ UNCHANGED <<protocol, model, baud, transmitting, commands, received,
                         firmwareVars>>

Transmit == /\ transmitting /\ reply = <<>>
            /\ Len(received) < MaxRing
            /\ \E b \in Chatter : received' = Append(received, b)
            /\ UNCHANGED <<tabletVars, commands, faults, firmwareVars>>
-----------------------------------------------------------------------------
(* The firmware.                                                            *)

\* setBaudRate empties the receive buffer.
SetSpeed(b) == port' = b /\ received' = <<>>
SendAt(b, what, speed) ==
    commands' = Append(commands, [what |-> what, speed |-> speed, at |-> b])
\* A delay, in which the tablet obeys and answers.
Delayed == commands = <<>> /\ reply = <<>>

\* Slip: the tablet is spoken to at 9600 baud only.
SlipRestore == /\ pc = "restore"
               /\ SetSpeed(9600) /\ SendAt(9600, "BA", 9600)
               /\ pc' = "restored"
               /\ UNCHANGED <<tabletVars, faults, normal, itsCurState, buffer, restarts,
                              reach>>
\* initialState of protocol V asks for 9600 baud first, that of IV for a reset.
Restore5 == SendAt(normal, "BA", 9600)
Restore4 == SendAt(normal, "#", 9600)

\* initialState: up to its first delay,
Restore == /\ pc = "restore"
           /\ SetSpeed(normal)
           /\ \/ protocol = "V" /\ Restore5
              \/ protocol = "IV" /\ Restore4
           /\ pc' = "restored"
           /\ UNCHANGED <<tabletVars, faults, normal, itsCurState, buffer, restarts, reach>>

\* up to its second,
Reset == /\ pc = "restored" /\ Delayed
         /\ SetSpeed(9600) /\ SendAt(9600, "#", 9600)
         /\ pc' = "reset"
         /\ UNCHANGED <<tabletVars, faults, normal, itsCurState, buffer, restarts, reach>>

\* and to its end.
Ask == /\ pc = "reset" /\ Delayed
       /\ itsCurState' = "modelversion"
       /\ SendAt(port, "~#", 9600)
       /\ buffer' = <<>>
       /\ pc' = "loop"
       /\ UNCHANGED <<tabletVars, received, faults, normal, port, restarts, reach>>

\* onSerialByteReceived: what a byte of the answer does to datalen and buffer ...
Waits(b) == (buffer = <<>> /\ b # "~") \/ (Len(buffer) = 1 /\ b # "#")
Wait(b) == /\ Waits(b)
           /\ buffer' = <<>>
           /\ UNCHANGED <<pc, commands>>
Collect(b) == /\ ~Waits(b) /\ b # "\r" /\ Len(buffer) < ModelLen
              /\ buffer' = Append(buffer, b)
              /\ UNCHANGED <<pc, commands>>

\* Slip: an answer of another length is dropped.
SlipRetry(b) == /\ ~Waits(b)
                /\ IF b = "\r" THEN Len(buffer) # ModelLen ELSE Len(buffer) >= ModelLen
                /\ buffer' = <<>>
                /\ UNCHANGED <<pc, commands>>
\* ... which calls initialState again if the answer is too long or too short, ...
Retry(b) == /\ ~Waits(b)
            /\ IF b = "\r" THEN Len(buffer) # ModelLen ELSE Len(buffer) >= ModelLen
            /\ pc' = "restore"
            /\ UNCHANGED <<buffer, commands>>

\* The tablets that parse_modelversion takes, and the speed they are told (by
\* enableFeatures, in protocol IV).
Supported5(m) == m \in {"G", "X"}
Supported4(m) == m \in {"U", "C", "K13"}
Supported(m) == \/ protocol = "V" /\ Supported5(m)
                \/ protocol = "IV" /\ Supported4(m)
Told5 == normal
Told4 == 19200
Told == IF protocol = "IV" THEN Told4 ELSE Told5

\* Slip: the tablet is told a speed it never gets to.
SlipAccept(b) == /\ ~Waits(b) /\ b = "\r" /\ Len(buffer) = ModelLen
                 /\ buffer' = <<>>
                 /\ \/ /\ Supported(buffer[3])
                       /\ SendAt(port, "BA", IF Told = 38400 THEN 38400 ELSE 19200)
                       /\ pc' = "changing"
                    \/ ~Supported(buffer[3]) /\ UNCHANGED <<pc, commands>>
\* ... and (enableFeatures included) changes the speed of a tablet it supports.
Accept(b) == /\ ~Waits(b) /\ b = "\r" /\ Len(buffer) = ModelLen
             /\ buffer' = <<>>
             /\ \/ /\ Supported(buffer[3])
                   /\ SendAt(port, "BA", Told)
                   /\ pc' = "changing"
                \/ ~Supported(buffer[3]) /\ UNCHANGED <<pc, commands>>

Receive == /\ pc = "loop" /\ received # <<>>
           /\ received' = Tail(received)
           /\ \/ /\ itsCurState = "modelversion"
                 /\ LET b == Head(received)
                    IN  Wait(b) \/ Collect(b) \/ Retry(b) \/ Accept(b)
              \/ /\ itsCurState = "packet"    \* Protocol5Serial
                 /\ UNCHANGED <<pc, buffer, commands>>
           /\ UNCHANGED <<tabletVars, faults, normal, port, itsCurState, restarts, reach>>

Start == /\ pc = "changing" /\ Delayed
         /\ SetSpeed(normal) /\ SendAt(normal, "ST", normal)
         /\ itsCurState' = "packet"
         /\ pc' = "loop"
         /\ UNCHANGED <<tabletVars, faults, normal, buffer, restarts, reach>>

\* serial::init.
SerialInit == SetSpeed(9600)

\* A tablet is in reach if it is at one of the two speeds that initialState tries,
\* and no command that is still on its way takes it to another.
InReach == /\ baud \in {9600, normal}
           /\ \A i \in 1 .. Len(commands) :
                 commands[i].what = "BA" => commands[i].speed \in {9600, normal}

\* The firmware starts again (init), perhaps after an update with another
\* configuration; the tablet does not.
Restart == /\ restarts < MaxRestarts
           /\ restarts' = restarts + 1
           /\ SerialInit
           /\ commands' \in {commands, <<>>}
           /\ normal' \in Speed
           /\ pc' = "restore" /\ itsCurState' = "packet" /\ buffer' = <<>>
           /\ UNCHANGED <<tabletVars, faults>>
           /\ reach' = InReach'

Firmware == Restore \/ Reset \/ Ask \/ Receive \/ Start
Next == Obey \/ Reply \/ Garble \/ Transmit \/ Firmware \/ Restart

Spec == Init /\ [][Next]_hvars
\* The main loop runs, and a tablet obeys and answers.
FairSpec == Spec /\ WF_hvars(Firmware) /\ WF_hvars(Obey) /\ WF_hvars(Reply)
-----------------------------------------------------------------------------
\* The protocol IV tablet is told 19200 baud, so that this must be configured.
WellConfigured == protocol = "IV" => normal = 19200

\* After the reset a tablet that was in reach is at 9600 baud and silent, wherever in
\* the handshake or in its reports earlier runs of the firmware, of this or other
\* configurations, left it ("if not already, we should now be at 9600 baud at this
\* point", initialState of protocol V; "attempt to reset the board to 9600 bauds", of
\* protocol IV).  One that a run with another configuration left at a speed of its
\* own is not in reach, and stays there.
At9600 == pc = "reset" /\ Delayed /\ reach => baud = 9600 /\ ~transmitting

\* The firmware takes bytes for packets only at the speed the tablet, one that
\* it supports, sends them at, in reach or not (onSerialByteReceived).
SpeedsAgree == WellConfigured /\ pc = "loop" /\ itsCurState = "packet" =>
                  baud = port /\ port = normal /\ Supported(model)

\* After the last restart, whatever it left behind and however often a byte of
\* the answer is lost or added ("retry !", parse_modelversion), a tablet that is
\* supported and in reach transmits to a firmware that listens.
Connected == /\ pc = "loop" /\ itsCurState = "packet"
             /\ transmitting /\ baud = port
Connects == <>[](WellConfigured /\ Supported(model) /\ reach) => <>[]Connected
=============================================================================
