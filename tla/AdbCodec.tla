------------------------------ MODULE AdbCodec ------------------------------
(***************************************************************************)
(* adb_codec.cpp: the interrupt-driven codec of an ADB host.  A client in  *)
(* the main loop fills a packet and calls initiateAdbTransfer; from there  *)
(* two interrupts do all the work: timer 3's compare match (the actions    *)
(* Timeout...) and its input capture (the actions Capture...).  When the   *)
(* transfer is over they call the client back, still in the interrupt.     *)
(* Nothing masks them while the main loop prepares the next transfer.      *)
(*                                                                         *)
(* A byte is a sequence of W bits.  Times are in microseconds.  The bus is *)
(* either Noisy (any pulse at any time) or clean: then only a device that  *)
(* follows the protocol pulls it low, with the pulses of `script'.         *)
(***************************************************************************)
EXTENDS Integers, Sequences

CONSTANTS W,            \* bits in a byte (8)
          MaxData,      \* bytes of data in a packet (8)
          IndexMod,     \* values of encodeData_byteindex, a byte (256)
          Requests,     \* the packets the client may send
          Noisy,        \* can the line carry anything?
          Pulses,       \* the pulse lengths of a noisy line
          Answers,      \* the answers a device gives: sequences of bits
          MaxPreempt    \* bound: timeouts served while initiateAdbTransfer runs

Bit == {0, 1}
AdbByte == [1 .. W -> Bit]
NoData == [i \in 1 .. MaxData |-> [b \in 1 .. W |-> 0]]

Packet == [command : {"talk", "listen"}, header : AdbByte,
           data : [1 .. MaxData -> AdbByte], datalen : 0 .. MaxData]

ASSUME WAssumption == W \in Nat \ {0}
ASSUME DataAssumption == /\ MaxData \in Nat /\ MaxData > 0
                         /\ IndexMod \in Nat /\ IndexMod > MaxData
ASSUME RequestsAssumption ==
          /\ Requests \subseteq Packet
          /\ \A r \in Requests : IF r.command = "talk" THEN r.datalen = 0
                                                       ELSE r.datalen > 0
ASSUME PulsesAssumption == Pulses \subseteq Nat
ASSUME PreemptAssumption == MaxPreempt \in Nat
ASSUME AnswersAssumption ==
          \A a \in Answers : /\ a \in Seq(Bit)
                             /\ Len(a) % W = 0 /\ Len(a) <= W * MaxData

BIT_TIME_MIN == 70
BIT_TIME_MAX == 130
\* Slip: the longest gap of another edition of the standard, less its margin.
SlipGap == 140
STOP2START_MIN == 85
STOP2START_MAX == 260
LowTime(bit) == IF bit = 1 THEN 35 ELSE 65
HighTime(bit) == IF bit = 1 THEN 65 ELSE 35

Sending == {"idle", "attention", "sync", "header", "header_stop",
            "stop_to_start_out", "start_out", "data_out", "stop_out",
            "finished"}
Receiving == {"header_stop_high_in", "stop_to_start_in", "start_in", "data_in"}
State == Sending \union Receiving \union {"inactive"}

VARIABLES
  state,        \* the codec's state
  icie,         \* ICIE3: input capture interrupt enabled
  ocie,         \* OCIE3A: timeout interrupt enabled
  waitingOn,    \* the edge the next capture waits for
  pulselevel,   \* level of the pulse that just ended
  lowTime,      \* decodeBitLowTime
  decoded,      \* decodeData_byte: the bits received so far (decodeBitNumber
                \* is the number of those still to come)
  encBits,      \* encodedBits: bits of byteToEncode already sent
  encByte,      \* byteToEncode, before it is shifted
  encIndex,     \* encodeData_byteindex
  packet,       \* *itsAdbPacket, which the client reads and writes
  \* the client (adb_transaction_done and the main loop)
  pending,      \* adbTransactionPending
  lastError,    \* adbLastErrorStatus
  mpc,          \* where the main loop is
  preempted,    \* timeouts served since the main loop saw the callback
  \* the bus and the device
  script,       \* pulses the device has still to send
  answer,       \* history: the bits of the answer it is sending
  heard,        \* history: the bits the host sent in this transfer (clean bus)
  lowFor,       \* how long the host has been holding the bus low
  calls         \* history: callbacks since the transfer began (2: more than 1)

decodeVars == <<waitingOn, lowTime, decoded>>
encodeVars == <<encBits, encByte, encIndex>>
clientVars == <<pending, lastError, calls>>
busVars    == <<script, answer, heard, lowFor>>
vars == <<state, icie, ocie, pulselevel, decodeVars, encodeVars, packet,
          clientVars, mpc, preempted, busVars>>

Init == /\ state = "idle" /\ icie = FALSE /\ ocie = FALSE
        /\ waitingOn = "fall" /\ pulselevel = "low"
        /\ lowTime = 0 /\ decoded = <<>>
        /\ encBits = 0 /\ encByte = NoData[1] /\ encIndex = 0
        /\ packet = [command |-> "talk", header |-> NoData[1],
                     data |-> NoData, datalen |-> 0]
        /\ pending = TRUE /\ lastError = 0 /\ calls = 0
        /\ mpc = "loop" /\ preempted = 0
        /\ script = <<>> /\ answer = <<>> /\ heard = <<>> /\ lowFor = 0
-----------------------------------------------------------------------------
(* The client's side: main loop.                                            *)

\* adb_controller_internal takes note of the callback ...
Consume == /\ mpc = "loop"
           /\ pending
           /\ pending' = FALSE
           /\ mpc' = "respond"
           /\ preempted' = 0
           /\ UNCHANGED <<state, icie, ocie, pulselevel, decodeVars, encodeVars,
                          packet, lastError, calls, busVars>>

\* Slip: the length of the last answer is left in the packet.
SlipPrepare(r) == /\ mpc = "respond"
                  /\ packet' = [r EXCEPT !.datalen = packet.datalen,
                                         !.data = packet.data]
                  /\ mpc' = "captureOff"
                  /\ UNCHANGED <<state, icie, ocie, pulselevel, decodeVars,
                                 encodeVars, preempted, clientVars, busVars>>

\* ... and fills the packet anew (a talk leaves the data alone).
Prepare(r) == /\ mpc = "respond"
              /\ packet' = [r EXCEPT !.data =
                               IF r.command = "talk" THEN packet.data ELSE @]
              /\ mpc' = "captureOff"
              /\ UNCHANGED <<state, icie, ocie, pulselevel, decodeVars,
                             encodeVars, preempted, clientVars, busVars>>

\* initiateAdbTransfer: resetDecoder stops the capture, then the timer ...
CaptureOff == /\ mpc = "captureOff"
              /\ icie' = FALSE
              /\ mpc' = "timerOff"
              /\ UNCHANGED <<state, ocie, pulselevel, decodeVars, encodeVars,
                             preempted, packet, clientVars, busVars>>

TimerOff == /\ mpc = "timerOff"
            /\ ocie' = FALSE
            /\ mpc' = "begin"
            /\ UNCHANGED <<state, icie, pulselevel, decodeVars, encodeVars,
                           preempted, packet, clientVars, busVars>>

\* ... and the transfer begins.
Begin == /\ mpc = "begin"
         /\ state' = "idle"
         /\ ocie' = TRUE
         /\ calls' = 0
         /\ heard' = <<>> /\ lowFor' = 0
         /\ script' = <<>> /\ answer' = <<>>
         /\ mpc' = "loop"
         /\ UNCHANGED <<icie, pulselevel, decodeVars, encodeVars, packet,
                        pending, lastError, preempted>>

Transfer == CaptureOff \/ TimerOff \/ Begin

\* Any client: it sends any request.
Client == Consume \/ Transfer \/ \E r \in Requests : Prepare(r)
-----------------------------------------------------------------------------
(* What the interrupts do: callbacks, the line, the encoder.                *)

\* Slip: the client keeps the code and forgets to ask for its turn.
SlipCallback(code, n) == /\ lastError' = code
                         /\ calls' = IF calls + n > 2 THEN 2 ELSE calls + n
                         /\ UNCHANGED pending

\* n calls of itsDoneCallback, the last one with this code.
Callback(code, n) == /\ pending' = TRUE
                     /\ lastError' = code
                     /\ calls' = IF calls + n > 2 THEN 2 ELSE calls + n
NoCallback == UNCHANGED clientVars

ResetDecoder == icie' = FALSE /\ ocie' = FALSE

\* adb_forcelow for so long, then adb_highimpedance: the device hears a bit.
ForceLow(us) == lowFor' = us /\ UNCHANGED <<script, answer, heard>>
Release == /\ heard' = IF Noisy THEN <<>>
                        ELSE Append(heard, IF lowFor = LowTime(1) THEN 1 ELSE 0)
           /\ lowFor' = 0
           /\ UNCHANGED <<script, answer>>

\* encodeByte, with bits of the byte left: the low or the high half of bit n.
EncodeBit(byte, n, level) ==
    /\ encByte' = byte
    /\ IF level = "high"
       THEN ForceLow(LowTime(byte[n + 1])) /\ pulselevel' = "low" /\ encBits' = n
       ELSE Release /\ pulselevel' = "high" /\ encBits' = n + 1

\* The data byte at an index (past the array: other memory).
DataByte(i) == IF i < MaxData THEN packet.data[i + 1] ELSE NoData[1]

\* A device that is answering pulls the bus low before the host times out.
Silent == Noisy \/ script = <<>>

\* The compare match interrupt in state s, on to state t.
Timeout(s, t) == /\ ocie /\ state = s /\ state' = t
                 /\ IF mpc = "loop" THEN UNCHANGED preempted
                    ELSE preempted < MaxPreempt /\ preempted' = preempted + 1
                 /\ UNCHANGED mpc
\* Slip: a state that does not call setTimeout.
SlipRearmed == ocie' = FALSE /\ UNCHANGED <<icie, clientVars, decodeVars>>

\* ... which has been armed again.
Rearmed == UNCHANGED <<icie, ocie, clientVars, decodeVars>>
-----------------------------------------------------------------------------
(* timeoutInterrupt while the host sends.                                   *)

TimeoutIdle == /\ Timeout("idle", "attention")
               /\ ForceLow(800)
               /\ Rearmed /\ UNCHANGED <<pulselevel, encodeVars, packet>>

TimeoutAttention == /\ Timeout("attention", "sync")
                    /\ encByte' = packet.header /\ encBits' = 0
                    /\ pulselevel' = "high"
                    /\ lowFor' = 0 /\ heard' = <<>>
                    /\ Rearmed /\ UNCHANGED <<encIndex, packet, script, answer>>

TimeoutHeader == /\ \/ /\ encBits < W
                       /\ Timeout("sync", "header") \/ Timeout("header", "header")
                       /\ EncodeBit(encByte, encBits, pulselevel)
                    \/ /\ encBits = W
                       /\ Timeout("header", "header_stop")
                       /\ ForceLow(LowTime(0))
                       /\ UNCHANGED <<pulselevel, encBits, encByte>>
                 /\ Rearmed /\ UNCHANGED <<encIndex, packet>>

TimeoutHeaderStop == /\ \/ /\ packet.command = "talk"
                           /\ Timeout("header_stop", "header_stop_high_in")
                        \/ /\ packet.command # "talk"
                           /\ Timeout("header_stop", "stop_to_start_out")
                     /\ Release
                     /\ Rearmed /\ UNCHANGED <<pulselevel, encodeVars, packet>>

TimeoutStopToStartOut == /\ Timeout("stop_to_start_out", "start_out")
                         /\ ForceLow(LowTime(1))
                         /\ Rearmed /\ UNCHANGED <<pulselevel, encodeVars, packet>>

TimeoutStartOut == /\ Timeout("start_out", "data_out")
                   /\ Release
                   /\ encIndex' = 0 /\ encByte' = DataByte(0) /\ encBits' = 0
                   /\ pulselevel' = "high"
                   /\ Rearmed /\ UNCHANGED packet

\* Slip: the index is compared before it is incremented.
SlipDataOut ==
    /\ \/ /\ encBits < W
          /\ Timeout("data_out", "data_out")
          /\ EncodeBit(encByte, encBits, pulselevel)
          /\ UNCHANGED encIndex
       \/ /\ encBits = W
          /\ encIndex' = (encIndex + 1) % IndexMod
          /\ \/ /\ encIndex = packet.datalen
                /\ Timeout("data_out", "stop_out")
                /\ ForceLow(LowTime(0))
                /\ UNCHANGED <<pulselevel, encBits, encByte>>
             \/ /\ encIndex # packet.datalen
                /\ Timeout("data_out", "data_out")
                /\ EncodeBit(DataByte(encIndex'), 0, "high")
    /\ Rearmed /\ UNCHANGED packet

TimeoutDataOut ==
    /\ \/ /\ encBits < W
          /\ Timeout("data_out", "data_out")
          /\ EncodeBit(encByte, encBits, pulselevel)
          /\ UNCHANGED encIndex
       \/ /\ encBits = W
          /\ encIndex' = (encIndex + 1) % IndexMod
          /\ \/ /\ encIndex' = packet.datalen
                /\ Timeout("data_out", "stop_out")
                /\ ForceLow(LowTime(0))
                /\ UNCHANGED <<pulselevel, encBits, encByte>>
             \/ /\ encIndex' # packet.datalen
                /\ Timeout("data_out", "data_out")
                /\ EncodeBit(DataByte(encIndex'), 0, "high")
    /\ Rearmed /\ UNCHANGED packet

TimeoutStopOut == /\ Timeout("stop_out", "finished")
                  /\ Release
                  /\ Rearmed /\ UNCHANGED <<pulselevel, encodeVars, packet>>

TimeoutFinished == /\ Timeout("finished", "inactive")
                   /\ Callback(0, 1)
                   /\ ResetDecoder
                   /\ UNCHANGED <<pulselevel, decodeVars, encodeVars, packet,
                                   busVars>>
-----------------------------------------------------------------------------
(* timeoutInterrupt while the host listens.                                 *)

\* The pulses of an answer: the gap, the start bit, the bits, the stop bit.
AnswerPulses(a) == LET bits == <<1>> \o a
                   IN  <<150>> \o
                       [i \in 1 .. 2 * Len(bits) |->
                            IF i % 2 = 1 THEN LowTime(bits[(i + 1) \div 2])
                                         ELSE HighTime(bits[(i + 1) \div 2])]
                       \o <<LowTime(0)>>

\* Capture on; the device answers or keeps silent (an empty answer).
TimeoutHeaderStopHighIn ==
    /\ Timeout("header_stop_high_in", "stop_to_start_in")
    /\ waitingOn' = "fall"
    /\ icie' = TRUE
    /\ \E a \in IF Noisy THEN {<<>>} ELSE Answers :
          /\ answer' = a
          /\ script' = IF a = <<>> THEN <<>> ELSE AnswerPulses(a)
    /\ UNCHANGED <<ocie, clientVars, lowTime, decoded, pulselevel, encodeVars,
                   packet, heard, lowFor>>

\* Slip: the host goes on waiting for a device that is not there.
SlipStopToStartIn == /\ Silent
                     /\ Timeout("stop_to_start_in", "stop_to_start_in")
                     /\ Rearmed
                     /\ UNCHANGED <<pulselevel, encodeVars, packet, busVars>>

\* No device: a transfer without data, and no error.
TimeoutStopToStartIn == /\ Silent
                        /\ Timeout("stop_to_start_in", "stop_to_start_in")
                        /\ Callback(0, 1)
                        /\ ResetDecoder
                        /\ UNCHANGED <<pulselevel, decodeVars, encodeVars, packet,
                                   busVars>>

\* Silence in the start bit falls in the default of the switch.
TimeoutStartIn == /\ Silent
                  /\ Timeout("start_in", "idle")
                  /\ ocie' = FALSE
                  /\ NoCallback
                  /\ UNCHANGED <<icie, pulselevel, decodeVars, encodeVars, packet,
                                  busVars>>

\* Silence after the stop bit ends the packet.
TimeoutDataIn == /\ Silent
                 /\ Timeout("data_in", "inactive")
                 /\ IF packet.datalen > 0 /\ Len(decoded) = 0
                    THEN Callback(0, 1) ELSE Callback(20, 1)
                 /\ ResetDecoder
                 /\ UNCHANGED <<pulselevel, decodeVars, encodeVars, packet,
                                   busVars>>
-----------------------------------------------------------------------------
(* inputCaptureInterrupt, for a pulse of p microseconds that just ended.    *)

Level == IF waitingOn = "fall" THEN "high" ELSE "low"

Capture(s, p) ==
    /\ icie /\ state = s
    /\ IF Noisy THEN p \in Pulses /\ UNCHANGED script
                ELSE script # <<>> /\ p = Head(script) /\ script' = Tail(script)
    /\ waitingOn' = IF waitingOn = "fall" THEN "rise" ELSE "fall"
    /\ pulselevel' = Level
    /\ UNCHANGED <<encodeVars, mpc, preempted, answer, heard, lowFor>>

CaptureStopToStartIn(p) ==
    /\ Capture("stop_to_start_in", p)
    /\ \/ /\ p \in STOP2START_MIN .. STOP2START_MAX
          /\ state' = "start_in"
          /\ NoCallback /\ UNCHANGED <<icie, ocie>>
       \/ /\ p \notin STOP2START_MIN .. STOP2START_MAX
          /\ state' = "inactive"
          /\ Callback(IF p < STOP2START_MIN THEN 13 ELSE 14, 1)
          /\ ResetDecoder
    /\ UNCHANGED <<lowTime, decoded, packet>>

CaptureStartLow(p) == /\ Capture("start_in", p)
                      /\ Level = "low"
                      /\ lowTime' = p
                      /\ NoCallback
                      /\ UNCHANGED <<state, icie, ocie, decoded, packet>>

BitTimeOK(p) == lowTime + p \in BIT_TIME_MIN .. BIT_TIME_MAX

\* A bad start bit is reported (once or twice) and the data read all the same.
CaptureStartHigh(p) ==
    /\ Capture("start_in", p)
    /\ Level = "high"
    /\ CASE p < lowTime -> Callback(16, IF BitTimeOK(p) THEN 1 ELSE 2)
         [] p >= lowTime /\ ~BitTimeOK(p) -> Callback(15, 1)
         [] OTHER -> NoCallback
    /\ state' = "data_in"
    /\ packet' = [packet EXCEPT !.datalen = 0]
    /\ decoded' = <<>>
    /\ UNCHANGED <<icie, ocie, lowTime>>

CaptureDataLow(p) == /\ Capture("data_in", p)
                     /\ Level = "low"
                     /\ lowTime' = p
                     /\ ocie' = TRUE
                     /\ NoCallback
                     /\ UNCHANGED <<state, icie, decoded, packet>>

PacketFull == packet.datalen >= MaxData

\* A failure sends the codec to idle with the timer armed and capture on.
DataFailure(code) == Callback(code, 1) /\ state' = "idle" /\ UNCHANGED packet

CaptureDataHigh(p) ==
    /\ Capture("data_in", p)
    /\ Level = "high"
    /\ ocie' = TRUE
    /\ \/ /\ ~BitTimeOK(p)
          /\ DataFailure(IF lowTime + p < BIT_TIME_MIN THEN 17 ELSE 18)
          /\ UNCHANGED decoded
       \/ /\ BitTimeOK(p)
          /\ LET bits == Append(decoded, IF lowTime < p THEN 1 ELSE 0) IN
             \/ /\ Len(bits) < W
                /\ decoded' = bits
                /\ NoCallback /\ UNCHANGED <<state, packet>>
             \/ /\ Len(bits) = W /\ ~PacketFull
                /\ decoded' = <<>>
                /\ packet' = [packet EXCEPT
                                 !.data[packet.datalen + 1] = bits,
                                 !.datalen = @ + 1]
                /\ NoCallback /\ UNCHANGED state
             \/ /\ Len(bits) = W /\ PacketFull
                /\ decoded' = bits
                /\ DataFailure(19)
    /\ UNCHANGED <<icie, lowTime>>

\* An edge in any other state is an error, reported to the client.
CaptureOther(p) == \E s \in State \ {"stop_to_start_in", "start_in", "data_in"} :
                      /\ Capture(s, p)
                      /\ Callback(21, 1)
                      /\ UNCHANGED <<state, icie, ocie, lowTime, decoded, packet>>
-----------------------------------------------------------------------------
Timer == \/ TimeoutIdle \/ TimeoutAttention \/ TimeoutHeader
         \/ TimeoutHeaderStop \/ TimeoutStopToStartOut \/ TimeoutStartOut
         \/ TimeoutDataOut \/ TimeoutStopOut \/ TimeoutFinished
         \/ TimeoutHeaderStopHighIn \/ TimeoutStopToStartIn
         \/ TimeoutStartIn \/ TimeoutDataIn

CaptureAny(p) == \/ CaptureStopToStartIn(p) \/ CaptureStartLow(p)
                 \/ CaptureStartHigh(p) \/ CaptureDataLow(p)
                 \/ CaptureDataHigh(p) \/ CaptureOther(p)

\* A pulse comes from the noise or from the device.
Edge == \E p \in IF Noisy THEN Pulses ELSE {35, 65, 150} : CaptureAny(p)

Next == Client \/ Timer \/ Edge

Spec == Init /\ [][Next]_vars

\* The main loop runs, an armed timer fires, an answering device goes on.
FairSpec == Spec /\ WF_vars(Client) /\ WF_vars(Timer)
                 /\ (Noisy \/ WF_vars(Edge))
-----------------------------------------------------------------------------
\* While it drives the bus the codec always has its timer armed: it cannot
\* stop half-way through a bit and hold the bus low.
Armed == state \in Sending \ {"idle"} /\ mpc # "begin" => ocie

\* A client that waits for its callback waits for an interrupt that can come.
NeverDeaf == mpc = "loop" /\ ~pending => ocie \/ icie

\* "When finished, callbackfct(uint8_t errorCode) will be called."
AlwaysAnswered == ~pending ~> pending

Answered == mpc = "loop" /\ pending /\ calls > 0

\* On a clean line there is one callback per transfer, without an error, and it is
\* the end of the transfer ("callback to invoke when done"): the codec is silent
\* and deaf until the client asks again.
OneCallback == /\ calls <= 1
               /\ Answered => lastError = 0
               /\ mpc = "loop" /\ pending => ~ocie /\ ~icie

Bits(n) == [i \in 1 .. n * W |-> packet.data[(i - 1) \div W + 1][((i - 1) % W) + 1]]

\* What the device hears is the request, bit for bit: header and stop bit, and
\* for a listen the start bit, every data byte and a stop bit.
HeardIsRequest ==
    Answered => heard = (packet.header \o <<0>> \o
                         IF packet.command = "talk" THEN <<>>
                         ELSE <<1>> \o Bits(packet.datalen) \o <<0>>)

\* What the client reads is what the device answered, all of it, or nothing.
DataIsAnswer == Answered /\ packet.command = "talk" =>
                    Bits(packet.datalen) = answer
=============================================================================
