------------------------------- MODULE AdbHost -------------------------------
(***************************************************************************)
(* adb_controller.cpp: the client of AdbCodec that configures an ADB       *)
(* tablet and then polls it.  A request is repeated until the codec calls  *)
(* back without an error (and, for a talk, with data); then the next one   *)
(* of the dialogue is sent.  The last one, the status poll, is repeated    *)
(* for ever, and each of its answers becomes a pen event.                  *)
(***************************************************************************)
EXTENDS AdbCodec

VARIABLES step,          \* itsCurAdbState: the request of the dialogue ...
          awaiting,      \* ... and whether it has been sent (..._response)
          in_proximity, eraser_mode,
          penEvent       \* the last pen event: its bits and what they say

toolVars == <<in_proximity, eraser_mode, penEvent>>
allVars == <<vars, step, awaiting, toolVars>>

ToBits(n) == [i \in 1 .. W |-> (n \div 2^(W - i)) % 2]
BitOf(byte, k) == byte[W - k] = 1
LowNibble(byte) == byte[W] + 2 * byte[W-1] + 4 * byte[W-2] + 8 * byte[W-3]

ASSUME WidthAssumption == W >= 8 /\ MaxData >= 5

\* A report of five bytes is an old UltraPad's, whose bit 6 is always one.
ASSUME UltraPadAssumption == \A a \in Answers : Len(a) = 5 * W => a[W - 6] = 1

\* The header of a command (LISTEN 2, TALK 3) to the tablet, address 4.
Header(command, parameter) == ToBits(4 * 16 + 4 * command + parameter)

Talk(r) == [command |-> "talk", header |-> Header(3, r),
            data |-> NoData, datalen |-> 0]
Listen(r, msb, lsb) == [command |-> "listen", header |-> Header(2, r),
                        data |-> [NoData EXCEPT ![1] = ToBits(msb), ![2] = ToBits(lsb)],
                        datalen |-> 2]

\* The dialogue: who the tablet is, the registers that make it report as it should
\* and how it took that, and the poll.
Identify == Talk(1)
Set3 == Listen(3, 111, 104)
Check3 == Talk(3)
Set1 == Listen(1, 103, 104)
Check1 == Talk(1)
Check2 == Talk(2)
Set2 == << Listen(2, 83, 140), Listen(2, 48, 140) >>    \* GD_TRYOUTS
Status == Talk(0)
Dialog == << Identify, Set3, Check3, Set1, Check1, Check2, Set2[1], Set2[2], Status >>
ASSUME DialogAssumption == \A i \in 1 .. Len(Dialog) : Dialog[i] \in Requests

HostInit == /\ Init
            /\ step = 1 /\ awaiting = FALSE
            /\ in_proximity = FALSE /\ eraser_mode = FALSE
            /\ penEvent = [bits |-> <<>>, proximity |-> FALSE, eraser |-> FALSE]
-----------------------------------------------------------------------------
Send(n) == Prepare(Dialog[n]) /\ step' = n /\ awaiting' = TRUE

\* Slip: a request that failed starts the dialogue over.
SlipRequest == ~awaiting /\ Send(1) /\ UNCHANGED toolVars

Request == /\ ~awaiting
           /\ Send(step)
           /\ UNCHANGED toolVars

\* Slip: a talk that no device answered counts as done.
SlipFailed == lastError # 0

\* No use: the same request again, on the next turn of the main loop.
Failed == \/ lastError # 0
          \/ Dialog[step].command = "talk" /\ packet.datalen = 0

Reenter == /\ mpc = "respond"
           /\ awaiting
           /\ mpc' = "loop"
           /\ pending' = TRUE
           /\ awaiting' = FALSE
           /\ UNCHANGED <<state, icie, ocie, pulselevel, decodeVars, encodeVars,
                          packet, lastError, calls, preempted, busVars, step>>

Retry == Failed /\ Reenter /\ UNCHANGED toolVars

\* The response falls through to the next request.
Advance == /\ awaiting
           /\ ~Failed
           /\ step < Len(Dialog)
           /\ Send(step + 1)
           /\ UNCHANGED toolVars

\* Slip: the button code of every report decides, not of the first one only.
SlipDetectToolState(adb5) ==
    LET first == packet.data[1]
    IN  /\ in_proximity' = BitOf(first, 6)
        /\ eraser_mode' = (in_proximity' /\ ~adb5 /\ LowNibble(first) \in {4, 5})

\* detectToolState: the tool is decided when it comes into proximity, which
\* is bit 6 of the first byte (on an old UltraPad too, where it is always 1).
DetectToolState(adb5) ==
    LET first == packet.data[1]
    IN  /\ in_proximity' = BitOf(first, 6)
        /\ eraser_mode' = IF in_proximity' = in_proximity THEN eraser_mode
                          ELSE in_proximity' /\ ~adb5 /\ LowNibble(first) \in {4, 5}

\* status_response; an answer of five bytes is an old UltraPad's.
Report == /\ ~Failed
          /\ step = Len(Dialog)
          /\ Reenter
          /\ LET adb5 == packet.datalen = 5
             IN  /\ DetectToolState(adb5)
                 /\ penEvent' =
                      [bits |-> Bits(packet.datalen),
                       proximity |-> BitOf(packet.data[1], IF adb5 THEN 7 ELSE 6),
                       eraser |-> IF adb5 THEN penEvent.eraser ELSE eraser_mode']

Codec(A) == A /\ UNCHANGED <<step, awaiting, toolVars>>

MainLoop == Request \/ Retry \/ Advance \/ Report \/ Codec(Consume \/ Transfer)

HostNext == MainLoop \/ Codec(Timer) \/ Codec(Edge)

HostSpec == HostInit /\ [][HostNext]_allVars

\* The main loop turns, interrupts are served, a tablet that has begun to
\* answer goes on, and one that is asked again and again answers in the end.
Attended == Codec(TimeoutHeaderStopHighIn /\ answer' # <<>>)
HostFairSpec == /\ HostSpec
                /\ WF_allVars(MainLoop) /\ WF_allVars(Codec(Timer))
                /\ WF_allVars(Codec(Edge)) /\ SF_allVars(Attended)
-----------------------------------------------------------------------------
\* What the tablet has heard since the request was sent is the whole request,
\* and it is answering it with data if that is what the request is for.
Wire(r) == r.header \o <<0>> \o
           IF r.command = "talk" THEN <<>>
           ELSE <<1>> \o [i \in 1 .. r.datalen * W |->
                            r.data[(i - 1) \div W + 1][((i - 1) % W) + 1]] \o <<0>>
Obeyed == /\ awaiting
          /\ mpc \in {"loop", "respond"}
          /\ heard = Wire(Dialog[step])
          /\ Dialog[step].command = "talk" => answer # <<>>

\* The tablet obeys each request of the dialogue before it gets the next, is
\* never asked again what it has obeyed, and each pen event is its answer to a
\* poll, every bit of it (adb_controller_internal over adb_codec).
Session == INSTANCE AdbSession WITH obeyed <- IF Obeyed THEN <<answer>> ELSE <<>>,
                                    reported <- penEvent.bits
ImplementsSession == Session!SSpec

\* A tool is not turned over in the air: while pen events say it stays in
\* proximity they do not change its end (detectToolState).
EndIsKept == [][penEvent.proximity /\ penEvent'.proximity =>
                    penEvent'.eraser = penEvent.eraser]_penEvent

\* A tablet that attends is configured, and then polled for ever.
KeepsReporting == []<>(step = Len(Dialog) /\ awaiting /\ mpc = "respond" /\ ~Failed)
=============================================================================
