------------------------------- MODULE UsbUtil -------------------------------
(***************************************************************************)
(* usb_util.cpp: the main loop's side of what keeps a driver happy on an   *)
(* idle tablet.  A pen packet is sent once more when none followed it for  *)
(* a while, and an Intuos5 also sends dummy packets periodically, each by  *)
(* a countdown that the 5 ms interrupt takes to 1.  Meanwhile the main     *)
(* loop may wait in usb_send_packet, of which only what UsbPipe promises   *)
(* is used here.                                                           *)
(*                                                                         *)
(* Two countdowns are bytes; the third has 16 bits, which the main loop    *)
(* loads and stores one byte at a time, in the order the compiler chose.   *)
(* Its value is loaded once for the two comparisons.                       *)
(***************************************************************************)
EXTENDS UsbPipe, Integers

CONSTANTS InitCalled,     \* may main have called init? ({FALSE}; or BOOLEAN)
          PenEndpoint, TouchEndpoint, ReportEndpoint,   \* 3, 2 and 3
          PenPacket, Touch, Report, Empty,    \* Data: packets of each kind
          IdleTicks,      \* EXTDATA_IDLE_TIME_LIMIT_MS / 5
          TouchFirst,     \* the touch dummies: the first countdown (250) ...
          TouchPeriod,    \* ... and the others (200)
          ReportPeriod,   \* the report's (1000)
          Window,         \* a countdown below this has ended (5)
          Radix           \* values of a byte (256)

ASSUME PacketAssumption == /\ PenPacket \union {Touch, Report, Empty} \subseteq Data
                           /\ {PenEndpoint, TouchEndpoint, ReportEndpoint}
                                 \subseteq Endpoint
                           /\ Banks \in Nat
ASSUME PeriodAssumption ==
          /\ InitCalled \subseteq BOOLEAN
          /\ Radix \in Nat /\ Window \in 2 .. Radix
          /\ {IdleTicks, TouchFirst, TouchPeriod} \subseteq 1 .. Radix - 1
          /\ ReportPeriod \in Nat /\ ReportPeriod % Radix # 0

VARIABLES mpc,          \* where the main loop is
          filler,       \* filler_countdown_5ms
          touch,        \* dummy_intuos5_touch_filler_countdown_5ms
          report,       \* dummy_report192_intuos5_countdown_5ms
          tmp,          \* the value of it being loaded
          repeat_buffer, repeat_size,
          idle,         \* history: ticks since the last pen packet
          since         \* history: ticks since the last dummy report

utilVars == <<mpc, filler, touch, report, tmp, repeat_buffer, repeat_size, idle, since>>
uvars == <<pvars, utilVars>>

\* The header says that init needs to be called at startup; main does not, so
\* that the countdowns of the dummies never start.
UtilInit == /\ PInit
            /\ mpc = "loop"
            /\ \E called \in InitCalled :
                  /\ touch = IF called THEN TouchFirst ELSE 0
                  /\ report = IF called THEN ReportPeriod ELSE 0
            /\ filler = 0 /\ tmp = 0
            /\ repeat_buffer = Empty /\ repeat_size = "empty"
            /\ idle = 0 /\ since = ReportPeriod

\* One half of a and the other of b.
Mix(a, b) == { Radix * (a \div Radix) + (b % Radix),
               Radix * (b \div Radix) + (a % Radix) }
-----------------------------------------------------------------------------
(* The main loop, which calls usb_send_packet and waits for its return.     *)

Goto(from, to) == call = <<>> /\ mpc = from /\ mpc' = to

\* Slip: a new packet does not start the countdown over.
SlipSendPenPacket(d) ==
    /\ Goto("loop", "filler")
    /\ filler' = IF filler = 0 THEN IdleTicks ELSE filler
    /\ repeat_buffer' = d
    /\ idle' = 0
    /\ Ask(PenEndpoint, d)
    /\ UNCHANGED <<touch, report, tmp, repeat_size, since>>

\* send_packet_fill_idle_time, which leaves repeat_size as it is.
SendPenPacket(d) ==
    /\ Goto("loop", "filler")
    /\ filler' = IdleTicks
    /\ repeat_buffer' = d
    /\ idle' = 0
    /\ Ask(PenEndpoint, d)
    /\ UNCHANGED <<touch, report, tmp, repeat_size, since>>

NoPenPacket == /\ Goto("loop", "filler")
               /\ UNCHANGED <<pvars, filler, touch, report, tmp, repeat_buffer,
                              repeat_size, idle, since>>

\* main_loop: the packet is sent again, as many bytes of it as repeat_size says.
Repeated == IF repeat_size = "empty" THEN Empty ELSE repeat_buffer
Fill == /\ Goto("filler", "report")
        /\ filler = 1
        /\ filler' = 0
        /\ Ask(PenEndpoint, Repeated)
        /\ UNCHANGED <<touch, report, tmp, repeat_buffer, repeat_size, idle, since>>

NoFill == /\ Goto("filler", "report")
          /\ filler # 1
          /\ UNCHANGED <<pvars, filler, touch, report, tmp, repeat_buffer,
                         repeat_size, idle, since>>

\* The report's countdown: one half is loaded, then the other, ...
LoadReport == /\ Goto("report", "reportLoaded")
              /\ tmp' = report
              /\ UNCHANGED <<pvars, filler, touch, report, repeat_buffer,
                             repeat_size, idle, since>>

\* Slip: 0, too, which is what 256 looks like when it becomes 255.
SlipEnded(countdown) == countdown < Window

Ended(countdown) == countdown \in 1 .. Window - 1

TestReport == /\ call = <<>> /\ mpc = "reportLoaded"
              /\ \E v \in Mix(tmp, report) :
                    mpc' = IF Ended(v) THEN "reportClear" ELSE "touch"
              /\ UNCHANGED <<pvars, filler, touch, report, tmp, repeat_buffer,
                             repeat_size, idle, since>>

\* ... it is cleared (one half, then the other) and the packet sent, which
\* counts as one that is not to be repeated ...
ClearHalf == /\ Goto("reportClear", "reportCleared")
             /\ report' \in Mix(report, 0)
             /\ tmp' = report'
             /\ UNCHANGED <<pvars, filler, touch, repeat_buffer, repeat_size,
                            idle, since>>

SendReport == /\ Goto("reportCleared", "reportSent")
              /\ report' = 0
              /\ filler' = 0
              /\ since' = 0
              /\ Ask(ReportEndpoint, Report)
              /\ UNCHANGED <<touch, tmp, repeat_buffer, repeat_size, idle>>

\* ... and set again.
SetHalf == /\ Goto("reportSent", "reportSet")
           /\ report' \in Mix(report, ReportPeriod)
           /\ tmp' = report'
           /\ UNCHANGED <<pvars, filler, touch, repeat_buffer, repeat_size,
                          idle, since>>

\* The half that was not stored last is what the interrupt left of it.
SetDone == /\ Goto("reportSet", "touch")
           /\ report' = IF tmp % Radix = ReportPeriod % Radix
                        THEN Radix * (ReportPeriod \div Radix) + (report % Radix)
                        ELSE Radix * (report \div Radix) + (ReportPeriod % Radix)
           /\ UNCHANGED <<pvars, filler, touch, tmp, repeat_buffer, repeat_size,
                          idle, since>>

SendTouch == /\ Goto("touch", "touchSent")
             /\ Ended(touch)
             /\ touch' = 0
             /\ filler' = 0
             /\ Ask(TouchEndpoint, Touch)
             /\ UNCHANGED <<report, tmp, repeat_buffer, repeat_size, idle, since>>

TouchSent == /\ Goto("touchSent", "loop")
             /\ touch' = TouchPeriod
             /\ UNCHANGED <<pvars, filler, report, tmp, repeat_buffer,
                            repeat_size, idle, since>>

NoTouch == /\ Goto("touch", "loop")
           /\ ~Ended(touch)
           /\ UNCHANGED <<pvars, filler, touch, report, tmp, repeat_buffer,
                          repeat_size, idle, since>>
-----------------------------------------------------------------------------
\* Slip: the countdowns go to 0, which means that there is none.
SlipCounted(n) == IF n > 0 THEN n - 1 ELSE n

Counted(n) == IF n > 1 THEN n - 1 ELSE n

\* timer_5ms_intr, which comes at most once between the two halves of an access.
HalfDone == mpc \in {"reportLoaded", "reportCleared", "reportSet"}
Tick == /\ HalfDone => report = tmp
        /\ touch' = Counted(touch) /\ report' = Counted(report)
        /\ filler' = Counted(filler)
        /\ idle' = IF idle < IdleTicks THEN idle + 1 ELSE idle
        /\ since' = IF since < ReportPeriod THEN since + 1 ELSE since
        /\ UNCHANGED <<pvars, mpc, tmp, repeat_buffer, repeat_size>>

Loop == \/ NoPenPacket \/ Fill \/ NoFill
        \/ LoadReport \/ TestReport \/ ClearHalf \/ SendReport \/ SetHalf \/ SetDone
        \/ SendTouch \/ TouchSent \/ NoTouch
        \/ \E d \in PenPacket : SendPenPacket(d)

Waiting == (Put \/ Refuse) /\ UNCHANGED utilVars

Host == /\ \/ \E e \in Endpoint : Take(e)
           \/ \E E \in SUBSET Endpoint : Drop(E)
        /\ UNCHANGED utilVars

UtilNext == Loop \/ Waiting \/ Tick \/ Host

UtilSpec == UtilInit /\ [][UtilNext]_uvars

\* The main loop runs, usb_send_packet returns (UsbSend's Returns) and the timer
\* interrupts.
UtilFairSpec == /\ UtilSpec
                /\ WF_uvars(Loop) /\ WF_uvars(Waiting) /\ WF_uvars(Tick)
-----------------------------------------------------------------------------
UtilTypeOK == /\ banks \in [Endpoint -> Seq(Data)]
              /\ \A e \in Endpoint : Len(banks[e]) <= Banks
              /\ call = <<>> \/ call \in Endpoint \X Data
              /\ mpc \in {"loop", "filler", "report", "reportLoaded", "reportClear",
                          "reportCleared", "reportSent", "reportSet", "touch", "touchSent"}
              /\ filler \in 0 .. Radix - 1 /\ touch \in 0 .. Radix - 1
              /\ report \in 0 .. ReportPeriod /\ tmp \in 0 .. ReportPeriod
              /\ repeat_buffer \in Data /\ repeat_size \in {"empty", "full"}
              /\ idle \in 0 .. IdleTicks /\ since \in 0 .. ReportPeriod

\* A packet is only sent again when no pen packet was sent for a period of time,
\* to within a tick ("if nothing is being sent for a period of time",
\* send_packet_fill_idle_time).
Filled == mpc = "filler" /\ mpc' = "report" /\ call' # <<>>
IdleBeforeFill == [][Filled => idle >= IdleTicks - 1]_uvars

\* However the accesses of main_loop fall between two ticks, a dummy report never
\* follows another earlier than a wrong upper half of its countdown makes it: the
\* store of line 131 can lose Radix ticks, the test of line 125 none.
SentReport == mpc = "reportCleared" /\ mpc' = "reportSent"
ReportsApart == [][SentReport => since >= ReportPeriod - Radix - Window + 2]_uvars

\* Once a pen packet was sent, main_loop repeats it in the end (Repeated says as how
\* many bytes), unless another packet takes its place first: the interrupts that come while the main loop is in
\* usb_send_packet, with whatever result, neither take the countdown past the value
\* that main_loop looks for nor lose it (timer_5ms_intr), whether or not init was
\* called.
Replaced == mpc \in {"filler", "reportSent", "touchSent"} /\ call # <<>>
Repeating == mpc = "report" /\ call # <<>>
IdleIsFilled == filler # 0 ~> (Repeating \/ Replaced)
=============================================================================
