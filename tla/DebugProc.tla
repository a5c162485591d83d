------------------------------ MODULE DebugProc ------------------------------
(***************************************************************************)
(* debugproc.cpp: packets stored with the configuration are played back on *)
(* a USB endpoint, some seconds after the start or after the pen left      *)
(* proximity, a number of times.  A countdown of 10 ms is counted up by    *)
(* the timer interrupt and set to 0 by the main loop.  Every variable is a *)
(* byte, and wraps.                                                        *)
(***************************************************************************)
EXTENDS Naturals

CONSTANTS ByteMod,    \* 256, the values of a uint8_t
          Second,     \* 1000/10, the ticks of a second
          HeaderLen,  \* the bytes before the packets (7)
          NoScript    \* there is no debug data

ASSUME DebugAssumption == /\ ByteMod \in Nat /\ Second \in 1 .. ByteMod - 2
                          /\ HeaderLen \in Nat

VARIABLES script,     \* the debug data: when to start, how often, how long, ...
          activity,   \* state
          timer_10ms,
          interval_10ms,
          startCountdownSeconds,
          iterationsCountdown,
          addr_current      \* relative to debugdata_addr

debugVars == <<script, activity, timer_10ms, interval_10ms, startCountdownSeconds,
               iterationsCountdown, addr_current>>

Script == [trigOnProxOut : BOOLEAN, startDelaySeconds : 0 .. ByteMod - 1,
           nbIterations : 0 .. ByteMod - 1, pauseDelay : 0 .. ByteMod - 1,
           packet_size : Nat, length : Nat]

\* trigger: the countdown of a second starts over, the timer goes on.
Trigger(iterations) ==
    /\ activity' = "delay_before_start"
    /\ startCountdownSeconds' = script.startDelaySeconds
    /\ iterationsCountdown' = iterations
    /\ interval_10ms' = Second

\* init, which triggers at once if nothing else does, and the initial event of
\* main, which may be taken for a pen that leaves.
DebugInit(s, proxOut) ==
    /\ script = s
    /\ timer_10ms = 0 /\ interval_10ms = Second
    /\ addr_current = IF s = NoScript THEN 0 ELSE HeaderLen
    /\ IF s # NoScript /\ (proxOut \/ ~s.trigOnProxOut)
       THEN /\ activity = "delay_before_start"
            /\ startCountdownSeconds = s.startDelaySeconds
            /\ iterationsCountdown = s.nbIterations
       ELSE /\ activity = "stopped"
            /\ startCountdownSeconds = 0 /\ iterationsCountdown = 0

\* proxOutTrigger, whatever is being played.
ProxOutTrigger ==
    IF script # NoScript /\ script.trigOnProxOut
    THEN Trigger(script.nbIterations) /\ UNCHANGED <<script, timer_10ms, addr_current>>
    ELSE UNCHANGED debugVars

\* timer_5ms_intr, twice.  The main loop comes round before the byte wraps.
Timer == /\ activity # "stopped"
         /\ timer_10ms < ByteMod - 1
         /\ timer_10ms' = timer_10ms + 1
         /\ UNCHANGED <<script, activity, interval_10ms, startCountdownSeconds,
                        iterationsCountdown, addr_current>>
-----------------------------------------------------------------------------
\* Slip: each repetition starts the count over (trigger with repeating false).
SlipRemaining == script.nbIterations
Remaining == (iterationsCountdown - 1) % ByteMod

Behind(addr) == addr > script.length

\* doActivity and what follows it: one packet, and if it was the last one the
\* whole again, or no more.
Play(addr) ==
    /\ addr_current' = addr + script.packet_size
    /\ \/ /\ ~Behind(addr_current')
          /\ activity' = "performing_activity"
          /\ interval_10ms' = script.pauseDelay
          /\ startCountdownSeconds' = 0
          /\ UNCHANGED iterationsCountdown
       \/ /\ Behind(addr_current')
          /\ \/ Remaining > 0 /\ Trigger(Remaining)
             \/ /\ Remaining = 0
                /\ activity' = "stopped"
                /\ iterationsCountdown' = 0
                /\ interval_10ms' = script.pauseDelay
                /\ startCountdownSeconds' = 0

Due == activity # "stopped" /\ timer_10ms >= interval_10ms

\* processing: a second less to wait, ...
WaitSecond == LET left == (startCountdownSeconds - 1) % ByteMod IN
              /\ Due /\ activity = "delay_before_start"
              /\ left > 0
              /\ startCountdownSeconds' = left
              /\ timer_10ms' = 0
              /\ UNCHANGED <<script, activity, interval_10ms, iterationsCountdown,
                             addr_current>>

\* ... the first packet after the last second (initActivity), ...
PlayFirst == /\ Due /\ activity = "delay_before_start"
             /\ startCountdownSeconds = 1
             /\ timer_10ms' = 0
             /\ Play(HeaderLen)
             /\ UNCHANGED script

\* ... or the next one.
PlayNext == /\ Due /\ activity = "performing_activity"
            /\ timer_10ms' = 0
            /\ Play(addr_current)
            /\ UNCHANGED script

Processing == WaitSecond \/ PlayFirst \/ PlayNext
-----------------------------------------------------------------------------
\* Whenever the pen leaves while packets are played or waited for, and whatever
\* the delays, counts and sizes, the playback ends, and only after the last packet
\* of the data; at most one that lies behind them is played (processing,
\* doActivity).
PlaybackEnds == activity # "stopped" ~>
                   /\ activity = "stopped" /\ script # NoScript
                   /\ addr_current \in script.length .. script.length + script.packet_size
=============================================================================
