------------------------------ MODULE HostTool ------------------------------
(***************************************************************************)
(* What a driver for a Wacom protocol V tablet is promised by the USB      *)
(* reports: a tool is introduced before anything is said about it, is      *)
(* introduced once, and is taken back before another one comes.  A report  *)
(* may be lost; then the promise is good again from the next tool taken    *)
(* back.  Protocol5Serial, over WacomUsb, implements this.                 *)
(***************************************************************************)
CONSTANTS Tool, NoTool, Data    \* Data: the kinds of reports about a tool

VARIABLES host,    \* the tool the driver has been told of
          report,  \* the kind of the last report it got
          missed   \* a report was lost since it last got a "leave"

hvars == <<host, report, missed>>

HInit == host = NoTool /\ report = "none" /\ missed = FALSE

Enter(t) == /\ host = NoTool \/ missed
            /\ host' = t /\ report' = "enter" /\ UNCHANGED missed
About(k) == /\ host # NoTool \/ missed
            /\ report' = k /\ UNCHANGED <<host, missed>>
Leave    == /\ host # NoTool \/ missed
            /\ host' = NoTool /\ report' = "leave" /\ missed' = FALSE
Miss     == missed' = TRUE /\ UNCHANGED <<host, report>>

HNext == \/ Leave \/ Miss
         \/ (\E t \in Tool : Enter(t)) \/ (\E k \in Data : About(k))

HSpec == HInit /\ [][HNext]_hvars
=============================================================================
