----------------------------- MODULE AdbSession -----------------------------
(***************************************************************************)
(* What the dialogue of adb_controller.cpp promises to a tablet: it gets   *)
(* the requests of a fixed list in order, each until it has obeyed it, and *)
(* is polled for ever by the last one.  Every report of the pen is what    *)
(* the tablet answered to a poll, and nothing else is.  AdbHost implements *)
(* this on a line that only carries what the host and the tablet send.     *)
(***************************************************************************)
EXTENDS Naturals, Sequences

CONSTANTS Dialog,       \* the requests, in order; the last one is the poll
          Answers       \* what a tablet can answer

VARIABLES step,         \* the request the tablet is to obey next
          obeyed,       \* <<>>, or <<what it answered>> when it has
          reported      \* the last answer reported to the pen, or <<>>

svars == <<step, obeyed, reported>>

SInit == step = 1 /\ obeyed = <<>> /\ reported = <<>>

\* The tablet has received the request, and answers it if it asks for data.
Obey(a) == /\ obeyed = <<>>
           /\ Dialog[step].command = "talk" <=> a # <<>>
           /\ obeyed' = <<a>>
           /\ UNCHANGED <<step, reported>>

Advance == /\ obeyed # <<>>
           /\ step < Len(Dialog)
           /\ step' = step + 1
           /\ obeyed' = <<>>
           /\ UNCHANGED reported

Report == /\ obeyed # <<>>
          /\ step = Len(Dialog)
          /\ reported' = obeyed[1]
          /\ obeyed' = <<>>
          /\ UNCHANGED step

SNext == Advance \/ Report \/ \E a \in Answers \union {<<>>} : Obey(a)

SSpec == SInit /\ [][SNext]_svars
=============================================================================
