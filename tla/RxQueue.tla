------------------------------ MODULE RxQueue ------------------------------
(***************************************************************************)
(* What the serial receive buffer promises to the protocol decoders:       *)
(* a queue of at most Capacity bytes.  Bytes are handed out in the order   *)
(* they were stored, each once, and a full queue refuses one.              *)
(*                                                                         *)
(* That is so while nothing is being handed out.  For the moment in which  *)
(* it is, the queue promises less: it may refuse a byte before it is full, *)
(* if it holds Safe bytes at least, and a full one may take one byte more  *)
(* and lose all it has, that byte included.  What comes out is always a    *)
(* run of what was stored, never an old byte again.  SerialRx implements   *)
(* this.                                                                   *)
(***************************************************************************)
EXTENDS Naturals, Sequences

CONSTANTS Byte,       \* the bytes on the serial line
          None,       \* what out holds before the first byte
          Capacity,   \* how many bytes the queue holds
          Safe        \* how many it holds without ever refusing one

VARIABLES queue,      \* the bytes stored and not yet handed out
          out,        \* the byte last handed out (or its initial value)
          moving,     \* whether it is being handed out just now
          open,       \* whether the receiver is on
          refused     \* the bytes refused so far

qvars == <<queue, out, moving, open, refused>>

QInit == queue = <<>> /\ out = None /\ moving = FALSE /\ open = TRUE /\ refused = {}

Store(b) == /\ open /\ Len(queue) < Capacity
            /\ queue' = Append(queue, b)
            /\ UNCHANGED <<out, moving, open, refused>>

Refuse(b) == /\ open
             /\ Len(queue) = Capacity \/ (moving /\ Len(queue) >= Safe)
             /\ refused' = refused \union {b}
             /\ UNCHANGED <<queue, out, moving, open>>

Overrun == /\ open /\ moving /\ Len(queue) = Capacity
           /\ queue' = <<>>
           /\ UNCHANGED <<out, moving, open, refused>>

Take == /\ ~moving /\ queue # <<>>
        /\ out' = Head(queue)
        /\ queue' = Tail(queue)
        /\ moving' = TRUE
        /\ UNCHANGED <<open, refused>>
Taken == moving /\ moving' = FALSE /\ UNCHANGED <<queue, out, open, refused>>

\* A change of the line's speed: the receiver is off while the queue is emptied.
Close == /\ open /\ ~moving
         /\ open' = FALSE
         /\ UNCHANGED <<queue, out, moving, refused>>
Discard == ~open /\ queue' = <<>> /\ UNCHANGED <<out, moving, open, refused>>
Reopen == /\ ~open /\ queue = <<>>
          /\ open' = TRUE
          /\ UNCHANGED <<queue, out, moving, refused>>

QNext == \/ \E b \in Byte : Store(b) \/ Refuse(b)
         \/ Overrun \/ Take \/ Taken \/ Close \/ Discard \/ Reopen

QSpec == QInit /\ [][QNext]_qvars
=============================================================================
