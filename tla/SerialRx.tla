------------------------------ MODULE SerialRx ------------------------------
(***************************************************************************)
(* serial.cpp: the interrupt-driven receive buffer between the USART and   *)
(* the protocol decoders.  The receive interrupt (handle_interrupt) owns   *)
(* the tail index, the main loop (serialPortProcessing, read, flush) owns  *)
(* the head index, and nothing masks the interrupt while the main loop is  *)
(* at work.  The indices are 16-bit variables of an 8-bit processor: the   *)
(* main loop loads and stores them one byte at a time, and the interrupt   *)
(* may run between the two halves.  It may also run between the increment  *)
(* of the head and the store that wraps it to 0.  The interrupt itself is  *)
(* never interrupted, so its accesses are atomic.  Nothing paces the line:  *)
(* it may fill the buffer while the main loop is busy.                     *)
(*                                                                         *)
(* Bytes are numbered in the order they arrive, so a byte is its position  *)
(* on the line.                                                            *)
(***************************************************************************)
EXTENDS Integers, Sequences

CONSTANTS Size,         \* _SS_MAX_RX_BUFF (800)
          Radix,        \* values of one half of an index (256)
          FifoDepth,    \* bytes the USART holds (2)
          SafeBacklog,  \* unread bytes up to which the buffer is right
          MaxBytes,     \* bound: bytes that arrive
          MaxSpeedChanges  \* bound: calls of setBaudRate by the decoders

ASSUME SizeAssumption == Size \in Nat /\ Size > 1
ASSUME RadixAssumption == Radix \in Nat /\ Radix > 1
ASSUME BoundsAssumption == /\ FifoDepth \in Nat \ {0}
                           /\ SafeBacklog \in Nat
                           /\ MaxBytes \in Nat
                           /\ MaxSpeedChanges \in Nat

VARIABLES head,     \* _receive_buffer_head, as the interrupt would see it
          tail,     \* _receive_buffer_tail
          buf,      \* _receive_buffer
          fifo,     \* the USART's own receive FIFO
          rxie,     \* RXCIE1 and RXEN1: receiver and its interrupt enabled
          pc,       \* where the main loop is
          tmp,      \* the index the main loop is loading or storing
          d,        \* the byte read() is about to return
          arrived,  \* bytes that reached the USART so far
          late,     \* history: there were more unread bytes than SafeBacklog
          changes,  \* calls of setBaudRate so far
          stored,   \* history: the bytes the interrupt stored, in order
          taken,    \* history: how many of them left the buffer
          dropped   \* history: bytes the interrupt dropped

isrVars  == <<tail, buf, stored, dropped>>
mainVars == <<head, pc, tmp, d, taken, changes, rxie>>
arrivals == <<arrived, late>>
vars == <<head, tail, buf, fifo, rxie, pc, tmp, d, arrived, late, changes,
          stored, taken, dropped>>

Byte == 1 .. MaxBytes
NoByte == 0

\* A 16-bit access in two halves, between a and b: one half of each value.
Mix(a, b) == { Radix * (a \div Radix) + (b % Radix),
               Radix * (b \div Radix) + (a % Radix) }

\* Slip: an index wraps one slot too late.
SlipWrapped(i) == IF i > Size THEN 0 ELSE i

Wrapped(i) == IF i >= Size THEN 0 ELSE i

\* A slot counted from another one, around the end of the ring.
Round(i) == IF i >= Size THEN i - Size ELSE i

\* The slot of the oldest byte to be read next: where the head is, or will be
\* once the main loop has stored it.
Slot == CASE pc = "inc" -> Wrapped(head + 1)
          [] pc = "inc2" -> Wrapped(tmp)
          [] pc \in {"wrap", "wrap2"} -> 0
          [] pc \in {"flush", "flush2"} -> tail
          [] OTHER -> head

\* How many bytes lie from there to the tail.
Fill == IF tail >= Slot THEN tail - Slot ELSE tail + Size - Slot

\* Bytes received by the hardware or the interrupt and not yet read.
Unread == Len(fifo) + Fill

PC == {"loop", "poll", "fetch", "inc", "inc2", "wrap", "wrap2", "deliver",
       "drain", "flush", "flush2"}

Init == /\ head = 0 /\ tail = 0
        /\ buf = [i \in 0 .. Size - 1 |-> NoByte]
        /\ fifo = <<>>
        /\ rxie = TRUE
        /\ pc = "loop"
        /\ tmp = 0 /\ d = NoByte
        /\ arrived = 0 /\ late = FALSE /\ changes = 0
        /\ stored = <<>> /\ taken = 0 /\ dropped = {}
-----------------------------------------------------------------------------
\* The line delivers a byte to the USART (a disabled receiver hears nothing).
Arrive == /\ rxie
          /\ arrived < MaxBytes
          /\ Len(fifo) < FifoDepth
          /\ arrived' = arrived + 1
          /\ late' = (late \/ Unread >= SafeBacklog)
          /\ fifo' = Append(fifo, arrived')
          /\ UNCHANGED <<isrVars, mainVars>>

\* Slip: full and empty are mixed up.
SlipHasRoom == tail # head
\* Slip: the interrupt stores without looking.
SlipNoTest == tail \in 0 .. Size - 1

\* As far as the interrupt can see.
HasRoom == (tail + 1) % Size # head

\* One turn of the loop of handle_interrupt.
Interrupt ==
    /\ rxie
    /\ fifo # <<>>
    /\ fifo' = Tail(fifo)
    /\ IF HasRoom
       THEN /\ buf' = [buf EXCEPT ![tail] = Head(fifo)]
            /\ tail' = Wrapped(tail + 1)
            /\ stored' = Append(stored, Head(fifo))
            /\ UNCHANGED dropped
       ELSE /\ dropped' = dropped \union {Head(fifo)}
            /\ UNCHANGED <<tail, buf, stored>>
    /\ UNCHANGED <<mainVars, arrivals>>
-----------------------------------------------------------------------------
\* read(): load one half of the tail ...
Poll == /\ pc = "loop"
        /\ tmp' = tail
        /\ pc' = "poll"
        /\ UNCHANGED <<head, d, taken, changes, rxie, isrVars, fifo, arrivals>>

\* Slip: the buffer is taken for a line, on which the head is never past the tail.
SlipTestEmpty == /\ pc = "poll"
                 /\ \E t \in Mix(tmp, tail) :
                        pc' = IF head >= t THEN "loop" ELSE "fetch"
                 /\ UNCHANGED <<head, tmp, d, taken, changes, rxie, isrVars,
                                fifo, arrivals>>

\* ... and the other, and return -1 if the buffer is empty.
TestEmpty == /\ pc = "poll"
             /\ \E t \in Mix(tmp, tail) :
                    pc' = IF head = t THEN "loop" ELSE "fetch"
             /\ UNCHANGED <<head, tmp, d, taken, changes, rxie, isrVars,
                            fifo, arrivals>>

\* ... then the byte at the head.
Fetch == /\ pc = "fetch"
         /\ d' = IF head < Size THEN buf[head] ELSE NoByte
         /\ taken' = taken + 1
         /\ pc' = "inc"
         /\ UNCHANGED <<head, tmp, changes, rxie, isrVars, fifo, arrivals>>

\* _receive_buffer_head++: one half, then the other.
IncHalf == /\ pc = "inc"
           /\ tmp' = head + 1
           /\ head' \in Mix(head, head + 1)
           /\ pc' = "inc2"
           /\ UNCHANGED <<d, taken, changes, rxie, isrVars, fifo, arrivals>>

\* Slip: the head wraps one slot too late.
SlipIncDone == /\ pc = "inc2"
               /\ head' = tmp
               /\ pc' = IF tmp > Size THEN "wrap" ELSE "deliver"
               /\ UNCHANGED <<tmp, d, taken, changes, rxie, isrVars, fifo, arrivals>>

IncDone == /\ pc = "inc2"
           /\ head' = tmp
           /\ pc' = IF tmp >= Size THEN "wrap" ELSE "deliver"
           /\ UNCHANGED <<tmp, d, taken, changes, rxie, isrVars, fifo, arrivals>>

\* _receive_buffer_head = 0: one half, then the other.
WrapHalf == /\ pc = "wrap"
            /\ head' \in Mix(head, 0)
            /\ pc' = "wrap2"
            /\ UNCHANGED <<tmp, d, taken, changes, rxie, isrVars, fifo, arrivals>>

WrapDone == /\ pc = "wrap2"
            /\ head' = 0
            /\ pc' = "deliver"
            /\ UNCHANGED <<tmp, d, taken, changes, rxie, isrVars, fifo, arrivals>>

\* itsByteReceivedCallback; the serial protocols' handlers may change the speed.
Deliver == /\ pc = "deliver"
           /\ \/ pc' = "loop" /\ UNCHANGED <<changes, rxie>>
              \/ /\ changes < MaxSpeedChanges
                 /\ changes' = changes + 1
                 /\ rxie' = FALSE
                 /\ pc' = "drain"
           /\ UNCHANGED <<head, tmp, d, taken, isrVars, fifo, arrivals>>

\* flush(): empty the USART and load one half of the tail ...
Drain == /\ pc = "drain"
         /\ fifo' = <<>>
         /\ tmp' = tail
         /\ taken' = Len(stored)
         /\ pc' = "flush"
         /\ UNCHANGED <<head, d, changes, rxie, isrVars, arrivals>>

\* ... then the other, and store one half of it in the head ...
FlushHalf == /\ pc = "flush"
             /\ tmp' \in Mix(tmp, tail)
             /\ head' \in Mix(head, tmp')
             /\ pc' = "flush2"
             /\ UNCHANGED <<d, taken, changes, rxie, isrVars, fifo, arrivals>>

\* ... then the other; setBaudRate enables the receiver again.
FlushDone == /\ pc = "flush2"
             /\ head' = tmp
             /\ rxie' = TRUE
             /\ pc' = "loop"
             /\ UNCHANGED <<tmp, d, taken, changes, isrVars, fifo, arrivals>>

MainLoop == \/ Poll \/ TestEmpty \/ Fetch \/ IncHalf \/ IncDone
            \/ WrapHalf \/ WrapDone \/ Deliver
            \/ Drain \/ FlushHalf \/ FlushDone

Next == MainLoop \/ Interrupt \/ Arrive

Spec == Init /\ [][Next]_vars

\* The main loop never stops, and an enabled interrupt with work is served.
FairSpec == Spec /\ WF_vars(MainLoop) /\ WF_vars(Interrupt)

\* Under this bound no half-stored head can be mistaken for the slot after the
\* tail: 30 unread bytes with the 800 slots and 8-bit halves of the code.
SmallBacklog == /\ SafeBacklog + 2 < Radix
                /\ SafeBacklog + 2 <= Size - Radix
                /\ Size % Radix = 0 \/ SafeBacklog + 1 < Size % Radix
-----------------------------------------------------------------------------
TypeOK == /\ head \in Nat /\ tail \in 0 .. Size - 1
          /\ buf \in [0 .. Size - 1 -> Byte \union {NoByte}]
          /\ fifo \in Seq(Byte)
          /\ rxie \in BOOLEAN
          /\ pc \in PC
          /\ tmp \in Nat /\ d \in Byte \union {NoByte}
          /\ arrived \in 0 .. MaxBytes /\ changes \in 0 .. MaxSpeedChanges
          /\ late \in BOOLEAN
          /\ stored \in Seq(Byte) /\ taken \in Nat
          /\ dropped \subseteq Byte

\* While the main loop has always kept up, the byte read() returns is the oldest
\* byte stored and not yet taken: none is read twice, skipped or read before it is
\* stored, wherever the interrupt falls within read() (serial.cpp, read and
\* handle_interrupt).
FifoOrder == ~late /\ pc \in {"inc", "inc2", "wrap", "wrap2", "deliver"} =>
                /\ taken \in 1 .. Len(stored)
                /\ d = stored[taken]

\* ... and the interrupt drops no byte.
NoDrop == ~late => dropped = {}

\* The buffer is what RxQueue promises, however late the main loop is: a queue of
\* Size - 1 bytes, which refuses one when it is full and, but for the moment in which
\* the head is moved, only then (serial.cpp, all of it).
Queue == INSTANCE RxQueue
    WITH queue <- [k \in 1 .. Fill |-> buf[Round(Slot + k - 1)]],
         out <- d, open <- rxie, refused <- dropped,
         moving <- pc \in {"inc", "inc2", "wrap", "wrap2"},
         Capacity <- Size - 1, Safe <- SafeBacklog, None <- NoByte
ImplementsQueue == Queue!QSpec

\* Every byte that the buffer keeps is read in the end, although the test for an
\* empty buffer may be torn.
EverythingRead == <>[](Unread = 0)
=============================================================================
