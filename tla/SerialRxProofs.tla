--------------------------- MODULE SerialRxProofs ---------------------------
(***************************************************************************)
(* Proofs about SerialRx, for every size of buffer and of index, wherever  *)
(* the interrupt falls within the main loop's accesses.                    *)
(*                                                                         *)
(* RingInv says where the main loop is and which values of the head the    *)
(* interrupt may see.  It holds however full the buffer is, and the buffer *)
(* is a queue by it (RxQueue).                                             *)
(*                                                                         *)
(* FifoOrder and NoDrop hold until the main loop falls behind.  FifoOrder  *)
(* is not inductive: it says nothing of the slots the main loop has not    *)
(* reached.  Kept adds where the stored bytes lie, from Slot to the tail.  *)
(***************************************************************************)
EXTENDS SerialRx, SequenceTheorems, TLAPS

Backlog == Len(stored) - taken

Masked == pc \in {"drain", "flush", "flush2"}
Moving == pc \in {"inc", "inc2", "wrap", "wrap2"}

\* What the main loop knows at each step, and the heads that can be seen.
MainAt ==
    /\ pc \in {"loop", "poll", "fetch", "inc", "deliver", "drain", "flush"}
          => head < Size
    /\ pc = "inc2" => /\ tmp \in 1 .. Size
                      /\ head \in {tmp - 1, tmp, tmp - 1 + Radix, tmp - Radix}
    /\ pc = "wrap" => head = Size
    /\ pc = "wrap2" => head \in {Size % Radix, Size - (Size % Radix)}
    /\ pc \in {"flush", "flush2"} => tmp = tail
    /\ pc = "poll" /\ Fill = 0 => tmp = tail
    /\ pc = "fetch" => Fill > 0

RingInv == TypeOK /\ (Masked <=> ~rxie) /\ MainAt

\* The bytes not taken lie from Slot to the tail, in the order stored.
Contents == /\ tail = Round(Slot + Backlog)
            /\ \A i \in 0 .. Backlog - 1 :
                  buf[Round(Slot + i)] = stored[taken + 1 + i]

Bounded == taken <= Len(stored) /\ Len(fifo) + Backlog <= SafeBacklog

Kept == Bounded /\ Contents /\ FifoOrder /\ NoDrop

IInv == RingInv /\ (~late => Kept)
-----------------------------------------------------------------------------
USE SizeAssumption, RadixAssumption, BoundsAssumption

\* Division with remainder, by Radix.
LEMMA Halves ==
  ASSUME NEW a \in Nat
  PROVE  /\ a = Radix * (a \div Radix) + (a % Radix)
         /\ a % Radix \in 0 .. Radix - 1
         /\ a \div Radix \in Nat
  BY SMTT(20)

\* ... and there is only one.
LEMMA HalvesUnique ==
  ASSUME NEW q \in Nat, NEW p \in Nat,
         NEW l \in 0 .. Radix - 1, NEW m \in 0 .. Radix - 1,
         Radix * q + l = Radix * p + m
  PROVE  q = p /\ l = m
<1>1. CASE q < p
  <2>1. p >= q + 1 BY <1>1
  <2>2. Radix * p >= Radix * (q + 1) BY <2>1
  <2> QED BY <2>2
<1>2. CASE p < q
  <2>1. q >= p + 1 BY <1>2
  <2>2. Radix * q >= Radix * (p + 1) BY <2>1
  <2> QED BY <2>2
<1> QED BY <1>1, <1>2

\* Loading an index that does not change reads its value.
LEMMA MixSame == ASSUME NEW a \in Nat PROVE Mix(a, a) = {a}
  BY Halves DEF Mix

\* Storing a + 1 over a shows one of them, or, when the low half carries, a
\* value Radix too high or too low.
LEMMA MixNext ==
  ASSUME NEW a \in Nat
  PROVE  Mix(a, a + 1) \subseteq {a, a + 1, a + Radix, a + 1 - Radix}
<1> DEFINE q == a \div Radix
           l == a % Radix
<1>1. a = Radix * q + l /\ l \in 0 .. Radix - 1 /\ q \in Nat
  BY Halves
<1>2. /\ a + 1 = Radix * ((a + 1) \div Radix) + ((a + 1) % Radix)
      /\ (a + 1) % Radix \in 0 .. Radix - 1
      /\ (a + 1) \div Radix \in Nat
  BY Halves
<1> HIDE DEF q, l
<1>3. CASE l = Radix - 1
  <2>1. Radix * (q + 1) = Radix * q + Radix BY <1>1
  <2>2. Radix * (q + 1) + 0 = Radix * ((a + 1) \div Radix) + ((a + 1) % Radix)
    BY <1>1, <1>2, <1>3, <2>1
  <2>3. (a + 1) \div Radix = q + 1 /\ (a + 1) % Radix = 0
    BY <1>1, <1>2, <2>2, HalvesUnique
  <2> QED BY <1>1, <1>3, <2>1, <2>3 DEF Mix, q, l
<1>4. CASE l < Radix - 1
  <2>1. Radix * q + (l + 1) = Radix * ((a + 1) \div Radix) + ((a + 1) % Radix)
    BY <1>1, <1>2
  <2>2. (a + 1) \div Radix = q /\ (a + 1) % Radix = l + 1
    BY <1>1, <1>2, <1>4, <2>1, HalvesUnique
  <2> QED BY <1>1, <2>2 DEF Mix, q, l
<1> QED BY <1>1, <1>3, <1>4

\* Storing 0 over Size shows one half of Size.
LEMMA MixWrap == Mix(Size, 0) \subseteq {Size % Radix, Size - (Size % Radix)}
<1>1. 0 \div Radix = 0 /\ 0 % Radix = 0
  BY Halves, HalvesUnique
<1>2. Size = Radix * (Size \div Radix) + (Size % Radix)
      /\ Size % Radix \in 0 .. Radix - 1 /\ Size \div Radix \in Nat
  BY Halves
<1> QED BY <1>1, <1>2 DEF Mix

LEMMA NextSlot ==
  ASSUME NEW i \in 0 .. Size - 1
  PROVE  (i + 1) % Size = Round(i + 1)
  BY SMTT(20) DEF Round

LEMMA SlotIs ==
  /\ pc = "inc" => Slot = Wrapped(head + 1)
  /\ pc = "inc2" => Slot = Wrapped(tmp)
  /\ pc \in {"wrap", "wrap2"} => Slot = 0
  /\ pc \in {"flush", "flush2"} => Slot = tail
  /\ pc \in {"loop", "poll", "fetch", "deliver", "drain"} => Slot = head
  BY DEF Slot

LEMMA SlotIsNext ==
  /\ pc' = "inc" => Slot' = Wrapped(head' + 1)
  /\ pc' = "inc2" => Slot' = Wrapped(tmp')
  /\ pc' \in {"wrap", "wrap2"} => Slot' = 0
  /\ pc' \in {"flush", "flush2"} => Slot' = tail'
  /\ pc' \in {"loop", "poll", "fetch", "deliver", "drain"} => Slot' = head'
  BY DEF Slot

LEMMA WrappedIs ==
  ASSUME NEW i \in 0 .. Size
  PROVE  Wrapped(i) \in 0 .. Size - 1
  BY DEF Wrapped

LEMMA OneWayRound ==
  ASSUME NEW s \in 0 .. Size - 1, NEW t \in 0 .. Size - 1, NEW f,
         t >= s => f = t - s, t < s => f = t + Size - s
  PROVE  /\ f \in 0 .. Size - 1 /\ t = Round(s + f)
         /\ \A n \in 0 .. Size - 1 : t = Round(s + n) => f = n
  BY DEF Round

\* The tail is Fill slots behind Slot, and Fill is the only such number.
LEMMA FillIs ==
  ASSUME RingInv
  PROVE  /\ Slot \in 0 .. Size - 1 /\ Fill \in 0 .. Size - 1
         /\ tail \in 0 .. Size - 1 /\ tail = Round(Slot + Fill)
         /\ \A n \in 0 .. Size - 1 : tail = Round(Slot + n) => Fill = n
<1>0. /\ pc \in PC /\ head \in Nat /\ tmp \in Nat
      /\ pc \in {"loop", "poll", "fetch", "inc", "deliver", "drain", "flush"}
            => head < Size
      /\ pc = "inc2" => tmp \in 1 .. Size
  BY DEF RingInv, TypeOK, MainAt
<1>2. tail \in 0 .. Size - 1
  BY DEF RingInv, TypeOK
<1>1. Slot \in 0 .. Size - 1
  BY <1>0, <1>2, SlotIs, WrappedIs DEF PC
<1>3. /\ tail >= Slot => Fill = tail - Slot
      /\ tail < Slot => Fill = tail + Size - Slot
  BY <1>1, <1>2 DEF Fill
<1> QED BY <1>1, <1>2, <1>3, OneWayRound

LEMMA FillNext ==
  ASSUME RingInv'
  PROVE  /\ Slot' \in 0 .. Size - 1 /\ Fill' \in 0 .. Size - 1
         /\ tail' \in 0 .. Size - 1 /\ tail' = Round(Slot' + Fill')
         /\ \A n \in 0 .. Size - 1 : tail' = Round(Slot' + n) => Fill' = n
<1>1. /\ pc' \in PC /\ head' \in Nat /\ tmp' \in Nat /\ tail' \in 0 .. Size - 1
      /\ pc' \in {"loop", "poll", "fetch", "inc", "deliver", "drain", "flush"}
            => head' < Size
      /\ pc' = "inc2" => tmp' \in 1 .. Size
  BY DEF RingInv, TypeOK, MainAt
<1>2. Slot' \in 0 .. Size - 1
  BY <1>1, SlotIsNext, WrappedIs DEF PC
<1>3. /\ tail' >= Slot' => Fill' = tail' - Slot'
      /\ tail' < Slot' => Fill' = tail' + Size - Slot'
  BY <1>1, <1>2 DEF Fill
<1> QED BY <1>1, <1>2, <1>3, OneWayRound

\* While the head is whole, the interrupt sees whether the buffer is full.
LEMMA FullIsSeen ==
  ASSUME RingInv, rxie, ~Moving
  PROVE  HasRoom <=> Fill # Size - 1
<1>1. Slot = head /\ head < Size
  BY SlotIs DEF RingInv, MainAt, TypeOK, PC, Masked, Moving
<1>2. (tail + 1) % Size = Round(tail + 1)
  BY NextSlot DEF RingInv, TypeOK
<1> QED BY <1>1, <1>2, FillIs DEF HasRoom, Round

\* While it is not, none of the values it can show is the slot after the tail of
\* a buffer that holds little.
LEMMA RoomForOne ==
  ASSUME SmallBacklog, RingInv, rxie, Fill < SafeBacklog
  PROVE  HasRoom
<1>1. /\ Fill \in Nat /\ Fill + 1 <= SafeBacklog /\ head \in Nat
      /\ tail = Round(Slot + Fill) /\ tail \in 0 .. Size - 1
  BY FillIs DEF RingInv, TypeOK
<1>2. (tail + 1) % Size = Round(tail + 1)
  BY NextSlot DEF RingInv, TypeOK
<1>3. CASE ~Moving
  <2>1. Fill # Size - 1 BY <1>1 DEF SmallBacklog
  <2> QED BY <1>3, <2>1, FullIsSeen
<1>4. CASE pc = "inc"
  <2>1. Slot = Round(head + 1) /\ head < Size
    BY <1>4, SlotIs DEF RingInv, MainAt, TypeOK, Round, Wrapped
  <2> QED BY <1>1, <1>2, <2>1 DEF SmallBacklog, Round, HasRoom
<1>5. CASE pc = "inc2"
  <2>1. /\ tmp \in 1 .. Size
        /\ head \in {tmp - 1, tmp, tmp - 1 + Radix, tmp - Radix}
    BY <1>5 DEF RingInv, MainAt
  <2>2. Slot = Round(tmp)
    BY <1>5, <2>1, SlotIs DEF Round, Wrapped
  <2> QED BY <1>1, <1>2, <2>1, <2>2 DEF SmallBacklog, Round, HasRoom
<1>6. CASE pc = "wrap"
  <2>1. Slot = 0 /\ head = Size
    BY <1>6, SlotIs DEF RingInv, MainAt
  <2> QED BY <1>1, <1>2, <2>1 DEF SmallBacklog, Round, HasRoom
<1>7. CASE pc = "wrap2"
  <2>1. Size % Radix \in 0 .. Radix - 1
    BY Halves
  <2>2. Slot = 0 /\ head \in {Size % Radix, Size - (Size % Radix)}
    BY <1>7, SlotIs DEF RingInv, MainAt
  <2> QED BY <1>1, <1>2, <2>1, <2>2 DEF SmallBacklog, Round, HasRoom
<1> QED
  BY <1>3, <1>4, <1>5, <1>6, <1>7 DEF Moving
-----------------------------------------------------------------------------
LEMMA MixNat == ASSUME NEW a \in Nat, NEW b \in Nat PROVE Mix(a, b) \subseteq Nat
  BY Halves DEF Mix

LEMMA TypeInit == Init => TypeOK
  BY DEF Init, TypeOK, PC, NoByte, Byte

\* The type invariant is inductive: head is only known to be a natural number,
\* because a half-stored or torn head may lie outside the buffer.
LEMMA TypeStep == TypeOK /\ [Next]_vars => TypeOK'
<1> SUFFICES ASSUME TypeOK, [Next]_vars PROVE TypeOK'
  OBVIOUS
<1> USE DEF TypeOK, PC, mainVars, isrVars, arrivals
<1>1. CASE Poll BY <1>1 DEF Poll
<1>2. CASE TestEmpty BY <1>2 DEF TestEmpty
<1>3. CASE Fetch BY <1>3 DEF Fetch
<1>4. CASE IncHalf
  <2>1. head' \in Nat BY <1>4, MixNat DEF IncHalf
  <2> QED BY <1>4, <2>1 DEF IncHalf
<1>5. CASE IncDone BY <1>5 DEF IncDone
<1>6. CASE WrapHalf
  <2>1. head' \in Nat BY <1>6, MixNat DEF WrapHalf
  <2> QED BY <1>6, <2>1 DEF WrapHalf
<1>7. CASE WrapDone BY <1>7 DEF WrapDone
<1>8. CASE Deliver
  <2>1. \/ pc' = "loop" /\ UNCHANGED <<changes, rxie>>
        \/ changes < MaxSpeedChanges /\ changes' = changes + 1 /\ rxie' = FALSE /\ pc' = "drain"
    BY <1>8 DEF Deliver
  <2>2. /\ UNCHANGED <<head, tmp, d, taken, fifo, arrived, late>>
        /\ UNCHANGED <<tail, buf, stored, dropped>>
    BY <1>8 DEF Deliver
  <2> QED BY <2>1, <2>2
<1>9. CASE Drain BY <1>9 DEF Drain
<1>10. CASE FlushHalf
  <2>1. tmp' \in Nat BY <1>10, MixNat DEF FlushHalf
  <2>2. head' \in Nat BY <1>10, <2>1, MixNat DEF FlushHalf
  <2> QED BY <1>10, <2>1, <2>2 DEF FlushHalf
<1>11. CASE FlushDone BY <1>11 DEF FlushDone
<1>12. CASE Interrupt
  <2>1. Head(fifo) \in Byte /\ Tail(fifo) \in Seq(Byte)
    BY <1>12 DEF Interrupt, Wrapped
  <2>2. CASE HasRoom
    <3>1. buf' \in [0 .. Size - 1 -> Byte \union {NoByte}]
      BY <1>12, <2>1, <2>2 DEF Interrupt, Wrapped
    <3>2. tail' \in 0 .. Size - 1
      BY <1>12, <2>2 DEF Interrupt, Wrapped
    <3>3. stored' \in Seq(Byte)
      <4>1. stored' = Append(stored, Head(fifo)) BY <1>12, <2>2 DEF Interrupt
      <4> QED BY <2>1, <4>1
    <3>4. /\ fifo' = Tail(fifo) /\ UNCHANGED <<rxie, arrived, late, dropped>>
          /\ UNCHANGED <<head, pc, tmp, d, taken, changes>>
      BY <1>12, <2>2 DEF Interrupt
    <3> QED BY <2>1, <3>1, <3>2, <3>3, <3>4
  <2>3. CASE ~HasRoom
    BY <1>12, <2>1, <2>3 DEF Interrupt
  <2> QED BY <2>2, <2>3
<1>13. CASE Arrive
  <2>1. arrived' \in Byte /\ arrived' \in 0 .. MaxBytes
    BY <1>13 DEF Arrive, Byte
  <2>2. fifo' \in Seq(Byte)
    BY <1>13, <2>1 DEF Arrive
  <2> QED BY <1>13, <2>1, <2>2 DEF Arrive
<1>14. CASE UNCHANGED vars BY <1>14 DEF vars
<1> QED
  BY <1>1, <1>2, <1>3, <1>4, <1>5, <1>6, <1>7, <1>8, <1>9, <1>10, <1>11,
     <1>12, <1>13, <1>14 DEF Next, MainLoop
-----------------------------------------------------------------------------
(* The ring: true however many bytes come.                                  *)

\* The steps that neither store, take nor discard a byte.
Other == \/ Poll \/ TestEmpty \/ IncHalf \/ IncDone \/ WrapHalf \/ WrapDone \/ Deliver
         \/ FlushHalf \/ FlushDone

LEMMA OtherSame ==
  Other => UNCHANGED <<tail, buf, fifo, stored, taken, dropped, d, arrived, late>>
  BY DEF Other, Poll, TestEmpty, IncHalf, IncDone, WrapHalf, WrapDone, Deliver,
         FlushHalf, FlushDone, isrVars, arrivals

LEMMA SlotStays ==
  ASSUME RingInv, Other \/ Arrive \/ UNCHANGED vars
  PROVE  Slot' = Slot /\ Fill' = Fill
<1>1. tail' = tail
  BY OtherSame DEF Arrive, isrVars, vars
<1>2. Slot' = Slot
  <2>1. CASE Poll \/ TestEmpty \/ Deliver
    BY <2>1, SlotIs, SlotIsNext DEF Poll, TestEmpty, Deliver
  <2>2. CASE IncHalf
    BY <2>2, SlotIs, SlotIsNext DEF IncHalf
  <2>3. CASE IncDone
    <3>1. tmp \in 1 .. Size /\ pc = "inc2" BY <2>3 DEF IncDone, RingInv, MainAt
    <3> QED BY <2>3, <3>1, SlotIs, SlotIsNext DEF IncDone, Wrapped
  <2>4. CASE WrapHalf \/ WrapDone
    BY <2>4, SlotIs, SlotIsNext DEF WrapHalf, WrapDone
  <2>5. CASE FlushHalf
    BY <2>5, <1>1, SlotIs, SlotIsNext DEF FlushHalf
  <2>6. CASE FlushDone
    <3>1. tmp = tail /\ pc = "flush2" BY <2>6 DEF FlushDone, RingInv, MainAt
    <3> QED BY <2>6, <3>1, SlotIs, SlotIsNext DEF FlushDone
  <2>7. CASE Arrive \/ UNCHANGED vars
    BY <2>7, <1>1 DEF Arrive, mainVars, isrVars, vars, Slot
  <2> QED BY <2>1, <2>2, <2>3, <2>4, <2>5, <2>6, <2>7 DEF Other
<1> QED BY <1>1, <1>2 DEF Fill

LEMMA Stored ==
  ASSUME RingInv, Interrupt
  PROVE  /\ Slot' = Slot /\ fifo # <<>> /\ rxie /\ Head(fifo) \in Byte
         /\ Len(fifo') = Len(fifo) - 1 /\ Len(fifo) \in Nat
         /\ UNCHANGED <<head, pc, tmp, d, taken, rxie, late>>
         /\ HasRoom => /\ buf' = [buf EXCEPT ![tail] = Head(fifo)]
                       /\ tail' = Round(tail + 1)
                       /\ stored' = Append(stored, Head(fifo)) /\ dropped' = dropped
                       /\ Fill < Size - 1 => Fill' = Fill + 1
                       /\ Fill = Size - 1 => Fill' = 0
         /\ ~HasRoom => /\ UNCHANGED <<buf, tail, stored>> /\ Fill' = Fill
                        /\ dropped' = dropped \union {Head(fifo)}
<1>1. /\ UNCHANGED <<head, pc, tmp, d, taken, rxie, late>> /\ rxie
      /\ fifo # <<>> /\ fifo' = Tail(fifo)
  BY DEF Interrupt, mainVars, arrivals
<1>2. Head(fifo) \in Byte /\ Len(fifo') = Len(fifo) - 1 /\ Len(fifo) \in Nat
  BY <1>1 DEF RingInv, TypeOK
<1>3. pc \in PC /\ ~Masked
  BY <1>1 DEF RingInv, TypeOK
<1>4. Slot' = Slot
  BY <1>1, <1>3 DEF Slot, Masked
<1>5. ASSUME HasRoom
      PROVE  /\ buf' = [buf EXCEPT ![tail] = Head(fifo)]
             /\ tail' = Round(tail + 1)
             /\ stored' = Append(stored, Head(fifo)) /\ dropped' = dropped
             /\ Fill < Size - 1 => Fill' = Fill + 1
             /\ Fill = Size - 1 => Fill' = 0
  <2>1. /\ buf' = [buf EXCEPT ![tail] = Head(fifo)] /\ tail' = Wrapped(tail + 1)
        /\ stored' = Append(stored, Head(fifo)) /\ dropped' = dropped
    BY <1>5 DEF Interrupt
  <2>2. tail' = Round(tail + 1) /\ tail' \in 0 .. Size - 1
    BY <2>1, FillIs DEF Round, Wrapped
  <2>3. /\ tail' >= Slot => Fill' = tail' - Slot
        /\ tail' < Slot => Fill' = tail' + Size - Slot
    BY <1>4, <2>2, FillIs DEF Fill
  <2>4. /\ Fill < Size - 1 => Fill' = Fill + 1
        /\ Fill = Size - 1 => Fill' = 0
    BY <2>2, <2>3, FillIs DEF Round
  <2> QED BY <2>1, <2>2, <2>4
<1>6. ASSUME ~HasRoom
      PROVE  /\ UNCHANGED <<buf, tail, stored>> /\ Fill' = Fill
             /\ dropped' = dropped \union {Head(fifo)}
  BY <1>4, <1>6 DEF Interrupt, Fill
<1> QED BY <1>1, <1>2, <1>4, <1>5, <1>6

LEMMA RingInit == Init => RingInv /\ Slot = 0 /\ Fill = 0
<1> SUFFICES ASSUME Init PROVE RingInv /\ Slot = 0 /\ Fill = 0
  OBVIOUS
<1>1. Slot = 0 /\ pc = "loop" /\ head = 0 /\ tail = 0 /\ rxie = TRUE
  BY SlotIs DEF Init
<1>2. Fill = 0
  BY <1>1 DEF Fill
<1> QED BY <1>1, <1>2, TypeInit DEF RingInv, Masked, MainAt

LEMMA RingStep == RingInv /\ [Next]_vars => RingInv'
<1> SUFFICES ASSUME RingInv, [Next]_vars PROVE RingInv'
  OBVIOUS
<1>0. TypeOK'
  BY TypeStep DEF RingInv
<1>1. CASE Poll
  <2>1. Fill' = Fill /\ tail' = tail BY <1>1, SlotStays, OtherSame DEF Other
  <2>2. pc' = "poll" /\ head' = head /\ tmp' = tail /\ pc = "loop" /\ rxie' = rxie
    BY <1>1 DEF Poll
  <2> QED BY <1>0, <2>1, <2>2 DEF RingInv, MainAt, Masked
<1>2. CASE TestEmpty
  <2>1. Fill' = Fill /\ tail' = tail BY <1>2, SlotStays, OtherSame DEF Other
  <2>2. pc = "poll" /\ pc' \in {"loop", "fetch"} /\ head' = head /\ rxie' = rxie
    BY <1>2 DEF TestEmpty
  <2>3. ASSUME pc' = "fetch", Fill = 0 PROVE FALSE
    <3>1. Mix(tmp, tail) = {tail} /\ tail = head
      BY <2>2, <2>3, MixSame, FillIs, SlotIs DEF RingInv, MainAt, TypeOK, Round
    <3> QED BY <1>2, <2>3, <3>1 DEF TestEmpty
  <2>4. Fill \in Nat BY FillIs
  <2> QED BY <1>0, <2>1, <2>2, <2>3, <2>4 DEF RingInv, MainAt, Masked
<1>3. CASE Fetch
  BY <1>0, <1>3 DEF Fetch, RingInv, MainAt, Masked
<1>4. CASE IncHalf
  <2>1. head \in 0 .. Size - 1 BY <1>4 DEF IncHalf, RingInv, MainAt, TypeOK
  <2>2. head' \in {head, head + 1, head + Radix, head + 1 - Radix}
    BY <1>4, <2>1, MixNext DEF IncHalf
  <2> QED BY <1>0, <1>4, <2>1, <2>2 DEF IncHalf, RingInv, MainAt, Masked
<1>5. CASE IncDone
  BY <1>0, <1>5 DEF IncDone, RingInv, MainAt, Masked
<1>6. CASE WrapHalf
  BY <1>0, <1>6, MixWrap DEF WrapHalf, RingInv, MainAt, Masked
<1>7. CASE WrapDone
  BY <1>0, <1>7 DEF WrapDone, RingInv, MainAt, Masked
<1>8. CASE Deliver
  <2>1. /\ \/ pc' = "loop" /\ rxie' = rxie
           \/ pc' = "drain" /\ rxie' = FALSE
        /\ pc = "deliver" /\ head' = head
    BY <1>8 DEF Deliver
  <2> QED BY <1>0, <2>1 DEF RingInv, MainAt, Masked
<1>9. CASE Drain
  BY <1>0, <1>9 DEF Drain, RingInv, MainAt, Masked, isrVars
<1>10. CASE FlushHalf
  <2>1. tmp' = tail
    BY <1>10, MixSame DEF FlushHalf, RingInv, MainAt, TypeOK
  <2> QED BY <1>0, <1>10, <2>1 DEF FlushHalf, RingInv, MainAt, Masked, isrVars
<1>11. CASE FlushDone
  BY <1>0, <1>11 DEF FlushDone, RingInv, MainAt, Masked, TypeOK
<1>12. CASE Interrupt
  <2>1. UNCHANGED <<head, pc, tmp, rxie>> /\ rxie
    BY <1>12, Stored
  <2>2. ~Masked
    BY <2>1 DEF RingInv
  <2>3. ASSUME pc \in {"poll", "fetch"}
        PROVE  /\ Fill' > 0 \/ (Fill' = Fill /\ tail' = tail)
               /\ Fill' > 0 \/ Fill = 0
    <3>1. HasRoom <=> Fill # Size - 1
      BY <2>1, <2>3, FullIsSeen DEF Moving
    <3> QED BY <1>12, <3>1, Stored, FillIs
  <2> QED BY <1>0, <2>1, <2>2, <2>3 DEF RingInv, MainAt, Masked
<1>13. CASE Arrive \/ UNCHANGED vars
  <2>1. Fill' = Fill BY <1>13, SlotStays
  <2>2. UNCHANGED <<head, pc, tmp, rxie, tail>>
    BY <1>13 DEF Arrive, mainVars, isrVars, vars
  <2> QED BY <1>0, <2>1, <2>2 DEF RingInv, MainAt, Masked
<1> QED
  BY <1>1, <1>2, <1>3, <1>4, <1>5, <1>6, <1>7, <1>8, <1>9, <1>10, <1>11,
     <1>12, <1>13 DEF Next, MainLoop
-----------------------------------------------------------------------------
(* What was stored: true until the main loop falls behind.                  *)

LEMMA KeptFill ==
  ASSUME SmallBacklog, RingInv, Kept
  PROVE  /\ Backlog = Fill /\ Fill + Len(fifo) <= SafeBacklog /\ Len(fifo) \in Nat
         /\ Fill < Size - 1
         /\ taken \in Nat /\ Len(stored) = taken + Fill
<1>1. /\ taken \in Nat /\ Len(stored) \in Nat /\ Len(fifo) \in Nat
      /\ Backlog = Len(stored) - taken /\ Backlog \in Nat
      /\ Len(fifo) + Backlog <= SafeBacklog
  BY DEF RingInv, TypeOK, Kept, Bounded, Backlog
<1>2. Backlog < Size - 1
  BY <1>1 DEF SmallBacklog
<1>3. Backlog = Fill
  BY <1>1, <1>2, FillIs DEF Kept, Contents
<1> QED BY <1>1, <1>2, <1>3

LEMMA FetchKeeps ==
  ASSUME SmallBacklog, RingInv, Kept, Fetch, ~late PROVE Kept'
<1>1. /\ head \in 0 .. Size - 1 /\ Slot = head
      /\ Backlog \in 1 .. Size - 1 /\ tail = Round(head + Backlog)
  BY KeptFill, FillIs, SlotIs DEF Fetch, RingInv, MainAt, TypeOK
<1>2. taken \in Nat /\ Len(stored) \in Nat /\ Backlog = Len(stored) - taken
  BY DEF RingInv, TypeOK, Backlog
<1>3. /\ taken' = taken + 1 /\ stored' = stored /\ tail' = tail /\ buf' = buf
      /\ head' = head /\ pc' = "inc" /\ fifo' = fifo
      /\ dropped' = dropped /\ d' = buf[head] /\ late' = late
  BY <1>1 DEF Fetch, isrVars, arrivals
<1>4. Slot' = Round(head + 1)
  BY <1>1, <1>3, SlotIsNext DEF Round, Wrapped
<1>5. Backlog' = Backlog - 1 BY <1>2, <1>3 DEF Backlog
<1>6. d' = stored[taken + 1]
  <2>1. buf[Round(Slot + 0)] = stored[taken + 1 + 0]
    BY <1>1 DEF Kept, Contents
  <2> QED BY <1>1, <1>2, <1>3, <2>1 DEF Round
<1>7. FifoOrder' BY <1>1, <1>2, <1>3, <1>6 DEF FifoOrder
<1>8. Contents'
  <2>1. tail' = Round(Slot' + Backlog')
    <3>1. Round(Round(head + 1) + (Backlog - 1)) = Round(head + Backlog)
      BY <1>1 DEF Round
    <3> QED BY <1>1, <1>3, <1>4, <1>5, <3>1
  <2>2. ASSUME NEW i \in 0 .. Backlog' - 1
        PROVE  buf'[Round(Slot' + i)] = stored'[taken' + 1 + i]
    <3>1. i + 1 \in 0 .. Backlog - 1 BY <1>1, <1>5
    <3>2. buf[Round(head + (i + 1))] = stored[taken + 1 + (i + 1)]
      BY <1>1, <3>1 DEF Kept, Contents
    <3>3. Round(Slot' + i) = Round(head + (i + 1))
      BY <1>1, <1>4, <1>5 DEF Round
    <3> QED BY <1>2, <1>3, <3>2, <3>3
  <2> QED BY <2>1, <2>2 DEF Contents
<1>9. Bounded' BY <1>1, <1>2, <1>3, <1>5 DEF Kept, Bounded
<1>10. NoDrop' BY <1>3 DEF Kept, NoDrop
<1> QED BY <1>7, <1>8, <1>9, <1>10 DEF Kept

LEMMA InterruptKeeps ==
  ASSUME SmallBacklog, RingInv, Kept, Interrupt, ~late PROVE Kept'
<1>1. /\ Slot \in 0 .. Size - 1 /\ Backlog \in 0 .. Size - 2
      /\ tail = Round(Slot + Backlog) /\ tail \in 0 .. Size - 1
      /\ taken \in Nat /\ Len(stored) \in Nat /\ Backlog = Len(stored) - taken
  BY KeptFill, FillIs DEF RingInv, TypeOK
<1>2. /\ Slot' = Slot /\ Head(fifo) \in Byte /\ rxie
      /\ Len(fifo') = Len(fifo) - 1 /\ Len(fifo) \in Nat /\ Len(fifo) >= 1
      /\ UNCHANGED <<pc, d, taken, late>>
  BY Stored DEF RingInv, TypeOK
<1>3. HasRoom
  BY <1>2, KeptFill, RoomForOne, FillIs
<1>4. /\ buf' = [buf EXCEPT ![tail] = Head(fifo)] /\ tail' = Round(tail + 1)
      /\ stored' = Append(stored, Head(fifo)) /\ dropped' = dropped
  BY <1>3, Stored
<1>5. /\ Len(stored') = Len(stored) + 1
      /\ \A i \in 1 .. Len(stored) : stored'[i] = stored[i]
      /\ stored'[Len(stored) + 1] = Head(fifo)
  BY <1>2, <1>4 DEF RingInv, TypeOK
<1>6. Backlog' = Backlog + 1 BY <1>1, <1>2, <1>5 DEF Backlog
<1>7. Contents'
  <2>1. tail' = Round(Slot' + Backlog')
    BY <1>1, <1>2, <1>4, <1>6 DEF Round
  <2>2. ASSUME NEW i \in 0 .. Backlog' - 1
        PROVE  buf'[Round(Slot' + i)] = stored'[taken' + 1 + i]
    <3>1. CASE i = Backlog
      <4>1. Round(Slot' + i) = tail BY <1>1, <1>2, <3>1
      <4>2. taken' + 1 + i = Len(stored) + 1 BY <1>1, <1>2, <3>1
      <4>3. buf'[tail] = Head(fifo)
        BY <1>1, <1>4 DEF RingInv, TypeOK
      <4> QED BY <1>5, <4>1, <4>2, <4>3
    <3>2. CASE i # Backlog
      <4>1. i \in 0 .. Backlog - 1 BY <1>1, <1>6, <3>2
      <4>2. buf[Round(Slot + i)] = stored[taken + 1 + i]
        BY <4>1 DEF Kept, Contents
      <4>3. Round(Slot + i) # tail /\ Round(Slot + i) \in 0 .. Size - 1
        BY <1>1, <4>1 DEF Round
      <4>4. buf'[Round(Slot + i)] = buf[Round(Slot + i)]
        BY <1>1, <1>4, <4>3 DEF RingInv, TypeOK
      <4>5. taken + 1 + i \in 1 .. Len(stored) BY <1>1, <4>1
      <4> QED BY <1>2, <1>5, <4>2, <4>4, <4>5
    <3> QED BY <3>1, <3>2
  <2> QED BY <2>1, <2>2 DEF Contents
<1>8. FifoOrder' BY <1>1, <1>2, <1>5 DEF Kept, FifoOrder
<1>9. Bounded' BY <1>1, <1>2, <1>5, <1>6 DEF Kept, Bounded
<1>10. NoDrop' BY <1>4 DEF Kept, NoDrop
<1> QED BY <1>7, <1>8, <1>9, <1>10 DEF Kept

LEMMA DrainKeeps ==
  ASSUME SmallBacklog, RingInv, Kept, Drain, ~late PROVE Kept'
<1>1. /\ tail' = tail /\ buf' = buf /\ stored' = stored /\ dropped' = dropped
      /\ taken' = Len(stored) /\ fifo' = <<>> /\ pc' = "flush"
  BY DEF Drain, isrVars
<1>2. Slot' = tail BY <1>1, SlotIsNext
<1>3. Backlog' = 0 /\ Len(stored) \in Nat BY <1>1 DEF Backlog, RingInv, TypeOK
<1>4. Contents' BY <1>1, <1>2, <1>3 DEF Contents, RingInv, TypeOK, Round
<1>5. Bounded' BY <1>1, <1>3 DEF Bounded
<1>6. FifoOrder' BY <1>1 DEF FifoOrder
<1>7. NoDrop' BY <1>1 DEF Kept, NoDrop
<1> QED BY <1>4, <1>5, <1>6, <1>7 DEF Kept

LEMMA OtherKeeps ==
  ASSUME SmallBacklog, RingInv, Kept, ~late, Other \/ UNCHANGED vars PROVE Kept'
<1>1. /\ UNCHANGED <<tail, buf, fifo, stored, taken, dropped, d, late>>
      /\ Slot' = Slot
  BY OtherSame, SlotStays DEF vars
<1>2. Backlog' = Backlog BY <1>1 DEF Backlog
<1>3. Bounded' /\ Contents' /\ NoDrop'
  BY <1>1, <1>2 DEF Kept, Bounded, Contents, NoDrop
<1>4. pc' \in {"inc", "inc2", "wrap", "wrap2", "deliver"} =>
          pc \in {"inc", "inc2", "wrap", "wrap2", "deliver"}
  BY DEF Other, Poll, TestEmpty, IncHalf, IncDone, WrapHalf, WrapDone, Deliver,
         FlushHalf, FlushDone, vars
<1>5. FifoOrder' BY <1>1, <1>4 DEF Kept, FifoOrder
<1> QED BY <1>3, <1>5 DEF Kept

LEMMA ArriveKeeps ==
  ASSUME SmallBacklog, RingInv, Kept, ~late, Arrive, ~late' PROVE Kept'
<1>0. ~(Unread >= SafeBacklog)
  BY Zenon DEF Arrive
<1>1. /\ UNCHANGED <<tail, buf, stored, taken, dropped, d, pc>> /\ Slot' = Slot
  BY SlotStays DEF Arrive, mainVars, isrVars
<1>2. Backlog' = Backlog BY <1>1 DEF Backlog
<1>3. Len(fifo') = Len(fifo) + 1
  BY DEF Arrive, RingInv, TypeOK
<1>4. Bounded'
  <2>1. /\ Len(fifo) \in Nat /\ Fill \in 0 .. Size - 1 /\ Backlog = Fill
        /\ Unread = Len(fifo) + Fill
    BY KeptFill, FillIs DEF Unread
  <2>2. Len(fifo) + Backlog < SafeBacklog
    BY <1>0, <2>1
  <2> QED BY <1>1, <1>2, <1>3, <2>1, <2>2 DEF Kept, Bounded
<1>5. Contents' /\ NoDrop' /\ FifoOrder'
  BY <1>1, <1>2 DEF Kept, Contents, NoDrop, FifoOrder
<1> QED BY <1>4, <1>5 DEF Kept

LEMMA InvInit == Init => IInv
<1> SUFFICES ASSUME Init PROVE IInv
  OBVIOUS
<1>1. RingInv /\ Slot = 0 /\ Fill = 0
  BY RingInit
<1>2. Backlog = 0 /\ Len(fifo) = 0 /\ tail = 0
  BY DEF Init, Backlog
<1>3. Bounded /\ Contents
  BY <1>1, <1>2 DEF Init, Bounded, Contents, Round
<1>4. FifoOrder /\ NoDrop
  BY DEF Init, FifoOrder, NoDrop
<1> QED BY <1>1, <1>3, <1>4 DEF IInv, Kept

LEMMA InvStep == SmallBacklog /\ IInv /\ [Next]_vars => IInv'
<1> SUFFICES ASSUME SmallBacklog, IInv, [Next]_vars PROVE IInv'
  OBVIOUS
<1>1. RingInv' BY RingStep DEF IInv
<1>2. ~late' => ~late
  BY OtherSame DEF Next, MainLoop, Other, Fetch, Drain, Interrupt, Arrive, arrivals, vars
<1>3. ASSUME ~late' PROVE Kept'
  <2>1. ~late /\ Kept /\ RingInv BY <1>2, <1>3 DEF IInv
  <2> QED
    BY <1>3, <2>1, FetchKeeps, InterruptKeeps, DrainKeeps, OtherKeeps, ArriveKeeps
    DEF Next, MainLoop, Other
<1> QED BY <1>1, <1>3 DEF IInv
-----------------------------------------------------------------------------
\* serial.cpp, all of it: the indices, the buffer and the registers stay in
\* range, except that head may be seen half-stored (any natural number).
THEOREM TypeCorrect == Spec => []TypeOK
  BY TypeInit, TypeStep, PTL DEF Spec

\* With the interrupt masked in every flush (all decoders but the debugging
\* query of isdv4_serial::init), and until more than SafeBacklog bytes are unread,
\* read() returns the bytes in the order stored, none twice, none skipped.
THEOREM ReadsInOrder ==
  ASSUME SmallBacklog PROVE Spec => []FifoOrder
<1>1. Init => IInv BY InvInit
<1>2. IInv /\ [Next]_vars => IInv' BY InvStep
<1>3. IInv => FifoOrder BY DEF IInv, Kept, FifoOrder
<1> QED BY <1>1, <1>2, <1>3, PTL DEF Spec

\* ... and handle_interrupt never takes the buffer for full and drops a byte.
THEOREM DropsNothing ==
  ASSUME SmallBacklog PROVE Spec => []NoDrop
<1>1. Init => IInv BY InvInit
<1>2. IInv /\ [Next]_vars => IInv' BY InvStep
<1>3. IInv => NoDrop BY DEF IInv, Kept, NoDrop
<1> QED BY <1>1, <1>2, <1>3, PTL DEF Spec
-----------------------------------------------------------------------------
(* The queue: the bytes from Slot to the tail.                              *)
InRing == [k \in 1 .. Fill |-> buf[Round(Slot + k - 1)]]

LEMMA Filled ==
  ASSUME NEW n \in Nat, NEW S, NEW f \in [1 .. n -> S]
  PROVE  f \in Seq(S) /\ Len(f) = n
  OBVIOUS

LEMMA InRingIs ==
  ASSUME RingInv
  PROVE  /\ InRing \in Seq(Byte \union {NoByte}) /\ Len(InRing) = Fill
         /\ \A k \in 1 .. Fill : InRing[k] = buf[Round(Slot + k - 1)]
<1>1. Fill \in Nat BY FillIs
<1>2. \A k \in 1 .. Fill : Round(Slot + k - 1) \in 0 .. Size - 1
  BY FillIs DEF Round
<1>3. InRing \in [1 .. Fill -> Byte \union {NoByte}]
  BY <1>2 DEF InRing, RingInv, TypeOK
<1> QED BY <1>1, <1>3, Filled DEF InRing

LEMMA InRingNext ==
  ASSUME RingInv'
  PROVE  /\ InRing' \in Seq(Byte \union {NoByte}) /\ Len(InRing') = Fill'
         /\ \A k \in 1 .. Fill' : InRing'[k] = buf'[Round(Slot' + k - 1)]
<1>1. Fill' \in Nat BY FillNext
<1>2. \A k \in 1 .. Fill' : Round(Slot' + k - 1) \in 0 .. Size - 1
  BY FillNext DEF Round
<1>3. InRing' \in [1 .. Fill' -> Byte \union {NoByte}]
  <2>1. buf' \in [0 .. Size - 1 -> Byte \union {NoByte}]
    BY DEF RingInv, TypeOK
  <2> QED BY <1>2, <2>1 DEF InRing
<1> QED BY <1>1, <1>3, Filled DEF InRing

LEMMA EmptyRing ==
  ASSUME RingInv', Fill' = 0 PROVE InRing' = <<>>
  BY InRingNext

\* A byte taken from the front,
LEMMA RingTakes ==
  ASSUME RingInv, RingInv', Fetch
  PROVE  InRing # <<>> /\ d' = Head(InRing) /\ InRing' = Tail(InRing)
<1>1. /\ Slot = head /\ head \in 0 .. Size - 1 /\ Fill \in 1 .. Size - 1
      /\ Slot' = Round(head + 1) /\ tail' = tail /\ buf' = buf /\ d' = buf[head]
  BY FillIs, SlotIs, SlotIsNext DEF Fetch, RingInv, MainAt, isrVars, Round, Wrapped
<1>2. Fill' = Fill - 1
  <2>1. Round(Slot' + (Fill - 1)) = Round(head + Fill)
    BY <1>1 DEF Round
  <2> QED BY <1>1, <2>1, FillIs, FillNext
<1> DEFINE q == InRing
           t == Tail(q)
           r == InRing'
<1>3. q \in Seq(Byte \union {NoByte}) /\ Len(q) = Fill
      /\ \A k \in 1 .. Fill : q[k] = buf[Round(head + k - 1)]
  BY <1>1, InRingIs
<1>4. r \in Seq(Byte \union {NoByte}) /\ Len(r) = Fill - 1
      /\ \A k \in 1 .. Fill - 1 : r[k] = buf[Round(Round(head + 1) + k - 1)]
  BY <1>1, <1>2, InRingNext
<1> HIDE DEF q, r
<1>5. q # <<>> /\ Head(q) = q[1]
  BY <1>1, <1>3
<1>6. t \in Seq(Byte \union {NoByte}) /\ Len(t) = Fill - 1
      /\ \A k \in 1 .. Fill - 1 : t[k] = q[k + 1]
  BY <1>1, <1>3, <1>5, HeadTailProperties
<1> HIDE DEF t
<1>7. Head(q) = d'
  <2>1. Round(head + 1 - 1) = head BY <1>1 DEF Round
  <2> QED BY <1>1, <1>3, <1>5, <2>1
<1>8. \A k \in 1 .. Fill - 1 : t[k] = r[k]
  <2> SUFFICES ASSUME NEW k \in 1 .. Fill - 1 PROVE t[k] = r[k]
    OBVIOUS
  <2>1. Round(Round(head + 1) + k - 1) = Round(head + (k + 1) - 1)
    BY <1>1 DEF Round
  <2>2. q[k + 1] = buf[Round(head + (k + 1) - 1)]
    BY <1>1, <1>3
  <2> QED BY <1>4, <1>6, <2>1, <2>2
<1>9. t = r
  BY <1>4, <1>6, <1>8, SeqEqual
<1> QED BY <1>5, <1>7, <1>9 DEF q, r, t

\* ... one stored at the end,
LEMMA RingStores ==
  ASSUME RingInv, RingInv', Interrupt, HasRoom, Fill < Size - 1
  PROVE  InRing' = Append(InRing, Head(fifo))
<1>1. /\ Slot' = Slot /\ Slot \in 0 .. Size - 1 /\ Fill \in 0 .. Size - 2 /\ Fill' = Fill + 1
      /\ tail = Round(Slot + Fill) /\ tail \in 0 .. Size - 1
      /\ buf' = [buf EXCEPT ![tail] = Head(fifo)] /\ Head(fifo) \in Byte
  BY Stored, FillIs
<1> DEFINE q == InRing
           x == Head(fifo)
           p == Append(q, x)
           r == InRing'
<1>2. q \in Seq(Byte \union {NoByte}) /\ Len(q) = Fill
      /\ \A k \in 1 .. Fill : q[k] = buf[Round(Slot + k - 1)]
  BY InRingIs
<1>3. r \in Seq(Byte \union {NoByte}) /\ Len(r) = Fill + 1
      /\ \A k \in 1 .. Fill + 1 : r[k] = buf'[Round(Slot + k - 1)]
  BY <1>1, InRingNext
<1> HIDE DEF q, r
<1>4. /\ p \in Seq(Byte \union {NoByte}) /\ Len(p) = Fill + 1 /\ p[Fill + 1] = x
      /\ \A k \in 1 .. Fill : p[k] = q[k]
  BY <1>1, <1>2, AppendProperties
<1> HIDE DEF p
<1>5. \A k \in 1 .. Fill + 1 : p[k] = r[k]
  <2> SUFFICES ASSUME NEW k \in 1 .. Fill + 1 PROVE p[k] = r[k]
    OBVIOUS
  <2>1. CASE k = Fill + 1
    <3>1. Round(Slot + k - 1) = tail BY <1>1, <2>1
    <3>2. buf'[tail] = x BY <1>1 DEF RingInv, TypeOK
    <3> QED BY <1>1, <1>3, <1>4, <2>1, <3>1, <3>2
  <2>2. CASE k # Fill + 1
    <3>1. k \in 1 .. Fill BY <1>1, <2>2
    <3>2. Round(Slot + k - 1) # tail /\ Round(Slot + k - 1) \in 0 .. Size - 1
      BY <1>1, <3>1 DEF Round
    <3>3. buf'[Round(Slot + k - 1)] = buf[Round(Slot + k - 1)]
      BY <1>1, <3>2 DEF RingInv, TypeOK
    <3> QED BY <1>2, <1>3, <1>4, <3>1, <3>3
  <2> QED BY <2>1, <2>2
<1>6. p = r
  BY <1>1, <1>3, <1>4, <1>5, SeqEqual
<1> QED BY <1>6 DEF p, r, q, x

\* ... and nothing but that.
LEMMA RingStays ==
  ASSUME Slot' = Slot, Fill' = Fill, buf' = buf PROVE InRing' = InRing
  BY DEF InRing

QStep == Queue!QNext \/ UNCHANGED Queue!qvars

LEMMA InterruptQueues ==
  ASSUME SmallBacklog, RingInv, RingInv', Interrupt PROVE QStep
<1> USE DEF QStep, Queue!QNext, Queue!qvars
<1>1. /\ UNCHANGED <<pc, d, rxie>> /\ rxie /\ Head(fifo) \in Byte /\ Slot' = Slot
      /\ Len(InRing) = Fill /\ Fill \in 0 .. Size - 1
  BY Stored, InRingIs, FillIs
<1>2. CASE HasRoom /\ Fill < Size - 1
  <2>1. InRing' = Append(InRing, Head(fifo)) /\ dropped' = dropped
    BY <1>2, RingStores, Stored
  <2>2. Queue!Store(Head(fifo))
    BY <1>1, <1>2, <2>1 DEF Queue!Store, InRing
  <2> QED BY <1>1, <2>2
<1>3. CASE HasRoom /\ Fill = Size - 1
  <2>1. InRing' = <<>> /\ dropped' = dropped
    BY <1>3, EmptyRing, Stored
  <2>2. Moving BY <1>1, <1>3, FullIsSeen
  <2>3. Queue!Overrun
    BY <1>1, <1>3, <2>1, <2>2 DEF Queue!Overrun, InRing, Moving
  <2> QED BY <2>3
<1>4. CASE ~HasRoom
  <2>1. InRing' = InRing /\ dropped' = dropped \union {Head(fifo)}
    BY <1>1, <1>4, RingStays, Stored
  <2>2. Fill = Size - 1 \/ (Moving /\ Fill >= SafeBacklog)
    BY <1>1, <1>4, FullIsSeen, RoomForOne
  <2>3. Queue!Refuse(Head(fifo))
    BY <1>1, <2>1, <2>2 DEF Queue!Refuse, InRing, Moving
  <2> QED BY <1>1, <2>3
<1> QED BY <1>1, <1>2, <1>3, <1>4

LEMMA QueueStep ==
  ASSUME SmallBacklog, RingInv, RingInv', [Next]_vars PROVE QStep
<1> USE DEF QStep, Queue!QNext, Queue!qvars
<1>1. CASE Fetch
  <2>1. InRing # <<>> /\ d' = Head(InRing) /\ InRing' = Tail(InRing)
    BY <1>1, RingTakes
  <2>2. Queue!Take
    BY <1>1, <2>1 DEF Fetch, Queue!Take, InRing, isrVars
  <2> QED BY <2>2
<1>2. CASE Drain
  <2>1. Fill' = 0 /\ ~rxie /\ UNCHANGED <<rxie, d, dropped>>
        /\ pc = "drain" /\ pc' = "flush"
    BY <1>2, SlotIsNext, FillNext DEF Drain, isrVars, RingInv, Masked, Fill
  <2>2. Queue!Discard
    BY <2>1, EmptyRing DEF Queue!Discard, InRing
  <2> QED BY <2>2
<1>3. CASE Deliver /\ rxie' # rxie
  <2>1. InRing' = InRing
    BY <1>3, SlotStays, OtherSame, RingStays DEF Other
  <2>2. rxie /\ rxie' = FALSE /\ pc = "deliver" /\ pc' = "drain" /\ UNCHANGED <<d, dropped>>
    BY <1>3 DEF Deliver, isrVars, RingInv, Masked
  <2>3. Queue!Close
    BY <2>1, <2>2 DEF Queue!Close, InRing
  <2> QED BY <2>3
<1>4. CASE FlushDone
  <2>1. InRing' = InRing /\ Fill = 0
    BY <1>4, SlotStays, OtherSame, RingStays, SlotIs, FillIs DEF Other, FlushDone, Fill
  <2>2. InRing = <<>>
    BY <2>1, InRingIs
  <2>3. ~rxie /\ rxie' = TRUE /\ pc = "flush2" /\ pc' = "loop" /\ UNCHANGED <<d, dropped>>
    BY <1>4 DEF FlushDone, isrVars, RingInv, Masked
  <2>4. Queue!Reopen
    BY <2>1, <2>2, <2>3 DEF Queue!Reopen, InRing
  <2> QED BY <2>4
<1>5. CASE (IncDone \/ WrapDone) /\ pc' = "deliver"
  <2>1. InRing' = InRing
    BY <1>5, SlotStays, OtherSame, RingStays DEF Other
  <2>2. /\ pc \in {"inc2", "wrap2"} /\ pc' = "deliver" /\ UNCHANGED <<d, dropped, rxie>>
    BY <1>5 DEF IncDone, WrapDone, isrVars
  <2>3. Queue!Taken
    BY <2>1, <2>2 DEF Queue!Taken, InRing
  <2> QED BY <2>3
<1>6. CASE Arrive \/ UNCHANGED vars
  <2>1. UNCHANGED <<buf, d, dropped, rxie, pc>>
    BY <1>6 DEF Arrive, isrVars, mainVars, vars
  <2>2. InRing' = InRing
    BY <1>6, <2>1, SlotStays, RingStays
  <2> QED BY <2>1, <2>2 DEF InRing
<1>7. CASE Poll \/ TestEmpty \/ IncHalf \/ WrapHalf \/ FlushHalf
           \/ (IncDone /\ pc' # "deliver") \/ (Deliver /\ rxie' = rxie)
  <2>1. InRing' = InRing /\ UNCHANGED <<d, dropped>>
    BY <1>7, SlotStays, OtherSame, RingStays DEF Other
  <2>2. /\ rxie' = rxie
        /\ pc' \in {"inc", "inc2", "wrap", "wrap2"} <=> pc \in {"inc", "inc2", "wrap", "wrap2"}
    <3>1. CASE Deliver /\ rxie' = rxie
      BY <3>1 DEF Deliver
    <3>2. CASE Poll \/ TestEmpty
      BY <3>2 DEF Poll, TestEmpty
    <3>3. CASE IncHalf \/ WrapHalf \/ FlushHalf
      BY <3>3 DEF IncHalf, WrapHalf, FlushHalf
    <3>4. CASE IncDone /\ pc' # "deliver"
      BY <3>4 DEF IncDone
    <3> QED BY <3>1, <3>2, <3>3, <3>4, <1>7
  <2> QED BY <2>1, <2>2 DEF InRing
<1>8. pc' = "deliver" \/ ~WrapDone
  BY DEF WrapDone
<1> QED
  BY <1>1, <1>2, <1>3, <1>4, <1>5, <1>6, <1>7, <1>8, InterruptQueues DEF Next, MainLoop

\* However many bytes are unread, every step of the interrupt and of the main loop is
\* one that RxQueue allows: the buffer is a queue of Size - 1 bytes that refuses a
\* byte when it is full and, but for the moment in which the head is moved, only then;
\* in that moment it may refuse one behind SafeBacklog others, or be emptied by one
\* that comes when it is full (serial.cpp).  The assumption is about the constant
\* SafeBacklog alone: it is small enough for a half-stored head.
THEOREM IsAQueue ==
  ASSUME SmallBacklog PROVE Spec => ImplementsQueue
<1>1. Init => RingInv BY RingInit
<1>2. RingInv /\ [Next]_vars => RingInv' BY RingStep
<1>3. Init => Queue!QInit
  <2> SUFFICES ASSUME Init PROVE Queue!QInit
    OBVIOUS
  <2>1. InRing = <<>>
    BY RingInit, InRingIs
  <2> QED BY <2>1 DEF Init, Queue!QInit, InRing
<1>4. RingInv /\ RingInv' /\ [Next]_vars => [Queue!QNext]_Queue!qvars
  BY QueueStep DEF QStep
<1> QED BY <1>1, <1>2, <1>3, <1>4, PTL DEF Spec, ImplementsQueue, Queue!QSpec
=============================================================================
