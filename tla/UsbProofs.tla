------------------------------ MODULE UsbProofs ------------------------------
(* UsbSend, for every set of endpoints, number of banks and timeout: type       *)
(* correctness, and that it implements UsbPipe.  And UsbUtil over such a pipe,   *)
(* for every length of the countdowns, and of the bytes they are made of: type   *)
(* correctness, and that nothing is sent too early.                              *)
EXTENDS UsbSend, UsbUtil, TLAPS

\* Every step leaves the variables in their sets, and a call in progress is one
\* for a configured endpoint.
LEMMA TypeInductive == TypeOK /\ [Next]_sendVars => TypeOK'
<1> SUFFICES ASSUME TypeOK, [Next]_sendVars PROVE TypeOK'
  OBVIOUS
<1> USE BanksAssumption, EndpointAssumption DEF TypeOK, MaxEndpoint
<1>1. CASE TestConfigured
  BY <1>1 DEF TestConfigured, Return, usbVars
<1>2. ASSUME Attempt, uenum' = call[1], pc \in {"first", "again"},
             tx_timeout_count' \in 0 .. TxTimeout
      PROVE  TypeOK'
  <2>1. call \in Endpoint \X Data /\ uenum' \in Endpoint
    BY <1>2
  <2>2. CASE Room /\ banks' = [banks EXCEPT ![uenum'] = Append(@, call[2])]
                  /\ Return("sent")
    <3>1. banks' = [banks EXCEPT ![uenum'] = Append(banks[uenum'], call[2])]
      BY <2>2
    <3>2. /\ Append(banks[uenum'], call[2]) \in Seq(Data)
          /\ Len(Append(banks[uenum'], call[2])) <= Banks
      BY <2>1, <2>2 DEF Room
    <3>3. /\ banks' \in [Endpoint -> Seq(Data)]
          /\ \A e \in Endpoint : Len(banks'[e]) <= Banks
      BY <2>1, <3>1, <3>2
    <3> QED BY <1>2, <2>1, <2>2, <3>3 DEF Attempt, Return
  <2>3. CASE pc' = "waiting" /\ UNCHANGED <<banks, call, result>>
    BY <1>2, <2>1, <2>3 DEF Attempt
  <2> QED BY <1>2, <2>2, <2>3 DEF Attempt
<1>3. CASE FirstTry
  BY <1>2, <1>3 DEF FirstTry
<1>4. CASE TryAgain
  BY <1>2, <1>4 DEF TryAgain
<1>5. CASE TestTimeout
  BY <1>5 DEF TestTimeout, Return, usbVars
<1>6. CASE ResetInterrupt
  <2>1. usb_configuration' \in BOOLEAN /\ eorsti' \in BOOLEAN
    BY <1>6, Zenon DEF ResetInterrupt
  <2>2. /\ uenum' \in 0 .. MaxEndpoint
        /\ UNCHANGED <<tx_timeout_count, enabled, halted, banks, pc, call, result>>
    BY <1>6 DEF ResetInterrupt, callVars
  <2> QED BY <2>1, <2>2
<1>7. CASE FrameInterrupt
  BY <1>7 DEF FrameInterrupt, callVars
<1>8. ASSUME banks' = [e \in Endpoint |-> <<>>], UNCHANGED callVars,
             usb_configuration' \in BOOLEAN, enabled' \in BOOLEAN, eorsti' \in BOOLEAN,
             halted' \subseteq Endpoint, uenum' \in 0 .. MaxEndpoint,
             UNCHANGED tx_timeout_count
      PROVE  TypeOK'
  BY <1>8 DEF callVars
<1>9. ASSUME NEW v \in BOOLEAN, SetConfiguration(v) PROVE TypeOK'
  <2>1. PICK e \in Endpoint : \A f \in Endpoint : f <= e
    <3>1. CASE 3 \in Endpoint
      BY <3>1
    <3>2. CASE 3 \notin Endpoint /\ 2 \in Endpoint
      BY <3>2
    <3>3. CASE 3 \notin Endpoint /\ 2 \notin Endpoint
      <4>1. \A f \in Endpoint : f = 1
        BY <3>3
      <4>2. PICK f \in Endpoint : TRUE
        OBVIOUS
      <4> QED BY <4>1, <4>2
    <3> QED BY <3>1, <3>2, <3>3
  <2>2. uenum' \in Endpoint
    BY <1>9, <2>1 DEF SetConfiguration
  <2> QED BY <1>8, <1>9, <2>2 DEF SetConfiguration
<1>10. ASSUME NEW e \in 1 .. MaxEndpoint, ClearHalt(e) PROVE TypeOK'
  <2>1. /\ banks' \in [Endpoint -> Seq(Data)]
        /\ \A f \in Endpoint : Len(banks'[f]) <= Banks
    BY <1>10 DEF ClearHalt
  <2> QED BY <1>10, <2>1 DEF ClearHalt, callVars
<1>11. ASSUME NEW e \in 1 .. MaxEndpoint, SetHalt(e) PROVE TypeOK'
  BY <1>11 DEF SetHalt, callVars
<1>12. CASE Request
  BY <1>12 DEF Request, callVars
<1>13. CASE BusReset
  BY <1>8, <1>13 DEF BusReset
<1>14. ASSUME NEW e \in Endpoint, Collect(e) PROVE TypeOK'
  <2>1. Tail(banks[e]) \in Seq(Data) /\ Len(Tail(banks[e])) <= Banks
    BY <1>14 DEF Collect
  <2>2. /\ banks' \in [Endpoint -> Seq(Data)]
        /\ \A f \in Endpoint : Len(banks'[f]) <= Banks
    BY <1>14, <2>1 DEF Collect
  <2> QED BY <1>14, <2>2 DEF Collect, callVars
<1>15. ASSUME NEW e \in Endpoint, NEW d \in Data, Call(e, d) PROVE TypeOK'
  BY <1>15 DEF Call, usbVars
<1>16. CASE UNCHANGED sendVars
  BY <1>16 DEF sendVars, usbVars, callVars
<1> QED
  BY <1>1, <1>3, <1>4, <1>5, <1>6, <1>7, <1>9, <1>10, <1>11, <1>12, <1>13, <1>14,
     <1>15, <1>16 DEF Next, Sending, Bus, Interrupt
-----------------------------------------------------------------------------
\* The variables of usb_send_packet and of the interrupts stay in their sets.
THEOREM TypeCorrect == Spec => []TypeOK
<1>1. Init => TypeOK
  <2> SUFFICES ASSUME Init PROVE TypeOK
    OBVIOUS
  <2>1. /\ usb_configuration \in BOOLEAN /\ enabled \in BOOLEAN
        /\ eorsti \in BOOLEAN
    BY Zenon DEF Init
  <2>2. /\ banks \in [Endpoint -> Seq(Data)]
        /\ \A e \in Endpoint : Len(banks[e]) <= Banks
    BY BanksAssumption DEF Init
  <2> QED BY <2>1, <2>2, BanksAssumption DEF Init, TypeOK, MaxEndpoint
<1> QED BY <1>1, TypeInductive, PTL DEF Spec

\* Every step of usb_send_packet, of an interrupt or of the host is a step of a
\* pipe or leaves the pipe alone.
LEMMA StepIsPipeStep == TypeOK /\ [Next]_sendVars => [PNext]_(pvars)
<1> SUFFICES ASSUME TypeOK, [Next]_sendVars PROVE [PNext]_(pvars)
  OBVIOUS
<1> USE DEF pvars, TypeOK
<1>1. ASSUME Return("timeout") \/ Return("offline"), pc # "done", UNCHANGED banks
      PROVE  PNext
  <2>1. call \in Endpoint \X Data
    BY <1>1
  <2>2. call # <<>>
    <3>1. PICK e \in Endpoint, d \in Data : call = <<e, d>>
      BY <2>1
    <3> QED BY <3>1
  <2>3. call' = <<>> /\ result' \in {"timeout", "offline"}
    BY <1>1 DEF Return
  <2> QED BY <1>1, <2>2, <2>3 DEF PNext, Refuse
<1>2. CASE TestConfigured
  BY <1>1, <1>2 DEF TestConfigured, usbVars
<1>3. ASSUME Attempt, uenum' = call[1], pc \in {"first", "again"}
      PROVE  [PNext]_(pvars)
  <2>1. CASE Room /\ banks' = [banks EXCEPT ![uenum'] = Append(@, call[2])]
                  /\ Return("sent")
    BY <1>3, <2>1 DEF Room, Return, PNext, Put
  <2>2. CASE UNCHANGED <<banks, call, result>>
    BY <2>2
  <2> QED BY <1>3, <2>1, <2>2 DEF Attempt
<1>4. CASE FirstTry
  BY <1>3, <1>4 DEF FirstTry
<1>5. CASE TryAgain
  BY <1>3, <1>5 DEF TryAgain
<1>6. CASE TestTimeout
  BY <1>1, <1>6 DEF TestTimeout, usbVars
<1>7. CASE ResetInterrupt \/ FrameInterrupt \/ Request
  BY <1>7 DEF ResetInterrupt, FrameInterrupt, Request, callVars
<1>8. ASSUME banks' = [e \in Endpoint |-> <<>>], UNCHANGED <<call, result>>
      PROVE  PNext
  <2>1. Drop(Endpoint)
    BY <1>8 DEF Drop
  <2> QED BY <2>1 DEF PNext
<1>9. ASSUME NEW v \in BOOLEAN, SetConfiguration(v) PROVE PNext
  BY <1>8, <1>9 DEF SetConfiguration, callVars
<1>10. ASSUME NEW e \in 1 .. MaxEndpoint, ClearHalt(e) PROVE PNext
  <2>1. Drop({e} \intersect Endpoint)
    BY <1>10 DEF ClearHalt, callVars, Drop
  <2> QED BY <2>1 DEF PNext
<1>11. ASSUME NEW e \in 1 .. MaxEndpoint, SetHalt(e) PROVE UNCHANGED pvars
  BY <1>11 DEF SetHalt, callVars
<1>12. CASE BusReset
  BY <1>8, <1>12 DEF BusReset, callVars
<1>13. ASSUME NEW e \in Endpoint, Collect(e) PROVE PNext
  BY <1>13 DEF Collect, callVars, PNext, Take
<1>14. ASSUME NEW e \in Endpoint, NEW d \in Data, Call(e, d) PROVE PNext
  BY <1>14 DEF Call, usbVars, PNext, Ask
<1>15. CASE UNCHANGED sendVars
  BY <1>15 DEF sendVars, usbVars, callVars
<1> QED
  BY <1>2, <1>4, <1>5, <1>6, <1>7, <1>9, <1>10, <1>11, <1>12, <1>13, <1>14, <1>15
  DEF Next, Sending, Bus, Interrupt

\* usb_send_packet keeps its promise to its callers, in every interleaving of its
\* tries with the interrupts.
THEOREM SendsThroughPipe == Spec => ImplementsPipe
<1>1. Init => PInit
  BY DEF Init, PInit
<1> QED
  BY <1>1, StepIsPipeStep, TypeCorrect, PTL DEF Spec, ImplementsPipe, PSpec

-----------------------------------------------------------------------------
(* Bytes.  What the proofs need of a number's halves, without its division.   *)

Hi(a) == Radix * (a \div Radix)
Lo(a) == a % Radix

LEMMA RadixType == /\ Radix \in Nat /\ Radix >= 2
                   /\ Window \in Nat /\ Window >= 2 /\ Window <= Radix
BY PeriodAssumption

\* A number is the sum of its halves, and the lower one is a byte.
LEMMA Halves == ASSUME NEW a \in Nat
                PROVE  /\ Hi(a) \in Nat /\ Lo(a) \in Nat
                       /\ a = Hi(a) + Lo(a) /\ Lo(a) < Radix
BY RadixType DEF Hi, Lo

\* Multiples of Radix are equal or a byte apart.
LEMMA Multiples == ASSUME NEW p \in Nat, NEW q \in Nat, p < q
                   PROVE  /\ Radix * p \in Nat /\ Radix * q \in Nat
                          /\ Radix * p + Radix <= Radix * q
<1> DEFINE d == q - (p + 1)
<1>1. d \in Nat /\ q = p + 1 + d
  OBVIOUS
<1>2. Radix * d \in Nat
  BY <1>1, RadixType
<1>3. Radix * q = Radix * p + Radix + Radix * d
  BY <1>1, RadixType
<1> QED BY <1>2, <1>3, RadixType

\* So that a number has only one pair of halves.
LEMMA OnlyHalves == ASSUME NEW q \in Nat, NEW r \in Nat, r < Radix
                    PROVE  Hi(Radix * q + r) = Radix * q /\ Lo(Radix * q + r) = r
<1>1. PICK h \in Nat : h = Radix * q
  BY RadixType
<1>2. PICK a \in Nat : a = h + r
  OBVIOUS
<1>3. PICK p \in Nat : Hi(a) = Radix * p
  BY RadixType DEF Hi
<1>4. Hi(a) \in Nat /\ Lo(a) \in Nat /\ a = Hi(a) + Lo(a) /\ Lo(a) < Radix
  BY Halves
<1>5. ~(p < q)
  <2> SUFFICES ASSUME p < q PROVE FALSE
    OBVIOUS
  <2>1. Hi(a) + Radix <= h
    BY <1>1, <1>3, Multiples
  <2> QED BY <1>2, <1>4, <2>1, RadixType
<1>6. ~(q < p)
  <2> SUFFICES ASSUME q < p PROVE FALSE
    OBVIOUS
  <2>1. h + Radix <= Hi(a)
    BY <1>1, <1>3, Multiples
  <2> QED BY <1>2, <1>4, <2>1, RadixType
<1>7. p = q
  BY <1>5, <1>6
<1>8. Hi(a) = h
  BY <1>1, <1>3, <1>7
<1>9. Lo(a) = r
  BY <1>2, <1>4, <1>8
<1> QED BY <1>1, <1>2, <1>8, <1>9

\* The upper half is none, or at least a byte.
LEMMA HiIsMultiple == ASSUME NEW a \in Nat
                      PROVE  Hi(a) = 0 \/ (Hi(a) >= Radix /\ Hi(a) - Radix \in Nat)
<1>1. PICK q \in Nat : Hi(a) = Radix * q
  BY RadixType DEF Hi
<1>2. CASE q = 0
  BY <1>1, <1>2, RadixType
<1>3. CASE 0 < q
  <2>1. /\ Radix * 0 \in Nat /\ Radix * q \in Nat
        /\ Radix * 0 + Radix <= Radix * q
    BY <1>3, Multiples
  <2> QED BY <1>1, <2>1, RadixType
<1> QED BY <1>2, <1>3

\* The halves of a number's halves.
LEMMA HalvesOfHalves == ASSUME NEW a \in Nat
                        PROVE  /\ Hi(Hi(a)) = Hi(a) /\ Lo(Hi(a)) = 0
                               /\ Hi(Lo(a)) = 0 /\ Lo(Lo(a)) = Lo(a)
<1>1. PICK q \in Nat : Hi(a) = Radix * q
  BY RadixType DEF Hi
<1>2. Hi(a) \in Nat /\ Lo(a) \in Nat /\ Lo(a) < Radix
  BY Halves
<1>3. Hi(a) = Radix * q + 0 /\ Lo(a) = Radix * 0 + Lo(a) /\ Radix * 0 = 0
  BY <1>1, <1>2, RadixType
<1>4. Hi(Radix * q + 0) = Radix * q /\ Lo(Radix * q + 0) = 0
  BY OnlyHalves, RadixType
<1>5. Hi(Radix * 0 + Lo(a)) = Radix * 0 /\ Lo(Radix * 0 + Lo(a)) = Lo(a)
  BY <1>2, OnlyHalves
<1>6. Hi(Hi(a)) = Hi(a) /\ Lo(Hi(a)) = 0
  BY ONLY <1>1, <1>3, <1>4
<1>7. Hi(Lo(a)) = 0 /\ Lo(Lo(a)) = Lo(a)
  BY ONLY <1>3, <1>5
<1> QED BY <1>6, <1>7

\* What counting down does to the halves.
LEMMA OneLess ==
    ASSUME NEW a \in Nat, a > 0
    PROVE  \/ Lo(a) > 0 /\ Hi(a - 1) = Hi(a) /\ Lo(a - 1) = Lo(a) - 1
           \/ /\ Lo(a) = 0 /\ Hi(a) >= Radix
              /\ Hi(a - 1) = Hi(a) - Radix /\ Lo(a - 1) = Radix - 1
<1>0. PICK q \in Nat : Hi(a) = Radix * q
  BY RadixType DEF Hi
<1>1. /\ q \in Nat /\ Hi(a) = Radix * q /\ Hi(a) \in Nat
      /\ Lo(a) \in Nat /\ Lo(a) < Radix /\ a = Hi(a) + Lo(a)
  BY <1>0, Halves
<1>2. CASE Lo(a) > 0
  <2> DEFINE r == Lo(a) - 1
  <2>1. r \in Nat /\ r < Radix /\ a - 1 = Radix * q + r
    BY <1>1, <1>2, RadixType
  <2>2. Hi(Radix * q + r) = Radix * q /\ Lo(Radix * q + r) = r
    BY <1>1, <2>1, OnlyHalves
  <2> QED BY <1>1, <1>2, <2>1, <2>2
<1>3. CASE Lo(a) = 0
  <2> DEFINE p == q - 1
             r == Radix - 1
  <2>1. Hi(a) >= Radix
    BY <1>1, <1>3, HiIsMultiple
  <2>2. q # 0
    BY <1>1, <2>1, RadixType
  <2>3. p \in Nat /\ q = p + 1
    BY <1>1, <2>2
  <2>4. Radix * p \in Nat /\ Radix * q = Radix * p + Radix
    BY <2>3, RadixType
  <2>5. r \in Nat /\ r < Radix /\ a - 1 = Radix * p + r
    BY <1>1, <1>3, <2>4, RadixType
  <2>6. Hi(Radix * p + r) = Radix * p /\ Lo(Radix * p + r) = r
    BY <2>3, <2>5, OnlyHalves
  <2>7. Radix * p = Hi(a) - Radix
    BY <1>1, <2>4, RadixType
  <2> QED BY <1>3, <2>1, <2>5, <2>6, <2>7
<1> QED BY <1>1, <1>2, <1>3

LEMMA MixHalves == ASSUME NEW a, NEW b
                   PROVE  Mix(a, b) = {Hi(a) + Lo(b), Hi(b) + Lo(a)}
BY DEF Mix, Hi, Lo

\* A store of 0 or over 0, half-way, shows no more than the number.
LEMMA MixZero == ASSUME NEW a \in Nat, NEW v \in Mix(a, 0) \union Mix(0, a)
                 PROVE  v \in Nat /\ v <= a /\ (v = Lo(a) \/ v = Hi(a))
<1>1. Hi(0) = 0 /\ Lo(0) = 0
  <2>1. Hi(0) \in Nat /\ Lo(0) \in Nat /\ 0 = Hi(0) + Lo(0)
    BY Halves
  <2> QED BY <2>1
<1>2. Hi(a) \in Nat /\ Lo(a) \in Nat /\ a = Hi(a) + Lo(a)
  BY Halves
<1>3. v \in {Hi(a) + 0, 0 + Lo(a)}
  BY <1>1, MixHalves
<1> QED BY <1>2, <1>3

\* A countdown that looks ended between two halves of a load has: a tick between
\* them that borrows makes it look like 0, or like more than a byte.
LEMMA EndedIsEnded ==
    ASSUME NEW a \in Nat, NEW b \in {a, Counted(a)}, NEW v \in Mix(a, b), Ended(v)
    PROVE  b \in 1 .. Window - 1
<1>1. Hi(a) \in Nat /\ Lo(a) \in Nat /\ Lo(a) < Radix /\ a = Hi(a) + Lo(a)
  BY Halves
<1>2. v \in Nat /\ v >= 1 /\ v < Window
  BY RadixType, <1>1 DEF Ended
<1>3. v \in {Hi(a) + Lo(b), Hi(b) + Lo(a)}
  BY MixHalves
<1>4. CASE b = a
  BY <1>1, <1>2, <1>3, <1>4, RadixType
<1>5. CASE b # a
  <2>1. a > 1 /\ b = a - 1
    BY <1>5 DEF Counted
  <2>2. CASE Lo(a) > 0 /\ Hi(b) = Hi(a) /\ Lo(b) = Lo(a) - 1
    BY <1>1, <1>2, <1>3, <2>1, <2>2, RadixType
  <2>3. CASE Lo(a) = 0 /\ Hi(a) >= Radix /\ Hi(b) = Hi(a) - Radix /\ Lo(b) = Radix - 1
    <3>1. CASE v = Hi(a) + Lo(b)
      BY <1>1, <1>2, <2>3, <3>1, RadixType
    <3>2. CASE v = Hi(b) + Lo(a)
      <4>1. Hi(b) = 0 \/ Hi(b) >= Radix
        BY <2>1, HiIsMultiple
      <4> QED BY <1>1, <1>2, <2>3, <3>2, <4>1, RadixType
    <3> QED BY <1>3, <3>1, <3>2
  <2> QED BY <2>1, <2>2, <2>3, OneLess
<1> QED BY <1>4, <1>5

\* The store of the period, when a tick came between its halves.
LEMMA PeriodStored ==
    ASSUME NEW r \in Nat, NEW s \in Nat, s >= ReportPeriod \/ s + r >= tmp,
           tmp \in {Lo(ReportPeriod), Hi(ReportPeriod)}, r \in {tmp, Counted(tmp)},
           NEW stored,
           stored = IF Lo(tmp) = Lo(ReportPeriod) THEN Hi(ReportPeriod) + Lo(r)
                                                  ELSE Hi(r) + Lo(ReportPeriod)
    PROVE  stored \in Nat /\ stored <= ReportPeriod
           /\ s + stored >= ReportPeriod - Radix + 1
<1>1. /\ ReportPeriod \in Nat /\ Hi(ReportPeriod) \in Nat
      /\ Lo(ReportPeriod) \in Nat /\ Lo(ReportPeriod) < Radix
      /\ ReportPeriod = Hi(ReportPeriod) + Lo(ReportPeriod) /\ Lo(ReportPeriod) > 0
  <2>1. Lo(ReportPeriod) # 0
    BY PeriodAssumption DEF Lo
  <2> QED BY <2>1, Halves, PeriodAssumption
<1>2. /\ Hi(Hi(ReportPeriod)) = Hi(ReportPeriod) /\ Lo(Hi(ReportPeriod)) = 0
      /\ Hi(Lo(ReportPeriod)) = 0 /\ Lo(Lo(ReportPeriod)) = Lo(ReportPeriod)
  BY <1>1, HalvesOfHalves
<1>3. CASE tmp = Lo(ReportPeriod)
  <2>1. stored = Hi(ReportPeriod) + Lo(r)
    BY <1>2, <1>3
  <2>2. Lo(r) = r
    <3>1. Hi(r) = 0 \/ Hi(r) >= Radix
      BY HiIsMultiple
    <3>2. Hi(r) \in Nat /\ Lo(r) \in Nat /\ r = Hi(r) + Lo(r)
      BY Halves
    <3>3. r < Radix
      BY <1>1, <1>3, RadixType DEF Counted
    <3> QED BY <3>1, <3>2, <3>3, RadixType
  <2>3. r <= Lo(ReportPeriod) /\ (s >= ReportPeriod \/ s + r >= Lo(ReportPeriod))
    BY <1>1, <1>3 DEF Counted
  <2> QED BY <1>1, <2>1, <2>2, <2>3, RadixType
<1>4. CASE tmp = Hi(ReportPeriod)
  <2>1. stored = Hi(r) + Lo(ReportPeriod)
    BY <1>1, <1>2, <1>4
  <2>2. CASE r = tmp
    BY <1>1, <1>2, <1>4, <2>1, <2>2, RadixType
  <2>3. CASE r # tmp
    <3>1. Hi(ReportPeriod) > 1 /\ r = Hi(ReportPeriod) - 1
      BY <1>4, <2>3 DEF Counted
    <3>2. Hi(r) = Hi(ReportPeriod) - Radix /\ Hi(ReportPeriod) >= Radix
      BY <1>1, <1>2, <3>1, OneLess
    <3>3. s >= 1
      BY <1>1, <1>4, <3>1
    <3> QED BY <1>1, <2>1, <3>2, <3>3, RadixType
  <2> QED BY <2>2, <2>3
<1> QED BY <1>3, <1>4
-----------------------------------------------------------------------------
(* The invariant.                                                             *)

\* The countdown to a repetition and the ticks since the last packet make up the
\* time to wait.
FillerInv == filler # 0 => filler + idle >= IdleTicks

\* What each place in main_loop knows of the report's countdown; at most one tick
\* came since the last half of a load or store.
Storing == {"reportClear", "reportCleared", "reportSent", "reportSet"}
ReportInv ==
    /\ mpc \notin Storing /\ report # 0 => since + report >= ReportPeriod - Radix + 1
    /\ mpc = "reportLoaded" => report \in {tmp, Counted(tmp)}
    /\ mpc \in {"reportClear", "reportCleared"} =>
          since >= ReportPeriod - Radix - Window + 2
    /\ mpc = "reportSent" => report = 0
    /\ mpc = "reportSet" => /\ tmp \in {Lo(ReportPeriod), Hi(ReportPeriod)}
                            /\ report \in {tmp, Counted(tmp)}
                            /\ since >= ReportPeriod \/ since + report >= tmp

IInv == UtilTypeOK /\ FillerInv /\ ReportInv

LEMMA Periods == /\ ReportPeriod \in Nat /\ ReportPeriod > 0
                 /\ IdleTicks \in Nat /\ IdleTicks > 0 /\ IdleTicks < Radix
                 /\ TouchFirst \in 0 .. Radix - 1 /\ TouchPeriod \in 0 .. Radix - 1
<1>1. ReportPeriod # 0
  <2> SUFFICES ASSUME ReportPeriod = 0 PROVE FALSE
    OBVIOUS
  <2>1. Hi(0) \in Nat /\ Lo(0) \in Nat /\ 0 = Hi(0) + Lo(0)
    BY Halves
  <2>2. Lo(ReportPeriod) # 0
    BY PeriodAssumption DEF Lo
  <2> QED BY <2>1, <2>2
<1> QED BY <1>1, PeriodAssumption, RadixType

LEMMA InitIInv == UtilInit => IInv
<1> SUFFICES ASSUME UtilInit PROVE IInv
  OBVIOUS
<1> USE Periods, RadixType, PacketAssumption
<1>1. /\ touch \in 0 .. Radix - 1 /\ report \in {0, ReportPeriod}
      /\ mpc = "loop" /\ filler = 0 /\ tmp = 0 /\ idle = 0 /\ since = ReportPeriod
      /\ repeat_buffer = Empty /\ repeat_size = "empty" /\ PInit
  BY DEF UtilInit
<1>2. UtilTypeOK
  BY <1>1 DEF UtilTypeOK, PInit
<1>3. FillerInv /\ ReportInv
  BY <1>1 DEF FillerInv, ReportInv, Storing
<1> QED BY <1>2, <1>3 DEF IInv

\* What UtilTypeOK says of the pipe, and of the rest.
PipeOK == /\ banks \in [Endpoint -> Seq(Data)]
          /\ \A e \in Endpoint : Len(banks[e]) <= Banks
          /\ call = <<>> \/ call \in Endpoint \X Data
CountersOK == /\ mpc \in {"loop", "filler", "report", "reportLoaded", "reportClear",
                      "reportCleared", "reportSent", "reportSet", "touch", "touchSent"}
          /\ filler \in 0 .. Radix - 1 /\ touch \in 0 .. Radix - 1
          /\ report \in 0 .. ReportPeriod /\ tmp \in 0 .. ReportPeriod
          /\ repeat_buffer \in Data /\ repeat_size \in {"empty", "full"}
          /\ idle \in 0 .. IdleTicks /\ since \in 0 .. ReportPeriod

LEMMA TypeParts == UtilTypeOK <=> PipeOK /\ CountersOK
BY DEF UtilTypeOK, PipeOK, CountersOK

LEMMA AskOK == ASSUME PipeOK, NEW e \in Endpoint, NEW d \in Data, Ask(e, d) PROVE PipeOK'
BY DEF Ask, PipeOK

LEMMA SameOK == ASSUME PipeOK, UNCHANGED pvars PROVE PipeOK'
BY DEF pvars, PipeOK

LEMMA WaitingOK == ASSUME PipeOK, Put \/ Refuse PROVE PipeOK'
<1> USE PacketAssumption DEF PipeOK
<1>1. CASE Put
  <2>1. call \in Endpoint \X Data
    BY <1>1 DEF Put
  <2>2. PICK e \in Endpoint, d \in Data : e = call[1] /\ d = call[2]
    BY <2>1
  <2>3. banks' = [banks EXCEPT ![e] = Append(banks[e], d)] /\ Len(banks[e]) < Banks
    BY <1>1, <2>2 DEF Put
  <2>4. Append(banks[e], d) \in Seq(Data) /\ Len(Append(banks[e], d)) <= Banks
    BY <2>3
  <2> QED BY <1>1, <2>3, <2>4 DEF Put
<1>2. CASE Refuse
  BY <1>2 DEF Refuse
<1> QED BY <1>1, <1>2

LEMMA HostOK == ASSUME PipeOK, Host PROVE PipeOK'
<1> USE PacketAssumption DEF PipeOK
<1>1. ASSUME NEW e \in Endpoint, Take(e) PROVE PipeOK'
  <2>1. banks' = [banks EXCEPT ![e] = Tail(banks[e])] /\ banks[e] # <<>> /\ call' = call
    BY <1>1 DEF Take
  <2>2. /\ Tail(banks[e]) \in Seq(Data)
        /\ Len(Tail(banks[e])) = Len(banks[e]) - 1
    BY <2>1
  <2>3. Len(Tail(banks[e])) <= Banks
    BY <2>2
  <2> QED BY <2>1, <2>2, <2>3
<1>2. ASSUME NEW E \in SUBSET Endpoint, Drop(E) PROVE PipeOK'
  <2>1. banks' = [e \in Endpoint |-> IF e \in E THEN <<>> ELSE banks[e]] /\ call' = call
    BY <1>2 DEF Drop
  <2>2. \A e \in Endpoint : banks'[e] \in {<<>>, banks[e]}
    BY <2>1
  <2>3. banks' \in [Endpoint -> Seq(Data)]
    BY <2>1
  <2>4. \A e \in Endpoint : Len(banks'[e]) <= Banks
    BY <2>2
  <2> QED BY <2>1, <2>3, <2>4
<1> QED BY <1>1, <1>2 DEF Host

LEMMA NextIInv == IInv /\ [UtilNext]_uvars => IInv'
<1> SUFFICES ASSUME IInv, [UtilNext]_uvars PROVE IInv'
  OBVIOUS
<1> USE Periods, RadixType DEF Storing
<1>1. PipeOK /\ CountersOK /\ FillerInv /\ ReportInv
  BY TypeParts DEF IInv
<1>2. SUFFICES PipeOK' /\ CountersOK' /\ FillerInv' /\ ReportInv'
  <2>1. UtilTypeOK' <=> PipeOK' /\ CountersOK'
    BY DEF UtilTypeOK, PipeOK, CountersOK
  <2> QED BY <2>1 DEF IInv
<1>3. ASSUME UNCHANGED <<filler, idle, touch, report, tmp, since, repeat_buffer,
                         repeat_size>>,
             mpc' \in {"loop", "filler", "report", "touch", "touchSent"},
             mpc \notin Storing
      PROVE  CountersOK' /\ FillerInv' /\ ReportInv'
  BY <1>1, <1>3 DEF CountersOK, FillerInv, ReportInv
<1>4. CASE NoPenPacket
  BY <1>1, <1>3, <1>4, SameOK DEF NoPenPacket, Goto
<1>5. ASSUME NEW d \in PenPacket, SendPenPacket(d)
      PROVE  PipeOK' /\ CountersOK' /\ FillerInv' /\ ReportInv'
  <2>1. PipeOK'
    BY <1>1, <1>5, AskOK, PacketAssumption DEF SendPenPacket
  <2>2. CountersOK'
    BY <1>1, <1>5, PacketAssumption DEF SendPenPacket, Goto, CountersOK
  <2>3. FillerInv' /\ ReportInv'
    BY <1>1, <1>5 DEF SendPenPacket, Goto, CountersOK, FillerInv, ReportInv
  <2> QED BY <2>1, <2>2, <2>3
<1>6. CASE Fill
  <2>1. Repeated \in Data
    BY <1>1, PacketAssumption DEF Repeated, CountersOK
  <2>2. PipeOK'
    BY <1>1, <1>6, <2>1, AskOK, PacketAssumption DEF Fill
  <2>3. CountersOK' /\ FillerInv' /\ ReportInv'
    BY <1>1, <1>6 DEF Fill, Goto, CountersOK, FillerInv, ReportInv
  <2> QED BY <2>2, <2>3
<1>7. CASE NoFill
  BY <1>1, <1>3, <1>7, SameOK DEF NoFill, Goto
<1>8. CASE LoadReport
  <2>1. PipeOK'
    BY <1>1, <1>8, SameOK, Zenon DEF LoadReport, pvars
  <2>2. CountersOK' /\ FillerInv' /\ ReportInv'
    BY <1>1, <1>8 DEF LoadReport, Goto, CountersOK, FillerInv, ReportInv
  <2> QED BY <2>1, <2>2
<1>9. CASE TestReport
  <2>1. PICK v \in Mix(tmp, report) :
           mpc' = IF Ended(v) THEN "reportClear" ELSE "touch"
    BY <1>9 DEF TestReport
  <2>2. PipeOK'
    BY <1>1, <1>9, SameOK DEF TestReport
  <2>3. CountersOK' /\ FillerInv'
    BY <1>1, <1>9, <2>1 DEF TestReport, CountersOK, FillerInv
  <2>4. CASE Ended(v)
    <3>1. report \in 1 .. Window - 1
      BY <1>1, <1>9, <2>1, <2>4, EndedIsEnded DEF TestReport, ReportInv, CountersOK
    <3> QED BY <1>1, <1>9, <2>1, <2>2, <2>3, <2>4, <3>1 DEF TestReport, ReportInv, CountersOK
  <2>5. CASE ~Ended(v)
    BY <1>1, <1>9, <2>1, <2>2, <2>3, <2>5 DEF TestReport, ReportInv
  <2> QED BY <2>4, <2>5
<1>10. CASE ClearHalf
  <2>1. report' \in Nat /\ report' <= report /\ tmp' = report'
    BY <1>1, <1>10, MixZero DEF ClearHalf, CountersOK
  <2>2. PipeOK'
    BY <1>1, <1>10, SameOK DEF ClearHalf
  <2>3. CountersOK' /\ FillerInv' /\ ReportInv'
    BY <1>1, <1>10, <2>1 DEF ClearHalf, Goto, CountersOK, FillerInv, ReportInv
  <2> QED BY <2>2, <2>3
<1>11. CASE SendReport
  <2>1. PipeOK'
    BY <1>1, <1>11, AskOK, PacketAssumption DEF SendReport
  <2>2. CountersOK' /\ FillerInv' /\ ReportInv'
    BY <1>1, <1>11 DEF SendReport, Goto, CountersOK, FillerInv, ReportInv
  <2> QED BY <2>1, <2>2
<1>12. CASE SetHalf
  <2>1. report = 0
    BY <1>1, <1>12 DEF SetHalf, Goto, ReportInv
  <2>2. /\ report' \in Nat /\ report' <= ReportPeriod /\ tmp' = report'
        /\ report' \in {Lo(ReportPeriod), Hi(ReportPeriod)}
    BY <1>12, <2>1, MixZero DEF SetHalf
  <2>3. PipeOK'
    BY <1>1, <1>12, SameOK DEF SetHalf
  <2>4. CountersOK' /\ FillerInv'
    BY <1>1, <1>12, <2>2 DEF SetHalf, Goto, CountersOK, FillerInv
  <2>5. mpc' = "reportSet" /\ since' = since /\ since \in Nat
    BY <1>1, <1>12 DEF SetHalf, Goto, CountersOK
  <2>6. since' + report' >= tmp'
    <3> DEFINE r == report'
               s == since
    <3>1. r \in Nat /\ s \in Nat /\ tmp' = r /\ since' = s
      BY <2>2, <2>5
    <3> HIDE DEF r, s
    <3>2. s + r >= r
      BY <3>1
    <3> QED BY <3>1, <3>2 DEF r
  <2>7. ReportInv'
    BY <2>2, <2>5, <2>6 DEF ReportInv, Lo, Hi
  <2> QED BY <2>3, <2>4, <2>7
<1>13. CASE SetDone
  <2>1. /\ report \in Nat /\ since \in Nat
        /\ tmp \in {Lo(ReportPeriod), Hi(ReportPeriod)} /\ report \in {tmp, Counted(tmp)}
        /\ since >= ReportPeriod \/ since + report >= tmp
    BY <1>1, <1>13 DEF SetDone, Goto, CountersOK, ReportInv
  <2>2. report' = IF Lo(tmp) = Lo(ReportPeriod) THEN Hi(ReportPeriod) + Lo(report)
                                                ELSE Hi(report) + Lo(ReportPeriod)
    BY <1>13 DEF SetDone, Lo, Hi
  <2>3. /\ report' \in Nat /\ report' <= ReportPeriod
        /\ since + report' >= ReportPeriod - Radix + 1
    BY <2>1, <2>2, PeriodStored
  <2>4. PipeOK'
    BY <1>1, <1>13, SameOK DEF SetDone
  <2>5. CountersOK' /\ FillerInv' /\ ReportInv'
    BY <1>1, <1>13, <2>3 DEF SetDone, Goto, CountersOK, FillerInv, ReportInv
  <2> QED BY <2>4, <2>5
<1>14. CASE SendTouch
  <2>1. PipeOK'
    BY <1>1, <1>14, AskOK, PacketAssumption DEF SendTouch
  <2>2. CountersOK' /\ FillerInv' /\ ReportInv'
    BY <1>1, <1>14 DEF SendTouch, Goto, CountersOK, FillerInv, ReportInv
  <2> QED BY <2>1, <2>2
<1>15. CASE TouchSent
  <2>1. PipeOK'
    BY <1>1, <1>15, SameOK DEF TouchSent
  <2>2. CountersOK' /\ FillerInv' /\ ReportInv'
    BY <1>1, <1>15 DEF TouchSent, Goto, CountersOK, FillerInv, ReportInv
  <2> QED BY <2>1, <2>2
<1>16. CASE NoTouch
  BY <1>1, <1>3, <1>16, SameOK DEF NoTouch, Goto
<1>17. ASSUME UNCHANGED utilVars PROVE CountersOK' /\ FillerInv' /\ ReportInv'
  BY <1>1, <1>17 DEF utilVars, CountersOK, FillerInv, ReportInv
<1>18. CASE Waiting
  BY <1>1, <1>17, <1>18, WaitingOK DEF Waiting
<1>19. CASE Host
  BY <1>1, <1>17, <1>19, HostOK DEF Host
<1>20. CASE UNCHANGED uvars
  BY <1>1, <1>17, <1>20, SameOK DEF uvars
<1>21. CASE Tick
  <2>1. PipeOK'
    BY <1>1, <1>21, SameOK DEF Tick
  <2>2. CountersOK' /\ FillerInv'
    BY <1>1, <1>21 DEF Tick, Counted, CountersOK, FillerInv
  <2>3. ReportInv'
    BY <1>1, <1>21 DEF Tick, HalfDone, Counted, CountersOK, ReportInv
  <2> QED BY <2>1, <2>2, <2>3
<1> QED BY <1>4, <1>5, <1>6, <1>7, <1>8, <1>9, <1>10, <1>11, <1>12, <1>13, <1>14,
           <1>15, <1>16, <1>18, <1>19, <1>20, <1>21 DEF UtilNext, Loop
-----------------------------------------------------------------------------
\* Every variable of the idle time filler keeps its type: in particular a torn store
\* leaves no countdown longer than its period, and none is decremented below 0.
THEOREM UtilTypeCorrect == UtilSpec => []UtilTypeOK
<1>1. IInv => UtilTypeOK
  BY DEF IInv
<1> QED BY <1>1, InitIInv, NextIInv, PTL DEF UtilSpec

\* A packet is only sent again when no pen packet was sent for the time that is
\* configured, to within a tick (send_packet_fill_idle_time, main_loop).
THEOREM RepeatsWhenIdle == UtilSpec => IdleBeforeFill
<1>1. IInv /\ [UtilNext]_uvars => (Filled => idle >= IdleTicks - 1)
  <2> SUFFICES ASSUME IInv, [UtilNext]_uvars, Filled PROVE idle >= IdleTicks - 1
    OBVIOUS
  <2>1. mpc = "filler" /\ mpc' = "report" /\ call' # <<>>
    BY DEF Filled
  <2>2. Fill
    BY <2>1 DEF UtilNext, Loop, NoPenPacket, SendPenPacket, NoFill, LoadReport,
      TestReport, ClearHalf, SendReport, SetHalf, SetDone, SendTouch, TouchSent,
      NoTouch, Waiting,
      Tick, Host, Goto, uvars, utilVars, pvars
  <2> QED BY <2>2, Periods DEF Fill, IInv, UtilTypeOK, FillerInv
<1> QED BY <1>1, InitIInv, NextIInv, PTL DEF UtilSpec, IdleBeforeFill

\* However a load or a store of the 16-bit countdown is torn by the interrupt, a dummy
\* report comes at most one upper half too early (main_loop, line 125 to 131).
THEOREM ReportsNotTooEarly == UtilSpec => ReportsApart
<1>1. IInv /\ [UtilNext]_uvars
        => (SentReport => since >= ReportPeriod - Radix - Window + 2)
  BY DEF SentReport, IInv, ReportInv
<1> QED BY <1>1, InitIInv, NextIInv, PTL DEF UtilSpec, ReportsApart
=============================================================================
