------------------------------ MODULE AdbProofs ------------------------------
(* AdbCodec and its client AdbHost, for bytes and packets of any size: on any  *)
(* line the codec never stops half-way; on one that only carries what the host *)
(* and a device send, each transfer is called back once, the device hears the  *)
(* request and the client reads the answer.                                    *)
EXTENDS AdbHost, SequenceTheorems, TLAPS

Busy == mpc = "loop" /\ ~pending

\* A codec that waits for a device has its ear open.
Listens == Busy /\ state \in {"stop_to_start_in", "start_in"} => icie

-----------------------------------------------------------------------------
(* Any line.                                                                 *)

\* The steps of the codec and of the main loop that a client does not see.
LEMMA NoiseStep ==
  ASSUME Armed, NeverDeaf, Listens, [Next]_vars
  PROVE  Armed' /\ NeverDeaf' /\ Listens'
<1> USE DEF Armed, NeverDeaf, Listens, Busy, Sending
<1>1. CASE Consume \/ \E r \in Requests : Prepare(r)
  BY <1>1 DEF Consume, Prepare
<1>2. CASE CaptureOff \/ TimerOff
  BY <1>2 DEF CaptureOff, TimerOff, clientVars
<1>3. CASE Begin
  BY <1>3 DEF Begin
<1>4. ASSUME NEW s, NEW t, Timeout(s, t), Rearmed,
             t \notin {"stop_to_start_in", "start_in"}
      PROVE  Armed' /\ NeverDeaf' /\ Listens'
  BY <1>4 DEF Timeout, Rearmed, clientVars
<1>5. ASSUME NEW s, NEW t, Timeout(s, t), t \notin Sending \ {"idle"},
             pending' = TRUE
      PROVE  Armed' /\ NeverDeaf' /\ Listens'
  BY <1>5 DEF Timeout
<1>6. CASE Timer
  <2>1. CASE TimeoutIdle \/ TimeoutAttention \/ TimeoutStopToStartOut
              \/ TimeoutStartOut \/ TimeoutStopOut
    BY <1>4, <2>1 DEF TimeoutIdle, TimeoutAttention, TimeoutStopToStartOut,
                      TimeoutStartOut, TimeoutStopOut
  <2>2. CASE TimeoutHeader \/ TimeoutHeaderStop \/ TimeoutDataOut
    BY <1>4, <2>2 DEF TimeoutHeader, TimeoutHeaderStop, TimeoutDataOut
  <2>3. CASE TimeoutHeaderStopHighIn
    BY <2>3 DEF TimeoutHeaderStopHighIn, Timeout, clientVars
  <2>4. CASE TimeoutFinished \/ TimeoutStopToStartIn \/ TimeoutDataIn
    BY <1>5, <2>4 DEF TimeoutFinished, TimeoutStopToStartIn, TimeoutDataIn, Callback
  <2>5. CASE TimeoutStartIn
    BY <2>5 DEF TimeoutStartIn, Timeout, NoCallback, clientVars
  <2> QED BY <1>6, <2>1, <2>2, <2>3, <2>4, <2>5 DEF Timer
<1>7. ASSUME NEW p, CaptureAny(p) PROVE Armed' /\ NeverDeaf' /\ Listens'
  <2> USE DEF Capture, NoCallback, Callback, clientVars
  <2>1. CASE CaptureStopToStartIn(p)
    BY <2>1 DEF CaptureStopToStartIn
  <2>2. CASE CaptureStartLow(p)
    BY <2>2 DEF CaptureStartLow
  <2>3. CASE CaptureStartHigh(p)
    BY <2>3 DEF CaptureStartHigh
  <2>4. CASE CaptureDataLow(p)
    BY <2>4 DEF CaptureDataLow
  <2>5. CASE CaptureDataHigh(p)
    BY <2>5 DEF CaptureDataHigh, DataFailure
  <2>6. CASE CaptureOther(p)
    BY <2>6 DEF CaptureOther
  <2> QED BY <1>7, <2>1, <2>2, <2>3, <2>4, <2>5, <2>6 DEF CaptureAny
<1>8. CASE UNCHANGED vars
  BY <1>8 DEF vars, clientVars
<1> QED BY <1>1, <1>2, <1>3, <1>6, <1>7, <1>8 DEF Next, Client, Transfer, Edge

LEMMA NoiseInit == Init => Armed /\ NeverDeaf /\ Listens
BY DEF Init, Armed, NeverDeaf, Listens, Busy

\* Whatever the line carries and whenever the interrupts come, the codec never
\* stops while it drives the bus: its timer is armed.
THEOREM NeverStopsSending == Spec => []Armed
BY NoiseInit, NoiseStep, PTL DEF Spec

\* Nor does a client ever wait for an interrupt that is disabled.
THEOREM AnInterruptCanCome == Spec => []NeverDeaf
BY NoiseInit, NoiseStep, PTL DEF Spec

-----------------------------------------------------------------------------
(* Bits of bytes.                                                            *)

USE WAssumption, DataAssumption

\* n bytes, in bits.
Flat(n) == n * W

LEMMA FlatType ==
  ASSUME NEW n \in Nat
  PROVE  Flat(n) \in Nat /\ Flat(n + 1) = Flat(n) + W /\ Flat(0) = 0
BY DEF Flat

LEMMA FlatLess ==
  ASSUME NEW n \in Nat, NEW m \in Nat, n < m
  PROVE  Flat(n) + W <= Flat(m)
<1> DEFINE d == m - (n + 1)
<1>1. d \in Nat /\ m = n + 1 + d
  OBVIOUS
<1>2. d * W \in Nat
  BY <1>1
<1>3. (n + 1 + d) * W = n * W + W + d * W
  BY <1>1
<1>4. Flat(m) = Flat(n) + W + d * W
  BY <1>1, <1>3 DEF Flat
<1> HIDE DEF d
<1> QED BY <1>2, <1>4, FlatType

\* A bit has only one place: its byte, and its position in it.
LEMMA Place ==
  ASSUME NEW n \in Nat, NEW r \in 0 .. W - 1
  PROVE  (Flat(n) + r) \div W = n /\ (Flat(n) + r) % W = r
<1> DEFINE k == Flat(n) + r
           q == k \div W
           s == k % W
<1>1. k \in Nat
  BY FlatType
<1>2. /\ q \in Nat /\ s \in 0 .. W - 1
      /\ k = Flat(q) + s
  <2> HIDE DEF k
  <2>1. /\ q \in Nat /\ s \in 0 .. W - 1 /\ k = W * q + s
    BY <1>1
  <2>2. W * q = q * W
    BY <2>1
  <2> QED BY <2>1, <2>2 DEF Flat
<1> HIDE DEF q, s
<1>3. Flat(n) \in Nat /\ Flat(q) \in Nat
  BY <1>2, FlatType
<1>4. ~(q < n)
  BY <1>2, <1>3, FlatLess
<1>5. ~(n < q)
  BY <1>2, <1>3, FlatLess
<1>6. q = n
  BY <1>2, <1>4, <1>5
<1>7. s = r
  BY <1>2, <1>3, <1>6
<1> QED BY <1>6, <1>7 DEF q, s

\* Each of the bits of n bytes is in one of them.
LEMMA Placed ==
  ASSUME NEW n \in Nat, NEW k \in 1 .. Flat(n)
  PROVE  (k - 1) \div W \in 0 .. n - 1 /\ (k - 1) % W \in 0 .. W - 1
<1> DEFINE j == k - 1
           q == j \div W
           s == j % W
<1>1. j \in Nat /\ j < Flat(n)
  BY FlatType
<1>2. q \in Nat /\ s \in 0 .. W - 1 /\ j = Flat(q) + s
  <2> HIDE DEF j
  <2>1. q \in Nat /\ s \in 0 .. W - 1 /\ j = W * q + s
    BY <1>1
  <2>2. W * q = q * W
    BY <2>1
  <2> QED BY <2>1, <2>2 DEF Flat
<1> HIDE DEF j, q, s
<1>3. ~(n <= q)
  <2>1. Flat(n) \in Nat /\ Flat(q) \in Nat
    BY <1>2, FlatType
  <2>2. n < q => Flat(n) + W <= Flat(q)
    BY <1>2, FlatLess
  <2> QED BY <1>1, <1>2, <2>1, <2>2
<1> QED BY <1>2, <1>3 DEF q, s, j

\* Whole bytes and less than another one are whole bytes only if they are none.
LEMMA WholeBytes ==
  ASSUME NEW n \in Nat, NEW r \in 0 .. W - 1, (Flat(n) + r) % W = 0
  PROVE  r = 0
BY Place

-----------------------------------------------------------------------------
(* The pulses of an answer.                                                  *)

LEMMA Pulse ==
  ASSUME NEW a \in Seq(Bit)
  PROVE  /\ AnswerPulses(a) \in Seq(Nat) /\ Len(AnswerPulses(a)) = 2 * Len(a) + 4
         /\ AnswerPulses(a)[1] = 150
         /\ AnswerPulses(a)[2] = LowTime(1) /\ AnswerPulses(a)[3] = HighTime(1)
         /\ \A m \in 1 .. Len(a) : /\ AnswerPulses(a)[2 * m + 2] = LowTime(a[m])
                                   /\ AnswerPulses(a)[2 * m + 3] = HighTime(a[m])
         /\ AnswerPulses(a)[2 * Len(a) + 4] = LowTime(0)
<1> DEFINE bits == <<1>> \o a
           half(i) == IF i % 2 = 1 THEN LowTime(bits[(i + 1) \div 2])
                                   ELSE HighTime(bits[(i + 1) \div 2])
           f == [i \in 1 .. 2 * Len(bits) |-> half(i)]
           g == <<150>> \o f
<1>1. /\ bits \in Seq(Bit) /\ Len(bits) = Len(a) + 1
      /\ bits[1] = 1 /\ \A m \in 1 .. Len(a) : bits[m + 1] = a[m]
  <2>1. <<1>> \in Seq(Bit) /\ Len(<<1>>) = 1 /\ <<1>>[1] = 1
    BY DEF Bit
  <2> QED BY <2>1, ConcatProperties
<1>2. \A m \in 1 .. Len(a) + 1 : /\ half(2 * m - 1) = LowTime(bits[m])
                                 /\ half(2 * m) = HighTime(bits[m])
  <2> TAKE m \in 1 .. Len(a) + 1
  <2>1. (2 * m - 1) % 2 = 1 /\ (2 * m - 1 + 1) \div 2 = m
    OBVIOUS
  <2>2. (2 * m) % 2 = 0 /\ (2 * m + 1) \div 2 = m
    OBVIOUS
  <2> QED BY <2>1, <2>2
<1>3. \A i : half(i) \in Nat
  BY DEF LowTime, HighTime
<1> HIDE DEF bits, half
<1>4. /\ f \in Seq(Nat) /\ Len(f) = 2 * Len(a) + 2
      /\ \A i \in 1 .. 2 * Len(a) + 2 : f[i] = half(i)
  <2>1. 2 * Len(bits) = 2 * Len(a) + 2 /\ 2 * Len(a) + 2 \in Nat
    BY <1>1
  <2>2. f \in [1 .. 2 * Len(a) + 2 -> Nat]
    BY <1>3, <2>1
  <2> QED BY <2>1, <2>2, LenProperties
<1> HIDE DEF f
<1>5. /\ g \in Seq(Nat) /\ Len(g) = 2 * Len(a) + 3
      /\ g[1] = 150 /\ \A i \in 1 .. 2 * Len(a) + 2 : g[i + 1] = half(i)
  <2> DEFINE gap == <<150>>
  <2>1. gap \in Seq(Nat) /\ Len(gap) = 1 /\ gap[1] = 150 /\ g = gap \o f
    OBVIOUS
  <2> HIDE DEF gap, g
  <2>2. /\ g \in Seq(Nat) /\ Len(g) = 1 + Len(f)
        /\ \A i \in 1 .. 1 + Len(f) : g[i] = IF i <= 1 THEN gap[i] ELSE f[i - 1]
    <3>1. /\ gap \o f \in Seq(Nat) /\ Len(gap \o f) = Len(gap) + Len(f)
          /\ \A i \in 1 .. Len(gap) + Len(f) :
                (gap \o f)[i] = IF i <= Len(gap) THEN gap[i] ELSE f[i - Len(gap)]
      <4>1. gap \in Seq(Nat) /\ f \in Seq(Nat)
        BY <1>4, <2>1
      <4> QED BY ONLY <4>1, ConcatProperties
    <3> QED BY <2>1, <3>1
  <2>3. \A i \in 1 .. 2 * Len(a) + 2 : g[i + 1] = f[i]
    <3> TAKE i \in 1 .. 2 * Len(a) + 2
    <3>1. i + 1 \in 1 .. 1 + Len(f) /\ ~(i + 1 <= 1) /\ (i + 1) - 1 = i
      BY <1>4
    <3> QED BY <2>2, <3>1
  <2> QED BY <1>4, <2>1, <2>2, <2>3
<1> HIDE DEF g
<1>6. AnswerPulses(a) = g \o <<LowTime(0)>>
  BY DEF AnswerPulses, g, f, half, bits
<1>7. /\ AnswerPulses(a) \in Seq(Nat) /\ Len(AnswerPulses(a)) = 2 * Len(a) + 4
      /\ \A i \in 1 .. 2 * Len(a) + 3 : AnswerPulses(a)[i] = g[i]
      /\ AnswerPulses(a)[2 * Len(a) + 4] = LowTime(0)
  <2> DEFINE stop == <<LowTime(0)>>
  <2>1. /\ stop \in Seq(Nat) /\ Len(stop) = 1 /\ stop[1] = LowTime(0)
        /\ AnswerPulses(a) = g \o stop
    BY <1>6 DEF LowTime
  <2> HIDE DEF stop
  <2>2. /\ g \o stop \in Seq(Nat) /\ Len(g \o stop) = Len(g) + Len(stop)
        /\ \A i \in 1 .. Len(g) + Len(stop) :
              (g \o stop)[i] = IF i <= Len(g) THEN g[i] ELSE stop[i - Len(g)]
    <3>1. g \in Seq(Nat) /\ stop \in Seq(Nat)
      BY <1>5, <2>1
    <3> QED BY ONLY <3>1, ConcatProperties
  <2>3. Len(g) = 2 * Len(a) + 3 /\ Len(a) \in Nat
    BY <1>5
  <2> HIDE DEF AnswerPulses
  <2>4. \A i \in 1 .. 2 * Len(a) + 3 : AnswerPulses(a)[i] = g[i]
    BY <2>1, <2>2, <2>3
  <2>5. AnswerPulses(a)[2 * Len(a) + 4] = LowTime(0)
    BY <2>1, <2>2, <2>3
  <2> QED BY <2>1, <2>2, <2>3, <2>4, <2>5
<1>8. \A m \in 1 .. Len(a) + 1 :
         /\ AnswerPulses(a)[2 * m] = LowTime(bits[m])
         /\ AnswerPulses(a)[2 * m + 1] = HighTime(bits[m])
  <2> TAKE m \in 1 .. Len(a) + 1
  <2>1. g[(2 * m - 1) + 1] = half(2 * m - 1) /\ g[2 * m + 1] = half(2 * m)
    BY <1>5
  <2>2. /\ (2 * m - 1) + 1 = 2 * m
        /\ 2 * m \in 1 .. 2 * Len(a) + 3 /\ 2 * m + 1 \in 1 .. 2 * Len(a) + 3
    OBVIOUS
  <2>3. AnswerPulses(a)[2 * m] = g[2 * m] /\ AnswerPulses(a)[2 * m + 1] = g[2 * m + 1]
    BY <1>7, <2>2
  <2> QED BY <1>2, <2>1, <2>2, <2>3
<1>9. \A m \in 1 .. Len(a) : /\ AnswerPulses(a)[2 * m + 2] = LowTime(a[m])
                             /\ AnswerPulses(a)[2 * m + 3] = HighTime(a[m])
  <2> TAKE m \in 1 .. Len(a)
  <2>1. m + 1 \in 1 .. Len(a) + 1 /\ 2 * (m + 1) = 2 * m + 2 /\ 2 * (m + 1) + 1 = 2 * m + 3
    OBVIOUS
  <2> QED BY <1>1, <1>8, <2>1
<1>10. AnswerPulses(a)[2] = LowTime(1) /\ AnswerPulses(a)[3] = HighTime(1)
  <2>1. 1 \in 1 .. Len(a) + 1 /\ 2 * 1 = 2 /\ 2 * 1 + 1 = 3
    OBVIOUS
  <2> QED BY <1>1, <1>8, <2>1
<1> QED BY <1>5, <1>7, <1>9, <1>10, SMTT(20)

-----------------------------------------------------------------------------
(* The invariant on a clean line.                                            *)

\* The bit at a position of the packet's data.
DataBit(k) == packet.data[(k - 1) \div W + 1][((k - 1) % W) + 1]

CodecType ==
    /\ state \in State /\ icie \in BOOLEAN /\ ocie \in BOOLEAN
    /\ mpc \in {"loop", "respond", "captureOff", "timerOff", "begin"}
    /\ pending \in BOOLEAN /\ calls \in 0 .. 2 /\ (pending => mpc = "loop")
    /\ packet \in Packet
    /\ answer \in Seq(Bit) /\ Len(answer) % W = 0 /\ Len(answer) <= W * MaxData
    /\ heard \in Seq(Bit)

\* Between a callback and the next transfer nothing interrupts, so that all that
\* the client reads stays as it was.
Rest == ~Busy => ~ocie /\ ~icie

Calls == /\ Busy => calls = 0
         /\ mpc \in {"loop", "respond"} /\ ~Busy => calls \in 0 .. 1
         /\ calls <= 1

\* What the device has heard: of the header, n bits; ...
HeaderHeard(n) == Len(heard) >= n /\ \A i \in 1 .. n : heard[i] = packet.header[i]
\* ... all of it, and its stop bit; ...
Command == HeaderHeard(W) /\ Len(heard) >= W + 1 /\ heard[W + 1] = 0
\* ... the start bit of the data, and n bits of them.
DataHeard(n) == /\ Command /\ Len(heard) >= W + 2 + n /\ heard[W + 2] = 1
                /\ \A k \in 1 .. n : heard[W + 2 + k] = DataBit(k)

\* The half of a bit that is being sent.
Half(bits, n) == \/ pulselevel = "high" /\ n \in 0 .. W
                 \/ pulselevel = "low" /\ n \in 0 .. W - 1 /\ lowFor = LowTime(bits[n + 1])

Talking == Busy =>
    /\ state \in {"idle", "attention", "sync"} => heard = <<>>
    /\ state = "sync" => encByte = packet.header /\ encBits = 0 /\ pulselevel = "high"
    /\ state = "header" => /\ encByte = packet.header /\ Half(encByte, encBits)
                           /\ HeaderHeard(encBits) /\ Len(heard) = encBits
    /\ state = "header_stop" =>
          HeaderHeard(W) /\ Len(heard) = W /\ lowFor = LowTime(0)
    /\ state \in {"stop_to_start_out", "start_out"} \union Receiving =>
          Command /\ Len(heard) = W + 1
    /\ state \in {"stop_to_start_out", "start_out", "data_out", "stop_out", "finished"} =>
          packet.command = "listen"
    /\ state = "start_out" => lowFor = LowTime(1)
    /\ state = "data_out" =>
          /\ encIndex \in 0 .. packet.datalen - 1
          /\ encByte = packet.data[encIndex + 1] /\ Half(encByte, encBits)
          /\ DataHeard(Flat(encIndex) + encBits)
          /\ Len(heard) = W + 2 + Flat(encIndex) + encBits
    /\ state = "stop_out" =>
          /\ DataHeard(Flat(packet.datalen)) /\ lowFor = LowTime(0)
          /\ Len(heard) = W + 2 + Flat(packet.datalen)
    /\ state = "finished" =>
          /\ DataHeard(Flat(packet.datalen))
          /\ Len(heard) = W + 3 + Flat(packet.datalen)
          /\ heard[W + 3 + Flat(packet.datalen)] = 0

\* The device has sent n pulses of its answer.
Left(n) == /\ script \in Seq(Nat) /\ Len(script) = 2 * Len(answer) + 4 - n
           /\ \A i \in 1 .. Len(script) : script[i] = AnswerPulses(answer)[n + i]
Received == Flat(packet.datalen) + Len(decoded)
DataRead == \A k \in 1 .. Flat(packet.datalen) : DataBit(k) = answer[k]

Listening == Busy =>
    /\ icie => state \in {"stop_to_start_in", "start_in", "data_in"}
    /\ state \in {"stop_to_start_in", "start_in", "data_in"} => icie
    /\ state \in Receiving => packet.command = "talk"
    /\ state # "inactive"
    /\ state = "stop_to_start_in" =>
          /\ waitingOn = "fall" /\ packet.datalen = 0
          /\ IF answer = <<>> THEN script = <<>> ELSE Left(0)
    /\ state = "start_in" =>
          /\ answer # <<>>
          /\ \/ waitingOn = "rise" /\ Left(1)
             \/ waitingOn = "fall" /\ Left(2) /\ lowTime = LowTime(1)
    /\ state = "data_in" =>
          /\ answer # <<>> /\ DataRead
          /\ decoded \in Seq(Bit) /\ Len(decoded) < W
          /\ \A i \in 1 .. Len(decoded) : decoded[i] = answer[Flat(packet.datalen) + i]
          /\ \/ waitingOn = "rise" /\ Left(3 + 2 * Received) /\ Received <= Len(answer)
             \/ /\ waitingOn = "fall" /\ Left(4 + 2 * Received) /\ Received < Len(answer)
                /\ lowTime = LowTime(answer[Received + 1])
             \/ waitingOn = "fall" /\ script = <<>> /\ Received = Len(answer)

\* After the callback.
Done == ~Busy /\ mpc \in {"loop", "respond"} /\ calls > 0 =>
    /\ lastError = 0
    /\ packet.command = "talk" =>
          /\ Command /\ Len(heard) = W + 1
          /\ Flat(packet.datalen) = Len(answer) /\ DataRead
    /\ packet.command = "listen" =>
          /\ DataHeard(Flat(packet.datalen))
          /\ Len(heard) = W + 3 + Flat(packet.datalen)
          /\ heard[W + 3 + Flat(packet.datalen)] = 0

\* The packet is a request until an answer overwrites it.
Posed == mpc \in {"captureOff", "timerOff", "begin"} \/ (Busy /\ state # "data_in") =>
            IF packet.command = "talk" THEN packet.datalen = 0 ELSE packet.datalen > 0

CleanInv == CodecType /\ Rest /\ Calls /\ Posed /\ Talking /\ Listening /\ Done
-----------------------------------------------------------------------------
(* The steps of the main loop.                                               *)

LEMMA CleanInit == Init => CleanInv
<1> SUFFICES ASSUME Init PROVE CleanInv
  OBVIOUS
<1>1. packet \in Packet
  <2>1. NoData[1] \in AdbByte /\ NoData \in [1 .. MaxData -> AdbByte]
    BY DEF NoData, AdbByte, Bit
  <2> QED BY <2>1 DEF Init, Packet
<1>2. icie \in BOOLEAN /\ ocie \in BOOLEAN /\ pending \in BOOLEAN
  BY Zenon DEF Init
<1>3. CodecType
  <2>1. 0 % W = 0 /\ 0 <= W * MaxData
    OBVIOUS
  <2> QED BY <1>1, <1>2, <2>1 DEF Init, CodecType, State, Sending
<1>4. ~Busy /\ mpc = "loop" /\ calls = 0 /\ ~ocie /\ ~icie
  BY DEF Init, Busy
<1> QED BY <1>3, <1>4
        DEF CleanInv, Rest, Calls, Posed, Talking, Listening, Done, Busy

\* What the client does between two transfers leaves all but the packet alone.
LEMMA CleanClient ==
  ASSUME CleanInv,
         \/ Consume \/ CaptureOff \/ TimerOff \/ Reenter
         \/ \E r \in Requests : Prepare(r)
  PROVE  CleanInv'
<1> USE DEF CleanInv, Rest, Calls, Posed, Talking, Listening, Done, Busy
<1>1. CASE Consume
  <2>1. ~Busy /\ ~Busy' /\ pending' = FALSE
    BY <1>1 DEF Consume
  <2>2. CodecType'
    BY <1>1 DEF Consume, CodecType, busVars
  <2> QED BY <1>1, <2>1, <2>2
          DEF Consume, busVars, Command, HeaderHeard, DataHeard, DataRead, DataBit
<1>2. CASE CaptureOff
  <2>1. ~Busy /\ ~Busy' /\ icie' = FALSE
    BY <1>2 DEF CaptureOff
  <2>2. CodecType'
    BY <1>2 DEF CaptureOff, CodecType, busVars, clientVars
  <2> QED BY <1>2, <2>1, <2>2 DEF CaptureOff, clientVars
<1>3. CASE TimerOff
  <2>1. ~Busy /\ ~Busy' /\ ocie' = FALSE
    BY <1>3 DEF TimerOff
  <2>2. CodecType'
    BY <1>3 DEF TimerOff, CodecType, busVars, clientVars
  <2> QED BY <1>3, <2>1, <2>2 DEF TimerOff, clientVars
<1>4. CASE Reenter
  <2>1. ~Busy /\ ~Busy' /\ pending' = TRUE
    BY <1>4 DEF Reenter
  <2>2. CodecType'
    BY <1>4 DEF Reenter, CodecType, busVars
  <2> QED BY <1>4, <2>1, <2>2
          DEF Reenter, busVars, Command, HeaderHeard, DataHeard, DataRead, DataBit
<1>5. ASSUME NEW r \in Requests, Prepare(r) PROVE CleanInv'
  <2>1. ~Busy /\ ~Busy' /\ UNCHANGED <<ocie, icie, calls>> /\ mpc' = "captureOff"
    BY <1>5 DEF Prepare, clientVars
  <2>2. r \in Packet /\ packet \in Packet
    BY RequestsAssumption DEF CodecType
  <2>3. packet' = [r EXCEPT !.data = IF r.command = "talk" THEN packet.data ELSE r.data]
    BY <1>5 DEF Prepare
  <2>4. /\ packet' \in Packet
        /\ packet'.command = r.command /\ packet'.datalen = r.datalen
    BY <2>2, <2>3 DEF Packet
  <2>5. CodecType'
    BY <1>5, <2>4 DEF Prepare, CodecType, busVars, clientVars
  <2>6. Posed'
    <3>1. IF r.command = "talk" THEN r.datalen = 0 ELSE r.datalen > 0
      BY RequestsAssumption
    <3> QED BY <2>4, <3>1
  <2> QED BY <2>1, <2>5, <2>6
<1> QED BY <1>1, <1>2, <1>3, <1>4, <1>5

\* A transfer begins with nothing heard and nothing to hear.
LEMMA CleanBegin == ASSUME CleanInv, Begin PROVE CleanInv'
<1> USE DEF CleanInv, Begin
<1>1. ~Busy /\ ~pending
  BY DEF Busy, CodecType
<1>2. Busy' /\ state' = "idle" /\ ~icie' /\ heard' = <<>> /\ calls' = 0
  BY <1>1 DEF Busy, Rest
<1>3. CodecType'
  <2>1. 0 % W = 0 /\ 0 <= W * MaxData
    OBVIOUS
  <2>2. ocie' \in BOOLEAN
    BY Zenon
  <2> QED BY <2>1, <2>2 DEF CodecType, State, Sending
<1>4. Rest' /\ Calls'
  BY <1>1, <1>2 DEF Rest, Calls
<1>5. Posed'
  BY DEF Posed
<1>6. Talking'
  BY <1>2 DEF Talking, Receiving
<1>7. Listening'
  BY <1>2 DEF Listening, Receiving
<1>8. Done'
  BY <1>2 DEF Done
<1> QED BY <1>3, <1>4, <1>5, <1>6, <1>7, <1>8
-----------------------------------------------------------------------------
(* The steps of a transfer's sending half.                                   *)

\* An interrupt that comes finds a transfer under way.
LEMMA TimerBusy ==
  ASSUME CleanInv, NEW s, NEW t, Timeout(s, t)
  PROVE  Busy /\ ocie /\ state = s /\ state' = t /\ mpc' = "loop"
BY DEF CleanInv, Rest, Timeout, Busy

\* The device hears the bit that the host held the bus low for.
LEMMA HeardBit ==
  ASSUME ~Noisy, heard \in Seq(Bit), Release, NEW bit \in Bit, lowFor = LowTime(bit)
  PROVE  /\ heard' \in Seq(Bit) /\ Len(heard') = Len(heard) + 1
         /\ heard'[Len(heard) + 1] = bit
         /\ \A i \in 1 .. Len(heard) : heard'[i] = heard[i]
         /\ UNCHANGED answer
<1>1. heard' = Append(heard, bit)
  BY DEF Release, LowTime, Bit
<1> QED BY <1>1 DEF Release

\* So that what it heard before it has still heard.
LEMMA StillHeard ==
  ASSUME heard \in Seq(Bit), Len(heard') = Len(heard) + 1, UNCHANGED packet,
         \A i \in 1 .. Len(heard) : heard'[i] = heard[i]
  PROVE  /\ \A n \in Nat : HeaderHeard(n) => HeaderHeard(n)'
         /\ Command => Command'
         /\ \A n \in Nat : DataHeard(n) => DataHeard(n)'
<1>1. \A n \in Nat : HeaderHeard(n) => HeaderHeard(n)'
  BY DEF HeaderHeard
<1>2. Command => Command'
  BY <1>1 DEF Command
<1>3. ASSUME NEW n \in Nat, DataHeard(n) PROVE DataHeard(n)'
  <2>1. \A k : DataBit(k)' = DataBit(k)
    BY DEF DataBit
  <2>2. Len(heard) \in Nat /\ Len(heard) >= W + 2 + n
    BY <1>3 DEF DataHeard
  <2>3. heard'[W + 2] = 1 /\ \A k \in 1 .. n : heard'[W + 2 + k] = DataBit(k)
    BY <1>3, <2>2 DEF DataHeard
  <2> QED BY <1>2, <1>3, <2>1, <2>2, <2>3 DEF DataHeard
<1> QED BY <1>1, <1>2, <1>3

\* All that a step of the sending half changes is the sending.
LEMMA SendingFrame ==
  ASSUME CleanInv, NEW s \in Sending, NEW t \in Sending \union {"header_stop_high_in"},
         Timeout(s, t), Rearmed, UNCHANGED <<packet, answer>>,
         heard' \in Seq(Bit), Talking',
         t = "header_stop_high_in" => packet.command = "talk"
  PROVE  CleanInv'
<1>1. /\ Busy /\ Busy' /\ ocie /\ state = s /\ state' = t /\ mpc' = "loop"
      /\ UNCHANGED <<icie, ocie, pending, lastError, calls>>
  BY TimerBusy DEF Rearmed, clientVars, Busy
<1>2. ~icie
  BY <1>1 DEF CleanInv, Listening, Sending
<1>3. CodecType'
  BY <1>1 DEF CleanInv, CodecType, State, Sending, Receiving
<1>4. Rest' /\ Calls' /\ Done'
  BY <1>1 DEF CleanInv, Rest, Calls, Done
<1>5. Posed'
  BY <1>1 DEF CleanInv, Posed, Sending
<1>6. Listening'
  BY <1>1, <1>2 DEF Listening, Sending, Receiving
<1> QED BY <1>3, <1>4, <1>5, <1>6 DEF CleanInv

\* The header.
LEMMA CleanHeader ==
  ASSUME ~Noisy, CleanInv,
         TimeoutIdle \/ TimeoutAttention \/ TimeoutHeader \/ TimeoutHeaderStop
  PROVE  CleanInv'
<1>1. heard \in Seq(Bit) /\ answer \in Seq(Bit) /\ packet \in Packet /\ Talking
  BY DEF CleanInv, CodecType
<1>2. packet.header \in [1 .. W -> Bit]
  BY <1>1 DEF Packet, AdbByte
<1>3. CASE TimeoutIdle
  <2>1. Timeout("idle", "attention") /\ UNCHANGED <<packet, heard, answer>>
    BY <1>3 DEF TimeoutIdle, ForceLow
  <2>2. Talking'
    BY <1>1, <2>1, TimerBusy DEF Talking, Receiving
  <2> QED BY <1>1, <1>3, <2>1, <2>2, SendingFrame DEF TimeoutIdle, Sending
<1>4. CASE TimeoutAttention
  <2>1. /\ Timeout("attention", "sync") /\ UNCHANGED <<packet, answer>> /\ heard' = <<>>
        /\ encByte' = packet.header /\ encBits' = 0 /\ pulselevel' = "high"
    BY <1>4 DEF TimeoutAttention
  <2>2. Talking'
    BY <2>1, TimerBusy DEF Talking, Receiving
  <2> QED BY <1>4, <2>1, <2>2, SendingFrame DEF TimeoutAttention, Sending
<1>5. ASSUME NEW s \in {"sync", "header"}, Timeout(s, "header"),
             encBits < W, EncodeBit(encByte, encBits, pulselevel),
             Rearmed, UNCHANGED packet
      PROVE  CleanInv'
  <2>1. Busy /\ state = s /\ state' = "header"
    BY <1>5, TimerBusy
  <2>2. /\ encByte = packet.header /\ Half(encByte, encBits)
        /\ HeaderHeard(encBits) /\ Len(heard) = encBits
    BY <1>1, <1>5, <2>1 DEF Talking, Half, HeaderHeard
  <2>3. encByte' = packet'.header /\ UNCHANGED encByte /\ encBits \in 0 .. W - 1
    BY <1>5, <2>2 DEF EncodeBit, Half
  <2>4. CASE pulselevel = "high"
    <3>1. /\ UNCHANGED <<heard, answer, encBits>> /\ pulselevel' = "low"
          /\ lowFor' = LowTime(encByte[encBits + 1])
      BY <1>5, <2>4 DEF EncodeBit, ForceLow
    <3>2. Half(encByte, encBits)'
      BY <2>2, <2>3, <3>1 DEF Half
    <3>3. HeaderHeard(encBits)' /\ Len(heard') = encBits'
      BY <1>5, <2>2, <3>1 DEF HeaderHeard
    <3>4. Talking'
      BY <2>1, <2>3, <3>2, <3>3 DEF Talking, Receiving
    <3> QED BY <1>1, <1>5, <3>1, <3>4, SendingFrame DEF Sending
  <2>5. CASE pulselevel # "high"
    <3>1. Release /\ pulselevel' = "high" /\ encBits' = encBits + 1
      BY <1>5, <2>5 DEF EncodeBit
    <3>2. packet.header[encBits + 1] \in Bit /\ lowFor = LowTime(packet.header[encBits + 1])
      BY <1>2, <2>2, <2>3, <2>5 DEF Half
    <3>3. /\ heard' \in Seq(Bit) /\ Len(heard') = encBits'
          /\ heard'[encBits'] = packet.header[encBits'] /\ UNCHANGED answer
          /\ \A i \in 1 .. encBits : heard'[i] = heard[i]
      BY <1>1, <2>2, <3>1, <3>2, HeardBit
    <3>4. HeaderHeard(encBits)'
      BY <1>5, <2>2, <2>3, <3>1, <3>3 DEF HeaderHeard
    <3>5. Half(encByte, encBits)'
      <4>1. encBits' \in 0 .. W /\ pulselevel' = "high"
        BY <2>3, <3>1
      <4> QED BY <4>1 DEF Half
    <3>6. Talking'
      BY <2>1, <2>3, <3>3, <3>4, <3>5 DEF Talking, Receiving
    <3> QED BY <1>1, <1>5, <3>3, <3>6, SendingFrame DEF Sending
  <2> QED BY <2>4, <2>5
<1>6. CASE /\ encBits = W /\ Timeout("header", "header_stop")
           /\ ForceLow(LowTime(0)) /\ Rearmed /\ UNCHANGED packet
  <2>1. Busy /\ state = "header" /\ state' = "header_stop"
    BY <1>6, TimerBusy
  <2>2. HeaderHeard(W) /\ Len(heard) = W
    BY <1>1, <1>6, <2>1 DEF Talking
  <2>3. UNCHANGED <<heard, answer>> /\ lowFor' = LowTime(0)
    BY <1>6 DEF ForceLow
  <2>4. HeaderHeard(W)'
    BY <1>6, <2>2, <2>3 DEF HeaderHeard
  <2>5. Talking'
    BY <2>1, <2>2, <2>3, <2>4 DEF Talking, Receiving
  <2> QED BY <1>1, <1>6, <2>3, <2>5, SendingFrame DEF Sending
<1>7. ASSUME NEW t, Timeout("header_stop", t), Release, Rearmed, UNCHANGED packet,
             \/ packet.command = "talk" /\ t = "header_stop_high_in"
             \/ packet.command # "talk" /\ t = "stop_to_start_out"
      PROVE  CleanInv'
  <2>1. Busy /\ state = "header_stop" /\ state' = t
    BY <1>7, TimerBusy
  <2>2. HeaderHeard(W) /\ Len(heard) = W /\ lowFor = LowTime(0) /\ 0 \in Bit
    BY <1>1, <2>1 DEF Talking, Bit
  <2>3. /\ heard' \in Seq(Bit) /\ Len(heard') = W + 1 /\ heard'[W + 1] = 0
        /\ UNCHANGED answer /\ HeaderHeard(W)'
    BY <1>1, <1>7, <2>2, HeardBit, StillHeard
  <2>4. packet'.command \in {"talk", "listen"}
    BY <1>1, <1>7 DEF Packet
  <2>5. Talking'
    BY <1>7, <2>1, <2>3, <2>4 DEF Talking, Command, Receiving
  <2> QED BY <1>1, <1>7, <2>3, <2>5, SendingFrame DEF Sending
<1> QED BY <1>3, <1>4, <1>5, <1>6, <1>7 DEF TimeoutHeader, TimeoutHeaderStop

\* And one more bit.
LEMMA OneMoreHeard ==
  ASSUME NEW n \in Nat, DataHeard(n), heard \in Seq(Bit), Len(heard) = W + 2 + n,
         Len(heard') = Len(heard) + 1, UNCHANGED packet,
         \A i \in 1 .. Len(heard) : heard'[i] = heard[i],
         heard'[Len(heard) + 1] = DataBit(n + 1)
  PROVE  DataHeard(n + 1)'
<1>1. DataHeard(n)'
  BY StillHeard
<1>2. DataBit(n + 1)' = DataBit(n + 1)
  BY DEF DataBit
<1>3. \A k \in 1 .. n + 1 : k \in 1 .. n \/ k = n + 1
  OBVIOUS
<1>4. heard'[W + 2 + (n + 1)] = DataBit(n + 1)'
  BY <1>2
<1> QED BY <1>1, <1>3, <1>4 DEF DataHeard

\* A bit of the data.
LEMMA DataByteAt ==
  ASSUME packet \in Packet, NEW i \in 0 .. packet.datalen - 1
  PROVE  DataByte(i) = packet.data[i + 1] /\ DataByte(i) \in [1 .. W -> Bit]
BY DEF DataByte, Packet, AdbByte

LEMMA NextDataBit ==
  ASSUME packet \in Packet, NEW i \in 0 .. packet.datalen - 1, NEW b \in 0 .. W - 1
  PROVE  DataBit(Flat(i) + b + 1) = packet.data[i + 1][b + 1]
<1>1. Flat(i) \in Nat
  BY FlatType DEF Packet
<1>2. (Flat(i) + b) \div W = i /\ (Flat(i) + b) % W = b
  BY Place DEF Packet
<1>3. (Flat(i) + b + 1) - 1 = Flat(i) + b
  BY <1>1
<1> QED BY <1>2, <1>3 DEF DataBit

\* The data of a listen.
LEMMA CleanData ==
  ASSUME ~Noisy, CleanInv,
         \/ TimeoutStopToStartOut \/ TimeoutStartOut \/ TimeoutDataOut \/ TimeoutStopOut
  PROVE  CleanInv'
<1>1. heard \in Seq(Bit) /\ answer \in Seq(Bit) /\ packet \in Packet /\ Talking
  BY DEF CleanInv, CodecType
<1>2. packet.datalen \in 0 .. MaxData /\ 0 \in Bit /\ 1 \in Bit
  BY <1>1 DEF Packet, Bit
<1>3. CASE TimeoutStopToStartOut
  <2>1. /\ Timeout("stop_to_start_out", "start_out") /\ UNCHANGED <<packet, heard, answer>>
        /\ lowFor' = LowTime(1)
    BY <1>3 DEF TimeoutStopToStartOut, ForceLow
  <2>2. Command /\ Len(heard) = W + 1 /\ packet.command = "listen"
    BY <1>1, <2>1, TimerBusy DEF Talking
  <2>3. Command'
    BY <2>1, <2>2 DEF Command, HeaderHeard
  <2>4. Talking'
    BY <2>1, <2>2, <2>3, TimerBusy DEF Talking, Receiving
  <2> QED BY <1>1, <1>3, <2>1, <2>4, SendingFrame DEF TimeoutStopToStartOut, Sending
<1>4. CASE TimeoutStartOut
  <2>1. /\ Timeout("start_out", "data_out") /\ UNCHANGED packet /\ Release
        /\ encIndex' = 0 /\ encByte' = DataByte(0) /\ encBits' = 0 /\ pulselevel' = "high"
    BY <1>4 DEF TimeoutStartOut
  <2>2. /\ Busy /\ state = "start_out" /\ state' = "data_out"
        /\ Command /\ Len(heard) = W + 1 /\ packet.command = "listen"
        /\ lowFor = LowTime(1)
    BY <1>1, <2>1, TimerBusy DEF Talking
  <2>3. packet.datalen > 0
    BY <2>2 DEF CleanInv, Posed
  <2>4. /\ heard' \in Seq(Bit) /\ Len(heard') = W + 2 /\ heard'[W + 2] = 1
        /\ UNCHANGED answer /\ Command'
    BY <1>1, <1>2, <2>1, <2>2, HeardBit, StillHeard
  <2>5. encByte' = packet.data[1]
    BY <1>1, <1>2, <2>1, <2>3, DataByteAt
  <2>6. Flat(encIndex') + encBits' = 0
    BY <2>1, FlatType
  <2>7. DataHeard(Flat(encIndex) + encBits)'
    BY <2>4, <2>6 DEF DataHeard
  <2>8. Half(encByte, encBits)'
    <3>1. encBits' \in 0 .. W
      BY <2>1
    <3> QED BY <2>1, <3>1 DEF Half
  <2>9. Talking'
    <3>1. Len(heard') = W + 2 + Flat(encIndex') + encBits'
      BY <2>1, <2>4, <2>6, FlatType
    <3>2. encIndex' \in 0 .. packet'.datalen - 1 /\ encByte' = packet'.data[encIndex' + 1]
      BY <1>2, <2>1, <2>3, <2>5
    <3> QED BY <2>1, <2>2, <2>7, <2>8, <3>1, <3>2 DEF Talking, Receiving
  <2> QED BY <1>4, <2>1, <2>4, <2>9, SendingFrame DEF TimeoutStartOut, Sending
<1>5. ASSUME Timeout("data_out", "data_out") \/ Timeout("data_out", "stop_out"),
             UNCHANGED packet
      PROVE  /\ Busy /\ state = "data_out" /\ packet.command = "listen"
             /\ encIndex \in 0 .. packet.datalen - 1
             /\ encByte = packet.data[encIndex + 1] /\ Half(encByte, encBits)
             /\ DataHeard(Flat(encIndex) + encBits)
             /\ Len(heard) = W + 2 + Flat(encIndex) + encBits
             /\ encBits \in 0 .. W /\ encIndex \in Nat
             /\ Flat(encIndex) \in Nat /\ Flat(encIndex + 1) = Flat(encIndex) + W
  <2>1. Busy /\ state = "data_out"
    BY <1>5, TimerBusy
  <2>2. /\ packet.command = "listen"
        /\ encIndex \in 0 .. packet.datalen - 1
        /\ encByte = packet.data[encIndex + 1] /\ Half(encByte, encBits)
        /\ DataHeard(Flat(encIndex) + encBits)
        /\ Len(heard) = W + 2 + Flat(encIndex) + encBits
    BY <1>1, <2>1 DEF Talking
  <2>3. encBits \in 0 .. W /\ encIndex \in Nat
    BY <1>2, <2>2 DEF Half
  <2> QED BY <2>1, <2>2, <2>3, FlatType
<1>6. CASE /\ encBits < W /\ Timeout("data_out", "data_out")
           /\ EncodeBit(encByte, encBits, pulselevel)
           /\ UNCHANGED <<encIndex, packet>> /\ Rearmed
  <2>1. /\ Busy /\ state' = "data_out" /\ packet.command = "listen"
        /\ encIndex \in 0 .. packet.datalen - 1
        /\ encByte = packet.data[encIndex + 1] /\ Half(encByte, encBits)
        /\ DataHeard(Flat(encIndex) + encBits)
        /\ Len(heard) = W + 2 + Flat(encIndex) + encBits
        /\ encBits \in 0 .. W - 1 /\ Flat(encIndex) \in Nat
        /\ UNCHANGED encByte
    BY <1>5, <1>6, TimerBusy DEF EncodeBit
  <2>2. CASE pulselevel = "high"
    <3>1. /\ UNCHANGED <<heard, answer, encBits>> /\ pulselevel' = "low"
          /\ lowFor' = LowTime(encByte[encBits + 1])
      BY <1>6, <2>2 DEF EncodeBit, ForceLow
    <3>2. Half(encByte, encBits)'
      BY <2>1, <3>1 DEF Half
    <3>3. DataHeard(Flat(encIndex) + encBits)'
      BY <1>6, <2>1, <3>1 DEF DataHeard, Command, HeaderHeard, DataBit, Flat
    <3>4. Len(heard') = W + 2 + Flat(encIndex') + encBits'
      BY <1>6, <2>1, <3>1
    <3>5. Talking'
      BY <1>6, <2>1, <3>2, <3>3, <3>4 DEF Talking, Receiving
    <3> QED BY <1>1, <1>6, <3>1, <3>5, SendingFrame DEF Sending
  <2>3. CASE pulselevel # "high"
    <3>1. Release /\ pulselevel' = "high" /\ encBits' = encBits + 1
      BY <1>6, <2>3 DEF EncodeBit
    <3>2. PICK n \in Nat : n = Flat(encIndex) + encBits
      BY <2>1
    <3>3. /\ encByte[encBits + 1] \in Bit /\ lowFor = LowTime(encByte[encBits + 1])
          /\ DataBit(n + 1) = encByte[encBits + 1]
      <4>1. encByte \in [1 .. W -> Bit]
        BY <1>1, <2>1, DataByteAt
      <4>2. DataBit(Flat(encIndex) + encBits + 1) = packet.data[encIndex + 1][encBits + 1]
        BY <1>1, <2>1, NextDataBit
      <4> QED BY <2>1, <2>3, <3>2, <4>1, <4>2 DEF Half
    <3>4. Len(heard) = W + 2 + n /\ DataHeard(n)
      BY <2>1, <3>2
    <3>5. /\ heard' \in Seq(Bit) /\ Len(heard') = W + 2 + n + 1
          /\ UNCHANGED answer /\ DataHeard(n + 1)'
      BY <1>1, <1>6, <3>1, <3>3, <3>4, HeardBit, OneMoreHeard
    <3>6. Flat(encIndex') + encBits' = n + 1
      BY <1>6, <2>1, <3>1, <3>2
    <3>7. DataHeard(Flat(encIndex) + encBits)'
      BY <3>5, <3>6 DEF DataHeard
    <3>8. Half(encByte, encBits)'
      <4>1. encBits' \in 0 .. W
        BY <2>1, <3>1
      <4> QED BY <3>1, <4>1 DEF Half
    <3>9. Len(heard') = W + 2 + Flat(encIndex') + encBits'
      BY <1>6, <2>1, <3>1, <3>2, <3>5, SMTT(20)
    <3>10. Talking'
      BY <1>6, <2>1, <3>7, <3>8, <3>9 DEF Talking, Receiving
    <3> QED BY <1>6, <3>5, <3>10, SendingFrame DEF Sending
  <2> QED BY <2>2, <2>3
<1>7. CASE /\ encBits = W /\ Timeout("data_out", "stop_out")
           /\ encIndex' = (encIndex + 1) % IndexMod /\ encIndex' = packet.datalen
           /\ ForceLow(LowTime(0)) /\ UNCHANGED packet /\ Rearmed
  <2>1. /\ Busy /\ state' = "stop_out" /\ packet.command = "listen"
        /\ encIndex \in 0 .. packet.datalen - 1
        /\ DataHeard(Flat(encIndex) + W)
        /\ Len(heard) = W + 2 + Flat(encIndex) + W
        /\ Flat(encIndex + 1) = Flat(encIndex) + W
    BY <1>5, <1>7, TimerBusy
  <2>2. encIndex + 1 = packet.datalen
    BY <1>2, <1>7, <2>1
  <2>3. UNCHANGED <<heard, answer>> /\ lowFor' = LowTime(0)
    BY <1>7 DEF ForceLow
  <2>4. DataHeard(Flat(packet.datalen)) /\ Len(heard) = W + 2 + Flat(packet.datalen)
    BY <1>1, <2>1, <2>2, FlatType, SMTT(20)
  <2>5. DataHeard(Flat(packet.datalen))'
    BY <1>7, <2>3, <2>4 DEF DataHeard, Command, HeaderHeard, DataBit
  <2>6. Talking'
    BY <1>7, <2>1, <2>3, <2>4, <2>5 DEF Talking, Receiving
  <2> QED BY <1>1, <1>7, <2>3, <2>6, SendingFrame DEF Sending
<1>8. CASE /\ encBits = W /\ Timeout("data_out", "data_out")
           /\ encIndex' = (encIndex + 1) % IndexMod /\ encIndex' # packet.datalen
           /\ EncodeBit(DataByte(encIndex'), 0, "high") /\ UNCHANGED packet /\ Rearmed
  <2>1. /\ Busy /\ state' = "data_out" /\ packet.command = "listen"
        /\ encIndex \in 0 .. packet.datalen - 1 /\ encIndex \in Nat
        /\ DataHeard(Flat(encIndex) + W)
        /\ Len(heard) = W + 2 + Flat(encIndex) + W
        /\ Flat(encIndex + 1) = Flat(encIndex) + W
    BY <1>5, <1>8, TimerBusy
  <2>2. encIndex' = encIndex + 1 /\ encIndex' \in 0 .. packet.datalen - 1
    BY <1>2, <1>8, <2>1
  <2>3. /\ UNCHANGED <<heard, answer>> /\ pulselevel' = "low" /\ encBits' = 0
        /\ encByte' = DataByte(encIndex') /\ lowFor' = LowTime(DataByte(encIndex')[0 + 1])
    BY <1>8 DEF ForceLow, EncodeBit
  <2>4. DataByte(encIndex') = packet.data[encIndex' + 1]
    BY <1>1, <2>2, DataByteAt
  <2>5. Flat(encIndex') + encBits' = Flat(encIndex) + W
    BY <2>1, <2>2, <2>3, FlatType
  <2>6. DataHeard(Flat(encIndex) + encBits)'
    BY <1>8, <2>1, <2>3, <2>5 DEF DataHeard, Command, HeaderHeard, DataBit
  <2>7. Half(encByte, encBits)'
    BY <2>3 DEF Half
  <2>8. /\ Len(heard') = W + 2 + Flat(encIndex') + encBits'
        /\ encIndex' \in 0 .. packet'.datalen - 1 /\ encByte' = packet'.data[encIndex' + 1]
    <3>1. Flat(encIndex') = Flat(encIndex) + W /\ Flat(encIndex) \in Nat /\ encBits' = 0
      BY <2>1, <2>2, <2>3, FlatType
    <3>2. Len(heard') = W + 2 + Flat(encIndex') + encBits'
      BY <2>1, <2>3, <3>1
    <3>3. packet' = packet
      BY <1>8
    <3> QED BY <2>2, <2>3, <2>4, <3>2, <3>3
  <2>9. Talking'
    BY <1>8, <2>1, <2>6, <2>7, <2>8 DEF Talking, Receiving
  <2> QED BY <1>1, <1>8, <2>3, <2>9, SendingFrame DEF Sending
<1>9. CASE TimeoutStopOut
  <2>1. Timeout("stop_out", "finished") /\ UNCHANGED packet /\ Release
    BY <1>9 DEF TimeoutStopOut
  <2>2. /\ Busy /\ state = "stop_out" /\ state' = "finished" /\ lowFor = LowTime(0)
        /\ packet.command = "listen" /\ DataHeard(Flat(packet.datalen))
        /\ Len(heard) = W + 2 + Flat(packet.datalen)
    BY <1>1, <2>1, TimerBusy DEF Talking
  <2>3. PICK n \in Nat : n = Flat(packet.datalen)
    BY <1>2, FlatType
  <2>4. /\ heard' \in Seq(Bit) /\ Len(heard') = W + 3 + n /\ heard'[W + 3 + n] = 0
        /\ UNCHANGED answer /\ DataHeard(n)'
    BY <1>1, <1>2, <2>1, <2>2, <2>3, HeardBit, StillHeard
  <2>5. n = Flat(packet'.datalen)
    BY <2>1, <2>3
  <2>6. DataHeard(Flat(packet.datalen))'
    BY <2>4, <2>5 DEF DataHeard
  <2>7. Talking'
    BY <2>1, <2>2, <2>4, <2>5, <2>6 DEF Talking, Receiving
  <2> QED BY <1>9, <2>1, <2>4, <2>7, SendingFrame DEF TimeoutStopOut, Sending
<1> QED BY <1>3, <1>4, <1>6, <1>7, <1>8, <1>9 DEF TimeoutDataOut

\* The host has sent all of a listen, and calls back.
LEMMA CleanFinished == ASSUME CleanInv, TimeoutFinished PROVE CleanInv'
<1>1. /\ Timeout("finished", "inactive") /\ UNCHANGED <<packet, heard, answer>>
      /\ pending' = TRUE /\ lastError' = 0 /\ calls' = IF calls + 1 > 2 THEN 2 ELSE calls + 1
      /\ icie' = FALSE /\ ocie' = FALSE
  BY DEF TimeoutFinished, Callback, ResetDecoder, busVars
<1>2. /\ Busy /\ ~Busy' /\ state = "finished" /\ state' = "inactive" /\ mpc' = "loop"
  BY <1>1, TimerBusy DEF Busy
<1>3. calls' = 1
  BY <1>1, <1>2 DEF CleanInv, Calls
<1>4. CodecType'
  <2>1. icie' \in BOOLEAN /\ ocie' \in BOOLEAN /\ pending' \in BOOLEAN
    BY <1>1
  <2> QED BY <1>1, <1>2, <1>3, <2>1 DEF CleanInv, CodecType, State
<1>5. Rest' /\ Calls' /\ Posed' /\ Talking' /\ Listening'
  BY <1>1, <1>2, <1>3 DEF Rest, Calls, Posed, Talking, Listening
<1>6. /\ packet.command = "listen" /\ DataHeard(Flat(packet.datalen))
      /\ Len(heard) = W + 3 + Flat(packet.datalen)
      /\ heard[W + 3 + Flat(packet.datalen)] = 0
  BY <1>2 DEF CleanInv, Talking
<1>7. DataHeard(Flat(packet.datalen))'
  BY <1>1, <1>6 DEF DataHeard, Command, HeaderHeard, DataBit
<1>8. Done'
  BY <1>1, <1>6, <1>7 DEF Done
<1> QED BY <1>4, <1>5, <1>8 DEF CleanInv

-----------------------------------------------------------------------------
(* The steps of its listening half.                                          *)

\* The next pulse of an answer.
LEMMA NextPulse ==
  ASSUME answer \in Seq(Bit), NEW n \in Nat, Left(n), n < 2 * Len(answer) + 4
  PROVE  /\ script # <<>> /\ Head(script) = AnswerPulses(answer)[n + 1]
         /\ script' = Tail(script) /\ UNCHANGED answer => Left(n + 1)'
<1>1. script \in Seq(Nat) /\ Len(script) = 2 * Len(answer) + 4 - n /\ Len(answer) \in Nat
  BY DEF Left
<1>2. script # <<>> /\ Len(script) >= 1
  BY <1>1
<1>3. Head(script) = script[1] /\ script[1] = AnswerPulses(answer)[n + 1]
  BY <1>1, <1>2 DEF Left
<1>4. ASSUME script' = Tail(script), UNCHANGED answer PROVE Left(n + 1)'
  <2>1. /\ script' \in Seq(Nat) /\ Len(script') = Len(script) - 1
        /\ \A i \in 1 .. Len(script') : script'[i] = script[i + 1]
    BY <1>1, <1>2, <1>4, HeadTailProperties
  <2>2. \A i \in 1 .. Len(script') : script[i + 1] = AnswerPulses(answer)[n + (i + 1)]
    BY <1>1, <2>1 DEF Left
  <2>3. Len(script') = 2 * Len(answer') + 4 - (n + 1)
    BY <1>1, <1>4, <2>1
  <2>4. \A i \in 1 .. Len(script') : script'[i] = AnswerPulses(answer')[(n + 1) + i]
    <3> TAKE i \in 1 .. Len(script')
    <3>1. n + (i + 1) = (n + 1) + i
      BY <2>1
    <3> QED BY <1>4, <2>1, <2>2, <3>1
  <2> QED BY <2>1, <2>3, <2>4 DEF Left
<1> QED BY <1>2, <1>3, <1>4

LEMMA NothingLeft ==
  ASSUME answer \in Seq(Bit), NEW n \in Nat, Left(n)
  PROVE  script = <<>> <=> n = 2 * Len(answer) + 4
<1>1. Len(script) = 2 * Len(answer) + 4 - n /\ script \in Seq(Nat) /\ Len(answer) \in Nat
  BY DEF Left
<1> QED BY <1>1, EmptySeq

\* All that a step of the listening half changes is what was heard of the answer.
LEMMA ListeningFrame ==
  ASSUME CleanInv, Busy, state \in Receiving, state' \in Receiving,
         UNCHANGED <<heard, answer, mpc, clientVars, icie>>, ocie' \in BOOLEAN,
         packet' \in Packet, packet'.header = packet.header,
         packet'.command = packet.command,
         state' = "data_in" \/ (UNCHANGED packet /\ state # "data_in"), Listening'
  PROVE  CleanInv'
<1>1. Busy' /\ UNCHANGED <<pending, lastError, calls>>
  BY DEF Busy, clientVars
<1>2. CodecType'
  BY <1>1 DEF CleanInv, CodecType, State, clientVars
<1>3. Rest' /\ Calls' /\ Done'
  BY <1>1 DEF CleanInv, Rest, Calls, Done
<1>4. Posed'
  BY <1>1 DEF CleanInv, Posed, Busy
<1>5. Command /\ Len(heard) = W + 1
  BY DEF CleanInv, Talking
<1>6. Command'
  BY <1>5 DEF Command, HeaderHeard
<1>7. Talking'
  BY <1>5, <1>6 DEF Talking, Receiving
<1> QED BY <1>2, <1>3, <1>4, <1>7 DEF CleanInv

\* When the transfer is over the client is called back, once and without an error.
LEMMA CleanAnswered ==
  ASSUME CleanInv, Busy, state \in Receiving, state' \in State, Callback(0, 1),
         ResetDecoder, UNCHANGED <<packet, heard, answer, mpc>>,
         Flat(packet.datalen) = Len(answer), DataRead
  PROVE  CleanInv'
<1>1. /\ ~Busy' /\ pending' = TRUE /\ lastError' = 0 /\ icie' = FALSE /\ ocie' = FALSE
      /\ mpc' = "loop" /\ calls' = 1
  BY DEF Callback, ResetDecoder, Busy, CleanInv, Calls
<1>2. CodecType'
  <2>1. icie' \in BOOLEAN /\ ocie' \in BOOLEAN /\ pending' \in BOOLEAN
    BY <1>1
  <2> QED BY <1>1, <2>1 DEF CleanInv, CodecType
<1>3. Rest' /\ Calls' /\ Posed' /\ Talking' /\ Listening'
  BY <1>1 DEF Rest, Calls, Posed, Talking, Listening
<1>4. packet.command = "talk" /\ Command /\ Len(heard) = W + 1
  BY DEF CleanInv, Talking, Listening
<1>5. Command' /\ DataRead'
  BY <1>4 DEF Command, HeaderHeard, DataRead, DataBit
<1>6. Done'
  BY <1>1, <1>4, <1>5 DEF Done
<1> QED BY <1>2, <1>3, <1>6 DEF CleanInv

\* The device begins to answer, or keeps silent.
LEMMA CleanListen ==
  ASSUME ~Noisy, CleanInv, TimeoutHeaderStopHighIn PROVE CleanInv'
<1>1. PICK a \in Answers : /\ answer' = a
                           /\ script' = IF a = <<>> THEN <<>> ELSE AnswerPulses(a)
  BY DEF TimeoutHeaderStopHighIn
<1>2. /\ Timeout("header_stop_high_in", "stop_to_start_in")
      /\ waitingOn' = "fall" /\ icie' = TRUE
      /\ UNCHANGED <<ocie, pending, lastError, calls, packet, heard>>
  BY DEF TimeoutHeaderStopHighIn, clientVars
<1>3. /\ Busy /\ Busy' /\ ocie /\ state = "header_stop_high_in"
      /\ state' = "stop_to_start_in" /\ mpc' = "loop"
  BY <1>2, TimerBusy DEF Busy
<1>4. a \in Seq(Bit) /\ Len(a) % W = 0 /\ Len(a) <= W * MaxData
  BY AnswersAssumption
<1>5. CodecType'
  BY <1>1, <1>2, <1>3, <1>4 DEF CleanInv, CodecType, State, Receiving
<1>6. Rest' /\ Calls' /\ Done'
  BY <1>2, <1>3 DEF CleanInv, Rest, Calls, Done
<1>7. Posed'
  BY <1>2, <1>3 DEF CleanInv, Posed
<1>8. Command /\ Len(heard) = W + 1 /\ packet.command = "talk" /\ packet.datalen = 0
  BY <1>3 DEF CleanInv, Talking, Listening, Receiving, Posed
<1>9. Command'
  BY <1>2, <1>8 DEF Command, HeaderHeard
<1>10. Talking'
  BY <1>2, <1>3, <1>8, <1>9 DEF Talking, Receiving
<1>11. IF a = <<>> THEN script' = <<>> ELSE Left(0)'
  <2>1. AnswerPulses(a) \in Seq(Nat) /\ Len(AnswerPulses(a)) = 2 * Len(a) + 4
    BY <1>4, Pulse
  <2>2. \A i \in 1 .. Len(AnswerPulses(a)) : 0 + i = i
    BY <2>1
  <2> QED BY <1>1, <2>1, <2>2 DEF Left
<1>12. Listening'
  BY <1>1, <1>2, <1>3, <1>8, <1>11 DEF Listening
<1> QED BY <1>5, <1>6, <1>7, <1>10, <1>12 DEF CleanInv

\* A timeout while the host listens means that there was no answer, or that it is
\* over.
LEMMA CleanSilence ==
  ASSUME ~Noisy, CleanInv, TimeoutStopToStartIn \/ TimeoutStartIn \/ TimeoutDataIn
  PROVE  CleanInv'
<1>1. script = <<>> /\ answer \in Seq(Bit) /\ Len(answer) \in Nat /\ packet \in Packet
  BY DEF TimeoutStopToStartIn, TimeoutStartIn, TimeoutDataIn, Silent, CleanInv, CodecType
<1>2. CASE TimeoutStopToStartIn
  <2>1. Timeout("stop_to_start_in", "stop_to_start_in")
    BY <1>2 DEF TimeoutStopToStartIn
  <2>2. Busy /\ state = "stop_to_start_in" /\ state' = "stop_to_start_in" /\ UNCHANGED mpc
    BY <2>1, TimerBusy DEF Busy
  <2>3. packet.datalen = 0 /\ (answer # <<>> => Left(0))
    BY <2>2 DEF CleanInv, Listening
  <2>4. answer = <<>>
    BY <1>1, <2>3, NothingLeft
  <2>5. Flat(packet.datalen) = Len(answer) /\ Flat(packet.datalen) = 0
    BY <2>3, <2>4, FlatType
  <2>6. DataRead
    BY <2>5 DEF DataRead
  <2> QED BY <1>2, <2>2, <2>5, <2>6, CleanAnswered
          DEF TimeoutStopToStartIn, busVars, Receiving, State
<1>3. CASE TimeoutStartIn
  <2>1. Timeout("start_in", "idle")
    BY <1>3 DEF TimeoutStartIn
  <2>2. Busy /\ state = "start_in"
    BY <2>1, TimerBusy
  <2>3. Left(1) \/ Left(2)
    BY <2>2 DEF CleanInv, Listening
  <2> QED BY <1>1, <2>3, NothingLeft
<1>4. CASE TimeoutDataIn
  <2>1. Timeout("data_in", "inactive")
    BY <1>4 DEF TimeoutDataIn
  <2>2. Busy /\ state = "data_in" /\ state' = "inactive" /\ UNCHANGED mpc
    BY <2>1, TimerBusy DEF Busy
  <2>3. /\ answer # <<>> /\ DataRead /\ decoded \in Seq(Bit) /\ Len(decoded) < W
        /\ \/ Left(3 + 2 * Received) /\ Received <= Len(answer)
           \/ Left(4 + 2 * Received) /\ Received < Len(answer)
           \/ Received = Len(answer)
    BY <2>2 DEF CleanInv, Listening
  <2>4. /\ packet.datalen \in Nat /\ Flat(packet.datalen) \in Nat /\ Len(decoded) \in 0 .. W - 1
        /\ Received \in Nat /\ Received = Flat(packet.datalen) + Len(decoded)
    <3>1. packet.datalen \in Nat
      BY <1>1 DEF Packet
    <3>2. Flat(packet.datalen) \in Nat
      BY <3>1, FlatType
    <3>3. Len(decoded) \in 0 .. W - 1
      BY <2>3, LenProperties
    <3> QED BY <3>1, <3>2, <3>3 DEF Received
  <2>5. Received = Len(answer)
    BY <1>1, <2>3, <2>4, NothingLeft
  <2>6. Len(answer) % W = 0
    BY DEF CleanInv, CodecType
  <2>7. Len(decoded) = 0
    BY <2>4, <2>5, <2>6, WholeBytes
  <2>8. Flat(packet.datalen) = Len(answer) /\ packet.datalen > 0
    <3>1. Flat(packet.datalen) = Len(answer)
      BY <2>4, <2>5, <2>7
    <3>2. Len(answer) # 0
      BY <1>1, <2>3, EmptySeq
    <3>3. Flat(0) = 0
      BY FlatType
    <3>4. packet.datalen # 0
      BY <3>1, <3>2, <3>3
    <3> QED BY <2>4, <3>1, <3>4
  <2>9. Callback(0, 1) /\ ResetDecoder /\ UNCHANGED <<packet, heard, answer>>
    BY <1>4, <2>7, <2>8 DEF TimeoutDataIn, busVars
  <2> QED BY <2>2, <2>3, <2>8, <2>9, CleanAnswered DEF Receiving, State
<1> QED BY <1>2, <1>3, <1>4

-----------------------------------------------------------------------------
(* The pulses of the answer.                                                 *)

\* A pulse is the next one of the answer.
LEMMA CaptureBusy ==
  ASSUME ~Noisy, CleanInv, NEW s, NEW p, Capture(s, p)
  PROVE  /\ Busy /\ icie /\ state = s /\ UNCHANGED <<mpc, answer, heard>>
         /\ script # <<>> /\ p = Head(script) /\ script' = Tail(script)
         /\ waitingOn' = (IF waitingOn = "fall" THEN "rise" ELSE "fall")
         /\ answer \in Seq(Bit) /\ Len(answer) \in Nat /\ packet \in Packet
         /\ ocie \in BOOLEAN /\ Listening
<1>1. icie /\ Rest /\ answer \in Seq(Bit)
  BY DEF Capture, CleanInv, CodecType
<1>2. Busy
  BY <1>1 DEF Rest
<1> QED BY <1>1, <1>2 DEF Capture, CleanInv, CodecType

\* The gap and the start bit.
LEMMA CleanStartBit ==
  ASSUME ~Noisy, CleanInv, NEW p,
         CaptureStopToStartIn(p) \/ CaptureStartLow(p) \/ CaptureStartHigh(p)
  PROVE  CleanInv'
<1>1. CASE CaptureStopToStartIn(p)
  <2>1. Capture("stop_to_start_in", p)
    BY <1>1 DEF CaptureStopToStartIn
  <2>2. /\ Busy /\ icie /\ state = "stop_to_start_in" /\ UNCHANGED <<mpc, answer, heard>>
        /\ script # <<>> /\ p = Head(script) /\ script' = Tail(script)
        /\ answer \in Seq(Bit) /\ Len(answer) \in Nat /\ packet \in Packet
        /\ ocie \in BOOLEAN /\ Listening
    BY <2>1, CaptureBusy
  <2>3. waitingOn = "fall" /\ answer # <<>> /\ Left(0) /\ packet.command = "talk"
    BY <2>2 DEF Listening, Receiving
  <2>4. p = 150 /\ Left(1)'
    BY <2>2, <2>3, NextPulse, Pulse
  <2>5. state' = "start_in" /\ NoCallback /\ UNCHANGED <<icie, ocie, packet>>
    BY <1>1, <2>4 DEF CaptureStopToStartIn, STOP2START_MIN, STOP2START_MAX
  <2>6. waitingOn' = "rise"
    BY <2>1, <2>2, <2>3, CaptureBusy
  <2>7. Listening'
    BY <2>2, <2>3, <2>4, <2>5, <2>6 DEF Listening, Receiving
  <2> QED BY <2>2, <2>5, <2>7, ListeningFrame DEF Receiving, NoCallback
<1>2. CASE CaptureStartLow(p)
  <2>1. Capture("start_in", p) /\ waitingOn # "fall"
    BY <1>2 DEF CaptureStartLow, Level
  <2>2. /\ Busy /\ icie /\ state = "start_in" /\ UNCHANGED <<mpc, answer, heard>>
        /\ script # <<>> /\ p = Head(script) /\ script' = Tail(script)
        /\ answer \in Seq(Bit) /\ Len(answer) \in Nat /\ packet \in Packet
        /\ ocie \in BOOLEAN /\ Listening /\ waitingOn' = "fall"
    BY <2>1, CaptureBusy
  <2>3. answer # <<>> /\ Left(1) /\ packet.command = "talk"
    BY <2>1, <2>2 DEF Listening, Receiving
  <2>4. p = LowTime(1) /\ Left(2)'
    BY <2>2, <2>3, NextPulse, Pulse, SMTT(20)
  <2>5. lowTime' = p /\ NoCallback /\ UNCHANGED <<state, icie, ocie, packet>>
    BY <1>2 DEF CaptureStartLow
  <2>6. lowTime' = LowTime(1)
    BY <2>4, <2>5
  <2>7. Listening'
    BY <2>2, <2>3, <2>4, <2>5, <2>6 DEF Listening, Receiving, LowTime
  <2> QED BY <2>2, <2>5, <2>7, ListeningFrame DEF Receiving, NoCallback
<1>3. CASE CaptureStartHigh(p)
  <2>1. Capture("start_in", p) /\ waitingOn = "fall"
    BY <1>3 DEF CaptureStartHigh, Level
  <2>2. /\ Busy /\ icie /\ state = "start_in" /\ UNCHANGED <<mpc, answer, heard>>
        /\ script # <<>> /\ p = Head(script) /\ script' = Tail(script)
        /\ answer \in Seq(Bit) /\ Len(answer) \in Nat /\ packet \in Packet
        /\ ocie \in BOOLEAN /\ Listening /\ waitingOn' = "rise"
    BY <2>1, CaptureBusy
  <2>3. answer # <<>> /\ Left(2) /\ lowTime = LowTime(1) /\ packet.command = "talk"
    BY <2>1, <2>2 DEF Listening, Receiving
  <2>4. p = HighTime(1) /\ Left(3)'
    <3>1. 2 \in Nat /\ 2 < 2 * Len(answer) + 4 /\ 2 + 1 = 3
      BY <2>2
    <3>2. p = AnswerPulses(answer)[2 + 1] /\ Left(2 + 1)'
      BY ONLY <2>2, <2>3, <3>1, NextPulse
    <3> QED BY <2>2, <3>1, <3>2, Pulse
  <2>5. /\ state' = "data_in" /\ UNCHANGED <<icie, ocie>> /\ decoded' = <<>>
        /\ packet' = [packet EXCEPT !.datalen = 0]
    BY <1>3 DEF CaptureStartHigh
  <2>6. p = 65 /\ lowTime = 35
    BY <2>3, <2>4 DEF LowTime, HighTime
  <2>7. ~(p < lowTime) /\ BitTimeOK(p)
    BY <2>6 DEF BitTimeOK, BIT_TIME_MIN, BIT_TIME_MAX
  <2>8. NoCallback
    BY <1>3, <2>7 DEF CaptureStartHigh
  <2>9. /\ packet' \in Packet /\ packet'.datalen = 0
        /\ packet'.header = packet.header /\ packet'.command = packet.command
    BY <2>2, <2>5 DEF Packet
  <2>10. /\ Flat(packet'.datalen) = 0 /\ Len(decoded') = 0
         /\ decoded' \in Seq(Bit) /\ Received' = 0
    BY <2>5, <2>9, FlatType DEF Received
  <2>11. Left(3 + 2 * Received)'
    <3>1. 3 + 2 * Received' = 3
      BY <2>10
    <3> QED BY <2>4, <3>1 DEF Left
  <2>12. DataRead'
    BY <2>10 DEF DataRead
  <2>13. Listening'
    <3>1. Len(decoded') < W /\ Received' <= Len(answer')
      BY <2>2, <2>10
    <3>2. \A i \in 1 .. Len(decoded') : decoded'[i] = answer'[Flat(packet'.datalen) + i]
      BY <2>10
    <3> QED BY <2>2, <2>3, <2>5, <2>9, <2>10, <2>11, <2>12, <3>1, <3>2
            DEF Listening, Receiving
  <2> QED BY <2>2, <2>5, <2>8, <2>9, <2>13, ListeningFrame DEF Receiving, NoCallback
<1> QED BY <1>1, <1>2, <1>3

\* What is known while data come in.
LEMMA DataIn ==
  ASSUME ~Noisy, CleanInv, NEW p, Capture("data_in", p)
  PROVE  /\ answer # <<>> /\ DataRead /\ packet.command = "talk"
         /\ decoded \in Seq(Bit) /\ Len(decoded) \in 0 .. W - 1
         /\ \A i \in 1 .. Len(decoded) : decoded[i] = answer[Flat(packet.datalen) + i]
         /\ packet.datalen \in 0 .. MaxData /\ Flat(packet.datalen) \in Nat
         /\ Received = Flat(packet.datalen) + Len(decoded) /\ Received \in Nat
         /\ \/ waitingOn = "rise" /\ Left(3 + 2 * Received) /\ Received <= Len(answer)
            \/ /\ waitingOn = "fall" /\ Left(4 + 2 * Received) /\ Received < Len(answer)
               /\ lowTime = LowTime(answer[Received + 1])
<1>1. Busy /\ state = "data_in" /\ script # <<>> /\ packet \in Packet /\ Listening
  BY CaptureBusy
<1>2. /\ answer # <<>> /\ DataRead /\ packet.command = "talk"
      /\ decoded \in Seq(Bit) /\ Len(decoded) < W
      /\ \A i \in 1 .. Len(decoded) : decoded[i] = answer[Flat(packet.datalen) + i]
      /\ \/ waitingOn = "rise" /\ Left(3 + 2 * Received) /\ Received <= Len(answer)
         \/ /\ waitingOn = "fall" /\ Left(4 + 2 * Received) /\ Received < Len(answer)
            /\ lowTime = LowTime(answer[Received + 1])
  BY <1>1 DEF Listening, Receiving
<1>3. packet.datalen \in 0 .. MaxData /\ packet.datalen \in Nat
  BY <1>1 DEF Packet
<1>4. Flat(packet.datalen) \in Nat
  BY <1>3, FlatType
<1>5. Len(decoded) \in 0 .. W - 1
  BY <1>2, LenProperties
<1>6. Received = Flat(packet.datalen) + Len(decoded)
  BY DEF Received
<1> QED BY <1>2, <1>3, <1>4, <1>5, <1>6

\* The low half of a bit, or of the stop bit, after which there is nothing.
LEMMA CleanDataLow ==
  ASSUME ~Noisy, CleanInv, NEW p, CaptureDataLow(p)
  PROVE  CleanInv'
<1>1. Capture("data_in", p) /\ waitingOn # "fall"
  BY DEF CaptureDataLow, Level
<1>2. /\ Busy /\ icie /\ state = "data_in" /\ UNCHANGED <<mpc, answer, heard>>
      /\ script # <<>> /\ p = Head(script) /\ script' = Tail(script)
      /\ waitingOn' = "fall"
      /\ answer \in Seq(Bit) /\ Len(answer) \in Nat /\ packet \in Packet
  BY <1>1, CaptureBusy
<1>3. /\ lowTime' = p /\ NoCallback /\ UNCHANGED <<state, icie, decoded, packet>>
      /\ ocie' = TRUE
  BY DEF CaptureDataLow
<1>4. PICK r \in Nat : r = Received
  BY <1>1, DataIn
<1>5. Left(3 + 2 * r) /\ r <= Len(answer)
  BY <1>1, <1>4, DataIn
<1>6. Received' = r /\ DataRead'
  BY <1>1, <1>2, <1>3, <1>4, DataIn DEF Received, DataRead, DataBit
<1>7. p = AnswerPulses(answer)[3 + 2 * r + 1] /\ Left(3 + 2 * r + 1)'
  BY <1>2, <1>5, NextPulse
<1>8. \/ Left(4 + 2 * r)' /\ r < Len(answer) /\ lowTime' = LowTime(answer[r + 1])
      \/ script' = <<>> /\ r = Len(answer)
  <2>1. 3 + 2 * r + 1 = 4 + 2 * r
    OBVIOUS
  <2>2. CASE r < Len(answer)
    <3>1. r + 1 \in 1 .. Len(answer) /\ 2 * (r + 1) + 2 = 4 + 2 * r
      BY <1>2, <2>2
    <3>2. AnswerPulses(answer)[4 + 2 * r] = LowTime(answer[r + 1])
      BY <1>2, <3>1, Pulse, SMTT(20)
    <3> QED BY <1>3, <1>7, <2>1, <2>2, <3>2
  <2>3. CASE r = Len(answer)
    <3>1. Len(script') = 2 * Len(answer') + 4 - (4 + 2 * r) /\ script' \in Seq(Nat)
      BY <1>7, <2>1 DEF Left
    <3>2. Len(script') = 0
      BY <1>2, <2>3, <3>1
    <3> QED BY <2>3, <3>1, <3>2, EmptySeq
  <2> QED BY <1>2, <1>5, <2>2, <2>3
<1>9. /\ answer # <<>> /\ decoded \in Seq(Bit) /\ Len(decoded) < W
      /\ \A i \in 1 .. Len(decoded) : decoded[i] = answer[Flat(packet.datalen) + i]
      /\ packet.command = "talk"
  BY <1>1, DataIn
<1>10. \/ /\ waitingOn' = "fall" /\ Left(4 + 2 * Received)' /\ Received' < Len(answer')
          /\ lowTime' = LowTime(answer'[Received' + 1])
       \/ waitingOn' = "fall" /\ script' = <<>> /\ Received' = Len(answer')
  BY <1>2, <1>6, <1>8 DEF Left
<1>11. Listening'
  BY <1>2, <1>3, <1>6, <1>9, <1>10 DEF Listening, Receiving
<1>12. ocie' \in BOOLEAN
  BY <1>3
<1> QED BY <1>2, <1>3, <1>11, <1>12, ListeningFrame DEF Receiving, NoCallback

\* The bit that a low and a high half make is the device's.
LEMMA BitRead ==
  ASSUME ~Noisy, CleanInv, NEW p, Capture("data_in", p), waitingOn = "fall",
         NEW r \in Nat, r = Received
  PROVE  /\ r < Len(answer) /\ answer[r + 1] \in Bit /\ BitTimeOK(p)
         /\ (IF lowTime < p THEN 1 ELSE 0) = answer[r + 1]
         /\ Left(5 + 2 * r)'
<1>1. /\ script # <<>> /\ p = Head(script) /\ script' = Tail(script) /\ UNCHANGED answer
      /\ answer \in Seq(Bit) /\ Len(answer) \in Nat
  BY CaptureBusy
<1>3. Left(4 + 2 * r) /\ r < Len(answer) /\ lowTime = LowTime(answer[r + 1])
  BY DataIn
<1>4. r + 1 \in 1 .. Len(answer) /\ 2 * (r + 1) + 3 = 4 + 2 * r + 1 /\ 4 + 2 * r + 1 = 5 + 2 * r
  BY <1>1, <1>3
<1>5. p = AnswerPulses(answer)[4 + 2 * r + 1] /\ Left(4 + 2 * r + 1)'
  <2>1. 4 + 2 * r \in Nat /\ 4 + 2 * r < 2 * Len(answer) + 4
    BY <1>1, <1>3
  <2> QED BY ONLY <1>1, <1>3, <2>1, NextPulse
<1>6. p = HighTime(answer[r + 1]) /\ Left(5 + 2 * r)'
  BY <1>1, <1>4, <1>5, Pulse, SMTT(20)
<1>7. answer[r + 1] \in Bit
  BY <1>1, <1>4
<1>8. BitTimeOK(p) /\ (IF lowTime < p THEN 1 ELSE 0) = answer[r + 1]
  BY <1>3, <1>6, <1>7 DEF BitTimeOK, BIT_TIME_MIN, BIT_TIME_MAX, LowTime, HighTime, Bit
<1> QED BY <1>3, <1>6, <1>7, <1>8

\* A byte is written where the answer has it.
LEMMA ByteRead ==
  ASSUME packet \in Packet, DataRead, UNCHANGED answer, packet.datalen < MaxData,
         NEW bits \in [1 .. W -> Bit],
         \A i \in 1 .. W : bits[i] = answer[Flat(packet.datalen) + i],
         packet' = [packet EXCEPT !.data[packet.datalen + 1] = bits, !.datalen = @ + 1]
  PROVE  DataRead'
<1>1. PICK d \in 0 .. MaxData - 1 : d = packet.datalen
  BY DEF Packet
<1>2. PICK n \in Nat : n = Flat(d)
  BY FlatType
<1>3. /\ packet'.datalen = d + 1 /\ packet'.data[d + 1] = bits
      /\ \A j \in 1 .. d : packet'.data[j] = packet.data[j]
  BY <1>1 DEF Packet
<1>4. Flat(packet'.datalen) = n + W
  BY <1>1, <1>2, <1>3, FlatType
<1>5. ASSUME NEW k \in 1 .. n PROVE DataBit(k)' = answer'[k]
  <2>1. (k - 1) \div W \in 0 .. d - 1
    BY <1>1, <1>2, Placed
  <2>2. (k - 1) \div W + 1 \in 1 .. d
    BY <1>1, <2>1
  <2>3. DataBit(k)' = DataBit(k)
    BY <1>3, <2>2 DEF DataBit
  <2>4. DataBit(k) = answer[k]
    BY <1>1, <1>2 DEF DataRead
  <2> QED BY <2>3, <2>4
<1>6. ASSUME NEW b \in 0 .. W - 1 PROVE DataBit(n + b + 1)' = answer'[n + b + 1]
  <2>1. (n + b) \div W = d /\ (n + b) % W = b
    BY <1>1, <1>2, Place
  <2>2. (n + b + 1) - 1 = n + b
    BY <1>2
  <2>3. DataBit(n + b + 1)' = bits[b + 1]
    BY <1>3, <2>1, <2>2 DEF DataBit
  <2>4. b + 1 \in 1 .. W /\ n + (b + 1) = n + b + 1
    BY <1>2
  <2> QED BY <1>1, <1>2, <2>3, <2>4
<1>7. ASSUME NEW k \in 1 .. n + W PROVE DataBit(k)' = answer'[k]
  <2>1. CASE k \in 1 .. n
    BY <1>5, <2>1
  <2>2. CASE k \notin 1 .. n
    <3>1. k - n - 1 \in 0 .. W - 1 /\ n + (k - n - 1) + 1 = k
      BY <1>2, <1>7, <2>2
    <3> HIDE DEF DataBit
    <3> QED BY <1>6, <3>1
  <2> QED BY <2>1, <2>2
<1> QED BY <1>4, <1>7 DEF DataRead

LEMMA CleanDataHigh ==
  ASSUME ~Noisy, CleanInv, NEW p, CaptureDataHigh(p)
  PROVE  CleanInv'
<1>1. Capture("data_in", p) /\ waitingOn = "fall"
  BY DEF CaptureDataHigh, Level
<1>2. /\ Busy /\ icie /\ state = "data_in" /\ UNCHANGED <<mpc, answer, heard>>
      /\ waitingOn' = "rise"
      /\ answer \in Seq(Bit) /\ Len(answer) \in Nat /\ packet \in Packet
  BY <1>1, CaptureBusy
<1>3. PICK r \in Nat : r = Received
  BY <1>1, DataIn
<1>4. PICK d \in 0 .. MaxData : d = packet.datalen
  BY <1>1, DataIn
<1>5. PICK n \in Nat : n = Flat(d)
  BY <1>4, FlatType
<1>6. /\ answer # <<>> /\ DataRead /\ packet.command = "talk"
      /\ decoded \in Seq(Bit) /\ Len(decoded) \in 0 .. W - 1
      /\ \A i \in 1 .. Len(decoded) : decoded[i] = answer[n + i]
      /\ r = n + Len(decoded)
  BY <1>1, <1>3, <1>4, <1>5, DataIn
<1>7. r < Len(answer) /\ answer[r + 1] \in Bit /\ BitTimeOK(p) /\ Left(5 + 2 * r)'
  BY <1>1, <1>3, BitRead
<1> DEFINE bits == Append(decoded, answer[r + 1])
<1>8. /\ bits \in Seq(Bit) /\ Len(bits) = Len(decoded) + 1
      /\ \A i \in 1 .. Len(bits) : bits[i] = answer[n + i]
  <2>1. /\ bits \in Seq(Bit) /\ Len(bits) = Len(decoded) + 1
        /\ \A i \in 1 .. Len(decoded) : bits[i] = decoded[i]
        /\ bits[Len(decoded) + 1] = answer[r + 1]
    BY ONLY <1>6, <1>7, AppendProperties
  <2>2. r + 1 = n + (Len(decoded) + 1)
    BY <1>6
  <2>3. \A i \in 1 .. Len(bits) : i \in 1 .. Len(decoded) \/ i = Len(decoded) + 1
    BY <1>6, <2>1
  <2> QED BY <1>6, <2>1, <2>2, <2>3
<1>9. /\ ocie' = TRUE /\ UNCHANGED icie
      /\ \/ /\ Len(bits) < W /\ decoded' = bits
            /\ NoCallback /\ UNCHANGED <<state, packet>>
         \/ /\ Len(bits) = W /\ ~PacketFull /\ decoded' = <<>>
            /\ packet' = [packet EXCEPT !.data[packet.datalen + 1] = bits,
                                        !.datalen = @ + 1]
            /\ NoCallback /\ UNCHANGED state
         \/ Len(bits) = W /\ PacketFull
  <2>1. (IF lowTime < p THEN 1 ELSE 0) = answer[r + 1]
    BY <1>1, <1>3, BitRead
  <2> QED BY <1>7, <2>1 DEF CaptureDataHigh
<1> HIDE DEF bits
<1>10. Left(3 + 2 * (r + 1))' /\ r + 1 <= Len(answer)
  <2>1. 3 + 2 * (r + 1) = 5 + 2 * r
    OBVIOUS
  <2> QED BY <1>2, <1>7, <2>1
<1>11. CASE /\ Len(bits) < W /\ decoded' = bits
            /\ NoCallback /\ UNCHANGED <<state, packet>>
  <2>1. Received' = r + 1
    <3>1. Flat(packet'.datalen) = n /\ Len(decoded') = Len(decoded) + 1
      BY <1>4, <1>5, <1>8, <1>11
    <3>2. Received' = n + (Len(decoded) + 1)
      BY <3>1 DEF Received
    <3> QED BY <1>6, <3>2
  <2>2. Left(3 + 2 * Received)' /\ Received' <= Len(answer')
    BY <1>2, <1>10, <2>1 DEF Left
  <2>3. DataRead'
    BY <1>2, <1>6, <1>11 DEF DataRead, DataBit, Flat
  <2>4. \A i \in 1 .. Len(decoded') : decoded'[i] = answer'[Flat(packet'.datalen) + i]
    BY <1>2, <1>4, <1>5, <1>8, <1>11
  <2>5. Listening'
    BY <1>2, <1>6, <1>8, <1>9, <1>11, <2>2, <2>3, <2>4 DEF Listening, Receiving
  <2>6. ocie' \in BOOLEAN
    BY <1>9
  <2> QED BY <1>2, <1>9, <1>11, <2>5, <2>6, ListeningFrame DEF Receiving, NoCallback
<1>12. CASE /\ Len(bits) = W /\ ~PacketFull /\ decoded' = <<>>
            /\ packet' = [packet EXCEPT !.data[packet.datalen + 1] = bits,
                                        !.datalen = @ + 1]
            /\ NoCallback /\ UNCHANGED state
  <2>1. d < MaxData
    BY <1>4, <1>12 DEF PacketFull
  <2>2. bits \in [1 .. W -> Bit]
    BY <1>8, <1>12, LenProperties
  <2>3. /\ packet' \in Packet /\ packet'.datalen = d + 1
        /\ packet'.command = packet.command /\ packet'.header = packet.header
    <3>1. [packet.data EXCEPT ![d + 1] = bits] \in [1 .. MaxData -> AdbByte]
      BY <1>2, <2>2 DEF Packet, AdbByte
    <3>2. packet' = [packet EXCEPT !.data = [packet.data EXCEPT ![d + 1] = bits],
                                   !.datalen = d + 1]
      BY <1>2, <1>4, <1>12 DEF Packet
    <3>3. d + 1 \in 0 .. MaxData
      BY <2>1
    <3> QED BY <1>2, <3>1, <3>2, <3>3 DEF Packet
  <2>4. DataRead'
    BY <1>2, <1>4, <1>5, <1>6, <1>8, <1>12, <2>1, <2>2, ByteRead
  <2>5. Received' = r + 1
    <3>1. Flat(packet'.datalen) = n + W
      BY <1>4, <1>5, <2>3, FlatType
    <3>2. Len(decoded') = 0
      BY <1>12
    <3>3. Received' = n + W
      BY <3>1, <3>2 DEF Received
    <3>4. Len(decoded) + 1 = W
      BY <1>8, <1>12
    <3> QED BY <1>6, <3>3, <3>4
  <2>6. Left(3 + 2 * Received)' /\ Received' <= Len(answer')
    BY <1>2, <1>10, <2>5 DEF Left
  <2>7. decoded' \in Seq(Bit) /\ Len(decoded') < W /\ 1 .. Len(decoded') = {}
    BY <1>12
  <2>8. Listening'
    BY <1>2, <1>6, <1>9, <1>12, <2>3, <2>4, <2>6, <2>7 DEF Listening, Receiving
  <2>9. ocie' \in BOOLEAN
    BY <1>9
  <2> QED BY <1>2, <1>9, <1>12, <2>3, <2>8, <2>9, ListeningFrame DEF Receiving, NoCallback
<1>13. CASE Len(bits) = W /\ PacketFull
  <2>1. d = MaxData
    BY <1>4, <1>13 DEF PacketFull
  <2>2. Len(answer) <= Flat(MaxData)
    <3>1. Len(answer) <= W * MaxData
      BY DEF CleanInv, CodecType
    <3>2. W * MaxData = MaxData * W
      OBVIOUS
    <3> QED BY <3>1, <3>2 DEF Flat
  <2>3. r + 1 = n + W
    BY <1>6, <1>8, <1>13
  <2> QED BY <1>2, <1>5, <1>7, <2>1, <2>2, <2>3
<1> QED BY <1>9, <1>11, <1>12, <1>13

\* No edge comes to a codec that does not listen.
LEMMA CleanCapture == ASSUME ~Noisy, CleanInv, Edge PROVE CleanInv'
<1>1. PICK p \in {35, 65, 150} : CaptureAny(p)
  BY DEF Edge
<1>2. ~CaptureOther(p)
  <2>1. SUFFICES ASSUME NEW s \in State \ {"stop_to_start_in", "start_in", "data_in"},
                        Capture(s, p)
                 PROVE  FALSE
    BY DEF CaptureOther
  <2>2. Busy /\ icie /\ state = s /\ Listening
    BY <2>1, CaptureBusy
  <2> QED BY <2>1, <2>2 DEF Listening
<1> QED BY <1>1, <1>2, CleanStartBit, CleanDataLow, CleanDataHigh DEF CaptureAny

-----------------------------------------------------------------------------
(* Every step, and what the client and the device make of it.                *)

HostInv == CleanInv /\ step \in 1 .. Len(Dialog)

LEMMA HostInvInit == HostInit => HostInv
<1>1. Len(Dialog) = 9
  BY DEF Dialog
<1> QED BY <1>1, CleanInit DEF HostInit, HostInv

LEMMA HostInvStep == ASSUME ~Noisy, HostInv, [HostNext]_allVars PROVE HostInv'
<1>1. CleanInv /\ step \in 1 .. Len(Dialog) /\ Len(Dialog) \in Nat
  BY DEF HostInv, Dialog
<1>2. ASSUME NEW n \in 1 .. Len(Dialog), Send(n) PROVE HostInv'
  <2>1. Dialog[n] \in Requests /\ Prepare(Dialog[n]) /\ step' = n
    BY <1>2, DialogAssumption DEF Send
  <2>2. CleanInv'
    BY <1>1, <2>1, CleanClient
  <2>3. Len(Dialog') = Len(Dialog)
    BY DEF Dialog
  <2> QED BY <2>1, <2>2, <2>3 DEF HostInv, Dialog
<1>3. ASSUME CleanInv', UNCHANGED step PROVE HostInv'
  BY <1>1, <1>3 DEF HostInv, Dialog
<1>4. CASE Request
  BY <1>1, <1>2, <1>4 DEF Request
<1>5. CASE Advance
  <2>1. step + 1 \in 1 .. Len(Dialog) /\ Send(step + 1)
    BY <1>1, <1>5 DEF Advance
  <2> QED BY <1>2, <2>1
<1>6. CASE Retry \/ Report
  BY <1>1, <1>3, <1>6, CleanClient DEF Retry, Report, Reenter
<1>7. CASE Codec(Consume \/ Transfer)
  BY <1>1, <1>3, <1>7, CleanClient, CleanBegin DEF Codec, Transfer
<1>8. CASE Codec(Timer)
  BY <1>1, <1>3, <1>8, CleanHeader, CleanData, CleanFinished, CleanListen, CleanSilence
     DEF Codec, Timer
<1>9. CASE Codec(Edge)
  BY <1>1, <1>3, <1>9, CleanCapture DEF Codec
<1>10. CASE UNCHANGED allVars
  <2>1. UNCHANGED vars /\ UNCHANGED step
    BY <1>10 DEF allVars
  <2>2. CleanInv'
    BY <1>1, <2>1
       DEF vars, decodeVars, encodeVars, clientVars, busVars,
           CleanInv, CodecType, Rest, Calls, Posed, Talking, Listening, Done, Busy,
           Command, HeaderHeard, DataHeard, DataRead, DataBit, Half, Left, Received
  <2> QED BY <1>3, <2>1, <2>2
<1> QED BY <1>4, <1>5, <1>6, <1>7, <1>8, <1>9, <1>10 DEF HostNext, MainLoop

LEMMA HostInvAlways == ~Noisy /\ HostSpec => []HostInv
<1> SUFFICES ASSUME ~Noisy PROVE HostSpec => []HostInv
  OBVIOUS
<1>1. HostInv /\ [HostNext]_allVars => HostInv'
  BY HostInvStep
<1> QED BY <1>1, HostInvInit, PTL DEF HostSpec

LEMMA CalledBack == HostInv => OneCallback
BY DEF HostInv, CleanInv, CodecType, Rest, Calls, Done, Busy, Answered, OneCallback

\* On a clean line each transfer is called back once, at its end and without an
\* error, whenever the interrupts come.
THEOREM CalledBackOnce == ~Noisy /\ HostSpec => []OneCallback
BY HostInvAlways, CalledBack, PTL

\* The bytes of the packet, in bits.
LEMMA BitsOf ==
  ASSUME packet \in Packet, NEW n \in 0 .. MaxData
  PROVE  /\ Bits(n) \in Seq(Bit) /\ Len(Bits(n)) = Flat(n) /\ Flat(n) \in Nat
         /\ \A k \in 1 .. Flat(n) : Bits(n)[k] = DataBit(k)
<1>1. Flat(n) \in Nat
  BY FlatType
<1>2. ASSUME NEW k \in 1 .. Flat(n) PROVE DataBit(k) \in Bit
  <2>1. (k - 1) \div W \in 0 .. n - 1 /\ (k - 1) % W \in 0 .. W - 1
    BY Placed
  <2>2. (((k - 1) \div W) + 1) \in 1 .. MaxData /\ (((k - 1) % W) + 1) \in 1 .. W
    BY <2>1
  <2> QED BY <2>2 DEF DataBit, Packet, AdbByte
<1>3. Bits(n) = [k \in 1 .. Flat(n) |-> DataBit(k)]
  BY DEF Bits, Flat, DataBit
<1>4. Bits(n) \in [1 .. Flat(n) -> Bit]
  BY <1>2, <1>3
<1>5. Bits(n) \in Seq(Bit) /\ Len(Bits(n)) = Flat(n)
  BY <1>1, <1>4, LenProperties
<1> QED BY <1>1, <1>3, <1>5

\* The frame of a command: header and stop bit.
LEMMA CommandFrame ==
  ASSUME packet \in Packet
  PROVE  /\ packet.header \o <<0>> \in Seq(Bit)
         /\ Len(packet.header \o <<0>>) = W + 1
         /\ \A i \in 1 .. W : (packet.header \o <<0>>)[i] = packet.header[i]
         /\ (packet.header \o <<0>>)[W + 1] = 0
<1> DEFINE h == packet.header
           stop == <<0>>
<1>1. h \in [1 .. W -> Bit]
  BY DEF Packet, AdbByte
<1>2. h \in Seq(Bit) /\ Len(h) = W
  BY <1>1, LenProperties
<1>3. stop \in Seq(Bit) /\ Len(stop) = 1 /\ stop[1] = 0
  BY DEF Bit
<1> HIDE DEF h, stop
<1>4. /\ h \o stop \in Seq(Bit) /\ Len(h \o stop) = Len(h) + Len(stop)
      /\ \A i \in 1 .. Len(h) + Len(stop) :
            (h \o stop)[i] = IF i <= Len(h) THEN h[i] ELSE stop[i - Len(h)]
  BY ONLY <1>2, <1>3, ConcatProperties
<1>5. \A i \in 1 .. W : (h \o stop)[i] = h[i]
  BY <1>2, <1>3, <1>4
<1>6. (h \o stop)[W + 1] = 0
  BY <1>2, <1>3, <1>4
<1> QED BY <1>2, <1>3, <1>4, <1>5, <1>6 DEF h, stop

\* The frame of its data: start bit, data and stop bit.
LEMMA DataFrame ==
  ASSUME NEW bits \in Seq(Bit)
  PROVE  /\ <<1>> \o bits \o <<0>> \in Seq(Bit)
         /\ Len(<<1>> \o bits \o <<0>>) = Len(bits) + 2
         /\ (<<1>> \o bits \o <<0>>)[1] = 1
         /\ \A k \in 1 .. Len(bits) : (<<1>> \o bits \o <<0>>)[k + 1] = bits[k]
         /\ (<<1>> \o bits \o <<0>>)[Len(bits) + 2] = 0
<1> DEFINE start == <<1>>
           stop == <<0>>
           s == start \o bits
<1>1. /\ start \in Seq(Bit) /\ Len(start) = 1 /\ start[1] = 1
      /\ stop \in Seq(Bit) /\ Len(stop) = 1 /\ stop[1] = 0
  BY DEF Bit
<1> HIDE DEF start, stop
<1>2. /\ s \in Seq(Bit) /\ Len(s) = Len(start) + Len(bits)
      /\ \A i \in 1 .. Len(start) + Len(bits) :
            s[i] = IF i <= Len(start) THEN start[i] ELSE bits[i - Len(start)]
  BY ONLY <1>1, bits \in Seq(Bit), ConcatProperties
<1> HIDE DEF s
<1>3. /\ s \o stop \in Seq(Bit) /\ Len(s \o stop) = Len(s) + Len(stop)
      /\ \A i \in 1 .. Len(s) + Len(stop) :
            (s \o stop)[i] = IF i <= Len(s) THEN s[i] ELSE stop[i - Len(s)]
  <2>1. s \in Seq(Bit) /\ stop \in Seq(Bit)
    BY <1>1, <1>2
  <2> QED BY ONLY <2>1, ConcatProperties
<1>4. Len(bits) \in Nat
  BY LenProperties
<1>5. s[1] = 1 /\ \A k \in 1 .. Len(bits) : s[k + 1] = bits[k]
  <2>1. \A k \in 1 .. Len(bits) : k + 1 \in 1 .. 1 + Len(bits) /\ (k + 1) - 1 = k
    BY <1>4
  <2> QED BY <1>1, <1>2, <1>4, <2>1
<1>6. (s \o stop)[1] = 1 /\ \A k \in 1 .. Len(bits) : (s \o stop)[k + 1] = bits[k]
  <2>1. \A k \in 0 .. Len(bits) : (s \o stop)[k + 1] = s[k + 1]
    <3> TAKE k \in 0 .. Len(bits)
    <3>1. k + 1 \in 1 .. Len(s) + Len(stop) /\ k + 1 <= Len(s)
      BY <1>1, <1>2, <1>4
    <3> QED BY <1>3, <3>1
  <2>2. 0 \in 0 .. Len(bits) /\ \A k \in 1 .. Len(bits) : k \in 0 .. Len(bits)
    BY <1>4
  <2>3. 0 + 1 = 1
    OBVIOUS
  <2> QED BY <1>5, <2>1, <2>2, <2>3
<1>7. (s \o stop)[Len(bits) + 2] = 0
  BY <1>1, <1>2, <1>3, <1>4
<1> QED BY <1>1, <1>2, <1>3, <1>4, <1>6, <1>7 DEF s, start, stop

\* The packet on the wire.
Frame == packet.header \o <<0>> \o
         IF packet.command = "talk" THEN <<>>
         ELSE <<1>> \o Bits(packet.datalen) \o <<0>>

LEMMA FrameHeard ==
  ASSUME HostInv, ~Busy, mpc \in {"loop", "respond"}, calls > 0
  PROVE  heard = Frame
<1> USE DEF Frame
<1> DEFINE c == packet.header \o <<0>>
           b == Bits(packet.datalen)
           f == <<1>> \o b \o <<0>>
<1>1. /\ packet \in Packet /\ heard \in Seq(Bit) /\ Done
      /\ packet.command \in {"talk", "listen"} /\ packet.datalen \in 0 .. MaxData
  BY DEF HostInv, CleanInv, CodecType, Packet
<1>2. /\ c \in Seq(Bit) /\ Len(c) = W + 1
      /\ \A i \in 1 .. W : c[i] = packet.header[i] /\ c[W + 1] = 0
  BY <1>1, CommandFrame
<1>3. /\ b \in Seq(Bit) /\ Len(b) = Flat(packet.datalen) /\ Flat(packet.datalen) \in Nat
      /\ \A k \in 1 .. Flat(packet.datalen) : b[k] = DataBit(k)
  BY <1>1, BitsOf
<1> HIDE DEF c, b
<1>4. /\ f \in Seq(Bit) /\ Len(f) = Len(b) + 2
      /\ f[1] = 1 /\ f[Len(b) + 2] = 0
      /\ \A k \in 1 .. Len(b) : f[k + 1] = b[k]
  BY <1>3, DataFrame
<1> HIDE DEF f
<1>5. CASE packet.command = "talk"
  <2>1. Command /\ Len(heard) = W + 1
    BY <1>1, <1>5 DEF Done
  <2>2. \A i \in 1 .. Len(heard) : heard[i] = c[i]
    <3>1. \A i \in 1 .. Len(heard) : i \in 1 .. W \/ i = W + 1
      BY <2>1
    <3> QED BY <1>2, <2>1, <3>1 DEF Command, HeaderHeard
  <2>3. heard = c
    BY ONLY <1>1, <1>2, <2>1, <2>2, SeqEqual
  <2>4. c \o <<>> = c
    BY <1>2, ConcatEmptySeq
  <2> QED BY <1>5, <2>3, <2>4 DEF c
<1>6. CASE packet.command = "listen"
  <2>1. PICK n \in Nat : n = Flat(packet.datalen)
    BY <1>3
  <2>2. DataHeard(n) /\ Len(heard) = W + 3 + n /\ heard[W + 3 + n] = 0
    BY <1>1, <1>6, <2>1 DEF Done
  <2>3. /\ c \o f \in Seq(Bit) /\ Len(c \o f) = Len(c) + Len(f)
        /\ \A i \in 1 .. Len(c) + Len(f) :
              (c \o f)[i] = IF i <= Len(c) THEN c[i] ELSE f[i - Len(c)]
    BY ONLY <1>2, <1>4, ConcatProperties
  <2>4. Len(c \o f) = Len(heard)
    BY <1>2, <1>3, <1>4, <2>1, <2>2, <2>3
  <2>5. ASSUME NEW i \in 1 .. Len(heard) PROVE heard[i] = (c \o f)[i]
    <3>1. CASE i \in 1 .. W + 1
      <4>1. (c \o f)[i] = c[i]
        BY <1>2, <2>3, <2>4, <3>1
      <4>2. i \in 1 .. W \/ i = W + 1
        BY <3>1
      <4> QED BY <1>2, <2>2, <4>1, <4>2 DEF DataHeard, Command, HeaderHeard
    <3>2. CASE i = W + 2
      <4>1. (c \o f)[i] = f[1]
        BY <1>2, <2>3, <2>4, <3>2
      <4> QED BY <1>4, <2>2, <3>2, <4>1 DEF DataHeard
    <3>3. ASSUME NEW k \in 1 .. n, i = W + 2 + k PROVE heard[i] = (c \o f)[i]
      <4>1. i - (W + 1) = k + 1
        BY <3>3
      <4>2. (c \o f)[i] = f[k + 1]
        <5>1. i \in 1 .. Len(c) + Len(f) /\ ~(i <= Len(c))
          BY <1>2, <2>3, <2>4, <3>3
        <5>2. i - Len(c) = k + 1
          BY <1>2, <4>1
        <5> QED BY <2>3, <5>1, <5>2
      <4>3. heard[W + 2 + k] = DataBit(k)
        BY <2>2 DEF DataHeard
      <4>4. f[k + 1] = b[k] /\ b[k] = DataBit(k)
        BY <1>3, <1>4, <2>1
      <4> QED BY <3>3, <4>2, <4>3, <4>4
    <3>4. CASE i = W + 3 + n
      <4>1. i - (W + 1) = n + 2
        BY <3>4
      <4>2. (c \o f)[i] = f[n + 2]
        BY <1>2, <2>3, <2>4, <3>4, <4>1, SMTT(20)
      <4> QED BY <1>3, <1>4, <2>1, <2>2, <3>4, <4>2
    <3>5. \/ i \in 1 .. W + 1 \/ i = W + 2 \/ i = W + 3 + n
          \/ (i - (W + 2) \in 1 .. n /\ i = W + 2 + (i - (W + 2)))
      BY <2>2
    <3> QED BY <3>1, <3>2, <3>3, <3>4, <3>5
  <2>6. heard = c \o f
    BY ONLY <1>1, <2>3, <2>4, <2>5, SeqEqual
  <2> QED BY <1>6, <2>6 DEF c, f, b
<1> QED BY <1>1, <1>5, <1>6

LEMMA RequestHeard == HostInv => HeardIsRequest
BY FrameHeard DEF HeardIsRequest, Answered, Busy, Frame

\* On a clean line what the device hears is the request, bit for bit.
THEOREM RequestIsHeard == ~Noisy /\ HostSpec => []HeardIsRequest
BY HostInvAlways, RequestHeard, PTL

LEMMA AnswerRead ==
  ASSUME HostInv, ~Busy, mpc \in {"loop", "respond"}, calls > 0, packet.command = "talk"
  PROVE  Bits(packet.datalen) = answer /\ Flat(packet.datalen) = Len(answer)
<1>1. /\ packet \in Packet /\ answer \in Seq(Bit) /\ packet.datalen \in 0 .. MaxData
      /\ Done
  BY DEF HostInv, CleanInv, CodecType, Packet
<1>2. Flat(packet.datalen) = Len(answer) /\ DataRead
  BY <1>1 DEF Done
<1>3. /\ Bits(packet.datalen) \in Seq(Bit) /\ Len(Bits(packet.datalen)) = Len(answer)
      /\ \A k \in 1 .. Len(Bits(packet.datalen)) : Bits(packet.datalen)[k] = answer[k]
  BY <1>1, <1>2, BitsOf DEF DataRead
<1>4. Bits(packet.datalen) = answer
  BY ONLY <1>1, <1>3, SeqEqual
<1> QED BY <1>2, <1>4

LEMMA DataIsAnswered == HostInv => DataIsAnswer
BY AnswerRead DEF DataIsAnswer, Answered, Busy

\* And what the client reads is what the device answered, all of it, or nothing.
THEOREM AnswerIsRead == ~Noisy /\ HostSpec => []DataIsAnswer
BY HostInvAlways, DataIsAnswered, PTL

-----------------------------------------------------------------------------
(* The dialogue with the tablet.                                             *)

\* The packet is the request that has been sent, but for what was answered.
Posted == awaiting =>
    /\ packet.header = Dialog[step].header /\ packet.command = Dialog[step].command
    /\ packet.command = "listen" => packet = Dialog[step]

\* The client goes on only after a callback.
Served == awaiting /\ mpc \in {"loop", "respond"} => Busy \/ calls > 0

\* Only a talk is answered, once its command has been sent.
Hearing == {"stop_to_start_in", "start_in", "data_in"}
Quiet == awaiting /\ mpc \in {"loop", "respond"} /\ answer # <<>> =>
            packet.command = "talk" /\ (Busy => state \in Hearing)

SessionInv == /\ HostInv /\ Posted /\ Served /\ Quiet
              /\ answer \in Answers \union {<<>>}

LEMMA DialogFixed == Dialog' = Dialog
BY DEF Dialog, Identify, Set3, Check3, Set1, Check1, Check2, Set2, Status, Talk, Listen,
       Header, ToBits, NoData

\* An interrupt hears more or is answered only while that is to be expected, and
\* goes on until it calls back.
LEMMA Interrupt ==
  ASSUME ~Noisy, HostInv, HostInv', Timer \/ Edge
  PROVE  /\ Busy /\ mpc = "loop" /\ mpc' = "loop" /\ (Busy' \/ calls' > 0)
         /\ packet'.header = packet.header /\ packet'.command = packet.command
         /\ packet.command = "listen" => packet' = packet
         /\ heard' = heard \/ state \in Sending \ {"finished"}
         /\ \/ answer' = answer
            \/ /\ answer' \in Answers /\ state = "header_stop_high_in"
               /\ state' \in Hearing /\ packet.command = "talk"
         /\ state \in Hearing /\ Busy' => state' \in Hearing
<1>1. CleanInv /\ Listening /\ Listening' /\ packet \in Packet /\ calls \in 0 .. 2
  BY DEF HostInv, CleanInv, CodecType
<1>2. CASE Edge
  <2>1. PICK p : CaptureAny(p)
    BY <1>2 DEF Edge
  <2>2. PICK s : Capture(s, p)
    BY <2>1 DEF CaptureAny, CaptureStopToStartIn, CaptureStartLow, CaptureStartHigh,
                CaptureDataLow, CaptureDataHigh, CaptureOther
  <2>3. /\ Busy /\ icie /\ mpc = "loop" /\ UNCHANGED <<mpc, answer, heard>>
    BY <1>1, <2>2, CaptureBusy DEF Busy
  <2>4. state \in Hearing /\ packet.command = "talk"
    BY <1>1, <2>3 DEF Listening, Hearing, Receiving
  <2>5. packet'.header = packet.header /\ packet'.command = packet.command
    BY <1>1, <2>1 DEF CaptureAny, CaptureStopToStartIn, CaptureStartLow, CaptureStartHigh,
                      CaptureDataLow, CaptureDataHigh, CaptureOther, DataFailure, Packet
  <2>6. icie' = icie \/ pending' = TRUE
    BY <2>1 DEF CaptureAny, CaptureStopToStartIn, CaptureStartLow, CaptureStartHigh,
                CaptureDataLow, CaptureDataHigh, CaptureOther, Callback
  <2>7. pending' = pending \/ calls' > 0
    <3>1. \A code, n : n \in {1, 2} /\ Callback(code, n) => calls' > 0
      BY <1>1 DEF Callback
    <3> QED BY <2>1, <3>1
            DEF CaptureAny, CaptureStopToStartIn, CaptureStartLow, CaptureStartHigh,
                CaptureDataLow, CaptureDataHigh, CaptureOther, DataFailure, NoCallback,
                clientVars
  <2>8. Busy' => state' \in Hearing
    BY <1>1, <2>3, <2>6 DEF Busy, Listening, Hearing
  <2> QED BY <2>3, <2>4, <2>5, <2>7, <2>8 DEF Busy, Hearing
<1>3. CASE Timer
  <2>1. PICK s, t : Timeout(s, t)
    BY <1>3 DEF Timer, TimeoutIdle, TimeoutAttention, TimeoutHeader, TimeoutHeaderStop,
                TimeoutStopToStartOut, TimeoutStartOut, TimeoutDataOut, TimeoutStopOut,
                TimeoutFinished, TimeoutHeaderStopHighIn, TimeoutStopToStartIn,
                TimeoutStartIn, TimeoutDataIn
  <2>2. Busy /\ mpc = "loop" /\ mpc' = "loop"
    BY <1>1, <2>1, TimerBusy DEF Busy
  <2>3. UNCHANGED packet
    BY <1>3 DEF Timer, TimeoutIdle, TimeoutAttention, TimeoutHeader, TimeoutHeaderStop,
                TimeoutStopToStartOut, TimeoutStartOut, TimeoutDataOut, TimeoutStopOut,
                TimeoutFinished, TimeoutHeaderStopHighIn, TimeoutStopToStartIn,
                TimeoutStartIn, TimeoutDataIn
  <2>4. CASE \/ TimeoutIdle \/ TimeoutAttention \/ TimeoutHeader \/ TimeoutHeaderStop
             \/ TimeoutStopToStartOut \/ TimeoutStartOut \/ TimeoutDataOut \/ TimeoutStopOut
    <3>1. UNCHANGED <<answer, pending>> /\ state \in Sending \ {"finished"}
      BY <2>4 DEF TimeoutIdle, TimeoutAttention, TimeoutHeader, TimeoutHeaderStop,
                  TimeoutStopToStartOut, TimeoutStartOut, TimeoutDataOut, TimeoutStopOut,
                  Rearmed, clientVars, ForceLow, Release, EncodeBit, Timeout, Sending
    <3> QED BY <2>2, <2>3, <3>1 DEF Busy, Sending, Hearing
  <2>5. CASE TimeoutFinished \/ TimeoutStopToStartIn \/ TimeoutDataIn
    <3>1. UNCHANGED <<answer, heard>>
      BY <2>5 DEF TimeoutFinished, TimeoutStopToStartIn, TimeoutDataIn, busVars
    <3>2. pending' = TRUE /\ calls' > 0
      BY <1>1, <2>5 DEF TimeoutFinished, TimeoutStopToStartIn, TimeoutDataIn, Callback
    <3> QED BY <2>2, <2>3, <3>1, <3>2 DEF Busy
  <2>6. CASE TimeoutStartIn
    <3>1. UNCHANGED <<answer, heard, pending, icie>> /\ state = "start_in" /\ state' = "idle"
      BY <2>6 DEF TimeoutStartIn, Timeout, NoCallback, clientVars, busVars
    <3>2. Busy' /\ icie'
      BY <1>1, <2>2, <3>1 DEF Busy, Listening
    <3> QED BY <1>1, <3>1, <3>2 DEF Listening
  <2>7. CASE TimeoutHeaderStopHighIn
    <3>1. /\ answer' \in Answers /\ UNCHANGED <<heard, pending>>
          /\ state = "header_stop_high_in" /\ state' \in Hearing
      BY <2>7 DEF TimeoutHeaderStopHighIn, Timeout, clientVars, Hearing
    <3>2. packet.command = "talk"
      BY <1>1, <2>2, <3>1 DEF Listening, Receiving
    <3> QED BY <2>2, <2>3, <3>1, <3>2 DEF Busy
  <2> QED BY <1>3, <2>4, <2>5, <2>6, <2>7 DEF Timer
<1> QED BY <1>2, <1>3

LEMMA SessionInit == HostInit => SessionInv
BY HostInvInit DEF HostInit, Init, SessionInv, Posted, Served, Quiet

LEMMA SessionStep == ASSUME ~Noisy, SessionInv, [HostNext]_allVars PROVE SessionInv'
<1>1. HostInv /\ HostInv' /\ answer \in Answers \union {<<>>}
  BY HostInvStep DEF SessionInv
<1>2. Dialog' = Dialog
  BY DialogFixed
<1>3. ASSUME NEW n \in 1 .. Len(Dialog), Send(n) PROVE SessionInv'
  <2>1. Dialog[n] \in Packet
    BY DialogAssumption, RequestsAssumption
  <2>2. /\ packet' = [Dialog[n] EXCEPT !.data = IF Dialog[n].command = "talk"
                                                THEN packet.data ELSE Dialog[n].data]
        /\ mpc' = "captureOff" /\ step' = n /\ UNCHANGED answer
    BY <1>3 DEF Send, Prepare, busVars
  <2>3. /\ packet'.header = Dialog[n].header /\ packet'.command = Dialog[n].command
        /\ Dialog[n].command # "talk" => packet' = Dialog[n]
    BY <2>1, <2>2 DEF Packet
  <2>4. Posted'
    BY <1>2, <2>2, <2>3 DEF Posted
  <2> QED BY <1>1, <2>2, <2>4 DEF SessionInv, Served, Quiet
<1>4. CASE Request
  BY <1>1, <1>3, <1>4 DEF Request, HostInv
<1>5. CASE Advance
  <2>1. step + 1 \in 1 .. Len(Dialog) /\ Send(step + 1)
    BY <1>1, <1>5 DEF Advance, HostInv, Dialog
  <2> QED BY <1>3, <2>1
<1>6. CASE Retry \/ Report
  <2>1. awaiting' = FALSE /\ UNCHANGED answer
    BY <1>6 DEF Retry, Report, Reenter, busVars
  <2> QED BY <1>1, <2>1 DEF SessionInv, Posted, Served, Quiet
<1>7. CASE Codec(Consume)
  <2>1. /\ mpc = "loop" /\ ~Busy /\ mpc' = "respond" /\ ~Busy'
        /\ UNCHANGED <<step, awaiting, packet, calls, answer>>
    BY <1>7 DEF Codec, Consume, Busy, busVars
  <2> QED BY <1>1, <1>2, <2>1 DEF SessionInv, Posted, Served, Quiet
<1>8. CASE Codec(Transfer)
  <2>1. CASE CaptureOff \/ TimerOff
    <3>1. mpc' \notin {"loop", "respond"} /\ UNCHANGED <<step, awaiting, packet, answer>>
      BY <1>8, <2>1 DEF Codec, CaptureOff, TimerOff, busVars
    <3> QED BY <1>1, <1>2, <3>1 DEF SessionInv, Posted, Served, Quiet
  <2>2. CASE Begin
    <3>1. /\ ~Busy /\ mpc = "begin" /\ mpc' = "loop" /\ answer' = <<>>
          /\ UNCHANGED <<step, awaiting, packet, pending>>
      BY <1>8, <2>2 DEF Codec, Begin, Busy
    <3>2. Busy'
      BY <1>1, <3>1 DEF HostInv, CleanInv, CodecType, Busy
    <3> QED BY <1>1, <1>2, <3>1, <3>2 DEF SessionInv, Posted, Served, Quiet
  <2> QED BY <1>8, <2>1, <2>2 DEF Codec, Transfer
<1>9. CASE Codec(Timer) \/ Codec(Edge)
  <2>1. UNCHANGED <<step, awaiting>> /\ (Timer \/ Edge)
    BY <1>9 DEF Codec
  <2>2. Posted' /\ Served'
    BY <1>1, <1>2, <2>1, Interrupt DEF SessionInv, Posted, Served
  <2>3. Quiet'
    BY <1>1, <2>1, Interrupt DEF SessionInv, Quiet, Hearing
  <2>4. answer' \in Answers \union {<<>>}
    BY <1>1, <2>1, Interrupt
  <2> QED BY <1>1, <2>2, <2>3, <2>4 DEF SessionInv
<1>10. CASE UNCHANGED allVars
  BY <1>1, <1>2, <1>10
     DEF SessionInv, Posted, Served, Quiet, Busy, allVars, vars, clientVars, busVars
<1> QED BY <1>4, <1>5, <1>6, <1>7, <1>8, <1>9, <1>10 DEF HostNext, MainLoop, Codec

LEMMA SessionAlways == ~Noisy /\ HostSpec => []SessionInv
<1> SUFFICES ASSUME ~Noisy PROVE HostSpec => []SessionInv
  OBVIOUS
<1>1. SessionInv /\ [HostNext]_allVars => SessionInv'
  BY SessionStep
<1> QED BY <1>1, SessionInit, PTL DEF HostSpec

LEMMA WireIsFrame == ASSUME packet \in Packet, Posted, awaiting PROVE Wire(Dialog[step]) = Frame
<1>1. packet.command = "talk" \/ packet.command = "listen"
  BY DEF Packet
<1>2. CASE packet.command = "talk"
  BY <1>2 DEF Posted, Wire, Frame
<1>3. CASE packet.command = "listen"
  <2>1. Dialog[step] = packet
    BY <1>3 DEF Posted
  <2>2. Wire(packet) = Frame
    BY DEF Wire, Frame, Bits
  <2> QED BY <2>1, <2>2
<1> QED BY <1>1, <1>2, <1>3

LEMMA FrameLong ==
  ASSUME packet \in Packet
  PROVE  /\ packet.command = "talk" => Len(Frame) = W + 1
         /\ packet.command = "listen" => Len(Frame) = W + 3 + Flat(packet.datalen)
<1> DEFINE c == packet.header \o <<0>>
           f == <<1>> \o Bits(packet.datalen) \o <<0>>
<1>1. c \in Seq(Bit) /\ Len(c) = W + 1
  BY CommandFrame
<1>2. packet.datalen \in 0 .. MaxData
  BY DEF Packet
<1>3. /\ f \in Seq(Bit) /\ Len(f) = Flat(packet.datalen) + 2
      /\ Flat(packet.datalen) \in Nat
  BY <1>2, BitsOf, DataFrame
<1> HIDE DEF c, f
<1>4. CASE packet.command = "talk"
  <2>1. Frame = c \o <<>>
    BY <1>4 DEF Frame, c
  <2>2. c \o <<>> = c
    BY <1>1, ConcatEmptySeq
  <2> QED BY <1>1, <1>4, <2>1, <2>2
<1>5. CASE packet.command = "listen"
  <2>1. Frame = c \o f
    BY <1>5 DEF Frame, c, f
  <2>2. Len(c \o f) = Len(c) + Len(f)
    BY ONLY <1>1, <1>3, ConcatProperties
  <2> QED BY <1>1, <1>3, <1>5, <2>1, <2>2
<1> QED BY <1>4, <1>5 DEF Packet

\* Until all of it has been sent the tablet has not heard the request, nor been
\* given the time to answer it.
LEMMA NotYet ==
  ASSUME SessionInv, Busy, state \in Sending \ {"finished"} \/ state = "header_stop_high_in"
  PROVE  ~Obeyed
<1> SUFFICES ASSUME Obeyed PROVE FALSE
  OBVIOUS
<1>1. /\ packet \in Packet /\ Posted /\ awaiting /\ Talking /\ Listening /\ Quiet
      /\ packet.datalen \in 0 .. MaxData /\ packet.command \in {"talk", "listen"}
  BY DEF SessionInv, HostInv, CleanInv, CodecType, Obeyed, Packet
<1>2. heard = Frame
  BY <1>1, WireIsFrame DEF Obeyed
<1>3. Flat(packet.datalen) \in Nat
  BY <1>1, FlatType
<1>4. /\ Len(heard) >= W + 1
      /\ packet.command = "listen" => Len(heard) = W + 3 + Flat(packet.datalen)
  BY <1>1, <1>2, <1>3, FrameLong
<1>5. CASE state \in {"idle", "attention", "sync"}
  BY <1>1, <1>4, <1>5 DEF Talking
<1>6. CASE state = "header"
  BY <1>1, <1>4, <1>6 DEF Talking, Half
<1>7. CASE state = "header_stop"
  BY <1>1, <1>4, <1>7 DEF Talking
<1>8. CASE state \in {"stop_to_start_out", "start_out"}
  BY <1>1, <1>3, <1>4, <1>8 DEF Talking
<1>9. CASE state = "data_out"
  <2>1. /\ encIndex \in 0 .. packet.datalen - 1 /\ packet.command = "listen"
        /\ encBits \in 0 .. W
        /\ Len(heard) = W + 2 + Flat(encIndex) + encBits
    BY <1>1, <1>9 DEF Talking, Half
  <2>2. encIndex \in Nat /\ packet.datalen \in Nat /\ encIndex < packet.datalen
    BY <1>1, <2>1
  <2>3. Flat(encIndex) + W <= Flat(packet.datalen) /\ Flat(encIndex) \in Nat
    BY <2>2, FlatLess, FlatType
  <2> QED BY <1>3, <1>4, <2>1, <2>3
<1>10. CASE state = "stop_out"
  BY <1>1, <1>3, <1>4, <1>10 DEF Talking
<1>11. CASE state = "header_stop_high_in"
  <2>1. packet.command = "talk" /\ answer # <<>>
    BY <1>1, <1>11 DEF Listening, Receiving, Posted, Obeyed
  <2> QED BY <1>1, <1>11, <2>1 DEF Quiet, Obeyed, Hearing
<1> QED BY <1>5, <1>6, <1>7, <1>8, <1>9, <1>10, <1>11 DEF Sending

\* The client goes on when the tablet has obeyed.
LEMMA GoesOn ==
  ASSUME SessionInv, awaiting, mpc = "respond"
  PROVE  Obeyed <=> ~Failed
<1>1. /\ HostInv /\ Posted /\ ~Busy /\ calls > 0 /\ packet \in Packet /\ Done
      /\ answer \in Seq(Bit) /\ packet.command = Dialog[step].command
  BY DEF SessionInv, HostInv, CleanInv, CodecType, Busy, Served, Posted
<1>2. heard = Wire(Dialog[step]) /\ lastError = 0
  BY <1>1, FrameHeard, WireIsFrame DEF Done
<1>3. ASSUME packet.command = "talk" PROVE answer = <<>> <=> packet.datalen = 0
  <2>1. Flat(packet.datalen) = Len(answer) /\ packet.datalen \in Nat
    BY <1>1, <1>3, AnswerRead DEF Packet
  <2>2. packet.datalen = 0 => Len(answer) = 0
    BY <2>1, FlatType
  <2>3. packet.datalen > 0 => Len(answer) > 0
    <3>1. Flat(0) = 0 /\ (packet.datalen > 0 => Flat(0) + W <= Flat(packet.datalen))
      BY <2>1, FlatType, FlatLess
    <3> QED BY <2>1, <3>1
  <2> QED BY <1>1, <2>1, <2>2, <2>3, EmptySeq
<1> QED BY <1>1, <1>2, <1>3 DEF Obeyed, Failed

LEMMA SessionSimulates ==
  ASSUME ~Noisy, SessionInv, SessionInv', [HostNext]_allVars
  PROVE  [Session!SNext]_(Session!svars)
<1> DEFINE told == IF Obeyed THEN <<answer>> ELSE <<>>
<1>1. HostInv /\ HostInv' /\ step \in 1 .. Len(Dialog)
  BY DEF SessionInv, HostInv
<1>2. Dialog' = Dialog
  BY DialogFixed
<1>3. <<answer>> # <<>> /\ <<answer>>[1] = answer
  OBVIOUS
<1>4. ASSUME UNCHANGED <<step, penEvent>>, ~Obeyed, ~Obeyed'
      PROVE  UNCHANGED Session!svars
  BY <1>4 DEF Session!svars
<1>5. ASSUME UNCHANGED <<step, penEvent, awaiting, heard, answer>>,
             mpc \in {"loop", "respond"} <=> mpc' \in {"loop", "respond"}
      PROVE  UNCHANGED Session!svars
  <2>1. Obeyed' = Obeyed
    BY <1>2, <1>5 DEF Obeyed, Wire
  <2> QED BY <1>5, <2>1 DEF Session!svars
<1>6. CASE Request
  <2>1. ~Obeyed /\ ~Obeyed' /\ UNCHANGED <<step, penEvent>>
    BY <1>6 DEF Request, Send, Prepare, Obeyed, toolVars
  <2> QED BY <1>4, <2>1
<1>7. CASE Advance
  <2>1. /\ Obeyed /\ ~Obeyed' /\ step' = step + 1 /\ step < Len(Dialog)
        /\ UNCHANGED penEvent
    BY <1>7, GoesOn DEF Advance, Send, Prepare, Obeyed, toolVars
  <2>2. Session!Advance
    BY <1>3, <2>1 DEF Session!Advance
  <2> QED BY <2>2 DEF Session!SNext
<1>8. CASE Retry
  <2>1. ~Obeyed /\ ~Obeyed' /\ UNCHANGED <<step, penEvent>>
    BY <1>8, GoesOn DEF Retry, Reenter, Obeyed, toolVars
  <2> QED BY <1>4, <2>1
<1>9. CASE Report
  <2>1. /\ Obeyed /\ ~Obeyed' /\ UNCHANGED step /\ step = Len(Dialog) /\ ~Failed
        /\ penEvent'.bits = Bits(packet.datalen) /\ awaiting /\ mpc = "respond"
    BY <1>9, GoesOn DEF Report, Reenter, Obeyed
  <2>2. Dialog[step].command = "talk"
    BY <2>1 DEF Dialog, Status, Talk
  <2>3. packet.command = "talk" /\ ~Busy /\ calls > 0
    BY <2>1, <2>2 DEF SessionInv, Posted, Served, Busy
  <2>4. penEvent'.bits = answer
    BY <1>1, <2>1, <2>3, AnswerRead
  <2>5. Session!Report
    BY <1>3, <2>1, <2>4 DEF Session!Report
  <2> QED BY <2>5 DEF Session!SNext
<1>10. CASE Codec(Consume)
  <2>1. /\ UNCHANGED <<step, penEvent, awaiting, heard, answer>>
        /\ mpc = "loop" /\ mpc' = "respond"
    BY <1>10 DEF Codec, Consume, toolVars, busVars
  <2> QED BY <1>5, <2>1
<1>11. CASE Codec(Transfer)
  <2>1. mpc \notin {"loop", "respond"} /\ UNCHANGED <<step, penEvent>> /\ ~Obeyed
    BY <1>11 DEF Codec, Transfer, CaptureOff, TimerOff, Begin, toolVars, Obeyed
  <2>2. ~Obeyed'
    <3>1. CASE CaptureOff \/ TimerOff
      BY <3>1 DEF CaptureOff, TimerOff, Obeyed
    <3>2. CASE Begin
      <4>1. Busy' /\ state' = "idle"
        BY <1>1, <3>2 DEF Begin, Busy, HostInv, CleanInv, CodecType
      <4>2. SessionInv' /\ (state \in Sending \ {"finished"})'
        BY <4>1 DEF Sending
      <4> QED BY <4>1, <4>2, NotYet, PTL
    <3> QED BY <1>11, <3>1, <3>2 DEF Codec, Transfer
  <2> QED BY <1>4, <2>1, <2>2
<1>12. CASE Codec(Timer) \/ Codec(Edge)
  <2>1. UNCHANGED <<step, penEvent, awaiting>> /\ (Timer \/ Edge)
    BY <1>12 DEF Codec, toolVars
  <2>2. Busy /\ mpc = "loop" /\ mpc' = "loop"
    BY <1>1, <2>1, Interrupt
  <2>3. CASE Obeyed
    <3>1. ~(state \in Sending \ {"finished"} \/ state = "header_stop_high_in")
      BY <2>2, <2>3, NotYet
    <3>2. UNCHANGED <<heard, answer>>
      BY <1>1, <2>1, <3>1, Interrupt
    <3> QED BY <1>5, <2>1, <2>2, <3>2
  <2>4. CASE ~Obeyed /\ Obeyed'
    <3>1. /\ answer' \in Answers \union {<<>>}
          /\ Dialog[step].command = "talk" => answer' # <<>>
          /\ Dialog[step].command # "talk" => answer' = <<>>
      BY <1>2, <2>1, <2>2, <2>4 DEF SessionInv, Obeyed, Quiet, Posted
    <3>2. Session!Obey(answer')
      BY <2>1, <2>4, <3>1 DEF Session!Obey
    <3> QED BY <3>1, <3>2 DEF Session!SNext
  <2>5. CASE ~Obeyed /\ ~Obeyed'
    BY <1>4, <2>1, <2>5
  <2> QED BY <2>3, <2>4, <2>5
<1>13. CASE UNCHANGED allVars
  <2>1. UNCHANGED <<step, penEvent, awaiting, heard, answer, mpc>>
    BY <1>13 DEF allVars, toolVars, vars, busVars
  <2> QED BY <1>5, <2>1
<1> QED BY <1>6, <1>7, <1>8, <1>9, <1>10, <1>11, <1>12, <1>13 DEF HostNext, MainLoop, Codec

\* On a clean line the controller and the codec keep the promise of AdbSession:
\* the tablet gets each request of the dialogue until it has obeyed it, then the
\* next, and every pen event is its answer to a poll.
THEOREM KeepsTheDialogue == ~Noisy /\ HostSpec => ImplementsSession
<1> SUFFICES ASSUME ~Noisy PROVE HostSpec => ImplementsSession
  OBVIOUS
<1>1. HostInit => Session!SInit
  BY DEF HostInit, Session!SInit, Obeyed
<1>2. SessionInv /\ SessionInv' /\ [HostNext]_allVars => [Session!SNext]_(Session!svars)
  BY SessionSimulates
<1>3. HostSpec => []SessionInv
  BY SessionAlways
<1> QED BY <1>1, <1>2, <1>3, PTL DEF HostSpec, ImplementsSession, Session!SSpec

-----------------------------------------------------------------------------
(* The tool.                                                                 *)

\* What the last pen event said of the tool agrees with what is remembered of it.
ToolInv == /\ SessionInv
           /\ penEvent.eraser = eraser_mode
           /\ penEvent.proximity => in_proximity
           /\ eraser_mode => in_proximity
           /\ in_proximity \in BOOLEAN /\ eraser_mode \in BOOLEAN

\* An old UltraPad's report leaves the tool in proximity.
LEMMA UltraPadReport ==
  ASSUME SessionInv, awaiting, mpc = "respond", ~Failed, Dialog[step].command = "talk",
         packet.datalen = 5
  PROVE  BitOf(packet.data[1], 6)
<1>1. /\ HostInv /\ ~Busy /\ calls > 0 /\ packet.command = "talk" /\ packet \in Packet
      /\ Done /\ answer \in Answers \union {<<>>}
  BY DEF SessionInv, Served, Posted, Busy, HostInv, CleanInv, CodecType
<1>2. Flat(5) = Len(answer) /\ DataRead
  BY <1>1 DEF Done
<1>3. Flat(5) = 5 * W /\ 5 * W \in Nat /\ 5 * W >= W
  BY DEF Flat
<1>4. answer # <<>>
  BY <1>2, <1>3
<1>5. answer[W - 6] = 1
  BY <1>1, <1>2, <1>3, <1>4, UltraPadAssumption
<1>6. W - 6 \in 1 .. Flat(packet.datalen)
  BY <1>3, WidthAssumption
<1>7. DataBit(W - 6) = 1
  BY <1>2, <1>5, <1>6 DEF DataRead
<1>8. DataBit(W - 6) = packet.data[1][W - 6]
  <2>1. 0 \in Nat /\ W - 7 \in 0 .. W - 1 /\ Flat(0) + (W - 7) = (W - 6) - 1
    BY WidthAssumption, FlatType
  <2>2. ((W - 6) - 1) \div W = 0 /\ ((W - 6) - 1) % W = W - 7
    BY <2>1, Place
  <2>3. (W - 7) + 1 = W - 6 /\ 0 + 1 = 1
    OBVIOUS
  <2> QED BY <2>2, <2>3 DEF DataBit
<1> QED BY <1>7, <1>8 DEF BitOf

LEMMA ToolStep ==
  ASSUME ToolInv, SessionInv', [HostNext]_allVars
  PROVE  /\ ToolInv'
         /\ penEvent.proximity /\ penEvent'.proximity => penEvent'.eraser = penEvent.eraser
<1>1. CASE UNCHANGED toolVars
  BY <1>1 DEF ToolInv, toolVars
<1>2. CASE Report
  <2> DEFINE adb5 == packet.datalen = 5
             first == packet.data[1]
  <2>1. /\ in_proximity' = BitOf(first, 6)
        /\ eraser_mode' = IF in_proximity' = in_proximity THEN eraser_mode
                          ELSE in_proximity' /\ ~adb5 /\ LowNibble(first) \in {4, 5}
        /\ penEvent' = [bits |-> Bits(packet.datalen),
                        proximity |-> BitOf(packet.data[1], IF adb5 THEN 7 ELSE 6),
                        eraser |-> IF adb5 THEN penEvent.eraser ELSE eraser_mode']
    BY <1>2 DEF Report, DetectToolState
  <2>2. adb5 => BitOf(first, 6)
    <3>1. awaiting /\ mpc = "respond" /\ ~Failed /\ Dialog[step].command = "talk"
      BY <1>2 DEF Report, Reenter, Dialog, Status, Talk
    <3> QED BY <3>1, UltraPadReport DEF ToolInv
  <2> DEFINE turned == LowNibble(first) \in {4, 5}
  <2>3. /\ in_proximity' \in BOOLEAN /\ turned \in BOOLEAN /\ adb5 \in BOOLEAN
        /\ BitOf(first, 6) \in BOOLEAN /\ BitOf(first, 7) \in BOOLEAN
    BY <2>1 DEF BitOf
  <2>4. /\ penEvent'.proximity = BitOf(first, IF adb5 THEN 7 ELSE 6)
        /\ penEvent'.eraser = IF adb5 THEN penEvent.eraser ELSE eraser_mode'
    BY <2>1
  <2>5. \/ in_proximity' = in_proximity /\ eraser_mode' = eraser_mode
        \/ /\ in_proximity' # in_proximity
           /\ eraser_mode' = (in_proximity' /\ ~adb5 /\ turned)
    BY <2>1
  <2> HIDE DEF adb5, turned, first
  <2>6. CASE adb5
    <3>1. in_proximity' = TRUE /\ penEvent'.eraser = penEvent.eraser
      BY <2>1, <2>2, <2>3, <2>4, <2>6
    <3>2. in_proximity' # in_proximity => eraser_mode' = FALSE
      BY <2>5, <2>6, Zenon
    <3>3. eraser_mode' = eraser_mode
      BY <2>5, <3>1, <3>2 DEF ToolInv
    <3> QED BY <3>1, <3>3 DEF ToolInv
  <2>7. CASE ~adb5
    <3>1. penEvent'.eraser = eraser_mode' /\ penEvent'.proximity = in_proximity'
      BY <2>1, <2>4, <2>7
    <3>2. eraser_mode' \in BOOLEAN /\ (eraser_mode' => in_proximity')
      <4>1. CASE in_proximity' = in_proximity /\ eraser_mode' = eraser_mode
        BY <4>1 DEF ToolInv
      <4>2. CASE eraser_mode' = (in_proximity' /\ ~adb5 /\ turned)
        BY <4>2, Zenon
      <4> QED BY <2>5, <4>1, <4>2
    <3>3. penEvent.proximity /\ penEvent'.proximity => eraser_mode' = eraser_mode
      BY <2>3, <2>5, <3>1 DEF ToolInv
    <3> QED BY <2>3, <3>1, <3>2, <3>3 DEF ToolInv
  <2> QED BY <2>6, <2>7
<1> QED BY <1>1, <1>2
        DEF HostNext, MainLoop, Request, Retry, Advance, Codec, toolVars, allVars

\* On a clean line a tool is not turned over in the air, and an old UltraPad's
\* report does not do it either.
THEOREM EndStays == ~Noisy /\ HostSpec => EndIsKept
<1> SUFFICES ASSUME ~Noisy PROVE HostSpec => EndIsKept
  OBVIOUS
<1>1. HostInit => ToolInv
  <2>1. HostInit => /\ in_proximity = FALSE /\ eraser_mode = FALSE
                    /\ penEvent.proximity = FALSE /\ penEvent.eraser = FALSE
    BY DEF HostInit
  <2> QED BY <2>1, SessionInit DEF ToolInv
<1>2. ToolInv /\ [HostNext]_allVars => ToolInv'
  BY ToolStep, SessionStep DEF ToolInv
<1>3. ToolInv /\ [HostNext]_allVars =>
        [penEvent.proximity /\ penEvent'.proximity =>
            penEvent'.eraser = penEvent.eraser]_penEvent
  BY ToolStep, SessionStep DEF ToolInv
<1> QED BY <1>1, <1>2, <1>3, PTL DEF HostSpec, EndIsKept

=============================================================================
