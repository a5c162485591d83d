---------------------- MODULE Protocol5HandshakeProofs ----------------------
(* Protocol5Handshake, for answers of any length, any number of restarts (each   *)
(* with any configured speed) and of bytes lost or added: the two sides agree    *)
(* about the speed.                                                              *)
EXTENDS Protocol5Handshake, SequenceTheorems, TLAPS

(* The commands, in the words of their senders.                               *)
Command(b, what, speed) == [what |-> what, speed |-> speed, at |-> b]
Restoring == IF protocol = "IV" THEN Command(normal, "#", 9600)
                                ELSE Command(normal, "BA", 9600)
Resetting == Command(9600, "#", 9600)
Asking == Command(9600, "~#", 9600)
Telling == Command(9600, "BA", Told)

\* What may be on the line: of the letters of models, only those of this one.
Heard == Chatter \union {"~", model}
Commands == [what : {"BA", "#", "~#", "ST"}, speed : Speed, at : Speed]

Types == /\ protocol \in {"IV", "V"} /\ normal \in Speed
         /\ model \in Model
         /\ commands \in Seq(Commands)
         /\ reply \in Seq(Heard) /\ received \in Seq(Heard) /\ buffer \in Seq(Heard)
         /\ baud \in Speed /\ transmitting \in BOOLEAN /\ reach \in BOOLEAN
         /\ pc \in {"restore", "restored", "reset", "loop", "changing"}
         /\ itsCurState \in {"packet", "modelversion"}

\* A tablet in reach is at a speed that initialState tries, ...
ReachInv == pc \in {"restore", "restored"} /\ reach => InReach
\* ... from which a command brings it to 9600 baud; no other tablet gets to ...
RestoreInv == pc = "restored" => IF commands = <<>>
                                 THEN baud = 9600 \/ baud # normal
                                 ELSE commands[Len(commands)] = Restoring
\* ... a speed of this run.  That one hears none of its commands, and the firmware
\* only noise.
Lost == /\ baud # 9600 /\ ~reach
        /\ reply = <<>> /\ received \in Seq(Chatter)
\* The tablet that is found is silenced, ...
ResetInv == pc = "reset" => /\ port = 9600
                            /\ \A i \in 1 .. Len(commands) : commands[i] = Resetting
                            /\ Lost \/ (baud = 9600 /\ (commands = <<>> => ~transmitting))
\* ... then asked ...
AskInv == pc = "loop" /\ itsCurState = "modelversion" =>
             /\ port = 9600
             /\ \A i \in 1 .. Len(commands) : commands[i] = Asking
             /\ baud = 9600 \/ (Lost /\ buffer = <<>>)
\* ... and told the new speed, to which both sides then change.
ChangeInv == pc = "changing" =>
                /\ Supported(model)
                /\ IF commands = <<>>
                   THEN baud = Told
                   ELSE /\ baud = 9600
                        /\ commands[Len(commands)] = Telling
                        /\ \A i \in 1 .. Len(commands) - 1 : commands[i] = Asking
PacketInv == pc = "loop" /\ itsCurState = "packet" =>
                /\ Supported(model)
                /\ baud = Told /\ port = normal
                /\ \A i \in 1 .. Len(commands) :
                      commands[i] = Command(normal, "ST", normal)

IInv == /\ Types /\ ReachInv /\ RestoreInv /\ ResetInv /\ AskInv /\ ChangeInv
        /\ PacketInv
-----------------------------------------------------------------------------
LEMMA HeadTail == ASSUME NEW S, NEW s \in Seq(S), s # <<>>
                  PROVE  /\ Head(s) \in S /\ Head(s) = s[1] /\ Len(s) >= 1
                         /\ Tail(s) \in Seq(S) /\ Len(Tail(s)) = Len(s) - 1
                         /\ \A i \in 1 .. Len(s) - 1 : Tail(s)[i] = s[i + 1]
                         /\ Tail(s) = <<>> <=> Len(s) = 1
<1>1. Len(s) \in Nat /\ Len(s) >= 1 /\ Head(s) = s[1]
  BY EmptySeq
<1>2. /\ Tail(s) \in Seq(S) /\ Len(Tail(s)) = Len(s) - 1
      /\ \A i \in 1 .. Len(s) - 1 : Tail(s)[i] = s[i + 1]
  BY HeadTailProperties
<1>3. Head(s) \in S
  BY HeadTailProperties
<1>4. Tail(s) = <<>> <=> Len(s) = 1
  <2>1. Tail(s) # <<>> => Len(Tail(s)) \in Nat \ {0}
    BY <1>2, EmptySeq, Zenon
  <2>2. Tail(s) = <<>> => Len(Tail(s)) = 0
    BY EmptySeq
  <2> QED BY <1>1, <1>2, <2>1, <2>2
<1> QED BY <1>1, <1>2, <1>3, <1>4

LEMMA Appended == ASSUME NEW S, NEW s \in Seq(S), NEW e \in S
                  PROVE  /\ Append(s, e) \in Seq(S) /\ Len(Append(s, e)) = Len(s) + 1
                         /\ \A i \in 1 .. Len(s) : Append(s, e)[i] = s[i]
                         /\ Append(s, e)[Len(s) + 1] = e
                         /\ Append(s, e) # <<>>
BY AppendProperties

LEMMA AnswerType == Answer \in Seq(Heard)
<1>1. <<"~", "#", model>> \in Seq(Heard)
  BY DEF Heard, Chatter
<1>2. [i \in 1 .. AnswerLen - 3 |-> "plain"] \in Seq(Heard)
  <2>1. AnswerLen - 3 \in Nat
    BY AnswerAssumption
  <2>2. "plain" \in Heard
    BY DEF Heard, Chatter
  <2> QED BY <2>1, <2>2
<1>3. <<"\r">> \in Seq(Heard)
  BY DEF Heard, Chatter
<1> QED BY <1>1, <1>2, <1>3, ConcatProperties DEF Answer

LEMMA InitIInv == Init => IInv
<1> SUFFICES ASSUME Init PROVE IInv
  OBVIOUS
<1>1. Types
  <2>1. /\ protocol \in {"IV", "V"} /\ model \in Model /\ normal \in Speed
        /\ baud \in Speed /\ transmitting \in BOOLEAN /\ pc = "restore"
        /\ itsCurState = "packet" /\ reach \in BOOLEAN
    <3>1. protocol \in {"IV", "V"} /\ model \in Model
      BY DEF Init, Model
    <3>2. transmitting \in BOOLEAN
      <4>1. transmitting = FALSE
        BY ZenonT(60) DEF Init
      <4> QED BY <4>1
    <3>3. baud \in Speed /\ reach \in BOOLEAN
      BY DEF Init, Speed
    <3>4. pc = "restore" /\ itsCurState = "packet" /\ normal \in Speed
      BY Zenon DEF Init
    <3> QED BY <3>1, <3>2, <3>3, <3>4
  <2>2. reply = <<>> /\ commands = <<>> /\ received = <<>> /\ buffer = <<>>
    BY Zenon DEF Init
  <2> QED BY <2>1, <2>2, EmptySeq DEF Types
<1>2. pc = "restore"
  BY Zenon DEF Init
<1>3. ReachInv
  <2>1. baud = 9600 /\ commands = <<>>
    BY DEF Init
  <2> QED BY <2>1 DEF ReachInv, InReach
<1> QED BY <1>1, <1>2, <1>3 DEF IInv, ReachInv, RestoreInv, ResetInv, AskInv, ChangeInv, PacketInv
-----------------------------------------------------------------------------
(* The steps.                                                                 *)

\* What a tablet may be told.
LEMMA Speeds == ASSUME IInv
                PROVE  /\ 9600 \in Speed /\ normal \in Speed /\ Told \in Speed
                       /\ WellConfigured => Told = normal
BY DEF WellConfigured, Told, Told4, Told5, IInv, Types, Speed

LEMMA SendType == ASSUME IInv, NEW b \in Speed, NEW speed \in Speed,
                         NEW what \in {"BA", "#", "~#", "ST"}, SendAt(b, what, speed)
                  PROVE  /\ commands' \in Seq(Commands)
                         /\ Len(commands') = Len(commands) + 1 /\ Len(commands) \in Nat
                         /\ \A i \in 1 .. Len(commands) : commands'[i] = commands[i]
                         /\ commands'[Len(commands')] = Command(b, what, speed)
                         /\ commands' # <<>>
<1>1. Command(b, what, speed) \in Commands
  BY DEF Command, Commands
<1>2. commands' = Append(commands, Command(b, what, speed))
  BY DEF SendAt, Command
<1>3. commands \in Seq(Commands) /\ Len(commands) \in Nat
  BY DEF IInv, Types
<1> QED BY <1>1, <1>2, <1>3, Appended

\* The tablet obeys one of the commands.
LEMMA ObeyInv == ASSUME IInv, Obey PROVE IInv'
<1> DEFINE c == commands[1]
<1>1. /\ commands # <<>> /\ commands' = Tail(commands) /\ Head(commands) = c
      /\ UNCHANGED <<protocol, model, received, faults, firmwareVars>>
  <2>1. commands \in Seq(Commands) /\ commands # <<>>
    BY DEF Obey, IInv, Types
  <2> QED BY <2>1, HeadTail DEF Obey
<1>2. /\ c \in Commands /\ Len(commands) \in Nat /\ Len(commands) >= 1
      /\ commands' \in Seq(Commands) /\ Len(commands') = Len(commands) - 1
      /\ \A i \in 1 .. Len(commands') : commands'[i] = commands[i + 1]
      /\ commands' = <<>> <=> Len(commands) = 1
  <2>1. commands \in Seq(Commands)
    BY DEF IInv, Types
  <2> QED BY <1>1, <2>1, HeadTail
<1>3. \/ c.at = baud /\ Obeyed(c)
      \/ c.at # baud /\ UNCHANGED <<baud, transmitting, reply>>
  BY <1>1 DEF Obey
<1>4. c.what \in {"BA", "#", "~#", "ST"} /\ c.speed \in Speed
  BY <1>2 DEF Commands
<1>5. Types'
  <2>1. reply' \in Seq(Heard)
    <3>1. reply' \in {<<>>, Answer, reply}
      BY <1>3, <1>4 DEF Obeyed
    <3>2. reply \in Seq(Heard)
      BY DEF IInv, Types
    <3>3. <<>> \in Seq(Heard)
      OBVIOUS
    <3> QED BY ONLY <3>1, <3>2, <3>3, AnswerType
  <2>2. baud' \in Speed
    <3>1. baud \in Speed
      BY DEF IInv, Types
    <3>2. baud' \in {baud, 9600, c.speed}
      BY <1>3 DEF Obeyed
    <3> QED BY <1>4, <3>1, <3>2, Speeds
  <2>3. transmitting' \in BOOLEAN
    <3>1. transmitting \in BOOLEAN
      BY DEF IInv, Types
    <3>2. ((transmitting \/ c.what = "ST") /\ c.what # "#") \in BOOLEAN
      OBVIOUS
    <3>3. \/ transmitting' = ((transmitting \/ c.what = "ST") /\ c.what # "#")
          \/ transmitting' = transmitting
      BY <1>3, Zenon DEF Obeyed
    <3> QED BY <3>1, <3>2, <3>3, Zenon
  <2> QED BY <1>1, <1>2, <2>1, <2>2, <2>3 DEF IInv, Types, firmwareVars, Heard, Commands
<1>6. commands' # <<>> => commands'[Len(commands')] = commands[Len(commands)]
  BY <1>2
<1>7. ReachInv'
  <2> SUFFICES ASSUME pc \in {"restore", "restored"}, reach PROVE InReach'
    BY <1>1 DEF ReachInv, firmwareVars
  <2>1. InReach /\ normal' = normal
    BY <1>1 DEF IInv, ReachInv, firmwareVars
  <2>2. baud' \in {9600, normal}
    <3>1. c.what = "BA" => c.speed \in {9600, normal}
      BY <1>2, <2>1 DEF InReach
    <3> QED BY <1>3, <2>1, <3>1 DEF Obeyed, InReach
  <2>3. ASSUME NEW i \in 1 .. Len(commands'), commands'[i].what = "BA"
        PROVE  commands'[i].speed \in {9600, normal}
    BY <1>2, <2>1, <2>3 DEF InReach
  <2> QED BY <2>1, <2>2, <2>3 DEF InReach
<1>8. RestoreInv'
  <2> SUFFICES ASSUME pc = "restored"
      PROVE  IF commands' = <<>> THEN baud' = 9600 \/ baud' # normal
                                 ELSE commands'[Len(commands')] = Restoring
    BY <1>1 DEF RestoreInv, firmwareVars, Restoring, Command
  <2>1. commands[Len(commands)] = Restoring
    BY <1>1 DEF IInv, RestoreInv
  <2>2. CASE commands' = <<>>
    <3>1. c = Restoring
      BY <1>2, <2>1, <2>2
    <3>2. c.at = normal /\ c.speed = 9600 /\ c.what \in {"BA", "#"}
      BY <3>1 DEF Restoring, Command
    <3>3. c.at = baud => baud' = 9600
      BY <1>3, <3>2 DEF Obeyed
    <3>4. c.at # baud => baud' # normal
      BY <1>3, <3>2
    <3> QED BY <2>2, <3>3, <3>4
  <2>3. CASE commands' # <<>>
    BY <1>6, <2>1, <2>3
  <2> QED BY <2>2, <2>3
\* The tablet that is not found obeys no command sent at 9600 baud.
<1>9. Lost /\ c.at = 9600 => Lost' /\ baud' = baud
  BY <1>1, <1>3 DEF Lost, firmwareVars
<1>10. ResetInv'
  <2> SUFFICES ASSUME pc = "reset"
      PROVE  /\ port = 9600
             /\ \A i \in 1 .. Len(commands') : commands'[i] = Resetting
             /\ Lost' \/ (baud' = 9600 /\ (commands' = <<>> => ~transmitting'))
    BY <1>1 DEF ResetInv, firmwareVars, Resetting, Command
  <2>1. /\ port = 9600 /\ (Lost \/ baud = 9600)
        /\ \A i \in 1 .. Len(commands) : commands[i] = Resetting
    BY DEF IInv, ResetInv
  <2>2. c = Resetting
    BY <1>2, <2>1
  <2>3. c.at = 9600 /\ c.what = "#"
    BY <2>2 DEF Resetting, Command
  <2>4. baud = 9600 => baud' = 9600 /\ ~transmitting'
    <3> SUFFICES ASSUME baud = 9600 PROVE baud' = 9600 /\ ~transmitting'
      OBVIOUS
    <3>1. Obeyed(c)
      BY <1>3, <2>3
    <3>2. baud' = 9600
      BY <2>3, <3>1 DEF Obeyed
    <3>3. ~transmitting'
      <4>1. transmitting' = ((transmitting \/ c.what = "ST") /\ c.what # "#")
        BY <3>1, Zenon DEF Obeyed
      <4>2. ~((transmitting \/ c.what = "ST") /\ c.what # "#")
        BY <2>3
      <4> QED BY <4>1, <4>2, Zenon
    <3> QED BY <3>2, <3>3
  <2> QED BY <1>2, <1>9, <2>1, <2>3, <2>4
<1>11. AskInv'
  <2> SUFFICES ASSUME pc = "loop", itsCurState = "modelversion"
      PROVE  /\ port = 9600
             /\ \A i \in 1 .. Len(commands') : commands'[i] = Asking
             /\ baud' = 9600 \/ (Lost' /\ buffer = <<>>)
    BY <1>1 DEF AskInv, firmwareVars, Asking, Command
  <2>1. /\ port = 9600 /\ (baud = 9600 \/ (Lost /\ buffer = <<>>))
        /\ \A i \in 1 .. Len(commands) : commands[i] = Asking
    BY DEF IInv, AskInv
  <2>2. c = Asking
    BY <1>2, <2>1
  <2>3. c.at = 9600 /\ (baud = 9600 => baud' = 9600)
    BY <1>3, <2>2 DEF Obeyed, Asking, Command
  <2> QED BY <1>2, <1>9, <2>1, <2>3
<1>12. ChangeInv'
  <2> SUFFICES ASSUME pc = "changing"
      PROVE  /\ Supported(model)
             /\ IF commands' = <<>>
                THEN baud' = Told
                ELSE /\ baud' = 9600
                     /\ commands'[Len(commands')] = Telling
                     /\ \A i \in 1 .. Len(commands') - 1 : commands'[i] = Asking
    <3>1. UNCHANGED <<protocol, model, normal, pc>>
      BY <1>1 DEF firmwareVars
    <3>2. Telling' = Telling /\ Asking' = Asking /\ Told' = Told
      BY <3>1 DEF Telling, Asking, Command, Told, Told4, Told5
    <3>3. Supported(model) => Supported(model)'
      BY <3>1 DEF Supported, Supported4, Supported5
    <3> QED BY <3>1, <3>2, <3>3 DEF ChangeInv
  <2>1. /\ Supported(model) /\ baud = 9600 /\ commands[Len(commands)] = Telling
        /\ \A i \in 1 .. Len(commands) - 1 : commands[i] = Asking
    BY <1>1 DEF IInv, ChangeInv
  <2>2. CASE commands' = <<>>
    <3>1. c = Telling
      BY <1>2, <2>1, <2>2
    <3>2. baud' = Told
      BY <1>3, <2>1, <3>1 DEF Obeyed, Telling, Command
    <3> QED BY <2>1, <2>2, <3>2
  <2>3. CASE commands' # <<>>
    <3>1. c = Asking
      BY <1>2, <2>1, <2>3
    <3>2. baud' = 9600
      BY <1>3, <2>1, <3>1 DEF Obeyed, Asking, Command
    <3> QED BY <1>2, <1>6, <2>1, <2>3, <3>2
  <2> QED BY <2>2, <2>3
<1>13. PacketInv'
  <2> SUFFICES ASSUME pc = "loop", itsCurState = "packet"
      PROVE  /\ Supported(model) /\ baud' = Told /\ port = normal
             /\ \A i \in 1 .. Len(commands') :
                   commands'[i] = Command(normal, "ST", normal)
    <3>1. UNCHANGED <<protocol, model, normal, port, pc, itsCurState>>
      BY <1>1 DEF firmwareVars
    <3>2. Told' = Told /\ Command(normal, "ST", normal)' = Command(normal, "ST", normal)
      BY <3>1 DEF Command, Told, Told4, Told5
    <3>3. Supported(model) => Supported(model)'
      BY <3>1 DEF Supported, Supported4, Supported5
    <3> QED BY <3>1, <3>2, <3>3 DEF PacketInv
  <2>1. /\ Supported(model) /\ baud = Told /\ port = normal
        /\ \A i \in 1 .. Len(commands) : commands[i] = Command(normal, "ST", normal)
    BY DEF IInv, PacketInv
  <2>2. c = Command(normal, "ST", normal)
    BY <1>2, <2>1
  <2>3. baud' = Told
    BY <1>3, <2>1, <2>2 DEF Obeyed, Command
  <2> QED BY <1>2, <2>1, <2>3
<1> QED BY <1>5, <1>7, <1>8, <1>10, <1>11, <1>12, <1>13 DEF IInv

\* Bytes come and go, of which none is the letter of another tablet.
LEMMA LineInv == ASSUME IInv, Reply \/ Garble \/ Transmit PROVE IInv'
<1>1. UNCHANGED <<protocol, model, baud, transmitting, commands, firmwareVars>>
  BY DEF Reply, Garble, Transmit, tabletVars
<1>2. "plain" \in Heard /\ Chatter \subseteq Heard
  BY DEF Heard, Chatter
<1>3. reply' \in Seq(Heard) /\ received' \in Seq(Heard)
  <2>1. reply \in Seq(Heard) /\ received \in Seq(Heard)
    BY DEF IInv, Types
  <2>2. CASE Reply
    <3>1. Head(reply) \in Heard /\ Tail(reply) \in Seq(Heard)
      BY <2>1, <2>2, HeadTail DEF Reply
    <3>2. /\ reply' = Tail(reply)
          /\ \E b \in Heard : received' = Append(received, b)
      BY <1>2, <2>2, <3>1 DEF Reply
    <3> QED BY <2>1, <3>1, <3>2, Appended
  <2>3. CASE Garble
    <3>1. Tail(reply) \in Seq(Heard)
      BY <2>1, <2>3, HeadTail DEF Garble
    <3>2. <<"plain">> \in Seq(Heard)
      BY <1>2
    <3>3. <<"plain">> \o reply \in Seq(Heard)
      BY <2>1, <3>2, ConcatProperties
    <3>4. received' = received /\ reply' \in {Tail(reply), <<"plain">> \o reply}
      BY <2>3 DEF Garble
    <3> QED BY <2>1, <3>1, <3>3, <3>4
  <2>4. CASE Transmit
    <3>1. /\ reply' = reply
          /\ \E b \in Heard : received' = Append(received, b)
      BY <1>2, <2>4 DEF Transmit, tabletVars
    <3> QED BY <2>1, <3>1, Appended
  <2> QED BY <2>2, <2>3, <2>4
<1>4. Types'
  BY <1>1, <1>3 DEF IInv, Types, firmwareVars, Heard, Commands
<1>5. /\ UNCHANGED <<protocol, model, normal, port, pc, itsCurState>>
      /\ UNCHANGED <<baud, transmitting, commands>>
  BY <1>1 DEF firmwareVars
<1>6. /\ Restoring' = Restoring /\ Telling' = Telling
      /\ Resetting' = Resetting /\ Asking' = Asking
      /\ Command(normal, "ST", normal)' = Command(normal, "ST", normal)
  BY <1>5 DEF Restoring, Telling, Resetting, Asking, Command, Told, Told4, Told5
<1>7. Supported(model) => Supported(model)'
  BY <1>5 DEF Supported, Supported4, Supported5
<1>9. UNCHANGED <<Told, InReach, buffer, reach>> /\ (Lost => Lost')
  <2>1. UNCHANGED <<buffer, reach>>
    BY <1>1 DEF firmwareVars
  <2>2. UNCHANGED <<Told, InReach>>
    BY <1>5 DEF Told, Told4, Told5, InReach
  <2>3. Lost => Lost'
    <3> SUFFICES ASSUME Lost PROVE Lost'
      OBVIOUS
    <3>1. Transmit /\ reply' = reply
      BY DEF Lost, Reply, Garble, Transmit, tabletVars
    <3>2. \E b \in Chatter : received' = Append(received, b)
      BY <3>1 DEF Transmit
    <3>3. received' \in Seq(Chatter)
      BY <3>2, Appended DEF Lost
    <3> QED BY <1>1, <2>1, <3>1, <3>3 DEF Lost
  <2> QED BY <2>1, <2>2, <2>3
<1>8. ReachInv' /\ RestoreInv' /\ ResetInv' /\ AskInv' /\ ChangeInv' /\ PacketInv'
  BY <1>5, <1>6, <1>7, <1>9 DEF IInv, ReachInv, RestoreInv, ResetInv, AskInv, ChangeInv, PacketInv
<1> QED BY <1>4, <1>8 DEF IInv

\* initialState, as far as its first delay.
LEMMA RestoreStep == ASSUME IInv, Restore PROVE IInv'
<1>1. /\ pc' = "restored" /\ received' = <<>>
      /\ UNCHANGED <<protocol, model, baud, transmitting, reply, normal, itsCurState,
                     buffer>>
  BY DEF Restore, SetSpeed, tabletVars
<1>0. reach' = reach
  BY DEF Restore
<1>2. \/ protocol = "V" /\ SendAt(normal, "BA", 9600)
      \/ protocol = "IV" /\ SendAt(normal, "#", 9600)
  <2>1. (protocol = "V" /\ Restore5) \/ (protocol = "IV" /\ Restore4)
    BY DEF Restore
  <2> QED BY <2>1 DEF Restore5, Restore4
<1>3. /\ commands' \in Seq(Commands) /\ commands' # <<>>
      /\ commands'[Len(commands')] = Restoring
      /\ Len(commands') = Len(commands) + 1 /\ Len(commands) \in Nat
      /\ \A i \in 1 .. Len(commands) : commands'[i] = commands[i]
  BY <1>2, SendType, Speeds DEF Restoring
<1>6. ReachInv'
  <2> SUFFICES ASSUME reach PROVE InReach'
    BY <1>0, <1>1 DEF ReachInv
  <2>1. InReach
    BY DEF Restore, IInv, ReachInv
  <2>2. ASSUME NEW i \in 1 .. Len(commands'), commands'[i].what = "BA"
        PROVE  commands'[i].speed \in {9600, normal}
    <3>1. CASE i = Len(commands')
      <4>1. Restoring.speed = 9600
        BY DEF Restoring, Command
      <4> QED BY <1>3, <3>1, <4>1
    <3>2. CASE i \in 1 .. Len(commands)
      BY <1>3, <2>1, <2>2, <3>2 DEF InReach
    <3> QED BY <1>3, <3>1, <3>2
  <2> QED BY <1>1, <2>1, <2>2 DEF InReach
<1>4. Types'
  BY <1>0, <1>1, <1>3 DEF IInv, Types, Heard, Commands
<1>5. Restoring' = Restoring
  BY <1>1 DEF Restoring, Command
<1> QED BY <1>1, <1>3, <1>4, <1>5, <1>6
        DEF IInv, ReachInv, RestoreInv, ResetInv, AskInv, ChangeInv, PacketInv

\* initialState, as far as its second: at 9600 baud, whatever it found.
LEMMA ResetStep == ASSUME IInv, Reset PROVE IInv'
<1>1. /\ pc' = "reset" /\ received' = <<>> /\ port' = 9600 /\ commands = <<>>
      /\ UNCHANGED <<protocol, model, baud, transmitting, reply, normal, itsCurState,
                     buffer>>
  BY DEF Reset, SetSpeed, Delayed, tabletVars
<1>2. baud = 9600 \/ Lost'
  <2>1. pc = "restored" /\ reply = <<>> /\ reach' = reach
    BY DEF Reset, Delayed
  <2>2. baud = 9600 \/ baud # normal
    BY <1>1, <2>1 DEF IInv, RestoreInv
  <2>3. reach => baud \in {9600, normal}
    BY <2>1 DEF IInv, ReachInv, InReach
  <2>4. received' \in Seq(Chatter)
    BY <1>1, EmptySeq
  <2> QED BY <1>1, <2>1, <2>2, <2>3, <2>4 DEF Lost
<1>3. /\ commands' \in Seq(Commands) /\ Len(commands') = 1 /\ commands' # <<>>
      /\ commands'[1] = Resetting
  <2>1. SendAt(9600, "#", 9600) /\ Len(commands) = 0
    BY <1>1 DEF Reset
  <2>2. /\ commands' \in Seq(Commands) /\ Len(commands') = Len(commands) + 1
        /\ commands'[Len(commands')] = Command(9600, "#", 9600)
    BY <2>1, SendType, Speeds
  <2>3. /\ commands' \in Seq(Commands) /\ Len(commands') = 1
        /\ commands'[1] = Command(9600, "#", 9600)
    BY <2>1, <2>2
  <2> QED BY <2>3, EmptySeq DEF Resetting
<1>4. Types'
  <2>1. reach' = reach
    BY DEF Reset
  <2> QED BY <1>1, <1>3, <2>1 DEF IInv, Types, Heard, Commands
<1>5. ResetInv'
  BY <1>1, <1>2, <1>3 DEF ResetInv, Resetting, Command
<1> QED BY <1>1, <1>4, <1>5
        DEF IInv, ReachInv, RestoreInv, AskInv, ChangeInv, PacketInv

\* initialState to its end.
LEMMA AskStep == ASSUME IInv, Ask PROVE IInv'
<1>1. /\ pc' = "loop" /\ itsCurState' = "modelversion"
      /\ buffer' = <<>> /\ commands = <<>>
      /\ UNCHANGED <<protocol, model, baud, transmitting, reply, normal, port, received>>
  BY DEF Ask, Delayed, tabletVars
<1>0. reach' = reach
  BY DEF Ask
<1>2. port = 9600 /\ (baud = 9600 \/ Lost')
  <2>1. port = 9600 /\ (baud = 9600 \/ Lost)
    BY DEF IInv, ResetInv, Ask
  <2> QED BY <1>0, <1>1, <2>1 DEF Lost
<1>3. /\ commands' \in Seq(Commands) /\ Len(commands') = 1 /\ commands'[1] = Asking
  <2>1. SendAt(9600, "~#", 9600) /\ Len(commands) = 0
    BY <1>1, <1>2 DEF Ask
  <2>2. /\ commands' \in Seq(Commands) /\ Len(commands') = Len(commands) + 1
        /\ commands'[Len(commands')] = Command(9600, "~#", 9600)
    BY <2>1, SendType, Speeds
  <2>3. /\ commands' \in Seq(Commands) /\ Len(commands') = 1
        /\ commands'[1] = Command(9600, "~#", 9600)
    BY <2>1, <2>2
  <2> QED BY <2>3, EmptySeq DEF Asking
<1>4. Types'
  BY <1>0, <1>1, <1>3 DEF IInv, Types, Heard, Commands
<1>5. AskInv'
  BY <1>1, <1>2, <1>3 DEF AskInv, Asking, Command
<1> QED BY <1>1, <1>4, <1>5
        DEF IInv, ReachInv, RestoreInv, ResetInv, ChangeInv, PacketInv

\* The tablet has been told the speed: the firmware follows.
LEMMA StartStep == ASSUME IInv, Start PROVE IInv'
<1>1. /\ pc' = "loop" /\ itsCurState' = "packet" /\ port' = normal /\ received' = <<>>
      /\ commands = <<>>
      /\ UNCHANGED <<protocol, model, baud, transmitting, reply, normal, buffer>>
  BY DEF Start, SetSpeed, Delayed, tabletVars
<1>0. reach' = reach
  BY DEF Start
<1>2. baud = Told /\ Supported(model)
  BY <1>1 DEF IInv, ChangeInv, Start
<1>3. /\ commands' \in Seq(Commands) /\ Len(commands') = 1
      /\ commands'[1] = Command(normal, "ST", normal)
  <2>1. SendAt(normal, "ST", normal) /\ Len(commands) = 0
    BY <1>1 DEF Start
  <2>2. /\ commands' \in Seq(Commands) /\ Len(commands') = Len(commands) + 1
        /\ commands'[Len(commands')] = Command(normal, "ST", normal)
    BY <2>1, SendType, Speeds
  <2>3. /\ commands' \in Seq(Commands) /\ Len(commands') = 1
        /\ commands'[1] = Command(normal, "ST", normal)
    BY <2>1, <2>2
  <2> QED BY <2>3, EmptySeq
<1>4. Types'
  BY <1>0, <1>1, <1>3 DEF IInv, Types, Heard, Commands
<1>5. PacketInv'
  <2>1. /\ Command(normal, "ST", normal)' = Command(normal, "ST", normal)
        /\ Told' = Told
    BY <1>1 DEF Command, Told, Told4, Told5
  <2>2. Supported(model)'
    BY <1>1, <1>2 DEF Supported, Supported4, Supported5
  <2> QED BY <1>1, <1>2, <1>3, <2>1, <2>2 DEF PacketInv
<1> QED BY <1>1, <1>4, <1>5 DEF IInv, ReachInv, RestoreInv, ResetInv, AskInv, ChangeInv

\* The firmware starts again, perhaps configured otherwise, and some of the commands
\* it sent may still arrive.
LEMMA RestartStep == ASSUME IInv, Restart PROVE IInv'
<1>1. /\ pc' = "restore" /\ itsCurState' = "packet" /\ received' = <<>> /\ buffer' = <<>>
      /\ commands' \in {commands, <<>>} /\ normal' \in Speed /\ reach' = InReach'
      /\ UNCHANGED <<protocol, model, baud, transmitting, reply>>
  BY DEF Restart, SerialInit, SetSpeed, tabletVars
<1>2. commands' \in Seq(Commands)
  <2>1. commands \in Seq(Commands) /\ <<>> \in Seq(Commands)
    BY DEF IInv, Types
  <2> QED BY <1>1, <2>1
<1>3. Types'
  <2>1. reach' \in BOOLEAN
    <3>1. InReach' \in BOOLEAN
      BY DEF InReach
    <3> QED BY <1>1, <3>1, Zenon
  <2>2. received' \in Seq(Heard)' /\ buffer' \in Seq(Heard)'
    BY <1>1, EmptySeq
  <2>3. reply' \in Seq(Heard)' /\ Commands' = Commands
    BY <1>1 DEF IInv, Types, Heard, Commands
  <2> QED BY <1>1, <1>2, <2>1, <2>2, <2>3 DEF IInv, Types
<1> QED BY <1>1, <1>3 DEF IInv, ReachInv, RestoreInv, ResetInv, AskInv, ChangeInv, PacketInv

\* A letter that says that the tablet is supported is its own.
LEMMA OwnLetter == ASSUME IInv, NEW m \in Heard, Supported(m) PROVE Supported(model)
<1>1. m \in {"G", "X", "U", "C", "K13"}
  BY DEF Supported, Supported4, Supported5
<1>2. m = model
  BY <1>1 DEF Heard, Chatter
<1> QED BY <1>2

\* onSerialByteReceived.
LEMMA ReceiveStep == ASSUME IInv, Receive PROVE IInv'
<1> DEFINE b == Head(received)
<1>1. /\ pc = "loop" /\ received # <<>> /\ received' = Tail(received)
      /\ UNCHANGED <<protocol, model, baud, transmitting, reply, normal, port,
                     itsCurState, reach>>
  BY DEF Receive, tabletVars
<1>2. b \in Heard /\ received' \in Seq(Heard)
  <2>1. received \in Seq(Heard)
    BY DEF IInv, Types
  <2> QED BY <1>1, <2>1, HeadTail
<1>3. /\ Restoring' = Restoring /\ Telling' = Telling
      /\ Resetting' = Resetting /\ Asking' = Asking
      /\ Command(normal, "ST", normal)' = Command(normal, "ST", normal)
  BY <1>1 DEF Restoring, Telling, Resetting, Asking, Command, Told, Told4, Told5
<1>4. Supported(model) => Supported(model)'
  BY <1>1 DEF Supported, Supported4, Supported5
<1>5. buffer \in Seq(Heard) /\ commands \in Seq(Commands)
  BY DEF IInv, Types
<1>12. /\ Told' = Told /\ (UNCHANGED commands => InReach' = InReach)
       /\ itsCurState = "modelversion" => (baud = 9600 \/ Lost')
       /\ itsCurState = "modelversion" /\ baud # 9600 => b \in Chatter /\ buffer = <<>>
  <2>1. itsCurState = "modelversion" => (baud = 9600 \/ (Lost /\ buffer = <<>>))
    BY <1>1 DEF IInv, AskInv
  <2>2. Lost => Lost' /\ b \in Chatter
    BY <1>1, HeadTail DEF Lost
  <2>3. Told' = Told
    BY <1>1 DEF Told, Told4, Told5
  <2>4. UNCHANGED commands => InReach' = InReach
    BY <1>1 DEF InReach
  <2> QED BY <2>1, <2>2, <2>3, <2>4
<1>6. ASSUME UNCHANGED <<pc, commands>>, buffer' \in Seq(Heard),
             itsCurState = "modelversion" /\ baud # 9600 => buffer' = <<>>
      PROVE  IInv'
  <2>1. Types'
    BY <1>1, <1>2, <1>6 DEF IInv, Types, Heard, Commands
  <2>2. AskInv'
    <3> SUFFICES ASSUME itsCurState = "modelversion"
        PROVE  /\ port = 9600 /\ \A i \in 1 .. Len(commands) : commands[i] = Asking
               /\ baud = 9600 \/ (Lost' /\ buffer' = <<>>)
      BY <1>1, <1>3, <1>6 DEF AskInv
    <3>1. port = 9600 /\ \A i \in 1 .. Len(commands) : commands[i] = Asking
      BY <1>1 DEF IInv, AskInv
    <3>2. baud = 9600 \/ (Lost' /\ buffer' = <<>>)
      BY <1>6, <1>12
    <3> QED BY <3>1, <3>2
  <2> QED BY <1>1, <1>3, <1>4, <1>6, <1>12, <2>1, <2>2
          DEF IInv, ReachInv, RestoreInv, ResetInv, AskInv, ChangeInv, PacketInv
<1>7. CASE itsCurState = "packet" /\ UNCHANGED <<pc, buffer, commands>>
  BY <1>5, <1>6, <1>7
<1>8. CASE itsCurState = "modelversion" /\ Wait(b)
  <2>1. UNCHANGED <<pc, commands>> /\ buffer' = <<>>
    BY <1>8 DEF Wait
  <2> QED BY <1>6, <2>1, EmptySeq
<1>9. CASE itsCurState = "modelversion" /\ Collect(b)
  <2>1. UNCHANGED <<pc, commands>> /\ buffer' = Append(buffer, b)
    BY <1>9 DEF Collect
  <2>2. buffer' \in Seq(Heard)
    BY <1>2, <1>5, <2>1, Appended
  <2>3. baud = 9600
    BY <1>9, <1>12 DEF Collect, Waits, Chatter
  <2> QED BY <1>6, <2>1, <2>2, <2>3
<1>10. CASE itsCurState = "modelversion" /\ Retry(b)
  <2>1. pc' = "restore" /\ UNCHANGED <<buffer, commands>>
    BY <1>10 DEF Retry
  <2>2. Types'
    BY <1>1, <1>2, <2>1 DEF IInv, Types, Heard, Commands
  <2>3. baud = 9600
    BY <1>10, <1>12 DEF Retry, Waits, Chatter
  <2>4. \A i \in 1 .. Len(commands) : commands[i] = Asking
    BY <1>1, <1>10 DEF IInv, AskInv
  <2>5. InReach'
    BY <1>1, <2>1, <2>3, <2>4 DEF InReach, Asking, Command
  <2> QED BY <2>1, <2>2, <2>5
          DEF IInv, ReachInv, RestoreInv, ResetInv, AskInv, ChangeInv, PacketInv
<1>11. CASE itsCurState = "modelversion" /\ Accept(b)
  <2>1. /\ buffer' = <<>> /\ Len(buffer) = ModelLen
        /\ \/ Supported(buffer[3]) /\ SendAt(port, "BA", Told) /\ pc' = "changing"
           \/ UNCHANGED <<pc, commands>>
    BY <1>11 DEF Accept
  <2>2. buffer' \in Seq(Heard)
    BY <2>1, EmptySeq
  <2>3. CASE Supported(buffer[3]) /\ SendAt(port, "BA", Told) /\ pc' = "changing"
    <3>1. buffer[3] \in Heard
      <4>1. 3 \in 1 .. Len(buffer)
        BY <2>1 DEF ModelLen
      <4> QED BY <1>5, <4>1, ElementOfSeq
    <3>2. Supported(model)
      BY <2>3, <3>1, OwnLetter
    <3>3. /\ baud = 9600 /\ port = 9600
          /\ \A i \in 1 .. Len(commands) : commands[i] = Asking
      <4>1. buffer # <<>>
        BY <2>1 DEF ModelLen
      <4> QED BY <1>1, <1>11, <1>12, <4>1 DEF IInv, AskInv
    <3>4. SendAt(9600, "BA", Told) /\ Told \in Speed /\ 9600 \in Speed
      BY <2>3, <3>3, Speeds
    <3>5. /\ commands' \in Seq(Commands) /\ commands' # <<>>
          /\ Len(commands') = Len(commands) + 1 /\ Len(commands) \in Nat
          /\ commands'[Len(commands')] = Command(9600, "BA", Told)
          /\ \A i \in 1 .. Len(commands) : commands'[i] = commands[i]
      BY <3>4, SendType
    <3>6. commands'[Len(commands')] = Telling
      BY <3>5 DEF Telling
    <3>7. Types'
      BY <1>1, <1>2, <2>2, <2>3, <3>5 DEF IInv, Types, Heard, Commands
    <3>8. ChangeInv'
      <4>1. \A i \in 1 .. Len(commands') - 1 : commands'[i] = Asking
        BY <3>3, <3>5
      <4>2. Supported(model)' /\ baud' = 9600
        BY <1>1, <1>4, <3>2, <3>3
      <4> QED BY <1>3, <3>5, <3>6, <4>1, <4>2 DEF ChangeInv
    <3> QED BY <2>3, <3>7, <3>8 DEF IInv, ReachInv, RestoreInv, ResetInv, AskInv, PacketInv
  <2> QED BY <1>6, <2>1, <2>2, <2>3, EmptySeq
<1> QED BY <1>7, <1>8, <1>9, <1>10, <1>11 DEF Receive

LEMMA StutterStep == ASSUME IInv, UNCHANGED hvars PROVE IInv'
<1>1. /\ UNCHANGED <<protocol, model, baud, transmitting, reply, commands, received>>
      /\ UNCHANGED <<normal, port, pc, itsCurState, buffer, reach>>
  BY DEF hvars, tabletVars, firmwareVars
<1>2. /\ Restoring' = Restoring /\ Telling' = Telling
      /\ Resetting' = Resetting /\ Asking' = Asking
      /\ Command(normal, "ST", normal)' = Command(normal, "ST", normal)
  BY <1>1 DEF Restoring, Telling, Resetting, Asking, Command, Told, Told4, Told5
<1>3. Supported(model) => Supported(model)'
  BY <1>1 DEF Supported, Supported4, Supported5
<1>4. Types'
  BY <1>1 DEF IInv, Types, Heard, Commands
<1>5. UNCHANGED <<Told, InReach, Lost>>
  BY <1>1 DEF Told, Told4, Told5, InReach, Lost
<1> QED BY <1>1, <1>2, <1>3, <1>4, <1>5
        DEF IInv, ReachInv, RestoreInv, ResetInv, AskInv, ChangeInv, PacketInv

LEMMA NextIInv == IInv /\ [Next]_hvars => IInv'
BY ObeyInv, LineInv, RestoreStep, ResetStep, AskStep, ReceiveStep, StartStep, RestartStep,
   StutterStep DEF Next, Firmware
-----------------------------------------------------------------------------
\* A tablet that some run of the firmware left anywhere in reach of the next is at 9600
\* baud and silent when it is asked for its model, however often the firmware was
\* restarted and whatever speeds it was configured for in between (initialState).
THEOREM BroughtBack == Spec => []At9600
<1>1. IInv => At9600
  BY DEF IInv, ResetInv, Lost, At9600, Delayed
<1> QED BY <1>1, InitIInv, NextIInv, PTL DEF Spec

\* Bytes are taken for packets only at the speed at which a supported tablet sends
\* them, in reach or not (onSerialByteReceived, parse_modelversion).
THEOREM SpeedsAlwaysAgree == Spec => []SpeedsAgree
<1>1. IInv => SpeedsAgree
  BY Speeds DEF IInv, PacketInv, SpeedsAgree
<1> QED BY <1>1, InitIInv, NextIInv, PTL DEF Spec
=============================================================================
