------------------------------ MODULE GpioInit ------------------------------
(***************************************************************************)
(* gpioinit.cpp: the initialisation string of the pins, commands separated *)
(* by commas.  It is run once before USB is started and, when that ended   *)
(* in an error, run again "just for the sake of printing messages" once    *)
(* there is somewhere to print.  A run yields what it did to the pins, in  *)
(* order, up to the first error.                                           *)
(***************************************************************************)
EXTENDS Sequences, SequencesExt, Sorting

CONSTANTS CommandSize,  \* bytes of the command buffer (8)
          WildShift     \* the low byte of 1 << n, for the counts C leaves undefined
ASSUME CommandAssumption == CommandSize \in Nat \ {0}

\* Characters.
COMMA == 44  PLUS == 43  MINUS == 45  TILDE == 126  CARET == 94  PAUSE == 80
Ports == 66 .. 70           \* 'B' to 'F'
Digit(c) == c - 48

\* bitmask, as the set of its bits: an int has 16, and 8 of them are kept.
Bitmask(c) == CASE Digit(c) \in 0 .. 7 -> {Digit(c)}
                [] Digit(c) \in 8 .. 15 -> {}
                [] OTHER -> WildShift[Digit(c)]

\* *portData and *portDir of a port, or a delay.
Drive(port, bits, high, out) == [port |-> port, bits |-> bits, high |-> high, out |-> out]
Delay(ms) == [delay |-> ms]

\* parseNumber, on 16 bits.
ParseNumber(str) == FoldLeft(LAMBDA n, c : (10 * n + Digit(c)) % 65536, 0, str)

Bad == [ok |-> FALSE, did |-> <<>>]
Good(did) == [ok |-> TRUE, did |-> did]

ProcessPortCommand(cmd, errors_only) ==
    IF Len(cmd) # 3 \/ cmd[1] \notin Ports
         \/ cmd[3] \notin {PLUS, MINUS, TILDE, CARET} THEN Bad
    ELSE IF errors_only THEN Good(<<>>)
    ELSE Good(<< Drive(cmd[1], Bitmask(cmd[2]), cmd[3] \in {PLUS, CARET},
                       cmd[3] \in {PLUS, MINUS}) >>)

\* Slip: a pause is a pause in both runs, and a port command too.
SlipGpioCommand(cmd, errors_only) ==
    IF Len(cmd) > 0 /\ cmd[1] = PAUSE
    THEN IF Len(cmd) < 2 THEN Bad ELSE Good(<< Delay(ParseNumber(Tail(cmd))) >>)
    ELSE ProcessPortCommand(cmd, FALSE)

\* processGpioCommand.  An empty command is looked up by what the command
\* before it left in the buffer, and is an error whatever that is.
ProcessGpioCommand(cmd, errors_only) ==
    IF Len(cmd) > 0 /\ cmd[1] = PAUSE
    THEN IF Len(cmd) < 2 THEN Bad
         ELSE Good(IF errors_only THEN <<>> ELSE << Delay(ParseNumber(Tail(cmd))) >>)
    ELSE ProcessPortCommand(cmd, errors_only)

\* One character of the string.  The buffer is checked after it was written to,
\* one byte past its end; the run ends there in any case.
GpioChar(run, c, last, errors_only) ==
    LET command == IF c = COMMA THEN run.command ELSE Append(run.command, c)
        result == ProcessGpioCommand(command, errors_only)
    IN  CASE ~run.ok -> run
          [] run.ok /\ Len(command) > CommandSize -> [run EXCEPT !.ok = FALSE]
          [] OTHER -> IF c = COMMA \/ last
                      THEN [command |-> <<>>, ok |-> result.ok,
                            did |-> run.did \o result.did]
                      ELSE [run EXCEPT !.command = command]

\* The run after each number of characters.
CustomGpioInit(str, errors_only) ==
    LET run[n \in 0 .. Len(str)] ==
            IF n = 0 THEN [command |-> <<>>, ok |-> TRUE, did |-> <<>>]
            ELSE GpioChar(run[n - 1], str[n], n = Len(str), errors_only)
    IN  run[Len(str)]
-----------------------------------------------------------------------------
(* What the string means, by itself: its commands are what the commas       *)
(* separate, but for one comma at the end, and count up to the first bad    *)
(* one (the comment of GPIO_INIT in the configuration template).            *)

\* Where a command ends, and the command that ends there.
CommandEnds(str) == { e \in 1 .. Len(str) : str[e] = COMMA \/ e = Len(str) }
Command(str, e) ==
    LET before == { i \in 1 .. e - 1 : str[i] = COMMA }
    IN  SubSeq(str, Max({0} \union before) + 1, IF str[e] = COMMA THEN e - 1 ELSE e)

ValidCommand(cmd) ==
    /\ Len(cmd) \in 2 .. CommandSize
    /\ cmd[1] # PAUSE => /\ Len(cmd) = 3 /\ cmd[1] \in Ports
                         /\ cmd[3] \in {PLUS, MINUS, TILDE, CARET}

CommandMeaning(cmd) ==
    IF cmd[1] = PAUSE THEN Delay(ParseNumber(Tail(cmd)))
    ELSE [port |-> cmd[1], bits |-> Bitmask(cmd[2]),
          out  |-> cmd[3] \in {PLUS, MINUS},     \* driven, or an input ...
          high |-> cmd[3] \in {PLUS, CARET}]     \* ... high, or with a pull-up

ValidString(str) == \A e \in CommandEnds(str) : ValidCommand(Command(str, e))
StringMeaning(str) ==
    LET bad == { e \in CommandEnds(str) : ~ValidCommand(Command(str, e)) }
        good == Sorted({ e \in CommandEnds(str) : \A b \in bad : e < b })
    IN  [k \in DOMAIN good |-> CommandMeaning(Command(str, good[k]))]
=============================================================================
