---------------------------- MODULE MCConfigTool ----------------------------
(***************************************************************************)
(* Six items, one of each type the template has; a small firmware and a    *)
(* large one that also supports debugging; 66 bytes of flash memory in two *)
(* blocks, where the longest edit fits with the small firmware only.       *)
(***************************************************************************)
EXTENDS ConfigTool, TLC

MCType == 0 :> "special" @@ 1 :> "enum" @@ 2 :> "uint16" @@ 3 :> "usbstring"
          @@ 4 :> "utf8string" @@ 5 :> "binary"
MCEnumValues == 1 :> {0, 2}
MCRequires == 1 :> (0 :> {"usb"} @@ 2 :> {"usb", "debug"})

MCToken == <<69, 88>>
Lines(bytes, more) == << HexLine(2, 0, <<0, 0>>), HexLine(0, 0, <<12, 148, 5>>),
                             HexLine(0, 4, bytes), HexLine(0, 8, more), HexLine(1, 0, <<>>) >>
MCResource == "small" :> Lines(<<69, 88, 4, 35>>, <<1>>)
              @@ "full" :> Lines(<<69, 0, 24, 149>>, <<69, 88, 4, 35, 1, 8>>)
MCSupports == "small" :> {"usb"} @@ "full" :> {"usb", "debug"}

\* What avr-gcc's loop of shifts makes of a count that is negative as a byte, or large.
MCWildShift == [n \in -48 .. 207 |-> IF n < 0 \/ n > 127 THEN {0} ELSE {}]

C7pullup == <<67, 55, 94>>
MCEdit == { 1 :> 2 @@ 2 :> 513 @@ 3 :> <<65>> @@ 4 :> C7pullup \o <<44, 80, 49, 50, 44>>
              @@ 5 :> <<9>>,
            1 :> 0 @@ 2 :> 65281 @@ 3 :> <<65, 66, 67, 68, 69, 70, 71, 34>>
              @@ 4 :> <<68, 52, 45, 44, 80, 49, 50, 51, 52, 44, 66, 49, 43>> @@ 5 :> <<>>,
            1 :> 0 @@ 2 :> 70000 }
MCTemplate == { Generate([Create EXCEPT !.name = <<84>>, !.item[3] = <<66>>,
                                        !.item[5] = <<1, 2, 3>>]) }
=============================================================================
