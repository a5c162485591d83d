----------------------------- MODULE ConfigFile -----------------------------
(***************************************************************************)
(* A configuration of the tool: ConfigItem.java and WaxbeeConfig.java, the *)
(* text file it is kept in (ConfigFileWriter.java, ConfigFileParser.java)  *)
(* and the editor's fields (ExtDataEditor.java, ConfigItemExtEditor.java). *)
(* The items are taken by their type, a line of the file by its identifier *)
(* and its tokens; comments are left out.  Text is a sequence of character *)
(* codes, and NAME stands for the file's six headers.                      *)
(***************************************************************************)
EXTENDS Sequences, SequencesExt, Sorting

CONSTANTS Count,        \* EXTDATA_COUNT, the number of items
          Type,         \* the type of each
          EnumValues,   \* the values of an enum item ...
          Requires,     \* ... and what each needs of the firmware
          Null          \* a string or binary value never set

Byte == 0 .. 255
Item == 0 .. Count - 1
Text == {"usbstring", "utf8string"}
Integral == {"enum", "uint8", "uint16"}
ItemOf(types) == { i \in Item : Type[i] \in types }
Editable == Item \ ItemOf({"special"})
Enums == ItemOf({"enum"})

ASSUME ItemAssumption ==
    /\ Count \in 1 .. 63                       \* EXTDATA_COUNT: an index is a byte
    /\ Type \in [Item -> {"special", "binary"} \union Text \union Integral]
    /\ DOMAIN EnumValues = Enums /\ DOMAIN Requires = Enums
    /\ \A i \in Enums : /\ EnumValues[i] \in (SUBSET Byte) \ {{}}
                         /\ DOMAIN Requires[i] = EnumValues[i]
ASSUME NullAssumption == Null \notin 0 .. 65535

\* ConfigTemplate.create
Create == [name |-> Null,
           item |-> [i \in Item |-> CASE Type[i] = "enum" -> Min(EnumValues[i])
                                      [] Type[i] \in {"uint8", "uint16"} -> 0
                                      [] OTHER -> Null]]

\* getRequires: of all the enum items, at their values.
GetRequires(config) ==
    UNION { Requires[i][config.item[i]] : i \in Enums }

\* What an item can hold: text in Latin-1 or as the bytes of its UTF-8.
Values(i) == CASE Type[i] = "enum" -> EnumValues[i]
               [] Type[i] = "uint8" -> Byte
               [] Type[i] = "uint16" -> 0 .. 65535
               [] OTHER -> Seq(Byte) \union {Null}

\* validateValue, and the same limits in the editor's fields.
Valid(i, value) == value \in Values(i)
-----------------------------------------------------------------------------
\* The tokens of binary data: values that are bytes, and these.
SEPARATOR == 256  CLOSE == 257
RenderBinary(value) ==
    [k \in 1 .. (2 * Len(value)) |-> IF k = 2 * Len(value) THEN CLOSE
                                     ELSE IF k % 2 = 0 THEN SEPARATOR
                                     ELSE value[(k + 1) \div 2]]

\* renderData: what stands on the right of an item's line.  A string that was
\* never set is written like an empty one.
RenderData(i, value) ==
    CASE Type[i] \in Text -> [is |-> "text", of |-> IF value = Null THEN <<>> ELSE value]
      [] Type[i] \in Integral -> [is |-> "number", of |-> value]
      [] Type[i] = "binary" ->
           [is |-> "bytes", of |-> IF value \in {Null, <<>>} THEN <<CLOSE>>
                                   ELSE RenderBinary(value)]

\* ConfigFileWriter.generate
HEADER == -1
HeaderLine(config) == [id |-> HEADER, data |-> [is |-> "text",
                         of |-> IF config.name = Null THEN <<>> ELSE config.name]]
ItemLine(config, i) == [id |-> i, data |-> RenderData(i, config.item[i])]
Generate(config) ==
    LET items == Sorted(Editable)
    IN  << HeaderLine(config) >> \o
        [k \in DOMAIN items |-> ItemLine(config, items[k])]

\* A line that does not match the pattern is passed over without a word: text
\* with a double quote in it.
QUOTE == 34
TextData == [is : {"text"}, of : Seq(Byte)]
ItemData == TextData \union [is : {"number"}, of : Int] \union [is : {"bytes"}, of : Seq(0 .. CLOSE)]
FileLines == [id : {HEADER}, data : TextData] \union [id : Item, data : ItemData]
Matches(line) == line.data.is # "text" \/ QUOTE \notin Range(line.data.of)

\* parseBinary: the bytes up to the end of the data, which must come.
\* Slip: the value before the end of the data is dropped.
SlipParseBinary(tokens) ==
    SelectSeq(SubSeq(tokens, 1, Len(tokens) - 2), LAMBDA t : t < SEPARATOR)

ParseBinary(tokens) ==
    LET ends == { k \in DOMAIN tokens : tokens[k] = CLOSE }
        values == Sorted({ k \in 1 .. Min(ends) : tokens[k] < SEPARATOR })
    IN  [n \in DOMAIN values |-> tokens[values[n]]]

\* What ConfigFileParser.parse does with a line that names an item.  There is no
\* branch for a Utf8StringItem.
ParseItem(config, i, data) ==
    LET set(value) == [ok |-> TRUE, config |-> [config EXCEPT !.item[i] = value]]
        exception == [ok |-> FALSE, config |-> config]
    IN  CASE Type[i] = "usbstring" /\ data.is = "text" -> set(data.of)
          [] Type[i] \in Integral /\ data.is = "number" ->
               IF Valid(i, data.of) THEN set(data.of) ELSE exception
          [] Type[i] = "binary" /\ data.is = "bytes" /\ CLOSE \in Range(data.of) ->
               set(ParseBinary(data.of))
          [] Type[i] = "utf8string" -> [ok |-> TRUE, config |-> config]
          [] OTHER -> exception

ParseLine(parse, line) ==
    CASE ~parse.ok \/ ~Matches(line) -> parse
      [] parse.ok /\ Matches(line) /\ line.id = HEADER ->
           [parse EXCEPT !.config.name = line.data.of]
      [] OTHER -> ParseItem(parse.config, line.id, line.data)

Parse(lines) ==
    LET parse[n \in 0 .. Len(lines)] ==
            IF n = 0 THEN [ok |-> TRUE, config |-> Create]
            ELSE ParseLine(parse[n - 1], lines[n])
    IN  parse[Len(lines)]
-----------------------------------------------------------------------------
\* ExtDataEditor.save: the fields one after the other, the name, the tablet's limits
\* (numbers says that they are), then those of the items in their order, up to the
\* first that is refused, and what was set before it stays set.  A form is what the
\* fields hold; a string's field never holds null.
SaveForm(config, form) ==
    LET refused == { i \in ItemOf(Integral) : ~Valid(i, form.item[i]) }
        saved == { i \in Editable : form.numbers /\ \A r \in refused : i < r }
    IN  [ok |-> form.numbers /\ refused = {},
         config |-> [name |-> form.name,
                     item |-> [i \in Item |-> IF i \in saved THEN form.item[i]
                                              ELSE config.item[i]]]]

\* The fields as the editor shows them first.
FormOf(config) ==
    [name |-> IF config.name = Null THEN <<>> ELSE config.name, numbers |-> TRUE,
     item |-> [i \in Item |-> IF Type[i] \in Text /\ config.item[i] = Null THEN <<>>
                              ELSE config.item[i]]]
=============================================================================
