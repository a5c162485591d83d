---------------------------- MODULE FirmwareImage ----------------------------
(***************************************************************************)
(* FirmwareImage.java: the memory image of a firmware as the configuration *)
(* tool keeps it (the bytes, which of them are defined, the lowest and the *)
(* highest of those), and the Intel Hex files it is read from and written  *)
(* to, a line being a record and its digits left out.                      *)
(***************************************************************************)
EXTENDS Sequences, SequencesExt, Sorting

CONSTANTS MemorySize,       \* MAX_MEMORY_SIZE
          BytesPerLine      \* MAX_BYTES_PER_LINE

ASSUME ImageAssumption == MemorySize \in 1 .. 65536 /\ BytesPerLine \in 1 .. 255

Address == 0 .. MemorySize - 1
Span(a, len) == a .. a + len - 1

ResetImage == [byte |-> [a \in Address |-> 255], mask |-> {},
               max |-> 0, min |-> MemorySize]

\* Pieces put into an image one after the other, each [at, data]: putByte,
\* putUInt16 and putData, which all keep the mask and the two limits.
PutAll(img, pieces) ==
    LET Over(x) == { k \in DOMAIN pieces : x \in Span(pieces[k].at, Len(pieces[k].data)) }
        put == { x \in Address : Over(x) # {} }
        ByteOf(p, x) == p.data[x - p.at + 1]
    IN  [byte |-> [x \in Address |-> IF x \in put THEN ByteOf(pieces[Max(Over(x))], x)
                                     ELSE img.byte[x]],
         mask |-> img.mask \union put,
         max  |-> Max({img.max} \union { p.at + Len(p.data) - 1 : p \in Range(pieces) }),
         min  |-> Min({img.min} \union { p.at : p \in Range(pieces) })]

Piece(a, data) == [at |-> a, data |-> data]
PutData(img, a, data) == PutAll(img, << Piece(a, data) >>)

Word(value, littleEndian) ==
    IF littleEndian THEN <<value % 256, (value \div 256) % 256>>
                    ELSE <<(value \div 256) % 256, value % 256>>
GetUInt16(img, a, littleEndian) ==
    IF littleEndian THEN img.byte[a] + 256 * img.byte[a + 1]
                    ELSE 256 * img.byte[a] + img.byte[a + 1]
GetData(img, a, len) == [i \in 1 .. len |-> img.byte[a + i - 1]]

HasData(img, a, len) == /\ a <= img.max /\ a + len - 1 >= img.min
                        /\ Span(a, len) \intersect img.mask # {}

\* -1 where the sequence is not found.
FindByteSequence(img, sequence, searchStart) ==
    LET found == { i \in Max({searchStart, img.min}) .. img.max - Len(sequence) + 1 :
                     /\ GetData(img, i, Len(sequence)) = sequence
                     /\ Span(i, Len(sequence)) \subseteq img.mask }
    IN  IF found = {} THEN -1 ELSE Min(found)
-----------------------------------------------------------------------------
HexLines == [type : 0 .. 255, address : 0 .. 65535, data : Seq(0 .. 255), checksum : 0 .. 255]

\* What the bytes of a hex line but the checksum add up to.
LineSum(type, a, data) ==
    LET sum[n \in 0 .. Len(data)] ==
            IF n = 0 THEN Len(data) + (a \div 256) + (a % 256) + type
            ELSE sum[n - 1] + data[n]
    IN  sum[Len(data)]

HexLine(type, a, data) ==
    [type |-> type, address |-> a, data |-> data,
     checksum |-> (256 - (LineSum(type, a, data) % 256)) % 256]

ChecksumOK(line) ==
    (LineSum(line.type, line.address, line.data) + line.checksum) % 256 = 0

\* The base a line of type 2 sets: bytes are signed in Java, and the second one's sign
\* bits cover the first one.
JavaByte(b) == IF b < 128 THEN b ELSE b - 256
SegmentBase(data) == 16 * JavaByte(data[2]) +
                     IF data[2] < 128 THEN 4096 * JavaByte(data[1]) ELSE 0

\* A line of loadIntelHex: data, at the base the last line of type 2 set, or the end
\* of the file.  Anything else is an exception, and so are data outside the memory.
LoadLine(load, line) ==
    LET good == load.ok /\ ChecksumOK(line)
        at == load.base + line.address
    IN  CASE good /\ line.type = 0 /\ ~load.ended
                  /\ at >= 0 /\ at + Len(line.data) <= MemorySize ->
               [load EXCEPT !.pieces = Append(@, Piece(at, line.data))]
          [] good /\ line.type = 1 -> [load EXCEPT !.ended = TRUE]
          [] good /\ line.type = 2 /\ ~load.ended /\ line.address = 0 /\ Len(line.data) = 2 ->
               [load EXCEPT !.base = SegmentBase(line.data)]
          [] OTHER -> [load EXCEPT !.ok = FALSE]

LoadIntelHex(lines) ==
    LET after[n \in 0 .. Len(lines)] ==
            IF n = 0 THEN [ok |-> TRUE, ended |-> FALSE, base |-> 0, pieces |-> <<>>]
            ELSE LoadLine(after[n - 1], lines[n])
        load == after[Len(lines)]
    IN  [ok |-> load.ok /\ load.ended, image |-> PutAll(ResetImage, load.pieces)]

\* generateIntelHex: each run of defined bytes is cut into lines.
RunStart(img, a) == Max({ s \in 0 .. a : s - 1 \notin img.mask })

LineStarts(img) == { a \in img.mask : (a - RunStart(img, a)) % BytesPerLine = 0 }

LineLength(img, a) == Max({ n \in 1 .. BytesPerLine : Span(a, n) \subseteq img.mask })

LinesOf(img) ==
    LET starts == Sorted(LineStarts(img))
    IN  [i \in DOMAIN starts |->
            HexLine(0, starts[i], GetData(img, starts[i], LineLength(img, starts[i])))]
        \o << HexLine(1, 0, <<>>) >>

\* An exception where the last byte of the memory is defined: the search for the end
\* of a run of bytes reads the mask first, and only then compares.
GenerateIntelHex(img) == [ok |-> img.max < MemorySize - 1, lines |-> LinesOf(img)]
=============================================================================
