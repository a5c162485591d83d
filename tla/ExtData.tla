------------------------------- MODULE ExtData -------------------------------
(***************************************************************************)
(* The configuration in the firmware: WaxBeeConfigEncoder.java puts a      *)
(* table with an entry per item, and the strings and binary data, after    *)
(* the end of a firmware image, and the table's address where the firmware *)
(* keeps a placeholder for it; extdata.c reads it on the board.  An entry  *)
(* is a value with a length of 0xFF0n, or an address and a length.         *)
(***************************************************************************)
EXTENDS FirmwareImage, ConfigFile

CONSTANTS Token,        \* EXTDAT_TOKEN, the bytes before the version
          Version,      \* EXTDATA_VERSION
          Placeholder   \* EXTDATA_MAIN_TABLE_ADDRESS_PLACEHOLDER

\* The placeholder is odd.
ASSUME TokenAssumption == /\ Token \in Seq(Byte) /\ Len(Token) > 0
                          /\ Placeholder \in 0 .. 65535 /\ Placeholder % 2 = 1

Even(a) == a + (a % 2)

\* ConfigItem.getBytes: a USB string is a descriptor in UTF-16, of a length that is
\* a byte of it.
GetBytes(i, value) ==
    IF Type[i] # "usbstring" THEN value
    ELSE <<(2 * Len(value) + 2) % 256, 3>> \o
         [k \in 1 .. 2 * Len(value) |-> IF k % 2 = 1 THEN value[(k + 1) \div 2] ELSE 0]
GetExtDataSize(i, value) == IF value = Null THEN 0 ELSE Len(GetBytes(i, value))

\* Slip: the next chunk begins with the last byte of this one.
SlipAllocChunk(next, size) == next + Max({size, 1}) - 1

\* allocChunk: where the chunk after one at next goes.
AllocChunk(next, size) == Even(next + size)

\* Where the chunk of each item goes, and the first address after them.
ChunkLoc(config, table) ==
    LET loc[i \in 0 .. Count] ==
            IF i = 0 THEN table + 4 * Count
            ELSE AllocChunk(loc[i - 1], IF Type[i - 1] \in Text \union {"binary"}
                                        THEN GetExtDataSize(i - 1, config.item[i - 1]) ELSE 0)
    IN  loc

\* encodeConfigItem: the four bytes of the item's entry ...
TableEntry(config, table, i, chunk, le) ==
    LET size == GetExtDataSize(i, config.item[i])
    IN  CASE Type[i] \in {"enum", "uint8"} -> <<config.item[i], 0>> \o Word(65281, le)
          [] Type[i] = "uint16" -> Word(config.item[i], le) \o Word(65282, le)
          [] Type[i] = "special" -> Word(table, le) \o Word(4 * Count, le)
          [] Type[i] \in Text \union {"binary"} /\ size = 0 -> Word(0, le) \o Word(65280, le)
          [] OTHER -> Word(chunk, le) \o Word(size, le)

\* ... and the bytes of its chunk.
ChunkData(config, i) ==
    IF Type[i] \in Text \union {"binary"} /\ config.item[i] # Null
    THEN GetBytes(i, config.item[i]) ELSE <<>>

\* encodeConfig; the image is not to be used when ok is false (an exception).
EncodeConfig(image, config) ==
    LET token == FindByteSequence(image, Token, 0)
        root == token + Len(Token) + 1      \* itsExtDataAddressLoc
        endian == { le \in BOOLEAN : GetUInt16(image, root, le) = Placeholder }
        le == TRUE \in endian               \* little endian is tried first
        table == Even(image.max + 1)
        loc == ChunkLoc(config, table)
        entries == [k \in 1 .. Count |-> Piece(table + 4 * (k - 1),
                                    TableEntry(config, table, k - 1, loc[k - 1], le))]
        chunked == Sorted({ i \in Item : ChunkData(config, i) # <<>> })
        encoded == PutAll(image, << Piece(root, Word(table, le)) >> \o entries \o
                            [k \in DOMAIN chunked |-> Piece(loc[chunked[k]],
                                                       ChunkData(config, chunked[k]))])
    IN  IF token < 0 \/ image.byte[token + Len(Token)] # Version \/ endian = {}
        THEN [ok |-> FALSE, image |-> image]
        ELSE [ok |-> encoded.max < MemorySize, image |-> encoded]
-----------------------------------------------------------------------------
(* The board: flash is a function from addresses to bytes, root the address *)
(* of extdataroot's initial value.                                          *)

ReadByte(flash, a) == IF a \in DOMAIN flash THEN flash[a] ELSE 255
ReadWord(flash, a) == ReadByte(flash, a) + 256 * ReadByte(flash, a + 1)

MainTable(flash, root) == ReadWord(flash, root + Len(Token) + 1)
ExtDataInit(flash, root) == MainTable(flash, root) # Placeholder

\* The index is a byte.
EntryOf(flash, root, index) == MainTable(flash, root) + ((4 * index) % 256)

GetValue8(flash, root, index) == ReadByte(flash, EntryOf(flash, root, index))
GetValue16(flash, root, index) == ReadWord(flash, EntryOf(flash, root, index))
GetLength8(flash, root, index) == ReadByte(flash, EntryOf(flash, root, index) + 2)

GetAddress(flash, root, index) ==
    LET loc == EntryOf(flash, root, index)
    IN  IF ReadByte(flash, loc + 3) = 255 THEN loc ELSE ReadWord(flash, loc)

\* What the firmware gets for an item, read as its type is read everywhere.
ReadItem(flash, root, i) ==
    CASE Type[i] \in {"enum", "uint8"} -> GetValue8(flash, root, i)
      [] Type[i] = "uint16" -> GetValue16(flash, root, i)
      [] OTHER -> [k \in 1 .. GetLength8(flash, root, i) |->
                     ReadByte(flash, GetAddress(flash, root, i) + k - 1)]

\* What it should get.
Wanted(i, value) == IF value = Null THEN <<>>
                    ELSE IF Type[i] \in Integral THEN value ELSE GetBytes(i, value)
=============================================================================
