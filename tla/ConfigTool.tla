----------------------------- MODULE ConfigTool -----------------------------
(***************************************************************************)
(* From the configuration a user edits to the board that runs with it:     *)
(* MainApplication.java and its file, ProgramDialog.java and its worker    *)
(* thread, TeensyProgrammer.java block by block, the one native handle     *)
(* they share (teensylib/teensy.c), the board's boot loader, and the       *)
(* firmware's start (waxbee_main.cpp, extdata.c, gpioinit.cpp).            *)
(*                                                                         *)
(* Closing the dialog cancels its worker and waits for nothing: the worker *)
(* may still be in a native call when the next dialog starts another one.  *)
(* A worker's own computation between two of its native calls is taken to  *)
(* be done before the user can do anything, so a step ends with a call.    *)
(***************************************************************************)
EXTENDS ExtData, GpioInit

CONSTANTS Variant,      \* the builds of the firmware
          Resource,     \* the hex file of each
          Supports,     \* what each supports
          Template,     \* the files of config_templates
          Edit,         \* what a user types: values for some of the items
          GpioItem,     \* EXTDATA_GPIO_INIT
          CodeSize, BlockSize,  \* itsCodeSize, itsBlockSize
          Worker,       \* worker threads
          None,
          MaxChanges, MaxJobs   \* bounds: changes made, and programmings begun

ASSUME SizeAssumption == /\ {BlockSize, CodeSize} \subseteq Nat \ {0}
                         /\ CodeSize % BlockSize = 0 /\ CodeSize <= MemorySize
ASSUME NoneAssumption == None \notin Variant
ASSUME InputAssumption ==
    /\ Resource \in [Variant -> Seq(HexLines)] /\ Template \subseteq Seq(FileLines)
    /\ \A e \in Edit : \A i \in DOMAIN e : /\ i \in Editable
                                         /\ e[i] \in IF Type[i] \in Integral THEN Int
                                                     ELSE Seq(Byte)
    /\ GpioItem \in Item /\ Type[GpioItem] = "utf8string"

VARIABLES window,   \* which window is open, and has the focus
          config,   \* itsWaxbeeConfig
          selected, \* itsSelectedFirmware
          manual,   \* history: it was chosen by hand
          file,     \* WaxbeeConfig.txt
          worker,   \* the worker threads
          dialog,   \* the one of the dialog that is open
          handle,   \* libusb_teensy_handle, shared by all
          board,    \* mode, flash memory, and what was done to the pins
          promise,  \* history: what "Finished Successfully" was said of, until
                    \* flash memory is written again
          changes, jobs     \* how many, for the bounds

gui == <<window, config, selected, manual, file>>
vars == <<gui, worker, dialog, handle, board, promise, changes, jobs>>

\* A worker, with the firmware it has encoded.
Idle == [pc |-> "none", at |-> 0, job |-> None, image |-> None, cancelled |-> FALSE]
-----------------------------------------------------------------------------
(* The firmware variants.                                                   *)

LoadFirmware == [v \in Variant |-> LoadIntelHex(Resource[v]).image]
Firmware(v) == LoadFirmware[v]
SpanSize(v) == Firmware(v).max - Firmware(v).min
ASSUME SpanAssumption == \A v \in Variant : SpanSize(v) \in Nat    \* there are bytes in it
Smallest(V) == CHOOSE v \in V : \A u \in V : SpanSize(v) <= SpanSize(u)

\* None where nothing is required: getRequires is null then, and the pick throws.
Supporting(c) == { v \in Variant : /\ GetRequires(c) # {}
                                   /\ GetRequires(c) \subseteq Supports[v] }

\* Slip: the first variant is taken that supports something of it.
SlipAutoPick(c) ==
    LET V == { v \in Variant : GetRequires(c) \intersect Supports[v] # {} }
    IN  IF V = {} THEN None ELSE Smallest(V)

\* autoPickFirmwareIfRequired: None when it throws.
AutoPick(c) == IF Supporting(c) = {} THEN None ELSE Smallest(Supporting(c))

\* MainApplication.encodeFirmware
Encoded(job) == EncodeConfig(Firmware(job.fw), job.config)
RootOf == [v \in Variant |-> FindByteSequence(Firmware(v), Token, 0)]
Root(v) == RootOf[v]

\* Where the tool puts the table's address.
Patched(v) == Span(Root(v) + Len(Token) + 1, 2)

\* The firmwares are compiled for a processor that is little endian, extdataroot has
\* an initial value, and two firmwares differ in more than the table's address.
ASSUME FirmwareAssumption ==
    /\ \A v \in Variant : Root(v) >= 0 =>
         /\ Patched(v) \subseteq Firmware(v).mask
         /\ GetUInt16(Firmware(v), Root(v) + Len(Token) + 1, TRUE) = Placeholder
    /\ \A u, v \in Variant :
         u # v => \E a \in Firmware(u).mask \intersect Firmware(v).mask :
                    /\ a \notin Patched(u) \union Patched(v)
                    /\ Firmware(u).byte[a] # Firmware(v).byte[a]
-----------------------------------------------------------------------------
(* The board.                                                               *)

\* The firmware that is there in full, but for what the tool puts into it.
Intact(flash, v) ==
    \A a \in Firmware(v).mask \ Patched(v) : flash[a] = Firmware(v).byte[a]

Gpio(flash, v) == ReadItem(flash, Root(v), GpioItem)

\* main, up to the wait for USB.
Boot(flash) ==
    LET V == { v \in Variant : Intact(flash, v) }
        v == CHOOSE v \in V : TRUE
        run == CustomGpioInit(Gpio(flash, v), FALSE)
        b == [flash |-> flash, fw |-> None, did |-> <<>>, mode |-> "wild"]
    IN  CASE V = {} -> b
          [] V # {} /\ ~ExtDataInit(flash, Root(v)) ->
               [b EXCEPT !.fw = v, !.mode = "error_condition_2"]
          [] OTHER -> [b EXCEPT !.fw = v, !.did = run.did,
                                !.mode = IF run.ok THEN "usb" ELSE "usb_gpio_error"]

Bounds == <<changes, jobs>>
OneMore(n, bound) == n < bound /\ n' = n + 1

\* usb_configured(), and what is left of main before the main loop.
UsbConfigured ==
    /\ board.mode \in {"usb", "usb_gpio_error"}
    /\ board' = IF board.mode = "usb" THEN [board EXCEPT !.mode = "running"]
                ELSE [board EXCEPT !.mode = "error_condition_3",
                                   !.did = @ \o CustomGpioInit(Gpio(board.flash, board.fw),
                                                               TRUE).did]
    /\ UNCHANGED <<gui, worker, dialog, handle, promise, Bounds>>

InBootloader == board.mode = "bootloader"
Halted == [board EXCEPT !.mode = "bootloader", !.did = <<>>, !.fw = None]

PressButton == /\ ~InBootloader
               /\ board' = Halted
               /\ UNCHANGED <<gui, worker, dialog, handle, promise, Bounds>>

\* The native calls, on the one handle there is.
TeensyClose == handle' = "none"
TeensyOpen == handle' = IF InBootloader THEN "open" ELSE "none"
TeensyCanWrite == handle = "open" /\ InBootloader

\* A handle does not outlive the device it was opened for.
PowerCycle == /\ board' = Boot(board.flash)
              /\ handle' = IF handle = "open" THEN "stale" ELSE handle
              /\ UNCHANGED <<gui, worker, dialog, promise, Bounds>>

\* The boot loader takes a block, and erases all for the first.
Written(flash, image, at) ==
    [a \in 0 .. CodeSize - 1 |-> CASE a \in Span(at, BlockSize) -> image.byte[a]
                                   [] a \notin Span(at, BlockSize) /\ at = 0 -> 255
                                   [] OTHER -> flash[a]]
-----------------------------------------------------------------------------
(* The main window.                                                         *)

\* loadFile, or the template where there is no file or none that can be read.
Start ==
    LET parse == IF file = None THEN [ok |-> FALSE] ELSE Parse(file)
    IN  /\ window = "closed" /\ window' = "main"
        /\ config' = IF parse.ok THEN parse.config ELSE Create
        /\ selected' = IF AutoPick(config') # None THEN AutoPick(config')
                       ELSE Smallest(Variant)
        /\ manual' = FALSE
        /\ UNCHANGED <<file, worker, dialog, handle, board, promise, Bounds>>

\* System.exit takes the worker threads with it.
Exit == /\ window = "main" /\ window' = "closed"
        /\ worker' = [w \in Worker |-> Idle] /\ handle' = "none"
        /\ UNCHANGED <<config, selected, manual, file, dialog, board, promise, Bounds>>

\* What follows on an edit: a firmware that supports it, and only then the file.
Changed(c) == /\ config' = c
              /\ IF AutoPick(c) = None THEN UNCHANGED <<selected, manual, file>>
                 ELSE /\ selected' = AutoPick(c) /\ manual' = FALSE
                      /\ file' = Generate(c)

NewFromTemplate(t) ==
    /\ window = "main" /\ OneMore(changes, MaxChanges) /\ Parse(t).ok
    /\ Changed(Parse(t).config)
    /\ UNCHANGED <<window, worker, dialog, handle, board, promise, jobs>>

\* What the editor's fields hold when something was typed into some of them.
Edited(c, edit, numbers) ==
    [FormOf(c) EXCEPT !.numbers = numbers,
                      !.item = [i \in Item |-> IF i \in DOMAIN edit THEN edit[i] ELSE @[i]]]

\* The modal editor, to its end: by Save, by Cancel after a Save that failed, or by
\* Cancel at once, all followed by the same calls.
RawEdit(edit) ==
    /\ window = "main" /\ OneMore(changes, MaxChanges)
    /\ \/ \E numbers \in BOOLEAN :
            Changed(SaveForm(config, Edited(config, edit, numbers)).config)
       \/ Changed(config)
    /\ UNCHANGED <<window, worker, dialog, handle, board, promise, jobs>>

ChooseFirmware(v) ==
    /\ window = "main" /\ v # selected /\ OneMore(changes, MaxChanges)
    /\ selected' = v /\ manual' = TRUE
    /\ UNCHANGED <<window, config, file, worker, dialog, handle, board, promise, jobs>>

\* The check box is ticked again.
Autoselect ==
    /\ window = "main" /\ manual /\ OneMore(changes, MaxChanges)
    /\ manual' = FALSE
    /\ selected' = IF AutoPick(config) = None THEN selected ELSE AutoPick(config)
    /\ UNCHANGED <<window, config, file, worker, dialog, handle, board, promise, jobs>>

\* The image ends below the boot loader; what does not is cut off, in silence.
Promise(job, image) == [job |-> job, fits |-> image.max < CodeSize]

\* "Generate firmware '.hex' file...", and the Teensy Loader that programs it.
GenerateHexFile ==
    LET job == [fw |-> selected, config |-> config, manual |-> manual]
        hex == GenerateIntelHex(Encoded(job).image)
    IN  /\ window = "main" /\ InBootloader /\ OneMore(jobs, MaxJobs)
        /\ Encoded(job).ok /\ hex.ok
        /\ \E load \in { LoadIntelHex(hex.lines) } :
             /\ board' = Boot([a \in 0 .. CodeSize - 1 |-> load.image.byte[a]])
             /\ promise' = IF load.ok THEN Promise(job, load.image) ELSE None
        /\ handle' = IF handle = "open" THEN "stale" ELSE handle
        /\ UNCHANGED <<gui, worker, dialog, changes>>

\* The dialog and its worker, up to the worker's first call: encodeFirmware, which a
\* second one, of the same, repeats before the board is programmed.  When it throws
\* the dialog says so, and that is all.
ProgramDevice(w) ==
    LET job == [fw |-> selected, config |-> config, manual |-> manual]
        encoded == Encoded(job)
    IN  /\ window = "main" /\ worker[w] = Idle /\ OneMore(jobs, MaxJobs) /\ encoded.ok
        /\ window' = "program" /\ dialog' = w
        /\ worker' = [worker EXCEPT ![w] = [Idle EXCEPT !.pc = "find", !.job = job,
                                                        !.image = encoded.image]]
        /\ UNCHANGED <<config, selected, manual, file, handle, board, promise, changes>>

\* Threads that are not running are all the same.
Fresh == CHOOSE w \in Worker : worker[w] = Idle

\* The Close button: cancel(true).  What the worker had encoded is of no use to it.
CloseDialog ==
    /\ window = "program" /\ window' = "main" /\ dialog' = None
    /\ worker' = [worker EXCEPT ![dialog].cancelled = TRUE,
                                ![dialog].job = None, ![dialog].image = None]
    /\ UNCHANGED <<config, selected, manual, file, handle, board, promise, Bounds>>
-----------------------------------------------------------------------------
(* A worker: doInBackground and the calls it makes.                         *)

Go(w, pc) == worker' = [worker EXCEPT ![w].pc = pc]

\* The worker is done, and with it its dialog.
Ends(w) == /\ worker' = [worker EXCEPT ![w] = Idle]
           /\ window' = IF dialog = w THEN "main" ELSE window
           /\ dialog' = IF dialog = w THEN None ELSE dialog
           /\ UNCHANGED <<config, selected, manual, file>>
Unseen == UNCHANGED <<gui, dialog>>

\* Slip: a worker that waits for the boot loader waits on.
SlipFind(w) == /\ worker[w].pc = "find"
               /\ handle' = "none"
               /\ IF InBootloader THEN IF worker[w].cancelled THEN Ends(w)
                                       ELSE Go(w, "open") /\ Unseen
                  ELSE UNCHANGED <<worker, gui, dialog>>
               /\ UNCHANGED <<board, promise, Bounds>>

\* checkIfTeensyPresent, in the waiting loop and before it: it opens, and closes,
\* and both close what is open.
Find(w) == /\ worker[w].pc = "find"
           /\ TeensyClose
           /\ IF worker[w].cancelled THEN Ends(w)
              ELSE /\ worker' = IF InBootloader THEN [worker EXCEPT ![w].pc = "open"]
                                ELSE worker
                   /\ Unseen
           /\ UNCHANGED <<board, promise, Bounds>>

\* program's teensy.open.
Open(w) == /\ worker[w].pc = "open"
           /\ TeensyOpen
           /\ IF InBootloader
              THEN worker' = [worker EXCEPT ![w].pc = "flash", ![w].at = 0] /\ Unseen
              ELSE Ends(w)
           /\ UNCHANGED <<board, promise, Bounds>>

\* Leaving program: teensy.close, whoever opened it.
Leave(w) == TeensyClose /\ Ends(w) /\ UNCHANGED <<board, promise, Bounds>>

\* The blocks to be written from an address on: the first, and those with data.
BlocksFrom(image, at) ==
    { a \in at .. CodeSize - 1 : /\ a % BlockSize = 0
                                 /\ a = 0 \/ HasData(image, a, BlockSize) }

\* Slip: a write that fails is taken for one that succeeded.
SlipWriteBlock(w) ==
    LET blocks == BlocksFrom(worker[w].image, worker[w].at)
    IN  /\ worker[w].pc = "flash" /\ ~worker[w].cancelled /\ blocks # {}
        /\ worker' = [worker EXCEPT ![w].at = Min(blocks), ![w].pc = "written"]
        /\ board' = IF handle # "open" THEN board ELSE
                    [board EXCEPT !.flash = Written(@, worker[w].image, Min(blocks))]
        /\ promise' = None
        /\ UNCHANGED <<handle, Bounds>> /\ Unseen

\* The call of teensy.write for the next block ...
WriteBlock(w) ==
    LET blocks == BlocksFrom(worker[w].image, worker[w].at)
    IN  /\ worker[w].pc = "flash" /\ ~worker[w].cancelled /\ blocks # {}
        /\ TeensyCanWrite
        /\ worker' = [worker EXCEPT ![w].at = Min(blocks), ![w].pc = "written"]
        /\ board' = [board EXCEPT !.flash = Written(@, worker[w].image, Min(blocks))]
        /\ promise' = None
        /\ UNCHANGED <<handle, Bounds>> /\ Unseen

\* ... and its return, up to three seconds later.
WriteReturns(w) ==
    /\ worker[w].pc = "written"
    /\ worker' = [worker EXCEPT ![w].pc = "flash", ![w].at = @ + BlockSize]
    /\ UNCHANGED <<handle, board, promise, Bounds>> /\ Unseen

\* An interrupt between two blocks, or an error from teensy.write.
Abandon(w) ==
    /\ \/ worker[w].pc = "flash" /\ (worker[w].cancelled \/ handle # "open")
       \/ worker[w].pc = "written"
       \/ worker[w].pc = "settle" /\ worker[w].cancelled
    /\ Leave(w)

Settle(w) ==
    /\ worker[w].pc = "flash" /\ ~worker[w].cancelled
    /\ BlocksFrom(worker[w].image, worker[w].at) = {}
    /\ Go(w, "settle")
    /\ UNCHANGED <<handle, board, promise, Bounds>> /\ Unseen

\* The packet that reboots the board, of which the result is ignored.
Reboot(w) ==
    /\ worker[w].pc = "settle" /\ ~worker[w].cancelled
    /\ Go(w, "finished") /\ TeensyClose
    /\ \/ UNCHANGED board
       \/ TeensyCanWrite /\ board' = Boot(board.flash)
    /\ UNCHANGED <<promise, Bounds>> /\ Unseen

\* "Finished Successfully", unless it was cancelled; with "Keep reprogramming" on,
\* it is said and the worker waits for the boot loader again.
Finish(w) ==
    /\ worker[w].pc = "finished"
    /\ promise' = IF worker[w].cancelled THEN promise
                  ELSE Promise(worker[w].job, worker[w].image)
    /\ \/ Ends(w)
       \/ ~worker[w].cancelled /\ Go(w, "find") /\ Unseen
    /\ UNCHANGED <<handle, board, Bounds>>

Work(w) == \/ Find(w) \/ Open(w) \/ WriteBlock(w) \/ WriteReturns(w)
           \/ Abandon(w) \/ Settle(w) \/ Reboot(w) \/ Finish(w)
-----------------------------------------------------------------------------
\* Programmed by another tool with a firmware that is not configured.
Init == /\ window = "closed" /\ config = Create /\ file = None
        /\ selected = None /\ manual = FALSE
        /\ worker = [w \in Worker |-> Idle] /\ dialog = None /\ handle = "none"
        /\ \E v \in Variant : board = Boot([a \in 0 .. CodeSize - 1 |-> Firmware(v).byte[a]])
        /\ promise = None /\ changes = 0 /\ jobs = 0

User == \/ Start \/ Exit \/ Autoselect \/ GenerateHexFile \/ CloseDialog
        \/ \E t \in Template : NewFromTemplate(t)
        \/ \E e \in Edit : RawEdit(e)
        \/ \E v \in Variant : ChooseFirmware(v)
        \/ (\E w \in Worker : worker[w] = Idle) /\ ProgramDevice(Fresh)

Next == User \/ UsbConfigured \/ PressButton \/ PowerCycle \/ \E w \in Worker : Work(w)

\* A thread that can run runs.
Spec == Init /\ [][Next]_vars /\ \A w \in Worker : WF_vars(Work(w))
-----------------------------------------------------------------------------
\* The firmware takes lengths for bytes, which the editor does not see to.
Short(i, value) == Type[i] \in Integral \/ Len(Wanted(i, value)) < 256

\* "Finished Successfully" means that the firmware on the board reads every item as
\* the user left it, but for an image beyond the flash memory (fits) and text that is
\* too long for a length of one byte, whatever was cancelled, unplugged or programmed
\* before
\* (ProgramDialog, TeensyProgrammer.program, WaxBeeConfigEncoder, extdata.c).
SuccessMeansConfigured ==
    promise # None /\ promise.fits =>
        \A i \in Editable : LET value == promise.job.config.item[i]
                            IN  Short(i, value) =>
                                  ReadItem(board.flash, Root(promise.job.fw), i) = Wanted(i, value)

\* ... and, an image beyond the flash memory (fits) and a string too long for its
\* length excepted, that the board starts with it: it stops, with three blinks, only
\* for a string of pin commands that is wrong (main, error_condition).
SuccessMeansStarts ==
    promise # None /\ promise.fits /\ Short(GpioItem, promise.job.config.item[GpioItem]) =>
        LET gpio == promise.job.config.item[GpioItem]
            valid == gpio = Null \/ ValidString(gpio)
        IN  board.mode \in {"bootloader"} \union
                IF valid THEN {"usb", "running"}
                ELSE {"usb_gpio_error", "error_condition_3"}

\* What has been done to the pins since power-up is what the string says, once and
\* in order, up to its first bad command (customGpioInit, run once or twice).
PinsAsWritten ==
    board.mode \in {"usb", "running", "usb_gpio_error", "error_condition_3"} =>
        board.did = StringMeaning(Gpio(board.flash, board.fw))

\* The firmware a user did not choose by hand has what the configuration needs, if
\* there is one that has (autoPickFirmwareIfRequired at each change: if there is none
\* the firmware chosen before stays, and the board can be programmed with it).
FirmwareSupports ==
    promise # None /\ ~promise.job.manual /\ Supporting(promise.job.config) # {} =>
        GetRequires(promise.job.config) \subseteq Supports[promise.job.fw]

\* A configuration some firmware supports, read back from its file, makes the same
\* firmware as before, but for two losses: strings for the pins are not read back, nor is a string with a
\* double quote, and a USB string that was absent comes back as an empty one
\* (ConfigFileWriter.generate, ConfigFileParser.parse).
ReadsBack(before, after) ==
    \A i \in Editable : \/ Type[i] = "utf8string"
                        \/ Type[i] \in Text /\ before.item[i] = Null
                        \/ Type[i] \in Text /\ QUOTE \in Range(before.item[i])
                        \/ Wanted(i, after.item[i]) = Wanted(i, before.item[i])
ReloadKeeps ==
    [][window = "closed" /\ window' = "main" /\ file # None /\ Supporting(config) # {} =>
        ReadsBack(config, config')]_vars

\* A cancelled worker goes away, wherever it was (isCancelled and isInterrupted in
\* doInBackground and program).
CancelledEnds == \A w \in Worker : worker[w].cancelled ~> worker[w] = Idle
=============================================================================
