# A formal model of EmbeddedHaarClassification

This directory models the face detector of this repository in TLA+: the Verilog design on the
FPGA, the C++ program that feeds it from the processor, and the C program that loads the FPGA.
TLC checks the models on small instances; TLAPS proves every safety property that the passing runs
check, for every size of frame, window, image, store and database.

In what follows HW is `src/LED_HEX_hardware`, FD is `HW/face_detection_system` and SW is
`src/LED_HEX_software`.

## 1. The system

The processor sends an image to the FPGA pixel by pixel over a memory-mapped register. The FPGA
keeps the integral image of a window of the frame, slides it with each pixel, runs a cascade of
Haar classifiers on it, stores the coordinate of each candidate, and gives the stored results to
the processor when the frame is over.

| Component | Source | State | Operations |
|---|---|---|---|
| Program | SW/HPS_LED_HEX/main.cpp, FPGAManager.cpp | place in the transfer, pixels sent, results read | connect, reset, poll, send a pixel, ask for and read a result, ask whether finished |
| Bus slave | FD/face_detection_ip.v | command register, command machine, pixel, answer register, flags of a pixel and of a result | write, read, each clock |
| Frame controller | FD/test_modules/face_detection.v | ready flag, coordinate, end of frame, write of a result | each clock |
| Window controller | FD/I2LBS.v | IDLE / INSPECT / REQUEST_RECIEVE, enable, candidate, requests | each clock; the edge of a pixel |
| Window memory | FD/I2LBS_memory.v, row.v, fifo.v | a FIFO and a line of registers per row, fill flags, machine, count | take a pixel, rest |
| Result store | FD/result.v, counter.v, fifo.v | counter of the words of a result, FIFO, ready and empty flags | write a word, read a word, reset |
| Cascade | FD/I2LBS_classifier.v, classifier.v, *_embedded.v | stage, sums of trees, verdict | inspect |
| Databases | FD/database_embedded.v, database*.v, rom.v | loaded words, addresses | load after a reset, stream a stage |
| Resizer | FD/resize.v | counters of kept columns and rows | a new coordinate |
| Configuration | SW/hps_config_fpga/hsp_config_fpga.c | attempt, control register, stream | the numbered steps of configuring, retries |
| Board | HW/HPS_LED_HEX.v, qsys, ip/ | - | wiring, vendor peripherals |

The parts talk in three ways. The program and the slave share one register in each direction and
poll it. The slave and the modules below it share a clock, and pass levels to each other that the
next clock reads. Inside the modules, blocks on `posedge clk` are joined by blocks that follow a
signal (`always @(posedge enable_recieve_pixel)`, `always @(result_size)`), which run in the same
instant and race with them.

What is hard in it:

* races between blocks on one edge: `write_data` is stored with a blocking assignment and read by
  another block on that edge (face_detection_ip.v:176); the window controller's state is read by
  the block on the pixel's edge (I2LBS.v:119); registers are assigned by two blocks (a reset block
  and a machine) in most modules;
* a protocol in which pixels and commands share a register, and levels that outlive the event they
  stand for;
* a program that may be killed and run again on a device that is not reset by it;
* a ring of waits: the ready flag waits for the pixel request, that for a verdict, that for a
  window, that for a pixel, that for the ready flag; the result store has a turn in it;
* counters at their edges: the last column and row, a full FIFO that reports size 0, the pixel that
  fills the window, a sum wider than its register;
* the configuration program: time-outs, retries after a partial failure, and state that a killed
  run leaves in the hardware.

What makes each part correct: a pixel reaches the memory unmixed with commands, once, at its
coordinate; the program resets the device only before its first pixel and feeds it only when ready; the
memory's registers are the integral of its window, and it is ready exactly when the window is
full; the window stands still while it is inspected; the device keeps asking for pixels; a result
is stored whole before the device goes on; the configuration program leaves no FPGA in reset, streams to an
open port only, reports success truly, and ends.

## 2. The modules

| Module | Models | Extends |
|---|---|---|
| `Verilog` | what a register may become when several blocks assign it on one edge | |
| `I2LBS` | the window controller | `Verilog` |
| `ResultStore` | the result store | `Verilog` |
| `Loading` | what the frame controller is told of the database of the first stages: the specification of its loader | |
| `FaceDetection` | the frame controller around the three; `FrameControl` is its specification under any processor | `I2LBS`, `ResultStore`, `Loading` |
| `ResultWords` | the words the frame controller gives its store | `FaceDetection` |
| `FaceDetectionIp` | the bus slave around the frame controller | `FaceDetection` |
| `FpgaManager` | the program, driving the slave: the composed system | `FaceDetectionIp` |
| `MCFpgaManager` | images for TLC | `FpgaManager` |
| `ResultReads` | the words the program keeps of the results | `FpgaManager` |
| `WindowMemory` | the window memory, with its words | |
| `Resize` | the resizer, for every ratio | |
| `DatabaseStageMemory` | a stage's memory: a counter, and a ROM that answers a clock late | |
| `DatabaseEmbedded` | the loader of the first stages; it instances `Loading` | `DatabaseStageMemory` |
| `DatabaseStage` | the database of a later stage: it streams its memory and says where it is | `DatabaseStageMemory`, `Verilog` |
| `Classifier` | the classifier of a later stage | `DatabaseStage` |
| `Cascade` | the later stages and the verdict, composed with the window controller | `I2LBS`, `Classifier` |
| `MCResultReads`, `MCDatabaseEmbedded`, `MCCascade` | an image, memories and builds for TLC | the module they are named for |
| `FpgaConfig` | the configuration program and the FPGA it loads | |
| `FaceDetectionProofs`, `ResultWordsProofs`, `FpgaManagerProofs`, `WindowMemoryProofs`, `ResizeProofs`, `FpgaConfigProofs`, `DatabaseEmbeddedProofs`, `CascadeProofs` | the proofs | the module they are named for (`FpgaManagerProofs`: `ResultReads`) |

**A clock is a step.** A module's operator `...Edge` says what one clock edge does to its
registers, from the values of its inputs before the edge; the module above conjoins the edges of
its submodules, as the design instantiates them. A register keeps the source's name. In the
composed system a step is one clock of the device together with at most one bus access of the
program; the program may let any number of clocks pass between two accesses (`Idle`), because its
waits are shorter than a clock but the operating system may suspend it.

**Races.** `When(c, v)` is the set of values a nonblocking assignment under a condition offers;
`Driven(old, writers)` lets the register become any of the values offered on the edge, and keep the
old one when there is none. Where two blocks assign one register, or one reads what another
assigns in the same instant, the model has both outcomes. Two choices are made once and for all by
a build and are constants in a behaviour: `store_first` (whether the block that stores a written
value runs before the command machine) and `read_waits` (whether the slave was integrated with a
read wait state, so that a read returns its own answer and not the one before).

**Undriven nets.** In the source `pass_first_stage` of I2LBS, `calculate` of the stage behind
`pass_stage_1` and `end_database[0..2]` have no driver, so what the built cascade answers, and
whether it answers, is up to the synthesiser. `ClassifierEdge` therefore lets a verdict come at any
clock; only the INSPECT state looks at it. `Cascade` keeps both nets constant, at either value, and lets
the end of a stage be that of its database or a constant (`Builds`).

**The words of a result.** `ResultStore` keeps the length of its FIFO and `FaceDetectionIp` one value
`ResultWord` for every word: no property of theirs tells words apart. Two modules look at the words,
each from its end, and leave the steps of the module below them as they are. `ResultWords` has
`data_in`, the register between the coordinate and the FIFO, and records in `copied` how much of the
window's result the words stored last spell; `whole` says that the store was at rest when the face
was found. `ResultReads` counts the words taken out of the FIFO (`q`, the place of the word at its
output), follows them into the answer register (`held`) and into the program's x, y and scale
(`kept`); an answer of the protocol is no word. `WindowMemory` keeps every word of its FIFOs.

**The window memory is checked apart.** `I2LBS` sees of it only that a pixel may fill it
(`MemoryEdge`). `WindowMemory` assumes what it is given: pixels at most at every other clock
(`PixelsSpaced`, checked and proved of `FrameControl` and of the link) and no reset after the first
pixel (`FrameClock` resets an untouched device only, which is proved of the link's `trig_reset`; for
`s_reset` see section 5). That second
point matters: the FIFOs' clear is not connected, so a later reset would leave words of the old
frame in them. Row 0 and column 0 are the *newest* line and column: the memory's registers run from
the bottom right of the window, one frame line behind the pixel that came last, and a window may
straddle two frame lines, for the memory sees a stream and no lines.

**The resizer is checked apart** too. `I2LBS` lets it keep or skip any coordinate, changing its mind
only when the coordinate does (`ResizeEdge`); `Resize` has its counters, with the frame it resizes to
chosen once in a behaviour (`resize_width`, `resize_height`). Its ratio has sixteen fractional bits
and is rounded up, which is enough for the ratios of the build (fifths) and for every frame resized
to at most 256 columns and rows, but not for all: of 800 columns resized to 313 one is missed.
`GridIsKept` names what is needed (`Fine`).

**The configuration program** is modelled step by step under the numbers of its comments. The FPGA
behind the registers (`Device`) is external: it may stall for ever, reject, accept, or end a DCLK
count long after the program gave up on it. `Timeout` is the number of polls after the first.

**The loader** has no clocked counter: a block runs when the memory's output changes. A step of
`DatabaseEmbedded` is a clock edge and the block that follows it. The reset may last any number of
clocks and come back; `whole` says that it found the memory at rest, and `held` what its output was
when the first word was awaited: what is loaded depends on that word. The memories of the
build hold more words than the loader takes of them (its size is that of the *number of
classifiers*); the model has the part that the memory's counter can reach.

**The cascade.** In a step of `Cascade` all registers of the edge move first, and the blocks that
wait for one of them to change run after it; two writers of one register race as above. All later
stages stream at once, and the cascade looks at their ends in turn. What a tree adds to a sum is not
computed: a sum is 0 until the first tree is added and anything after. `fresh` and `clean` say that
a stage, or the whole cascade, was at rest when it was enabled; a window that comes before that (a
verdict of *no* may come while longer stages still run) is worked on from the middle, which
`NoVerdictLeft` and `InspectionEnds` cover and the others exclude by `clean`. The word 1010 stops
the counters; no memory file has it, and the build that has it in the model is excluded by `Plain`
from what it would break.

### Fault operators

A definition commented "A fault for P" is a plausible bug in the definition that follows it and is
used by no specification. Put in the place of that definition it makes TLC find P violated: P is
sensitive to that line of the code.

## 3. The runs

| Run | Module, cfg | Question | States |
|---|---|---|---|
| frame | `ResultWords` | Does the frame controller keep its registers in range, hold the window still during an inspection, space the pixels, store a face whole and go on asking for pixels, whatever drives it? | 98 k |
| link | `MCFpgaManager`, `FpgaManager.cfg` | Do pixels reach the memory unmixed, with the program killed and run again anywhere? Does the composed system implement `FrameControl`? | 250 k |
| results | `MCResultReads`, `ResultSide.cfg` | What does the program keep of the results, with a store that fills, floods and is drained, and with polls that meet a result? | 521 k |
| memory | `WindowMemory` | Are the registers the integral of the window, and is the memory ready at the right pixel? | 8 k |
| resizer | `Resize` | Are the evenly spread columns and rows kept, in every frame, whatever the order in which the coordinate's changes are seen? | 1 k |
| load | `MCDatabaseEmbedded`, `DatabaseEmbedded.cfg` | Which words does the loader end up with, does it end, and is it what the frame controller takes it for? | 77 k |
| cascade | `MCCascade`, `Cascade.cfg` | With which words does a stage work, does the verdict stand on what the stages said of this window, and does an inspection end? | 119 k |
| config | `FpgaConfig` | Is the reset released on every path, success true, every chunk streamed to an open port, and does the program end? | 28 k |

Four more runs show where the code does not do what it or its test bench says; TLC finds each
violated. `FD/test_modules/test_face_detection_ip.v` is "the bench" below.

| Run | What is said | What the code does |
|---|---|---|
| pixel_two | the bench sends pixels of every value | a pixel of value 2 is read as the command that ends a pixel; the start command is taken as its value |
| coordinate | the bench counts one coordinate per pixel (`CountsPixels`) | the end of a pixel is a level: while it lasts and the device is ready the coordinate goes on. The run ends with one pixel completed and two coordinates counted |
| rerun | each run of the program starts with "reset" | the reset is obeyed before the first pixel only |
| stops_on_finish | read results until the device has finished | the loop goes on when it has finished and stops when it has not |

One more disagreement needs no run: an image file that cannot be opened makes `test_config_full`
return `false` (hsp_config_fpga.c:783), the value of `ALT_E_SUCCESS`, and `SuccessIsConfigured` speaks
of images that were opened.

What the cascade, the loader and the result store do is stated as it is, and some of it is surely not meant:

* of the three words of a result the program keeps one at most, never for x (`KeepsOneWord`): it reads
  the announcement first, asks again in a state in which that is no transition, and takes whatever
  the answer register holds;
* the device may also stand one coordinate *behind* the program. A poll may be answered "ready" on the
  very edge that obeys the end of the last pixel, whose coordinate is counted a clock later. Or
  the answer register still holds a "ready" from before the database was loaded: the start of the
  next pixel then takes the end back uncounted, and the pixel is lost. Nothing in the code promises
  that a pixel the program sends is taken;
* a full FIFO reports the size 0, by which the store is marked empty for good (fifo.v, result.v:102).
  The frame and results runs reach a full store; no text says what it should do, and no property
  is about it;
* the write of a result is withdrawn only while a pixel is requested for a face
  (face_detection.v:223-233). While the device waits for the pixel the copies repeat, four words each,
  of which the first is left over from before; a pixel that comes in the middle of a copy leaves the
  write running through the windows that follow, and the store floods. `ResultWhole` is therefore
  about a face that finds the store at rest;
* a word of a memory that equals its neighbour is dropped by the loader and the rest moves up
  (`LoadsChanges`); a second load of a memory may be one word off (`LoadsMemory`);
* a parameter is held in 12 bits of a word of 16 (classifier.v:58-75): the weights and right words
  of -1 in the memories, 0xFFFF (Ram3.mif has them in words 4, 18 and 23), are held as 0x0FFF and
  enter the sums as 4095. `EvaluatedWith` is about the low bits (`Cut`). Parameter 15 has no register
  (`Held`). The threshold of a stage has all 16 bits;
* the last parameter of a tree is that of the tree before, and the last tree is never copied
  (`EvaluatedWith`); the threshold may be the word after it (`ComparedWith`; a stage of one tree is
  excluded, whose only tree is taken for the last between windows);
* stages 1 to 3 have no driver for their end, so a build in which those nets are low never ends an
  inspection and one in which they are high never finds a face (`NoFaceUnwired`);
* the stages of the build do not all grow: 17 to 18, 21 to 22 and 24 to 25 shrink or stay
  (database.v:12-36), and there the verdict is not always that of the first stage that rejects:
  `FirstRejects` and `InspectionEnds` are about stages that grow, `VerdictFounded` about all;
* a stage's counters stop a clock after its end, and whether they stop is a race on `count_leaf`
  (database_stage.v:81): they may run on with no memory behind them and end again. A stage less than
  half as long as a later one may do so before that one ends (`Laps`: stage 4 has 32 trees and stage 25
  has 200), and its second answer is no answer on the window. `FirstRejects` leaves open what such
  a stage said again, and `InspectionEnds` excludes it; without `Plain` (the word 1010, which stops
  the counters) a later stage could have decided twice as well;
* the verdict may be taken while another stage ends, whose candidate then stays up for the next
  window. `clean` excludes that: a window starts at rest when no candidate is left either.

The passing runs are therefore about pixels that are not commands (`Pixels = {7, 9}`), and state
nothing of the coordinate beyond that it stands still in a transfer.

### Bounds, and why they are enough

* *frame*: a frame of 2 x 2 has a last column and a last row that are not the first, and every pair
  of them; 3 + 1 words to a result and a FIFO of 4 make one result fill the FIFO, whose size then
  reads 0, and the copy after it finds no room. The processor's inputs are free at each clock.
* *link*: an image of two pixels has a pixel after a pixel; a frame of 2 x 2 is never completed by
  the image alone, and is when a coordinate is counted again (the coordinate run has a frame of 3 x 1,
  in which a pixel can count twice before the frame is over). Two runs allow one kill anywhere,
  inside a transfer too. A result of one word (`NumVariable = 0`) keeps the store out of the way:
  its interplay with the bus is the next run's.
* *results*: a frame of 2 x 1 is completed by one pixel counted twice, so that results may be read;
  two words to a copy, and two results are read. The FIFO has eight words: a running write fills it
  at a word a clock, and a full FIFO says it is empty, so that in a smaller one no word would be left
  to read by the time the program asks. In this one words are kept, for y and for scale, and the
  FIFO still fills.
* *memory*: a window of 2 x 2 in lines of 3, so that a window leaves a column of the line out; 11
  pixels are two lines for the rows, two pixels for the first window and three slides, one of them
  across a line's end. Sums of pixels 1 and 5 pass the modulus 8, as bright windows pass 16 bits.
* *resizer*: a frame of 6 x 5 and all 30 frames it can be resized to: divisors, ratios that leave a
  remainder, ratio 1 and a single line; the counters' cycle of several frames is covered whole.
* *load*: stages of 2 and 3 words over three values: every pattern of equal neighbours, of words equal
  around the end and of first words equal to what the output held, in two stages that end apart.
  Resets of every length, at any time, one after another without a bound.
* *cascade*: two stages of 1 to 3 trees with 5 parameters and 3 thresholds. The build has 19
  parameters and a counter of four values for the thresholds; here it has three values. 5 and 19
  leave the same remainder by them, the largest, on which `ComparedWith` depends and which its
  theorem names. One of the parameters has no register, the registers tell four values apart, and a
  word of 6 does not fit them: 12 of 16 bits in the build. Sizes that grow, are equal, shrink and lap each other (1 and 3 trees: the counters
  of the first may end twice); a first stage not wired, either way; a memory with equal neighbours,
  and one with the word that stops the counters. Windows follow each other without a bound, in any
  state the one before left.
* *config*: 3 retries (an attempt that is neither first nor last), 2 polls after the first, two
  chunks of which the last is not a multiple of four bytes, and three runs.

### Deadlock and fairness

Deadlock is checked except in the *config* run, where the program ends.

`FairFrameControl` has weak fairness of the clock: it never stops. `ReadyAgain` holds under two
assumptions stated in the property itself, because the code does not guarantee them:
`DatabaseLoads` (the load counts changes of a memory's output and need not end when two consecutive
words are equal) and `VerdictsCome` (see the undriven nets above). With them the ring of waits
always turns: no order of the processor's inputs stops it. The other two runs say when the
assumptions hold: `LoadEnds`, that the loader ends when resets do, unless a memory has one word all
over (with weak fairness of its clock while the reset stands: when the reset moves is not its to
say); `InspectionEnds`, that an inspection by wired stages that grow and do not lap each other has its
verdict (weak fairness of the clock), whatever the windows before it left behind.

`FpgaConfig` has weak fairness of the program only: the operating system lets it go on. The FPGA
owes nothing, and still `Ends` holds, for every wait is bounded.

No liveness of the program on the link is stated. It polls at its own pace, and the device's ready
flag may close and open between two polls for ever.

## 4. The proofs

The proofs hold for every value of the constants. The constants' assumptions are those the modules
name (`StoreAssumption`, `FrameAssumption`, `PixelAssumption`, `ProgramAssumption`,
`WordsAssumption`, `MemoryAssumption`, `ConfigAssumption`, `LoadAssumption`, `StageAssumption`,
`ClassifierAssumption`, `CascadeAssumption`): sizes are positive naturals, words are naturals, a result has three words, pixels are bytes, a
chunk is a multiple of four bytes.

| Theorem | Establishes |
|---|---|
| `FrameTypeCorrect`, `ImageStable`, `MemorySpaced` | types, still window and spaced pixels of `FrameControl`, under any processor |
| `WordsTypeCorrect` | types of the words of a result |
| `WordsImplementFrameControl` | with its words the frame controller is still a `FrameControl` |
| `ResultStoredWhole` | a face that finds the store at rest is stored whole before the next pixel is asked for |
| `LinkTypeCorrect` | types of the composed system |
| `LinkDrivesFrameControl` | `Spec => FrameControl`: the composed system implements the frame controller's specification |
| `LinkImageStable`, `LinkSpaced` | what `FrameControl` has, the link has |
| `LinkCoordinateStands` | the coordinate stands still while a transfer is open |
| `LinkTakesSentPixel` | if no pixel is a command, the memory takes pixels only, and in a first run the one completed last |
| `OneWordIsKept` | if no pixel is a command, what a first run keeps of a result is one word of the store at most, and none for x |
| `Ready` | the memory is ready exactly from the pixel that completes the first window |
| `ImageIsIntegral` | its registers are the integral of the window at any time (a pixel that has not come counts as 0) |
| `MemoryTypeCorrect` | types of the window memory |
| `MemoryFillsByPixels` | it fills as the window controller's module takes it to (`MemoryEdge`) |
| `ResizeTypeCorrect` | types of the resizer |
| `GridIsKept` | above the last line just the columns and rows of the grid are kept, where sixteen fractional bits are enough |
| `LoadTypeCorrect` | types of the loader |
| `LoaderImplementsLoading` | the loader implements `Loading` |
| `LoadsChangesCorrect` | a load gives the changes of its memory's output, equal neighbours or not |
| `LoadsMemoryCorrect` | a memory without equal neighbours is loaded word by word, or one word off |
| `CascadeTypeCorrect` | types of cascade, classifiers, database and window controller |
| `NoFaceWithoutWire` | a stage whose end nothing drives keeps every window from being a face |
| `StagesControlWindow` | with its later stages the window controller is the one the frame controller is composed with |
| `StreamStaysAligned` | a stage that was at rest says where in its memory its word is |
| `NoVerdictIsLeft` | a window never begins with the verdict of the one before |
| `VerdictIsFounded` | in a window that found the cascade at rest, a face has been accepted by every stage and no other window is rejected but by a stage |
| `FirstStageRejects` | where stages grow, the verdict is that of the first stage that rejects, but for stages it laps |
| `TreesAreEvaluatedWith` | with the low bits of which parameters each tree is evaluated |
| `SumIsComparedWith` | with which words a sum is compared, if the build is `Sized` |
| `TypeCorrect`, `ReleasesFpga`, `Streams`, `Success` | safety of the configuration program |

**Frame controller.** `FrameInv` adds to the still window that `enable` is up in the INSPECT state
only. It is needed because `enable` and `enable_memory` are assigned by different blocks: the state
is what they share. A reset would break it, since the reset block and the machine race; it is kept
because a reset meets an untouched device only. `SpacedInv` says that a pixel is given to the
memory at the clock its coordinate is taken, and the next needs a clock at which none is.

**Words of a result.** `WholeInv`: as long as no pixel is asked for, the window of a face stands
(`Stands`: the state waits, the flag is up, the coordinate does not move), and its write has not begun
(`Begins`) or is at a word (`Writes`), where the word on its way is the one before, the words before
that are stored, and the FIFO has room for the rest. The invariant needs the store's capacity, because
a full FIFO drops a word without a sign, and the window's stand, because the words are read from the
coordinate and the flag themselves while they are written.

**Link.** `BusInv` has the types, what the program has last written when it comes to an access
(`WrittenInv`), and `ResetInv`: while the machine has not obeyed a command, or the reset it obeyed
is on its way, the device is untouched. From `ResetInv` each clock of the composed system is a step
of `FrameControl`: the refinement mapping is the identity, since `FrameControl` speaks of a subset
of the variables. `PixelInv` follows a pixel from the bus to the memory, and `FirstRunInv` keeps
the command machine in step with the program in a first run, for both values of `store_first`; a
second run may start in any state of the machine, which is why `Fit` promises it less.

**Words kept.** `KeptInv` follows a first run through the store. Until the program asks, the store was
asked nothing (`Unasked`), and a poll that meets a result reads the place 0, which is no word
(`SendingInv`). While it reads its first result the register holds the same command, so the device
obeys it once: one word is taken out at most (`AskedOnce`), and at the read of x it is still announced
(`notify_send_result`), so that this read gives no word (`FirstResultInv`). A later result is asked for
only because the device said it had none left, and that flag stands until a reset: every read of it
is an answer of the protocol (`LaterResultInv`, `EmptyInv`). `EmptyInv` also has that the one reset
comes before the first answer is read, without which a stale answer could outlive the flag.

**Window memory.** `Ready` rests on one observation: how full every row is, which rows have been
full, the count and the state of the machine are functions of the number of pixels taken and of
whether the last clock took one (`Filled`, `Counted`, `Stage`). `RowsInv` and `StateInv` say so
(`WindowInv`).

`ImageInv` adds the words. `WordsInv`: word i of a row's FIFO, and the word at its output, is the pixel
that came a number of pixels `Ago` that only the row and the fill level decide. So the word a row
gives to the next is a frame line old, and what `row.v` adds and subtracts at a pixel is the pixel
that enters the row's part of the window and the one that leaves it; that the registers remain
sums (`IntegralSlides`) is then a statement about sums over intervals. That rests on what a sum over a
finite set is: the fold of the community modules is characterised by adding one element at a time
(`Adds`, `AddsExist`, `AddsAgree`), by an induction over finite sets (see below). The registers are
sums modulo 2^w: `ModUnique` and `RegisterSums` carry an equation of sums to one of remainders.
The registers hold sums before the window is full too, of pixels that have not come and count as
0; this is why the invariant speaks of every row from the start.

**Resizer.** Each axis has a counter of the coordinates kept and the next one to keep. `AxisInv`: the
next to keep is the multiple of the ratio that the counter says, the coordinate has not passed it,
and it has passed the one before (`Waits`); at the last coordinate both are back at the start. When
the block runs on a change of one coordinate only, or of both in either order, the axis that has not
moved is left as it was (`WaitsKeeps`). `KeptOrder` bounds the products, which the registers hold in
32 bits, and gives that the next to keep is beyond this one, for the ratio is more than 1. This shows
that the columns kept are the multiples of the *rounded* ratio; that these are the grid's is
arithmetic (`KeptExact`): the k-th place is too far by at most k * 2^-16, which leaves the same
integer below it if the exact place is a fraction with a small enough denominator (`Fine`;
`FifthsFine` and `SmallFine` say where it holds).

**Configuration.** `ControlInv` ties CTRL and its cache to the step, `FabricInv` ties the FPGA to
the bytes delivered: the reset an attempt waited for is what empties the FPGA, so that nothing an
earlier attempt left can be taken for this one's success.

**Loader.** `CountInv` bounds the count by the flag: a load that is not over has counted less than
its size. `WholeInv` follows a load that found its memory at rest. The words stored so far are those at
some places of the memory's stream (`Counted`), each the first that differs from the word stored
before it; and the memory has given a number of words of the stream to its output, among which no
other change is (`Begins` before the first, `Repeats` while the reset keeps the address, `Streams`
after it). When the load is over these places are the changes that `LoadsChanges` defines
(`ChangesAre`), since a change comes within one round of the memory (`ChangeIs`) or not at all. For
`LoadsMemory` it remains that in a memory without equal neighbours every word is a change.

**Cascade.** `UnwiredInv`: a classifier whose database never ends keeps the verdict it was cleared
with, and a face needs all of them. `StagesControlWindow` is a refinement: the verdict the frame
controller's module may see is that of the stages in the INSPECT state and none in the others
(`Controller`), because nothing looks at it there. `AlignedInv` has three cases for a stage that was
at rest: it waits for the first word (`Waits`), runs with its counters two words behind the address
(`Runs`), or has stopped at the last (`Stops`). It needs `RequestInv`: the window controller does not
ask for a pixel, which resets the stages, on the clock at which it enables them.

What the cascade answers rests on that, in four steps. `ClearedInv`: the window controller stays in
the state in which it resets the cascade for longer than an old end can stand, so that a verdict of
the window before is gone when the next begins. `CleanInv` and `FoundedInv`: while no verdict is
out, a stage asked for (`Asking`) has its turn only after those before it have accepted, and what a
stage's registers say it has said in this window (`Heard`); a verdict is an end the cascade was
waiting for, whichever of the two blocks wins the edge. `OrderInv` is what makes it the *first*
rejection: stages start together, so the counters of a longer stage are behind those of a shorter
one by nothing (`Follows`), until the shorter one ends and may be counting again from the start
(`Ahead`); before its second end the longer one has had its own unless it is lapped. That is an
arithmetic fact about places in the stream (`Size`, `Lead`), and `Laps` was found by its failing.

`TreeInv` says what is in a classifier's copies while a tree streams (`Placed`, `Copies`): below the
parameter that comes, this tree's, from it on those of the tree before, each cut to the width of its
register (`CopyStep`). `CountInv` and `ThresholdInv`
count the clocks of the last tree modulo the size of the thresholds' counter (`Counted`).
`SumIsComparedWith` has the hypothesis `Sized`: the parameters leave the largest remainder by the
counter's size, and the thresholds are over before the counter is at the same value again. In the
build it is 19 % 4 = 3, with 3 thresholds; for other numbers the property is false.

**Induction.** The library's induction theorems take an operator as a parameter, which the provers
cannot instantiate. Two proofs need induction over data all the same (finite sets there, the changes
of a memory here), and make it without: `SetInduction` says that a set of naturals that has each
number below which it has all is the set of all naturals. It follows from the well-foundedness of
the order (`WFMin`), and a set can be instantiated where an operator cannot.

**Model-checked only.** Liveness (`ReadyAgain`, `LoadEnds`, `InspectionEnds`, `Ends`), which is beyond
the prover. The four disagreements of section 3 are runs only: they need one counterexample each.

## 5. What is not modelled

* The **arithmetic of the classifiers**: what a tree adds to a sum, and whether a sum passes its
  threshold. The **embedded classifiers** of the first stages: nothing drives their enable in the
  source, and their verdict is one of two nets that never change.
* In `Cascade`, a **pixel that the resizer skips**: it skips all or none there (`I2LBS` has the rest).
  A reset that cuts a load short leaves its memory in motion; `LoadsChanges` and `LoadsMemory`
  exclude the load after it by `whole`, the types and `LoadEnds` do not.
* The **last line of the resizer**: its row counter is cleared at each column of that line
  (resize.v:101), so a line it should keep is kept at its first column only. That is so at ratio 1,
  which is the one built: the next frame is shifted in the window memory. `KeepsGrid` speaks of
  the lines above. `Resize` follows the language's semantics; a synthesiser finds combinational
  loops in the block and may build something else.
* The **FIFO of the result store with its content**: `ResultWords` has the words put in and
  `ResultReads` the place of the words taken out; that a FIFO gives what it was given is the vendor's
  macro's to keep.
* A **reset after the first pixel**. The link excludes it of `trig_reset`, the program's reset. The
  slave's other reset, `s_reset` (face_detection_ip.v:104, 228-232), comes from the board and may
  come at any clock; the models have it at power up only, and what is shown of resets is shown
  without a later one.
* The **second edge of a read with a wait state**: with `read_waits` a read takes two clocks in which
  `s_read` stands, and the block that answers it would run at both. The model runs it once, and with
  `read_waits` says no more than that the answer is this read's own. The repository's one description
  of such a slave (SEG7_IF_hw.tcl:106-108) has no wait state.
* **Reading the image file**, printing, the mapping of the bridge: no state of their own.
* The **display, debouncer, interrupt capturer**, board wiring, generated files and vendor
  macros: not this project's logic. A FIFO and a counter are modelled as their users see them.

## 6. Plan

1. *Done*: the frame controller with window controller and result store; the slave and the program;
   refinement of the link; the configuration program; the window memory.
2. *Done*: the resizer.
3. *Done*: the loader, with the specification `Loading` the frame controller is composed with.
4. *Done*: the cascade with its databases and the window controller.
5. *Done*: the words of a result, into the store (`ResultWords`) and out of it (`ResultReads`).
6. *Done*: what the cascade answers, and with which words, proved for every build.
7. *Done*: the integral image, the resizer's grid, the changes a load gives and the words kept of a
   result, for every size.
8. *Done*: what the frame controller's module assumes of the window memory, the loader and the
   later stages is implemented by their own modules. (`ResizeEdge` assumes nothing of the resizer
   but that it answers a coordinate once.)
9. Left: what the resizer keeps of its last line, and the embedded classifiers, if they are ever wired.
