---------------------------- MODULE WindowMemory ----------------------------
(***************************************************************************)
(* The window memory of I2LBS_memory.v: one row of hardware (row.v) per    *)
(* row of the window, each a FIFO as long as a frame is wide and the       *)
(* registers of its line of the integral image.  A pixel enters row 0; a   *)
(* row that is full passes its oldest word on to the row above it.         *)
(*                                                                         *)
(* A step is one clock edge.  A pixel comes at most at every other edge,   *)
(* as the window controller sends them (PixelsSpaced of FaceDetection),    *)
(* and a reset only before the first (DrivesFrameControl of FpgaManager).  *)
(***************************************************************************)
EXTENDS Integers, Sequences, FiniteSetsExt

CONSTANTS
  Length,       \* INTEGRAL_LENGTH: width and height of the window
  FrameWidth,   \* FRAME_CAMERA_WIDTH
  Modulus,      \* 2 ** DATA_WIDTH_16
  Pixels,       \* the values of a pixel
  MaxPixels     \* bound on the pixels taken

ASSUME MemoryAssumption ==
  /\ Length \in Nat \ {0} /\ FrameWidth \in Nat \ {0}
  /\ Modulus \in Nat \ {0} /\ Pixels \subseteq 0 .. Modulus - 1
  /\ MaxPixels \in Nat

VARIABLES
  fifo,                 \* the words in the FIFO of each row
  fifo_data_out,        \* the word it gave last
  row_integral,         \* the registers of each row: column 0 is the newest
  r_fill,               \* the row has been full
  state,
  integral_image_count, \* pixels taken since every row was full
  integral_image_ready,
  rested,               \* no pixel was taken at the last edge
  taken                 \* for the properties: the pixels taken so far

vars == <<fifo, fifo_data_out, row_integral, r_fill, state, integral_image_count,
          integral_image_ready, rested, taken>>

Rows == 0 .. Length - 1
Columns == 0 .. Length - 1
Words == 0 .. Modulus - 1
Top == Length - 1

MemoryTypeOK ==
  /\ fifo \in [Rows -> Seq(Words)]
  /\ \A y \in Rows : Len(fifo[y]) <= FrameWidth
  /\ fifo_data_out \in [Rows -> Words]
  /\ row_integral \in [Rows -> [Columns -> Words]]
  /\ r_fill \in [Rows -> BOOLEAN]
  /\ state \in {"IDLE", "FILL_FIFO_INTEGRAL", "FILL_INTEGRAL"}
  /\ integral_image_count \in 0 .. Length
  /\ integral_image_ready \in BOOLEAN
  /\ rested \in BOOLEAN
  /\ taken \in Seq(Pixels) /\ Len(taken) <= MaxPixels

Init ==
  /\ fifo = [y \in Rows |-> <<>>]
  /\ fifo_data_out = [y \in Rows |-> 0]
  /\ row_integral = [y \in Rows |-> [x \in Columns |-> 0]]
  /\ r_fill = [y \in Rows |-> FALSE]
  /\ state = "IDLE"
  /\ integral_image_count = 0
  /\ integral_image_ready = FALSE
  /\ rested = TRUE
  /\ taken = <<>>

----------------------------------------------------------------------------
\* A fault for MemoryTypeOK: a FIFO gives its first word one word late.
FillLate(y) == Len(fifo[y]) = FrameWidth + 1

\* A row is full, and gives its oldest word at the next edge, pixel or not.
fill(y) == Len(fifo[y]) = FrameWidth

\* The pixel reaches a row once the row below it has been full.
row_wen(y, wen) == wen /\ (y = 0 \/ r_fill[y - 1])

\* What the rows above row y gave last, added up.
fifo_reduction_sum[y \in Rows] ==
  IF y = Top THEN 0 ELSE fifo_reduction_sum[y + 1] + fifo_data_out[y + 1]

FifoEdge(wen, pixel) ==
  LET in(y) == IF y = 0 THEN pixel ELSE fifo_data_out[y - 1] IN
  /\ fifo' = [y \in Rows |->
       (IF fill(y) THEN Tail(fifo[y]) ELSE fifo[y])
       \o (IF row_wen(y, wen) THEN <<in(y)>> ELSE <<>>)]
  /\ fifo_data_out' = [y \in Rows |-> IF fill(y) THEN Head(fifo[y]) ELSE fifo_data_out[y]]

\* A fault for IntegralImage: the newest column keeps the column that left the window.
RowIntegralKept(y, x) ==
  (IF x = 0 THEN fifo_data_out[y] + fifo_reduction_sum[y] + row_integral[y][0]
   ELSE row_integral[y][x - 1] - row_integral[y][Top]) % Modulus

\* The window slides: a new column is added, the oldest taken off every column.
row_integral_next(y, x) ==
  (IF x = 0
   THEN fifo_data_out[y] + fifo_reduction_sum[y] + (row_integral[y][0] - row_integral[y][Top])
   ELSE row_integral[y][x - 1] - row_integral[y][Top]) % Modulus

RowEdge(wen) ==
  row_integral' = [y \in Rows |->
    IF row_wen(y, wen) THEN [x \in Columns |-> row_integral_next(y, x)] ELSE row_integral[y]]

end_count_integral == integral_image_count = Length

\* A fault for ReadyWhenFull: the memory does not wait for its rows.
NextStateEager(wen) ==
  CASE state = "IDLE" /\ wen /\ ~integral_image_ready -> "FILL_INTEGRAL"
    [] state = "FILL_INTEGRAL" /\ end_count_integral -> "IDLE"
    [] OTHER -> state

NextState(wen) ==
  CASE state = "IDLE" /\ wen /\ ~integral_image_ready -> "FILL_FIFO_INTEGRAL"
    [] state = "FILL_FIFO_INTEGRAL" /\ fill(Top) -> "FILL_INTEGRAL"
    [] state = "FILL_INTEGRAL" /\ end_count_integral -> "IDLE"
    [] OTHER -> state

\* The blocks that follow a change of the state, the count or fill, without a clock.
Settle ==
  /\ r_fill' = [y \in Rows |-> r_fill[y] \/ fill(y)']
  /\ integral_image_ready' = (integral_image_ready \/ (state = "FILL_INTEGRAL" /\ end_count_integral)')

Edge(wen, pixel) ==
  /\ FifoEdge(wen, pixel)
  /\ RowEdge(wen)
  /\ state' = NextState(wen)
  /\ integral_image_count' =
       IF state = "FILL_INTEGRAL" /\ wen /\ ~end_count_integral
       THEN integral_image_count + 1 ELSE integral_image_count
  /\ Settle

----------------------------------------------------------------------------
TakePixel ==
  \E pixel \in Pixels :
    /\ rested /\ rested' = FALSE
    /\ Len(taken) < MaxPixels
    /\ taken' = Append(taken, pixel)
    /\ Edge(TRUE, pixel)

Rest ==
  /\ rested' = TRUE
  /\ Edge(FALSE, 0)
  /\ UNCHANGED taken

Next == TakePixel \/ Rest

Spec == Init /\ [][Next]_vars

----------------------------------------------------------------------------
\* The pixel taken k pixels ago, 0 if there was none yet.
Ago(k) == IF k < Len(taken) THEN taken[Len(taken) - k] ELSE 0

\* The window lies one frame line back: row 0 is its last line, column 0 its last column.
InWindow(y, x) == Ago((y + 1) * FrameWidth + x)

\* The sum of the pixels of row r before column x, that one included.
RowSum(r, x) == MapThenSumSet(LAMBDA c : InWindow(r, c), x .. Top)

\* The sum of the window's pixels above row y and before column x, both included.
Integral(y, x) == MapThenSumSet(LAMBDA r : RowSum(r, x), y .. Top)

\* However the pixels are spaced, every register of the memory is the integral of
\* the window's pixels, modulo the width of a register: sliding it pixel by pixel,
\* with a FIFO per row, adds up to what a sum over the frame gives (row.v,
\* I2LBS_memory.v).
IntegralImage ==
  \A y \in Rows, x \in Columns : row_integral[y][x] = Integral(y, x) % Modulus

\* The memory calls itself ready at the very pixel that completes its first window:
\* never with a window of which a pixel has not come, and never later.
ReadyWhenFull == integral_image_ready <=> Len(taken) >= Length * FrameWidth + Length

=============================================================================
