------------------------- MODULE WindowMemoryProofs -------------------------
(***************************************************************************)
(* Two properties of the window memory, for every size of window and frame *)
(* and every frame.  It calls itself ready at the right pixel: how full    *)
(* each row is follows from the number of pixels taken alone.  And each of *)
(* its registers is the integral of the window's pixels: the words of the  *)
(* FIFOs are pixels of the frame, and sliding a window by a column changes *)
(* its sums as row.v changes its registers.                                *)
(***************************************************************************)
EXTENDS WindowMemory, TLAPS, FiniteSetTheorems, WellFoundedInduction

\* The pixels taken before the first reaches row y, and before the memory is full.
Before(y) == y * FrameWidth
AllFull == Length * FrameWidth

\* The number of words in row y once n pixels were taken.
Filled(y, n) ==
  IF n < Before(y) THEN 0
  ELSE IF n < Before(y) + FrameWidth THEN n - Before(y)
  ELSE IF rested THEN FrameWidth - 1 ELSE FrameWidth

RowsInv ==
  /\ taken \in Seq(Pixels)
  /\ rested \in BOOLEAN
  /\ Len(taken) = 0 => rested
  /\ fifo \in [Rows -> Seq(Words)]
  /\ fifo_data_out \in [Rows -> Words]
  /\ r_fill \in [Rows -> BOOLEAN]
  /\ \A y \in Rows : Len(fifo[y]) = Filled(y, Len(taken))
  /\ \A y \in Rows : r_fill[y] <=> Len(taken) >= Before(y) + FrameWidth

\* The stages of filling the memory, by the number n of pixels taken.
Counted(n) ==
  IF n <= AllFull THEN 0 ELSE IF n <= AllFull + Length THEN n - AllFull ELSE Length

Stage(n, r) ==
  IF n = 0 THEN "IDLE"
  ELSE IF n < AllFull \/ (n = AllFull /\ ~r) THEN "FILL_FIFO_INTEGRAL"
  ELSE IF n < AllFull + Length \/ (n = AllFull + Length /\ ~r) THEN "FILL_INTEGRAL"
  ELSE "IDLE"

StateInv ==
  /\ integral_image_count = Counted(Len(taken))
  /\ state = Stage(Len(taken), rested)
  /\ integral_image_ready \in BOOLEAN
  /\ ReadyWhenFull

WindowInv == RowsInv /\ StateInv

----------------------------------------------------------------------------
\* Where the rows begin: each one frame line after the one below it.
LEMMA BeforeFacts ==
  /\ Before(0) = 0
  /\ Before(Top) + FrameWidth = AllFull
  /\ AllFull \in Nat \ {0}
  /\ \A y \in Rows : Before(y) \in Nat
  /\ \A y \in Rows \ {0} : y - 1 \in Rows /\ Before(y) = Before(y - 1) + FrameWidth
<1> USE MemoryAssumption DEF Before, AllFull, Rows, Top
<1>1. Before(0) = 0
  OBVIOUS
<1>2. Before(Top) + FrameWidth = AllFull
  <2>1. (Length - 1) * FrameWidth + FrameWidth = Length * FrameWidth
    OBVIOUS
  <2> QED
    BY <2>1
<1>3. AllFull \in Nat \ {0}
  OBVIOUS
<1>4. \A y \in Rows : Before(y) \in Nat
  OBVIOUS
<1>5. \A y \in Rows \ {0} : y - 1 \in Rows /\ Before(y) = Before(y - 1) + FrameWidth
  <2> TAKE y \in Rows \ {0}
  <2>1. y * FrameWidth = (y - 1) * FrameWidth + FrameWidth
    OBVIOUS
  <2> QED
    BY <2>1
<1> QED
  BY <1>1, <1>2, <1>3, <1>4, <1>5

\* An edge gives every row at most one word, takes at most one from it, and keeps
\* words in the FIFOs.
LEMMA FifoStep ==
  ASSUME RowsInv, NEW wen \in BOOLEAN, NEW pixel \in Words, FifoEdge(wen, pixel)
  PROVE  /\ fifo' \in [Rows -> Seq(Words)]
         /\ fifo_data_out' \in [Rows -> Words]
         /\ \A y \in Rows :
              Len(fifo'[y]) = Len(fifo[y]) - (IF fill(y) THEN 1 ELSE 0)
                                           + (IF row_wen(y, wen) THEN 1 ELSE 0)
<1> DEFINE in(y) == IF y = 0 THEN pixel ELSE fifo_data_out[y - 1]
           kept(y) == IF fill(y) THEN Tail(fifo[y]) ELSE fifo[y]
           new(y) == IF row_wen(y, wen) THEN <<in(y)>> ELSE <<>>
<1>1. fifo' = [y \in Rows |-> kept(y) \o new(y)]
  BY DEF FifoEdge
<1>2. fifo_data_out' = [y \in Rows |-> IF fill(y) THEN Head(fifo[y]) ELSE fifo_data_out[y]]
  BY DEF FifoEdge
<1>3. ASSUME NEW y \in Rows
      PROVE  /\ kept(y) \in Seq(Words)
             /\ Len(kept(y)) = Len(fifo[y]) - (IF fill(y) THEN 1 ELSE 0)
             /\ fill(y) => Head(fifo[y]) \in Words
  <2>1. fifo[y] \in Seq(Words)
    BY DEF RowsInv
  <2>2. fill(y) => fifo[y] # <<>>
    BY <2>1, MemoryAssumption DEF fill
  <2> QED
    BY <2>1, <2>2
<1>4. ASSUME NEW y \in Rows
      PROVE  /\ new(y) \in Seq(Words)
             /\ Len(new(y)) = IF row_wen(y, wen) THEN 1 ELSE 0
  <2>1. in(y) \in Words
    BY BeforeFacts DEF RowsInv
  <2> HIDE DEF in
  <2> QED
    BY <2>1
<1> HIDE DEF kept, new
<1>5. fifo' \in [Rows -> Seq(Words)]
  BY <1>1, <1>3, <1>4
<1>6. fifo_data_out' \in [Rows -> Words]
  BY <1>2, <1>3 DEF RowsInv
<1>7. ASSUME NEW y \in Rows
      PROVE  Len(fifo'[y]) = Len(fifo[y]) - (IF fill(y) THEN 1 ELSE 0)
                                          + (IF row_wen(y, wen) THEN 1 ELSE 0)
  <2>1. Len(fifo'[y]) = Len(kept(y)) + Len(new(y))
    BY <1>1, <1>3, <1>4
  <2> QED
    BY <2>1, <1>3, <1>4
<1> QED
  BY <1>5, <1>6, <1>7

\* The last row is full just when the pixels taken reach it.
LEMMA FillWhen ==
  ASSUME RowsInv, NEW y \in Rows
  PROVE  fill(y) <=> Len(taken) >= Before(y) + FrameWidth /\ ~rested
<1>1. Len(taken) \in Nat /\ Before(y) \in Nat
  BY BeforeFacts DEF RowsInv
<1>2. Len(fifo[y]) = Filled(y, Len(taken))
  BY DEF RowsInv
<1> QED
  BY <1>1, <1>2, MemoryAssumption DEF fill, Filled

\* A pixel reaches a row once there were pixels enough to fill those below it.
LEMMA WenWhen ==
  ASSUME RowsInv, NEW y \in Rows, NEW wen \in BOOLEAN
  PROVE  row_wen(y, wen) <=> wen /\ Len(taken) >= Before(y)
<1>1. Len(taken) \in Nat
  BY DEF RowsInv
<1>2. CASE y = 0
  BY <1>1, <1>2, BeforeFacts DEF row_wen
<1>3. CASE y # 0
  <2>1. y - 1 \in Rows /\ Before(y) = Before(y - 1) + FrameWidth
    BY <1>3, BeforeFacts
  <2> QED
    BY <1>3, <2>1 DEF row_wen, RowsInv
<1> QED
  BY <1>2, <1>3

\* A pixel keeps the rows in step.
LEMMA RowsTake == ASSUME RowsInv, TakePixel PROVE RowsInv'
<1>1. PICK pixel \in Pixels :
        rested /\ rested' = FALSE /\ taken' = Append(taken, pixel) /\ Edge(TRUE, pixel)
  BY DEF TakePixel
<1>2. pixel \in Words /\ FifoEdge(TRUE, pixel) /\ Settle
  BY <1>1, MemoryAssumption DEF Edge, Words
<1> DEFINE n == Len(taken)
<1>3. n \in Nat /\ taken' \in Seq(Pixels) /\ Len(taken') = n + 1
  BY <1>1 DEF RowsInv
<1>a. rested /\ rested' = FALSE
  BY <1>1
<1>b. /\ \A y \in Rows : fill(y) <=> n >= Before(y) + FrameWidth /\ ~rested
      /\ \A y \in Rows : row_wen(y, TRUE) <=> n >= Before(y)
      /\ \A y \in Rows : Len(fifo[y]) = Filled(y, n)
      /\ \A y \in Rows : r_fill[y] <=> n >= Before(y) + FrameWidth
  BY FillWhen, WenWhen DEF RowsInv
<1> HIDE DEF n
<1>4. /\ fifo' \in [Rows -> Seq(Words)] /\ fifo_data_out' \in [Rows -> Words]
      /\ \A y \in Rows :
           Len(fifo'[y]) = Len(fifo[y]) - (IF fill(y) THEN 1 ELSE 0)
                                        + (IF row_wen(y, TRUE) THEN 1 ELSE 0)
  BY <1>2, FifoStep
<1>5. ASSUME NEW y \in Rows
      PROVE  Len(fifo'[y]) = IF n + 1 < Before(y) THEN 0
                             ELSE IF n + 1 < Before(y) + FrameWidth THEN n + 1 - Before(y)
                             ELSE FrameWidth
  <2>1. Len(fifo'[y]) = Len(fifo[y]) + (IF n >= Before(y) THEN 1 ELSE 0)
    <3>1. Len(fifo[y]) \in Nat
      BY DEF RowsInv
    <3>2. ~fill(y) /\ (row_wen(y, TRUE) <=> n >= Before(y))
      BY <1>a, <1>b
    <3>3. Len(fifo'[y]) = Len(fifo[y]) - (IF fill(y) THEN 1 ELSE 0)
                                       + (IF row_wen(y, TRUE) THEN 1 ELSE 0)
      BY <1>4
    <3>4. (IF fill(y) THEN 1 ELSE 0) = 0
      BY <3>2, Zenon
    <3>5. (IF row_wen(y, TRUE) THEN 1 ELSE 0) = IF n >= Before(y) THEN 1 ELSE 0
      BY <3>2, Zenon
    <3>6. Len(fifo'[y]) = Len(fifo[y]) - 0 + (IF n >= Before(y) THEN 1 ELSE 0)
      BY <3>3, <3>4, <3>5, Zenon
    <3>7. (IF n >= Before(y) THEN 1 ELSE 0) \in Nat
      OBVIOUS
    <3> QED
      BY <3>1, <3>6, <3>7
  <2>2. Len(fifo[y]) = Filled(y, n)
    BY <1>b
  <2> QED
    BY <1>a, <1>3, <2>1, <2>2, BeforeFacts, MemoryAssumption DEF Filled
<1>6. \A y \in Rows : Len(fifo'[y]) = Filled(y, Len(taken))'
  <2> TAKE y \in Rows
  <2>2. Filled(y, Len(taken))' = IF n + 1 < Before(y) THEN 0
                                 ELSE IF n + 1 < Before(y) + FrameWidth THEN n + 1 - Before(y)
                                 ELSE FrameWidth
    <3>1. Filled(y, Len(taken))' =
            IF Len(taken') < Before(y) THEN 0
            ELSE IF Len(taken') < Before(y) + FrameWidth THEN Len(taken') - Before(y)
            ELSE IF rested' THEN FrameWidth - 1 ELSE FrameWidth
      BY Zenon DEF Filled, Before
    <3> QED
      BY <1>3, <1>a, <3>1, BeforeFacts, MemoryAssumption
  <2> QED
    BY <1>5, <2>2
<1>7. r_fill' = [y \in Rows |-> r_fill[y] \/ Len(fifo'[y]) = FrameWidth]
  BY <1>2 DEF Settle, fill
<1>8. ASSUME NEW y \in Rows PROVE r_fill'[y] <=> n + 1 >= Before(y) + FrameWidth
  <2>1. Len(fifo'[y]) = FrameWidth <=> n + 1 >= Before(y) + FrameWidth
    BY <1>3, <1>5, BeforeFacts, MemoryAssumption
  <2>2. r_fill[y] <=> n >= Before(y) + FrameWidth
    BY <1>b
  <2>3. r_fill'[y] <=> r_fill[y] \/ Len(fifo'[y]) = FrameWidth
    BY <1>7, Zenon
  <2> QED
    BY <1>3, <2>1, <2>2, <2>3, BeforeFacts, MemoryAssumption
<1>9. r_fill' \in [Rows -> BOOLEAN]
  BY <1>7 DEF RowsInv
<1>10. \A y \in Rows : (r_fill[y] <=> Len(taken) >= Before(y) + FrameWidth)'
  BY <1>3, <1>8 DEF Before
<1>11. rested' \in BOOLEAN
  BY <1>a
<1>12. Len(taken') # 0
  BY <1>3
<1> QED
  BY <1>3, <1>4, <1>6, <1>9, <1>10, <1>11, <1>12 DEF RowsInv

\* A clock without a pixel lets the full rows give their word.
LEMMA RowsRest == ASSUME RowsInv, Rest PROVE RowsInv'
<1>1. rested' = TRUE /\ taken' = taken /\ FifoEdge(FALSE, 0) /\ Settle /\ 0 \in Words
  <2>1. 0 \in Words
    BY MemoryAssumption DEF Words
  <2> QED
    BY <2>1 DEF Rest, Edge
<1> DEFINE n == Len(taken)
<1>2. n \in Nat
  BY DEF RowsInv
<1>3. /\ fifo' \in [Rows -> Seq(Words)] /\ fifo_data_out' \in [Rows -> Words]
      /\ \A y \in Rows :
           Len(fifo'[y]) = Len(fifo[y]) - (IF fill(y) THEN 1 ELSE 0)
                                        + (IF row_wen(y, FALSE) THEN 1 ELSE 0)
  BY <1>1, FifoStep
<1>4. ASSUME NEW y \in Rows
      PROVE  /\ Len(fifo'[y]) = Filled(y, n)'
             /\ Len(fifo'[y]) # FrameWidth
  <2>1. Len(fifo'[y]) = Len(fifo[y]) - (IF n >= Before(y) + FrameWidth /\ ~rested THEN 1 ELSE 0)
    <3>1. Len(fifo[y]) \in Nat
      BY DEF RowsInv
    <3> QED
      BY <1>3, <3>1, FillWhen DEF row_wen
  <2>2. Len(fifo[y]) = Filled(y, n)
    BY DEF RowsInv
  <2>3. Filled(y, n)' = IF n < Before(y) THEN 0
                        ELSE IF n < Before(y) + FrameWidth THEN n - Before(y)
                        ELSE FrameWidth - 1
    BY <1>1 DEF Filled, Before
  <2> QED
    BY <1>2, <2>1, <2>2, <2>3, BeforeFacts, MemoryAssumption DEF Filled
<1>5. r_fill' = r_fill
  <2>1. r_fill' = [y \in Rows |-> r_fill[y] \/ Len(fifo'[y]) = FrameWidth]
    BY <1>1 DEF Settle, fill
  <2>2. r_fill' = [y \in Rows |-> r_fill[y]]
    BY <2>1, <1>4 DEF RowsInv
  <2> QED
    BY <2>2 DEF RowsInv
<1> QED
  BY <1>1, <1>3, <1>4, <1>5 DEF RowsInv, Before, Filled

----------------------------------------------------------------------------
\* What an edge does to the state machine, once its inputs are told by the pixels
\* taken.
LEMMA StateStep ==
  ASSUME RowsInv, StateInv, NEW wen \in BOOLEAN, NEW pixel, Edge(wen, pixel),
         wen => rested,
         Len(taken') = Len(taken) + (IF wen THEN 1 ELSE 0),
         rested' = ~wen
  PROVE  StateInv'
<1> DEFINE A == AllFull
           n == Len(taken)
<1>1. n \in Nat /\ A \in Nat \ {0} /\ Length \in Nat \ {0} /\ rested \in BOOLEAN /\ (n = 0 => rested)
  BY BeforeFacts, MemoryAssumption DEF RowsInv
<1>2. fill(Top) <=> n >= A /\ ~rested
  <2>1. Top \in Rows
    BY MemoryAssumption DEF Top, Rows
  <2> QED
    BY <2>1, FillWhen, BeforeFacts
<1>3. integral_image_count =
        IF n <= A THEN 0 ELSE IF n <= A + Length THEN n - A ELSE Length
  BY DEF StateInv, Counted
<1>4. state = IF n = 0 THEN "IDLE"
              ELSE IF n < A \/ (n = A /\ ~rested) THEN "FILL_FIFO_INTEGRAL"
              ELSE IF n < A + Length \/ (n = A + Length /\ ~rested) THEN "FILL_INTEGRAL"
              ELSE "IDLE"
  BY DEF StateInv, Stage
<1>5. integral_image_ready \in BOOLEAN /\ (integral_image_ready <=> n >= A + Length)
  BY DEF StateInv, ReadyWhenFull, AllFull
<1>6. state' = NextState(wen)
  BY DEF Edge
<1>7. integral_image_count' =
        IF state = "FILL_INTEGRAL" /\ wen /\ integral_image_count # Length
        THEN integral_image_count + 1 ELSE integral_image_count
  BY DEF Edge, end_count_integral
<1>8. integral_image_ready' =
        (integral_image_ready \/ (state' = "FILL_INTEGRAL" /\ integral_image_count' = Length))
  BY DEF Edge, Settle, end_count_integral
<1>b. ASSUME NEW m \in Nat
      PROVE  Counted(m) = IF m <= A THEN 0 ELSE IF m <= A + Length THEN m - A ELSE Length
  BY DEF Counted
<1>c. ASSUME NEW m \in Nat, NEW r \in BOOLEAN
      PROVE  Stage(m, r) = IF m = 0 THEN "IDLE"
                             ELSE IF m < A \/ (m = A /\ ~r) THEN "FILL_FIFO_INTEGRAL"
                             ELSE IF m < A + Length \/ (m = A + Length /\ ~r) THEN "FILL_INTEGRAL"
                             ELSE "IDLE"
  BY DEF Stage
<1>d. ASSUME NEW m \in Nat, NEW r \in BOOLEAN,
             Len(taken') = m, rested' = r,
             integral_image_count' = Counted(m),
             state' = Stage(m, r),
             integral_image_ready' <=> m >= A + Length
      PROVE  StateInv'
  <2>1. integral_image_ready' \in BOOLEAN
    BY DEF Edge, Settle
  <2>2. ReadyWhenFull'
    BY <1>d DEF ReadyWhenFull, AllFull
  <2>3. integral_image_count' = Counted(Len(taken))'
    BY <1>d DEF Counted, AllFull
  <2>4. state' = Stage(Len(taken), rested)'
    BY <1>d DEF Stage, AllFull
  <2> QED
    BY <2>1, <2>2, <2>3, <2>4 DEF StateInv
<1>e. Len(taken') = n + (IF wen THEN 1 ELSE 0)
  OBVIOUS
<1> HIDE DEF A, n
<1>9. CASE wen
  <2>1. Len(taken') = n + 1 /\ ~rested' /\ rested /\ ~fill(Top)
    BY <1>2, <1>9, <1>e
  <2>2. state' = IF state = "IDLE" /\ ~integral_image_ready THEN "FILL_FIFO_INTEGRAL"
                 ELSE IF state = "FILL_INTEGRAL" /\ integral_image_count = Length THEN "IDLE"
                 ELSE state
    BY <1>4, <1>6, <1>9, <2>1 DEF NextState, end_count_integral
  <2>3. integral_image_count' =
          IF n + 1 <= A THEN 0 ELSE IF n + 1 <= A + Length THEN n + 1 - A ELSE Length
    BY <1>1, <1>3, <1>4, <1>7, <1>9, <2>1
  <2>4. state' = IF n + 1 < A \/ n + 1 = A THEN "FILL_FIFO_INTEGRAL"
                 ELSE IF n + 1 < A + Length \/ n + 1 = A + Length THEN "FILL_INTEGRAL"
                 ELSE "IDLE"
    BY <1>1, <1>3, <1>4, <1>5, <2>1, <2>2
  <2>5. integral_image_ready' <=> n + 1 >= A + Length
    <3>1. state' = "FILL_INTEGRAL" /\ integral_image_count' = Length <=> n + 1 = A + Length
      BY <1>1, <2>3, <2>4
    <3>2. integral_image_ready' <=>
            integral_image_ready \/ (state' = "FILL_INTEGRAL" /\ integral_image_count' = Length)
      BY <1>8, Zenon
    <3> QED
      BY <1>1, <1>5, <3>1, <3>2
  <2>6. n + 1 \in Nat /\ integral_image_count' = Counted(n + 1) /\ state' = Stage(n + 1, FALSE)
    <3>1. n + 1 \in Nat /\ n + 1 # 0
      BY <1>1
    <3>2. integral_image_count' = Counted(n + 1)
      <4>1. Counted(n + 1) =
              IF n + 1 <= A THEN 0 ELSE IF n + 1 <= A + Length THEN n + 1 - A ELSE Length
        BY <1>1, BeforeFacts, MemoryAssumption DEF Counted, A
      <4> QED
        BY <2>3, <4>1, Zenon
    <3>3. state' = Stage(n + 1, FALSE)
      BY <1>1, <1>c, <2>4, <3>1
    <3> QED
      BY <3>1, <3>2, <3>3
  <2> QED
    BY <1>d, <2>1, <2>5, <2>6
<1>10. CASE ~wen
  <2>1. Len(taken') = n /\ rested'
    <3>1. Len(taken') = n + 0 /\ rested'
      BY <1>10, <1>e, Zenon
    <3> QED
      BY <1>1, <3>1
  <2>2. integral_image_count' = integral_image_count
    BY <1>7, <1>10
  <2>3. state' = IF state = "FILL_FIFO_INTEGRAL" /\ n >= A /\ ~rested THEN "FILL_INTEGRAL"
                 ELSE IF state = "FILL_INTEGRAL" /\ integral_image_count = Length THEN "IDLE"
                 ELSE state
    BY <1>2, <1>4, <1>6, <1>10 DEF NextState, end_count_integral
  <2>4. state' = IF n = 0 THEN "IDLE"
                 ELSE IF n < A THEN "FILL_FIFO_INTEGRAL"
                 ELSE IF n < A + Length THEN "FILL_INTEGRAL" ELSE "IDLE"
    BY <1>1, <1>3, <1>4, <2>3
  <2>5. integral_image_ready' <=> n >= A + Length
    BY <1>1, <1>3, <1>5, <1>8, <2>2, <2>4
  <2>6. integral_image_count' = Counted(n) /\ state' = Stage(n, TRUE)
    BY <1>1, <1>3, <1>b, <1>c, <2>2, <2>4
  <2> QED
    BY <1>1, <1>d, <2>1, <2>5, <2>6
<1> QED
  BY <1>9, <1>10

\* The rows begin empty, and stay in step with the pixels.
LEMMA WindowInit == Init => WindowInv
<1> SUFFICES ASSUME Init PROVE WindowInv
  OBVIOUS
<1>1. RowsInv
  <2>1. 0 \in Words
    BY MemoryAssumption DEF Words
  <2>2. taken = <<>> /\ Len(taken) = 0 /\ rested = TRUE
    BY DEF Init
  <2>3. \A y \in Rows : Filled(y, 0) = 0
    BY <2>2, BeforeFacts, MemoryAssumption DEF Filled
  <2>4. \A y \in Rows : ~(0 >= Before(y) + FrameWidth)
    BY BeforeFacts, MemoryAssumption
  <2> QED
    BY <2>1, <2>2, <2>3, <2>4 DEF Init, RowsInv
<1>2. StateInv
  <2>1. Len(taken) = 0
    BY DEF Init
  <2>2. ~(0 >= AllFull + Length)
    BY BeforeFacts, MemoryAssumption
  <2>3. AllFull \in Nat \ {0}
    BY BeforeFacts
  <2>4. ReadyWhenFull
    BY <2>1, <2>2 DEF Init, ReadyWhenFull, AllFull
  <2>5. Counted(0) = 0 /\ Stage(0, rested) = "IDLE"
    BY <2>3 DEF Counted, Stage
  <2> QED
    BY <2>1, <2>4, <2>5 DEF Init, StateInv
<1> QED
  BY <1>1, <1>2 DEF WindowInv

LEMMA WindowStep == WindowInv /\ [Next]_vars => WindowInv'
<1> SUFFICES ASSUME WindowInv, [Next]_vars PROVE WindowInv'
  OBVIOUS
<1> USE DEF WindowInv
<1>1. CASE TakePixel
  <2>1. PICK pixel \in Pixels :
          rested /\ rested' = FALSE /\ taken' = Append(taken, pixel) /\ Edge(TRUE, pixel)
    BY <1>1 DEF TakePixel
  <2>2. Len(taken') = Len(taken) + 1
    BY <2>1 DEF RowsInv
  <2>3. rested' = ~TRUE /\ Len(taken') = Len(taken) + (IF TRUE THEN 1 ELSE 0)
    BY <2>1, <2>2
  <2>4. StateInv'
    <3>1. PICK wen \in BOOLEAN :
            /\ (wen => rested) /\ Edge(wen, pixel) /\ rested' = ~wen
            /\ Len(taken') = Len(taken) + (IF wen THEN 1 ELSE 0)
      BY <2>1, <2>3, Zenon
    <3> QED
      BY <3>1, StateStep
  <2> QED
    BY <1>1, <2>4, RowsTake
<1>2. CASE Rest
  <2>1. rested' = TRUE /\ taken' = taken /\ Edge(FALSE, 0)
    BY <1>2 DEF Rest
  <2>2. Len(taken') = Len(taken) + 0
    BY <2>1 DEF RowsInv
  <2>3. StateInv'
    <3>1. PICK wen \in BOOLEAN :
            /\ (wen => rested) /\ Edge(wen, 0) /\ rested' = ~wen
            /\ Len(taken') = Len(taken) + (IF wen THEN 1 ELSE 0)
      <4>1. rested' = ~FALSE /\ Len(taken') = Len(taken) + (IF FALSE THEN 1 ELSE 0)
        BY <2>1, <2>2
      <4> QED
        BY <2>1, <4>1, Zenon
    <3> QED
      BY <3>1, StateStep
  <2> QED
    BY <1>2, <2>3, RowsRest
<1>3. CASE UNCHANGED vars
  BY <1>3 DEF vars, RowsInv, StateInv, ReadyWhenFull, Filled, Before, AllFull
<1> QED
  BY <1>1, <1>2, <1>3 DEF Next

\* The invariant is inductive.
LEMMA WindowInductive == Spec => []WindowInv
  BY WindowInit, WindowStep, PTL DEF Spec

\* The memory calls itself ready at the pixel that completes its first window, for
\* every size of window and frame and every number of pixels (I2LBS_memory.v).
THEOREM Ready == Spec => []ReadyWhenFull
<1>1. WindowInv => ReadyWhenFull
  BY DEF WindowInv, StateInv
<1> QED
  BY <1>1, WindowInductive, PTL

\* What the window controller is told of its memory (I2LBS!MemoryEdge, without a reset):
\* that it becomes full at a clock that takes a pixel, and stays full.
FillsByPixels ==
  [][integral_image_ready' \in
       {integral_image_ready} \cup (IF taken' # taken THEN {TRUE} ELSE {})]_vars

\* The memory does what the model of the window controller takes it to do, for every
\* size of window and frame (I2LBS_memory.v behind I2LBS.v).
THEOREM MemoryFillsByPixels == Spec => FillsByPixels
<1>1. WindowInv /\ WindowInv' /\ [Next]_vars =>
        [integral_image_ready' \in
           {integral_image_ready} \cup (IF taken' # taken THEN {TRUE} ELSE {})]_vars
  <2> SUFFICES ASSUME WindowInv, WindowInv', Next
               PROVE  integral_image_ready' \in
                        {integral_image_ready} \cup (IF taken' # taken THEN {TRUE} ELSE {})
    OBVIOUS
  <2> DEFINE Full == Length * FrameWidth + Length
  <2>1. /\ integral_image_ready <=> Len(taken) >= Full
        /\ (integral_image_ready <=> Len(taken) >= Full)'
    BY DEF WindowInv, StateInv, ReadyWhenFull
  <2>2. integral_image_ready \in BOOLEAN /\ integral_image_ready' \in BOOLEAN
    <3>1. /\ integral_image_ready' = (integral_image_ready \/ (state = "FILL_INTEGRAL" /\ end_count_integral)')
      BY DEF Next, TakePixel, Rest, Edge, Settle
    <3> QED
      BY <3>1 DEF WindowInv, StateInv
  <2>3. CASE TakePixel
    <3>1. Len(taken') = Len(taken) + 1 /\ taken' # taken /\ Len(taken) \in Nat
      BY <2>3 DEF TakePixel, WindowInv, RowsInv
    <3>2. Full \in Nat
      BY MemoryAssumption
    <3> HIDE DEF Full
    <3>3. integral_image_ready => integral_image_ready'
      BY <2>1, <3>1, <3>2
    <3> QED
      BY <2>2, <3>1, <3>3
  <2>4. CASE Rest
    <3>1. taken' = taken
      BY <2>4 DEF Rest
    <3>2. integral_image_ready <=> integral_image_ready'
      BY <2>1, <3>1
    <3> QED
      BY <2>2, <3>2
  <2> QED
    BY <2>3, <2>4 DEF Next
<1> QED
  BY <1>1, WindowInductive, PTL DEF Spec, FillsByPixels

----------------------------------------------------------------------------
\* Induction over the naturals, for a set: the provers take no induction for a formula.
LEMMA SetInduction ==
  ASSUME NEW T, 0 \in T, \A n \in Nat : n \in T => n + 1 \in T
  PROVE  Nat \subseteq T
<1> DEFINE R == OpToRel(<, Nat)
           B == Nat \ T
<1>1. IsWellFoundedOn(R, Nat)
  BY NatLessThanWellFounded
<1>2. \A x, y \in Nat : x < y => <<x, y>> \in R
  BY DEF OpToRel
<1> HIDE DEF R
<1>3. SUFFICES ASSUME B # {} PROVE FALSE
  OBVIOUS
<1>4. PICK x \in B : \A y \in B : ~(<<y, x>> \in R)
  <2>1. B \subseteq Nat
    OBVIOUS
  <2> HIDE DEF B
  <2> QED
    BY <1>1, <1>3, <2>1, WFMin
<1>5. x \in Nat /\ x # 0
  OBVIOUS
<1>6. x - 1 \in Nat /\ x - 1 < x /\ (x - 1) + 1 = x
  BY <1>5
<1>7. x - 1 \in B
  BY <1>6
<1> QED
  BY <1>2, <1>4, <1>5, <1>6, <1>7

----------------------------------------------------------------------------
\* The sum of F over a set, as the community modules define it: an element is chosen
\* from every subset.
First(s) == CHOOSE x \in s : TRUE

Added(it, F, s) == IF s = {} THEN 0 ELSE F[First(s)] + it[s \ {First(s)}]

Adds(it, S, F) == it = [s \in SUBSET S |-> Added(it, F, s)]

LEMMA FirstIn ==
  ASSUME NEW s, s # {}
  PROVE  First(s) \in s
  BY DEF First

LEMMA Smaller ==
  ASSUME NEW S, IsFiniteSet(S), NEW s \in SUBSET S
  PROVE  /\ IsFiniteSet(s) /\ Cardinality(s) \in Nat
         /\ Cardinality(s) = 0 => s = {}
         /\ \A x \in s : s \ {x} \in SUBSET S /\ Cardinality(s \ {x}) = Cardinality(s) - 1
<1>1. IsFiniteSet(s)
  BY FS_Subset
<1>2. Cardinality(s) \in Nat
  BY <1>1, FS_CardinalityType
<1>3. Cardinality(s) = 0 => s = {}
  BY <1>1, FS_EmptySet
<1>4. ASSUME NEW x \in s
      PROVE  s \ {x} \in SUBSET S /\ Cardinality(s \ {x}) = Cardinality(s) - 1
  BY <1>1, FS_RemoveElement
<1> QED
  BY <1>1, <1>2, <1>3, <1>4

LEMMA AddsExist ==
  ASSUME NEW S, IsFiniteSet(S), NEW F \in [S -> Int]
  PROVE  \E it \in [SUBSET S -> Int] : Adds(it, S, F)
<1> DEFINE Small(n) == {s \in SUBSET S : Cardinality(s) <= n}
           Has(n, g) == g \in [Small(n) -> Int] /\ \A s \in Small(n) : g[s] = Added(g, F, s)
           T == {n \in Nat : \E g : Has(n, g)}
<1>1. 0 \in T
  <2> DEFINE g == [s \in Small(0) |-> 0]
  <2>1. ASSUME NEW s \in Small(0) PROVE s = {}
    <3>1. s \in SUBSET S /\ Cardinality(s) <= 0
      OBVIOUS
    <3>2. Cardinality(s) = 0
      BY <3>1, Smaller
    <3> QED
      BY <3>1, <3>2, Smaller
  <2>2. Has(0, g)
    BY <2>1 DEF Added
  <2> QED
    BY <2>2
<1>2. ASSUME NEW n \in Nat, n \in T PROVE n + 1 \in T
  <2>1. PICK g : Has(n, g)
    BY <1>2
  <2> DEFINE h == [s \in Small(n + 1) |-> Added(g, F, s)]
  <2>2. ASSUME NEW s \in Small(n + 1), s # {}
        PROVE  First(s) \in S /\ s \ {First(s)} \in Small(n) /\ s \ {First(s)} \in Small(n + 1)
    <3>1. First(s) \in s /\ s \in SUBSET S /\ Cardinality(s) <= n + 1
      BY <2>2, FirstIn
    <3>2. /\ s \ {First(s)} \in SUBSET S /\ Cardinality(s \ {First(s)}) = Cardinality(s) - 1
          /\ Cardinality(s) \in Nat
      BY <3>1, Smaller
    <3> QED
      BY <3>1, <3>2
  <2>3. h \in [Small(n + 1) -> Int]
    <3> SUFFICES ASSUME NEW s \in Small(n + 1) PROVE Added(g, F, s) \in Int
      OBVIOUS
    <3>1. CASE s = {}
      BY <3>1 DEF Added
    <3>2. CASE s # {}
      <4>1. g[s \ {First(s)}] \in Int /\ F[First(s)] \in Int
        BY <2>1, <2>2, <3>2
      <4> QED
        BY <3>2, <4>1 DEF Added
    <3> QED
      BY <3>1, <3>2
  <2>4. ASSUME NEW s \in Small(n) PROVE h[s] = g[s] /\ s \in Small(n + 1)
    <3>1. s \in SUBSET S /\ Cardinality(s) <= n
      OBVIOUS
    <3>2. Cardinality(s) \in Nat
      BY <3>1, Smaller
    <3>3. s \in Small(n + 1)
      BY <3>1, <3>2
    <3> QED
      BY <2>1, <3>3
  <2>5. ASSUME NEW s \in Small(n + 1) PROVE h[s] = Added(h, F, s)
    <3>1. h[s] = Added(g, F, s)
      OBVIOUS
    <3>2. s # {} => h[s \ {First(s)}] = g[s \ {First(s)}]
      BY <2>2, <2>4
    <3> HIDE DEF h
    <3> QED
      BY <3>1, <3>2 DEF Added
  <2>6. Has(n + 1, h)
    BY <2>3, <2>5
  <2>7. \E f : Has(n + 1, f)
    <3> HIDE DEF Has, h
    <3> QED
      BY <2>6
  <2>8. n + 1 \in Nat
    OBVIOUS
  <2> HIDE DEF Has
  <2> QED
    BY <2>7, <2>8
<1>3. Nat \subseteq T
  <2> HIDE DEF T
  <2> QED
    BY <1>1, <1>2, SetInduction
<1>4. Cardinality(S) \in Nat
  BY FS_CardinalityType
<1>5. PICK g : Has(Cardinality(S), g)
  BY <1>3, <1>4
<1>6. Small(Cardinality(S)) = SUBSET S
  <2> SUFFICES ASSUME NEW s \in SUBSET S PROVE Cardinality(s) <= Cardinality(S)
    OBVIOUS
  <2> QED
    BY FS_Subset
<1> QED
  BY <1>5, <1>6 DEF Adds

\* A sum over a set depends on the values in it only.
LEMMA AddsAgree ==
  ASSUME NEW S, IsFiniteSet(S), NEW F, NEW it, Adds(it, S, F),
         NEW S2, NEW G, NEW jt, Adds(jt, S2, G),
         NEW s \in SUBSET S, s \in SUBSET S2, \A x \in s : F[x] = G[x]
  PROVE  it[s] = jt[s]
<1> DEFINE T == {n \in Nat : \A u \in SUBSET s : Cardinality(u) = n => it[u] = jt[u]}
<1>0. IsFiniteSet(s)
  BY FS_Subset
<1>1. 0 \in T
  <2> SUFFICES ASSUME NEW u \in SUBSET s, Cardinality(u) = 0 PROVE it[u] = jt[u]
    OBVIOUS
  <2>1. u = {}
    BY <1>0, Smaller
  <2>2. {} \in SUBSET S /\ {} \in SUBSET S2
    OBVIOUS
  <2> QED
    BY <2>1, <2>2 DEF Adds, Added
<1>2. ASSUME NEW n \in Nat, n \in T PROVE n + 1 \in T
  <2> SUFFICES ASSUME NEW u \in SUBSET s, Cardinality(u) = n + 1 PROVE it[u] = jt[u]
    OBVIOUS
  <2> DEFINE c == First(u)
  <2>1. u # {}
    BY FS_EmptySet
  <2>2. c \in u
    BY <2>1, FirstIn
  <2>3. u \ {c} \in SUBSET s /\ Cardinality(u \ {c}) = n
    <3>1. u \ {c} \in SUBSET s /\ Cardinality(u \ {c}) = (n + 1) - 1
      BY <1>0, <2>2, Smaller
    <3> QED
      BY <3>1
  <2>4. it[u \ {c}] = jt[u \ {c}]
    BY <1>2, <2>3
  <2>5. it[u] = F[c] + it[u \ {c}] /\ jt[u] = G[c] + jt[u \ {c}]
    BY <2>1 DEF Adds, Added
  <2>6. F[c] = G[c]
    BY <2>2
  <2> QED
    BY <2>4, <2>5, <2>6
<1>3. Nat \subseteq T
  <2> HIDE DEF T
  <2> QED
    BY <1>1, <1>2, SetInduction
<1>4. Cardinality(s) \in Nat /\ s \in SUBSET s
  BY <1>0, FS_CardinalityType
<1> QED
  BY <1>3, <1>4

\* Sums of integers are integers.
LEMMA AddsType ==
  ASSUME NEW S, IsFiniteSet(S), NEW F \in [S -> Int], NEW it, Adds(it, S, F)
  PROVE  it \in [SUBSET S -> Int]
<1>1. PICK jt \in [SUBSET S -> Int] : Adds(jt, S, F)
  BY AddsExist
<1>2. ASSUME NEW s \in SUBSET S PROVE it[s] = jt[s]
  BY <1>1, AddsAgree
<1>3. it = [s \in SUBSET S |-> it[s]]
  BY DEF Adds
<1> QED
  BY <1>1, <1>2, <1>3

\* The sum does not depend on the order in which elements are chosen.
LEMMA AddsRemove ==
  ASSUME NEW S, IsFiniteSet(S), NEW F \in [S -> Int], NEW it, Adds(it, S, F),
         NEW s \in SUBSET S, NEW x \in s
  PROVE  it[s] = F[x] + it[s \ {x}]
<1> DEFINE Right(u) == \A y \in u : it[u] = F[y] + it[u \ {y}]
           T == {n \in Nat : \A u \in SUBSET S : Cardinality(u) = n => Right(u)}
<1>0. it \in [SUBSET S -> Int]
  BY AddsType
<1>1. 0 \in T
  BY Smaller
<1>2. ASSUME NEW n \in Nat, n \in T PROVE n + 1 \in T
  <2> SUFFICES ASSUME NEW u \in SUBSET S, Cardinality(u) = n + 1, NEW y \in u
               PROVE  it[u] = F[y] + it[u \ {y}]
    OBVIOUS
  <2> DEFINE c == First(u)
  <2>1. c \in u /\ it[u] = F[c] + it[u \ {c}]
    BY FirstIn DEF Adds, Added
  <2> HIDE DEF c
  <2>2. CASE y = c
    BY <2>1, <2>2
  <2>3. CASE y # c
    <3>1. /\ u \ {c} \in SUBSET S /\ Cardinality(u \ {c}) = n
          /\ u \ {y} \in SUBSET S /\ Cardinality(u \ {y}) = n
      <4>1. /\ u \ {c} \in SUBSET S /\ Cardinality(u \ {c}) = (n + 1) - 1
            /\ u \ {y} \in SUBSET S /\ Cardinality(u \ {y}) = (n + 1) - 1
        BY <2>1, Smaller
      <4> QED
        BY <4>1
    <3>2. Right(u \ {c}) /\ Right(u \ {y})
      BY <1>2, <3>1
    <3>3. y \in u \ {c} /\ c \in u \ {y} /\ (u \ {c}) \ {y} = (u \ {y}) \ {c}
      BY <2>1, <2>3
    <3>4. it[u \ {c}] = F[y] + it[(u \ {c}) \ {y}]
      BY <3>2, <3>3
    <3>5. it[u \ {y}] = F[c] + it[(u \ {c}) \ {y}]
      BY <3>2, <3>3
    <3>6. F[y] \in Int /\ F[c] \in Int /\ it[(u \ {c}) \ {y}] \in Int
      BY <1>0, <2>1
    <3> QED
      BY <2>1, <3>4, <3>5, <3>6
  <2> QED
    BY <2>2, <2>3
<1>3. Nat \subseteq T
  <2> HIDE DEF T
  <2> QED
    BY <1>1, <1>2, SetInduction
<1>4. Cardinality(s) \in Nat
  BY Smaller
<1> QED
  BY <1>3, <1>4

----------------------------------------------------------------------------
\* A sum without one element.
LEMMA AddsApart ==
  ASSUME NEW S, IsFiniteSet(S), NEW x \in S, NEW F \in [S -> Int], NEW it, Adds(it, S, F),
         NEW G, NEW jt, Adds(jt, S \ {x}, G), \A y \in S \ {x} : F[y] = G[y]
  PROVE  it[S] = F[x] + jt[S \ {x}]
<1>1. S \in SUBSET S /\ S \ {x} \in SUBSET S /\ S \ {x} \in SUBSET (S \ {x})
  OBVIOUS
<1>2. it[S] = F[x] + it[S \ {x}]
  BY <1>1, AddsRemove
<1>3. it[S \ {x}] = jt[S \ {x}]
  BY <1>1, AddsAgree
<1> QED
  BY <1>2, <1>3

LEMMA AddsNothing ==
  ASSUME NEW S, S = {}, NEW F, NEW it, Adds(it, S, F)
  PROVE  it[S] = 0
  BY DEF Adds, Added

----------------------------------------------------------------------------
LEMMA AgoType ==
  ASSUME taken \in Seq(Pixels), NEW k \in Nat
  PROVE  Ago(k) \in Words /\ Ago(k) \in Int
<1>1. Len(taken) \in Nat /\ \A i \in 1 .. Len(taken) : taken[i] \in Pixels
  OBVIOUS
<1>2. k < Len(taken) => Len(taken) - k \in 1 .. Len(taken)
  BY <1>1
<1>3. 0 \in Words
  BY MemoryAssumption DEF Words
<1>4. Ago(k) \in Words
  BY <1>1, <1>2, <1>3, MemoryAssumption DEF Ago, Words
<1> QED
  BY <1>4 DEF Words

LEMMA InWindowType ==
  ASSUME taken \in Seq(Pixels), NEW r \in Rows, NEW c \in Columns
  PROVE  InWindow(r, c) \in Int
<1>1. (r + 1) * FrameWidth + c \in Nat
  BY MemoryAssumption DEF Rows, Columns
<1> QED
  BY <1>1, AgoType DEF InWindow

\* The sums of the community modules are sums of a function.
LEMMA RowSumAdds ==
  ASSUME taken \in Seq(Pixels), NEW r \in Rows, NEW x \in 0 .. Length
  PROVE  \E it : /\ Adds(it, x .. Top, [c \in x .. Top |-> InWindow(r, c)])
                 /\ RowSum(r, x) = it[x .. Top]
<1> DEFINE S == x .. Top
           F == [c \in S |-> InWindow(r, c)]
           Body(it, s) == IF s = {} THEN 0
                          ELSE LET e == CHOOSE e \in s : TRUE IN InWindow(r, e) + it[s \ {e}]
           K == CHOOSE it : it = [s \in SUBSET S |-> Body(it, s)]
<1>1. RowSum(r, x) = K[S]
  BY DEF RowSum, MapThenSumSet, MapThenFoldSet
<1>2. \A it : \A s \in SUBSET S : Body(it, s) = Added(it, F, s)
  BY FirstIn DEF Added, First
<1>3. IsFiniteSet(S) /\ F \in [S -> Int]
  <2>1. x \in Int /\ Top \in Int /\ \A c \in S : c \in Columns
    BY MemoryAssumption DEF Columns, Top
  <2>2. IsFiniteSet(S)
    BY <2>1, FS_Interval
  <2>3. \A c \in S : InWindow(r, c) \in Int
    BY <2>1, InWindowType
  <2> QED
    BY <2>2, <2>3
<1> HIDE DEF Body, S
<1>4. PICK it : Adds(it, S, F)
  <2> HIDE DEF F
  <2> QED
    BY <1>3, AddsExist
<1>5. it = [s \in SUBSET S |-> Body(it, s)]
  BY <1>2, <1>4 DEF Adds
<1>6. K = [s \in SUBSET S |-> Body(K, s)]
  BY <1>5
<1> HIDE DEF K
<1>7. Adds(K, S, F)
  BY <1>2, <1>6 DEF Adds
<1> QED
  BY <1>1, <1>7 DEF S

\* Facts of the intervals that are summed over.
LEMMA Intervals ==
  ASSUME NEW x \in 0 .. Length
  PROVE  /\ IsFiniteSet(x .. Top)
         /\ x .. Top \subseteq Columns /\ x .. Top \subseteq Rows
         /\ x = Length => x .. Top = {}
         /\ x # Length => x \in x .. Top /\ (x .. Top) \ {x} = x + 1 .. Top /\ x + 1 \in 0 .. Length
<1>1. x \in Int /\ Top \in Int /\ Length \in Nat
  BY MemoryAssumption DEF Top
<1>2. IsFiniteSet(x .. Top)
  BY <1>1, FS_Interval
<1> QED
  BY <1>1, <1>2 DEF Rows, Columns, Top

\* A row's sum, from one column on.
LEMMA RowSumFacts ==
  ASSUME taken \in Seq(Pixels), NEW r \in Rows, NEW x \in 0 .. Length
  PROVE  /\ RowSum(r, x) \in Int
         /\ x = Length => RowSum(r, x) = 0
         /\ x # Length => RowSum(r, x) = InWindow(r, x) + RowSum(r, x + 1)
<1> DEFINE S == x .. Top
           F == [c \in S |-> InWindow(r, c)]
<1>1. PICK it : Adds(it, S, F) /\ RowSum(r, x) = it[S]
  BY RowSumAdds
<1>2. IsFiniteSet(S) /\ S \subseteq Columns
  BY Intervals
<1>3. F \in [S -> Int]
  BY <1>2, InWindowType
<1>4. RowSum(r, x) \in Int
  <2> HIDE DEF F, S
  <2>1. it \in [SUBSET S -> Int]
    BY <1>1, <1>2, <1>3, AddsType
  <2> QED
    BY <1>1, <2>1
<1>5. ASSUME x = Length PROVE RowSum(r, x) = 0
  <2>1. S = {}
    BY <1>5, Intervals
  <2> HIDE DEF F, S
  <2> QED
    BY <1>1, <2>1, AddsNothing
<1>6. ASSUME x # Length PROVE RowSum(r, x) = InWindow(r, x) + RowSum(r, x + 1)
  <2>1. x \in S /\ S \ {x} = x + 1 .. Top /\ x + 1 \in 0 .. Length
    BY <1>6, Intervals
  <2> DEFINE G == [c \in x + 1 .. Top |-> InWindow(r, c)]
  <2>2. PICK jt : Adds(jt, x + 1 .. Top, G) /\ RowSum(r, x + 1) = jt[x + 1 .. Top]
    BY <2>1, RowSumAdds
  <2>3. \A c \in S \ {x} : F[c] = G[c]
    BY <2>1
  <2>4. F[x] = InWindow(r, x)
    BY <2>1
  <2>5. it[S] = F[x] + jt[S \ {x}]
    <3>1. Adds(jt, S \ {x}, G)
      BY <2>1, <2>2
    <3> HIDE DEF F, G, S
    <3> QED
      BY <1>1, <1>2, <1>3, <2>1, <2>3, <3>1, AddsApart
  <2>6. jt[S \ {x}] = RowSum(r, x + 1)
    BY <2>1, <2>2
  <2> QED
    BY <1>1, <2>4, <2>5, <2>6
<1> QED
  BY <1>4, <1>5, <1>6

LEMMA IntegralAdds ==
  ASSUME taken \in Seq(Pixels), NEW y \in 0 .. Length, NEW x \in 0 .. Length
  PROVE  \E it : /\ Adds(it, y .. Top, [r \in y .. Top |-> RowSum(r, x)])
                 /\ Integral(y, x) = it[y .. Top]
<1> DEFINE S == y .. Top
           F == [r \in S |-> RowSum(r, x)]
           Body(it, s) == IF s = {} THEN 0
                          ELSE LET e == CHOOSE e \in s : TRUE IN RowSum(e, x) + it[s \ {e}]
           K == CHOOSE it : it = [s \in SUBSET S |-> Body(it, s)]
<1>1. Integral(y, x) = K[S]
  BY DEF Integral, MapThenSumSet, MapThenFoldSet
<1>2. \A it : \A s \in SUBSET S : Body(it, s) = Added(it, F, s)
  <2> SUFFICES ASSUME NEW it, NEW s \in SUBSET S PROVE Body(it, s) = Added(it, F, s)
    OBVIOUS
  <2>1. s # {} => First(s) \in S
    BY FirstIn
  <2>2. s # {} => F[First(s)] = RowSum(First(s), x)
    BY <2>1
  <2> HIDE DEF F
  <2> QED
    BY <2>2 DEF Added, First
<1>3. IsFiniteSet(S) /\ F \in [S -> Int]
  BY Intervals, RowSumFacts
<1> HIDE DEF Body, S
<1>4. PICK it : Adds(it, S, F)
  <2> HIDE DEF F
  <2> QED
    BY <1>3, AddsExist
<1>5. it = [s \in SUBSET S |-> Body(it, s)]
  BY <1>2, <1>4 DEF Adds
<1>6. K = [s \in SUBSET S |-> Body(K, s)]
  BY <1>5
<1> HIDE DEF K
<1>7. Adds(K, S, F)
  BY <1>2, <1>6 DEF Adds
<1> QED
  BY <1>1, <1>7 DEF S

\* The window's sum, from one row on.
LEMMA IntegralFacts ==
  ASSUME taken \in Seq(Pixels), NEW y \in 0 .. Length, NEW x \in 0 .. Length
  PROVE  /\ Integral(y, x) \in Int
         /\ y = Length => Integral(y, x) = 0
         /\ y # Length => Integral(y, x) = RowSum(y, x) + Integral(y + 1, x)
<1> DEFINE S == y .. Top
           F == [r \in S |-> RowSum(r, x)]
<1>1. PICK it : Adds(it, S, F) /\ Integral(y, x) = it[S]
  BY IntegralAdds
<1>2. IsFiniteSet(S) /\ S \subseteq Rows
  BY Intervals
<1>3. F \in [S -> Int]
  BY <1>2, RowSumFacts
<1>4. Integral(y, x) \in Int
  <2> HIDE DEF F, S
  <2>1. it \in [SUBSET S -> Int]
    BY <1>1, <1>2, <1>3, AddsType
  <2> QED
    BY <1>1, <2>1
<1>5. ASSUME y = Length PROVE Integral(y, x) = 0
  <2>1. S = {}
    BY <1>5, Intervals
  <2> HIDE DEF F, S
  <2> QED
    BY <1>1, <2>1, AddsNothing
<1>6. ASSUME y # Length PROVE Integral(y, x) = RowSum(y, x) + Integral(y + 1, x)
  <2>1. y \in S /\ S \ {y} = y + 1 .. Top /\ y + 1 \in 0 .. Length
    BY <1>6, Intervals
  <2> DEFINE G == [r \in y + 1 .. Top |-> RowSum(r, x)]
  <2>2. PICK jt : Adds(jt, y + 1 .. Top, G) /\ Integral(y + 1, x) = jt[y + 1 .. Top]
    BY <2>1, IntegralAdds
  <2>3. \A r \in S \ {y} : F[r] = G[r]
    BY <2>1
  <2>4. F[y] = RowSum(y, x)
    BY <2>1
  <2>5. it[S] = F[y] + jt[S \ {y}]
    <3>1. Adds(jt, S \ {y}, G)
      BY <2>1, <2>2
    <3> HIDE DEF F, G, S
    <3> QED
      BY <1>1, <1>2, <1>3, <2>1, <2>3, <3>1, AddsApart
  <2>6. jt[S \ {y}] = Integral(y + 1, x)
    BY <2>1, <2>2
  <2> QED
    BY <1>1, <2>4, <2>5, <2>6
<1> QED
  BY <1>4, <1>5, <1>6

\* What the rows above gave last, added up from the top row down.
LEMMA ReductionFacts ==
  ASSUME fifo_data_out \in [Rows -> Words], NEW y \in Rows
  PROVE  /\ fifo_reduction_sum[y] \in Int
         /\ y = Top => fifo_reduction_sum[y] = 0
         /\ y # Top => /\ y + 1 \in Rows
                       /\ fifo_reduction_sum[y] = fifo_reduction_sum[y + 1] + fifo_data_out[y + 1]
<1> DEFINE Body(g, v) == IF v = Top THEN 0 ELSE g[v + 1] + fifo_data_out[v + 1]
           Has(n, g) == \A v \in Rows : v + n >= Top => g[v] = Body(g, v) /\ g[v] \in Int
           T == {n \in Nat : \E g : g = [v \in Rows |-> g[v]] /\ Has(n, g)}
<1>1. Length \in Nat /\ Top \in Nat /\ Top + 1 = Length
  BY MemoryAssumption DEF Top
<1>2. \A v \in Rows : /\ v \in Nat /\ v <= Top
                      /\ fifo_data_out[v] \in Int
                      /\ v # Top => v + 1 \in Rows
  BY <1>1 DEF Rows, Words
<1>3. 0 \in T
  <2> DEFINE g == [v \in Rows |-> 0]
  <2>1. g = [v \in Rows |-> g[v]]
    OBVIOUS
  <2>2. Has(0, g)
    BY <1>1, <1>2
  <2>3. \E h : h = [v \in Rows |-> h[v]] /\ Has(0, h)
    <3> HIDE DEF g, Has
    <3> QED
      BY <2>1, <2>2
  <2> QED
    BY <2>3
<1>4. ASSUME NEW n \in Nat, n \in T PROVE n + 1 \in T
  <2>1. PICK g : g = [v \in Rows |-> g[v]] /\ Has(n, g)
    BY <1>4
  <2> DEFINE h == [v \in Rows |-> IF v + n >= Top THEN g[v] ELSE Body(g, v)]
  <2>2. ASSUME NEW v \in Rows, v + (n + 1) >= Top PROVE h[v] = Body(h, v) /\ h[v] \in Int
    <3>1. v \in Nat /\ v <= Top
      BY <1>2
    <3>2. CASE v = Top
      <4>1. v + n >= Top
        BY <1>1, <3>1, <3>2
      <4>2. g[v] = 0
        BY <2>1, <3>2, <4>1
      <4> QED
        BY <3>2, <4>1, <4>2
    <3>3. CASE v # Top
      <4>1. v + 1 \in Rows /\ (v + 1) + n >= Top
        BY <1>1, <1>2, <2>2, <3>1, <3>3
      <4>2. h[v + 1] = g[v + 1] /\ g[v + 1] \in Int
        BY <2>1, <4>1
      <4>3. h[v] = Body(g, v)
        BY <2>1
      <4>4. Body(g, v) = Body(h, v)
        BY <3>3, <4>2
      <4>5. Body(g, v) \in Int
        BY <1>2, <3>3, <4>1, <4>2
      <4> QED
        BY <4>3, <4>4, <4>5
    <3> QED
      BY <3>2, <3>3
  <2>3. Has(n + 1, h) /\ h = [v \in Rows |-> h[v]]
    BY <2>2
  <2>4. \E f : f = [v \in Rows |-> f[v]] /\ Has(n + 1, f)
    <3> HIDE DEF h, Has
    <3> QED
      BY <2>3
  <2>5. n + 1 \in Nat
    OBVIOUS
  <2> HIDE DEF Has
  <2> QED
    BY <2>4, <2>5
<1>5. Nat \subseteq T
  <2> HIDE DEF T
  <2> QED
    BY <1>3, <1>4, SetInduction
<1>6. PICK g : g = [v \in Rows |-> g[v]] /\ Has(Top, g)
  BY <1>1, <1>5
<1>7. g = [v \in Rows |-> Body(g, v)]
  <2>1. \A v \in Rows : v + Top >= Top
    BY <1>1, <1>2
  <2>2. \A v \in Rows : g[v] = Body(g, v)
    BY <1>6, <2>1
  <2> HIDE DEF Body
  <2> QED
    BY <1>6, <2>2
<1>8. fifo_reduction_sum = [v \in Rows |-> IF v = Top THEN 0
                                           ELSE fifo_reduction_sum[v + 1] + fifo_data_out[v + 1]]
  BY <1>7 DEF fifo_reduction_sum
<1> DEFINE K == fifo_reduction_sum
           U == {n \in Nat : \A v \in Rows : v + n >= Top => K[v] \in Int}
<1> HIDE DEF K
<1>9. \A v \in Rows : K[v] = IF v = Top THEN 0 ELSE K[v + 1] + fifo_data_out[v + 1]
  BY <1>8 DEF K
<1>10. 0 \in U
  <2> SUFFICES ASSUME NEW v \in Rows, v + 0 >= Top PROVE K[v] \in Int
    OBVIOUS
  <2>1. v = Top
    BY <1>1, <1>2
  <2> QED
    BY <1>9, <2>1
<1>11. ASSUME NEW n \in Nat, n \in U PROVE n + 1 \in U
  <2> SUFFICES ASSUME NEW v \in Rows, v + (n + 1) >= Top PROVE K[v] \in Int
    OBVIOUS
  <2>1. CASE v = Top
    BY <1>9, <2>1
  <2>2. CASE v # Top
    <3>1. v + 1 \in Rows /\ (v + 1) + n >= Top
      BY <1>1, <1>2, <2>2
    <3>2. K[v + 1] \in Int /\ fifo_data_out[v + 1] \in Int
      BY <1>2, <1>11, <3>1
    <3> QED
      BY <1>9, <2>2, <3>2
  <2> QED
    BY <2>1, <2>2
<1>12. Nat \subseteq U
  <2> HIDE DEF U
  <2> QED
    BY <1>10, <1>11, SetInduction
<1>13. y + Top >= Top
  BY <1>1, <1>2
<1>14. K[y] \in Int
  BY <1>1, <1>12, <1>13
<1> QED
  BY <1>2, <1>9, <1>14 DEF K

\* What the sums are, in a state.
SumFacts ==
  /\ \A r \in Rows, x \in 0 .. Length :
       /\ RowSum(r, x) \in Int
       /\ x = Length => RowSum(r, x) = 0
       /\ x # Length => RowSum(r, x) = InWindow(r, x) + RowSum(r, x + 1)
  /\ \A y \in 0 .. Length, x \in 0 .. Length :
       /\ Integral(y, x) \in Int
       /\ y = Length => Integral(y, x) = 0
       /\ y # Length => Integral(y, x) = RowSum(y, x) + Integral(y + 1, x)
  /\ \A k \in Nat : Ago(k) \in Int

LEMMA Sums == taken \in Seq(Pixels) => SumFacts
  BY RowSumFacts, IntegralFacts, AgoType DEF SumFacts

LEMMA SumsNext == (taken \in Seq(Pixels))' => SumFacts'
  BY Sums, PTL

\* The next pixel makes every other one clock older.
LEMMA AgoTake ==
  ASSUME taken \in Seq(Pixels), NEW pixel \in Pixels, taken' = Append(taken, pixel)
  PROVE  /\ taken' \in Seq(Pixels) /\ Len(taken') = Len(taken) + 1
         /\ Ago(0)' = pixel
         /\ \A k \in Nat : Ago(k + 1)' = Ago(k)
<1>1. /\ taken' \in Seq(Pixels) /\ Len(taken') = Len(taken) + 1 /\ Len(taken) \in Nat
      /\ taken'[Len(taken) + 1] = pixel
      /\ \A i \in 1 .. Len(taken) : taken'[i] = taken[i]
  OBVIOUS
<1>2. Ago(0)' = pixel
  <2>1. 0 < Len(taken') /\ Len(taken') - 0 = Len(taken) + 1
    BY <1>1
  <2> QED
    BY <1>1, <2>1 DEF Ago
<1>3. ASSUME NEW k \in Nat PROVE Ago(k + 1)' = Ago(k)
  <2>1. Ago(k + 1)' = IF k + 1 < Len(taken') THEN taken'[Len(taken') - (k + 1)] ELSE 0
    BY DEF Ago
  <2>2. CASE k < Len(taken)
    <3>1. k + 1 < Len(taken') /\ Len(taken') - (k + 1) = Len(taken) - k /\ Len(taken) - k \in 1 .. Len(taken)
      BY <1>1, <2>2
    <3>2. Ago(k + 1)' = taken[Len(taken) - k]
      BY <1>1, <2>1, <3>1
    <3> QED
      BY <2>2, <3>2 DEF Ago
  <2>3. CASE ~(k < Len(taken))
    <3>1. ~(k + 1 < Len(taken'))
      BY <1>1, <2>3
    <3> QED
      BY <2>1, <2>3, <3>1 DEF Ago
  <2> QED
    BY <2>2, <2>3
<1> QED
  BY <1>1, <1>2, <1>3

\* The window slides by a pixel: what is in a column was in the one before.
LEMMA WindowSlides ==
  ASSUME taken \in Seq(Pixels), NEW pixel \in Pixels, taken' = Append(taken, pixel), NEW r \in Rows
  PROVE  /\ InWindow(r, 0)' = Ago((r + 1) * FrameWidth - 1)
         /\ \A c \in Nat : InWindow(r, c + 1)' = InWindow(r, c)
<1>1. (r + 1) * FrameWidth \in Nat \ {0}
  <2>1. r \in Nat /\ FrameWidth \in Nat \ {0}
    BY MemoryAssumption DEF Rows
  <2> QED
    BY <2>1
<1> DEFINE b == (r + 1) * FrameWidth
<1>2. /\ InWindow(r, 0)' = Ago(b + 0)'
      /\ \A c \in Nat : InWindow(r, c + 1)' = Ago(b + (c + 1))' /\ InWindow(r, c) = Ago(b + c)
  BY DEF InWindow, Ago
<1>3. b \in Nat \ {0}
  BY <1>1
<1> HIDE DEF b
<1>4. b + 0 = (b - 1) + 1 /\ b - 1 \in Nat
  BY <1>3
<1>5. \A k \in Nat : Ago(k + 1)' = Ago(k)
  BY AgoTake
<1>6. Ago(b + 0)' = Ago(b - 1)
  <2>1. Ago((b - 1) + 1)' = Ago(b - 1)
    BY <1>4, <1>5
  <2> QED
    BY <1>4, <2>1
<1>7. ASSUME NEW c \in Nat PROVE Ago(b + (c + 1))' = Ago(b + c)
  <2>1. b + c \in Nat /\ b + (c + 1) = (b + c) + 1
    BY <1>3
  <2>2. Ago((b + c) + 1)' = Ago(b + c)
    BY <1>5, <2>1
  <2> QED
    BY <2>1, <2>2
<1> QED
  BY <1>2, <1>6, <1>7 DEF b

LEMMA RowSlides ==
  ASSUME taken \in Seq(Pixels), NEW pixel \in Pixels, taken' = Append(taken, pixel), NEW r \in Rows
  PROVE  /\ RowSum(r, 0)' = Ago((r + 1) * FrameWidth - 1) + (RowSum(r, 0) - RowSum(r, Top))
         /\ \A x \in 1 .. Length : RowSum(r, x)' = RowSum(r, x - 1) - RowSum(r, Top)
<1> DEFINE A == [x \in 0 .. Length |-> RowSum(r, x)]
           B == [x \in 0 .. Length |-> RowSum(r, x)']
           W == [c \in Columns |-> InWindow(r, c)]
           V == [c \in Columns |-> InWindow(r, c)']
           n0 == Ago((r + 1) * FrameWidth - 1)
<1>1. Length \in Nat \ {0} /\ Top \in 0 .. Length /\ Top + 1 = Length /\ Columns = 0 .. Top
  BY MemoryAssumption DEF Top, Columns
<1>2. (taken \in Seq(Pixels))'
  BY AgoTake
<1>3. SumFacts /\ SumFacts'
  BY <1>2, Sums, SumsNext
<1>4. \A x \in 0 .. Length : /\ A[x] \in Int
                             /\ x = Length => A[x] = 0
                             /\ x # Length => A[x] = W[x] + A[x + 1]
  <2>1. \A x \in 0 .. Length : x # Length => x \in Columns /\ x + 1 \in 0 .. Length
    BY <1>1
  <2> QED
    BY <1>3, <2>1 DEF SumFacts
<1>5. \A x \in 0 .. Length : /\ B[x] \in Int
                             /\ x = Length => B[x] = 0
                             /\ x # Length => B[x] = V[x] + B[x + 1]
  <2>1. \A x \in 0 .. Length : x # Length => x \in Columns /\ x + 1 \in 0 .. Length
    BY <1>1
  <2>2. \A x \in 0 .. Length : /\ RowSum(r, x)' \in Int
                               /\ x = Length => RowSum(r, x)' = 0
                               /\ x # Length => RowSum(r, x)' = InWindow(r, x)' + RowSum(r, x + 1)'
    BY <1>3 DEF SumFacts
  <2> QED
    BY <2>1, <2>2
<1>6. V[0] = n0 /\ \A c \in 0 .. Top : c # Top => V[c + 1] = W[c]
  <2>1. InWindow(r, 0)' = n0 /\ \A c \in Nat : InWindow(r, c + 1)' = InWindow(r, c)
    BY WindowSlides
  <2>2. 0 \in Columns /\ \A c \in 0 .. Top : c \in Nat /\ c \in Columns /\ (c # Top => c + 1 \in Columns)
    BY <1>1
  <2> QED
    BY <2>1, <2>2
<1>7. n0 \in Int
  <2>1. (r + 1) * FrameWidth - 1 \in Nat
    <3>1. r \in Nat /\ FrameWidth \in Nat \ {0}
      BY MemoryAssumption DEF Rows
    <3>2. (r + 1) * FrameWidth \in Nat \ {0}
      BY <3>1
    <3> QED
      BY <3>2
  <2> QED
    BY <2>1, AgoType
<1>8. \A c \in Columns : W[c] \in Int
  BY InWindowType
<1> HIDE DEF A, B, W, V, n0
<1> DEFINE T == {n \in Nat : \A x \in 1 .. Length : x + n = Length => B[x] = A[x - 1] - A[Top]}
<1>9. 0 \in T
  <2> SUFFICES ASSUME NEW x \in 1 .. Length, x + 0 = Length PROVE B[x] = A[x - 1] - A[Top]
    OBVIOUS
  <2>1. x = Length /\ x - 1 = Top
    BY <1>1
  <2>2. B[Length] = 0 /\ A[Top] \in Int
    BY <1>1, <1>4, <1>5
  <2> QED
    BY <2>1, <2>2
<1>10. ASSUME NEW n \in Nat, n \in T PROVE n + 1 \in T
  <2> SUFFICES ASSUME NEW x \in 1 .. Length, x + (n + 1) = Length PROVE B[x] = A[x - 1] - A[Top]
    OBVIOUS
  <2>1. /\ x \in 0 .. Length /\ x # Length /\ x + 1 \in 1 .. Length /\ (x + 1) + n = Length
        /\ x - 1 \in 0 .. Length /\ x - 1 # Length /\ (x - 1) + 1 = x /\ (x + 1) - 1 = x
        /\ x - 1 \in 0 .. Top /\ x - 1 # Top /\ x \in Columns /\ x - 1 \in Columns
    BY <1>1
  <2>2. B[x + 1] = A[x] - A[Top]
    BY <1>10, <2>1
  <2>3. B[x] = V[x] + B[x + 1] /\ A[x - 1] = W[x - 1] + A[x]
    BY <1>4, <1>5, <2>1
  <2>4. V[x] = W[x - 1]
    BY <1>6, <2>1
  <2>5. W[x - 1] \in Int /\ A[x] \in Int /\ A[Top] \in Int
    BY <1>1, <1>4, <1>8, <2>1
  <2> QED
    BY <2>2, <2>3, <2>4, <2>5
<1>11. Nat \subseteq T
  <2> HIDE DEF T
  <2> QED
    BY <1>9, <1>10, SetInduction
<1>12. ASSUME NEW x \in 1 .. Length PROVE B[x] = A[x - 1] - A[Top]
  <2>1. Length - x \in Nat /\ x + (Length - x) = Length
    BY <1>1
  <2> QED
    BY <1>11, <2>1
<1>13. B[0] = n0 + (A[0] - A[Top])
  <2>1. 0 \in 0 .. Length /\ 0 # Length /\ 0 + 1 = 1 /\ 1 \in 1 .. Length /\ 1 - 1 = 0
    BY <1>1
  <2>2. B[0] = V[0] + B[1] /\ B[1] = A[0] - A[Top]
    BY <1>5, <1>12, <2>1
  <2> QED
    BY <1>6, <2>2
<1>14. 0 \in 0 .. Length /\ \A x \in 1 .. Length : x \in 0 .. Length /\ x - 1 \in 0 .. Length
  BY <1>1
<1> QED
  BY <1>1, <1>12, <1>13, <1>14 DEF A, B, n0

----------------------------------------------------------------------------
\* f adds up the terms of a from the top down.
Stacks(f, a, N) == \A y \in 0 .. N : y # N => f[y] = a[y] + f[y + 1]

Agree(a, b, N) == \A y \in 0 .. N : y # N => a[y] = b[y]

\* Two sums are equal when their terms are.
LEMMA SumsAgree ==
  ASSUME NEW N \in Nat, NEW f, NEW g, NEW a, NEW b,
         f[N] = g[N], Stacks(f, a, N), Stacks(g, b, N), Agree(a, b, N)
  PROVE  \A y \in 0 .. N : f[y] = g[y]
<1> DEFINE T == {n \in Nat : \A y \in 0 .. N : y + n = N => f[y] = g[y]}
<1>1. 0 \in T
  <2> SUFFICES ASSUME NEW y \in 0 .. N, y + 0 = N PROVE f[y] = g[y]
    OBVIOUS
  <2>1. y = N
    OBVIOUS
  <2> QED
    BY <2>1
<1>2. ASSUME NEW n \in Nat, n \in T PROVE n + 1 \in T
  <2> SUFFICES ASSUME NEW y \in 0 .. N, y + (n + 1) = N PROVE f[y] = g[y]
    OBVIOUS
  <2>1. y # N /\ y + 1 \in 0 .. N /\ (y + 1) + n = N
    OBVIOUS
  <2>2. f[y + 1] = g[y + 1]
    BY <1>2, <2>1
  <2> QED
    BY <2>1, <2>2 DEF Stacks, Agree
<1>3. Nat \subseteq T
  <2> HIDE DEF T
  <2> QED
    BY <1>1, <1>2, SetInduction
<1> SUFFICES ASSUME NEW y \in 0 .. N PROVE f[y] = g[y]
  OBVIOUS
<1>4. N - y \in Nat /\ y + (N - y) = N
  OBVIOUS
<1> QED
  BY <1>3, <1>4

\* While no pixel is taken the sums stay.
LEMMA SumsStay ==
  ASSUME taken \in Seq(Pixels), taken' = taken
  PROVE  \A y \in 0 .. Length, x \in 0 .. Length : Integral(y, x)' = Integral(y, x)
<1>1. (taken \in Seq(Pixels))'
  OBVIOUS
<1>2. SumFacts /\ SumFacts'
  BY <1>1, Sums, SumsNext
<1>3. Length \in Nat /\ Rows = 0 .. Length - 1
  BY MemoryAssumption DEF Rows
<1>4. ASSUME NEW r \in Rows PROVE \A x \in 0 .. Length : RowSum(r, x)' = RowSum(r, x)
  <2> DEFINE f == [x \in 0 .. Length |-> RowSum(r, x)']
             g == [x \in 0 .. Length |-> RowSum(r, x)]
             a == [x \in 0 .. Length |-> InWindow(r, x)']
             b == [x \in 0 .. Length |-> InWindow(r, x)]
  <2>1. \A x \in 0 .. Length : a[x] = b[x]
    BY DEF InWindow, Ago
  <2>2. \A x \in 0 .. Length : x # Length => x + 1 \in 0 .. Length
    BY <1>3
  <2>3. \A x \in 0 .. Length : x # Length => f[x] = a[x] + f[x + 1] /\ g[x] = b[x] + g[x + 1]
    BY <1>2, <2>2 DEF SumFacts
  <2>4. f[Length] = 0 /\ g[Length] = 0
    BY <1>2, <1>3 DEF SumFacts
  <2>5. \A x \in 0 .. Length : f[x] = g[x]
    <3> HIDE DEF f, g, a, b
    <3>1. Stacks(f, a, Length) /\ Stacks(g, b, Length) /\ Agree(a, b, Length)
      BY <2>1, <2>3 DEF Stacks, Agree
    <3>2. Length \in Nat /\ f[Length] = g[Length]
      BY <1>3, <2>4
    <3> QED
      BY <3>1, <3>2, SumsAgree
  <2> QED
    BY <2>5
<1>5. ASSUME NEW x \in 0 .. Length PROVE \A y \in 0 .. Length : Integral(y, x)' = Integral(y, x)
  <2> DEFINE f == [y \in 0 .. Length |-> Integral(y, x)']
             g == [y \in 0 .. Length |-> Integral(y, x)]
             a == [y \in 0 .. Length |-> RowSum(y, x)']
             b == [y \in 0 .. Length |-> RowSum(y, x)]
  <2>1. \A y \in 0 .. Length : y # Length => y \in Rows /\ y + 1 \in 0 .. Length
    BY <1>3
  <2>2. \A y \in 0 .. Length : y # Length => a[y] = b[y]
    BY <1>4, <2>1
  <2>3. \A y \in 0 .. Length : y # Length => f[y] = a[y] + f[y + 1] /\ g[y] = b[y] + g[y + 1]
    BY <1>2, <2>1 DEF SumFacts
  <2>4. f[Length] = 0 /\ g[Length] = 0
    BY <1>2, <1>3 DEF SumFacts
  <2>5. \A y \in 0 .. Length : f[y] = g[y]
    <3> HIDE DEF f, g, a, b
    <3>1. Stacks(f, a, Length) /\ Stacks(g, b, Length) /\ Agree(a, b, Length)
      BY <2>2, <2>3 DEF Stacks, Agree
    <3>2. Length \in Nat /\ f[Length] = g[Length]
      BY <1>3, <2>4
    <3> QED
      BY <3>1, <3>2, SumsAgree
  <2> QED
    BY <2>5
<1> QED
  BY <1>5

\* A row that no pixel has come out of holds nothing of the window.
LEMMA EmptyRows ==
  ASSUME taken \in Seq(Pixels), NEW z \in Rows, Len(taken) <= (z + 1) * FrameWidth,
         NEW x \in 0 .. Length
  PROVE  Integral(z, x) = 0
<1>1. SumFacts
  BY Sums
<1>2. Length \in Nat /\ Rows = 0 .. Length - 1 /\ FrameWidth \in Nat \ {0} /\ Len(taken) \in Nat
  BY MemoryAssumption DEF Rows
<1>3. ASSUME NEW r \in Rows, r >= z, NEW c \in 0 .. Length PROVE InWindow(r, c) = 0
  <2>1. (r + 1) * FrameWidth >= (z + 1) * FrameWidth /\ (r + 1) * FrameWidth \in Nat
    <3>1. r \in Nat /\ z \in Nat
      BY <1>2
    <3>2. PICK k \in Nat : r = z + k
      <4>1. r - z \in Nat /\ r = z + (r - z)
        BY <1>3, <3>1
      <4> QED
        BY <4>1
    <3>3. (r + 1) * FrameWidth = (z + 1) * FrameWidth + k * FrameWidth
      BY <1>2, <3>1, <3>2
    <3>4. k * FrameWidth \in Nat /\ (z + 1) * FrameWidth \in Nat
      BY <1>2, <3>1, <3>2
    <3> QED
      BY <3>3, <3>4
  <2> DEFINE b == (r + 1) * FrameWidth
             d == (z + 1) * FrameWidth
  <2>2. b \in Nat /\ b >= d /\ d \in Int /\ Len(taken) <= d
    BY <1>2, <2>1
  <2>3. InWindow(r, c) = IF b + c < Len(taken) THEN taken[Len(taken) - (b + c)] ELSE 0
    BY DEF InWindow, Ago
  <2> HIDE DEF b, d
  <2>4. ~(b + c < Len(taken))
    BY <1>2, <2>2
  <2> QED
    BY <2>3, <2>4
<1>4. ASSUME NEW r \in Rows, r >= z PROVE \A c \in 0 .. Length : RowSum(r, c) = 0
  <2> DEFINE f == [c \in 0 .. Length |-> RowSum(r, c)]
             g == [c \in 0 .. Length |-> 0]
  <2>1. \A c \in 0 .. Length : c # Length => c + 1 \in 0 .. Length
    BY <1>2
  <2>2. \A c \in 0 .. Length : c # Length => f[c] = g[c] + f[c + 1] /\ g[c] = g[c] + g[c + 1]
    BY <1>1, <1>3, <1>4, <2>1 DEF SumFacts
  <2>3. f[Length] = g[Length]
    BY <1>1, <1>2 DEF SumFacts
  <2>4. \A c \in 0 .. Length : f[c] = g[c]
    <3> HIDE DEF f, g
    <3>1. Stacks(f, g, Length) /\ Stacks(g, g, Length) /\ Agree(g, g, Length)
      BY <2>2 DEF Stacks, Agree
    <3>2. Length \in Nat
      BY <1>2
    <3> QED
      BY <2>3, <3>1, <3>2, SumsAgree
  <2> QED
    BY <2>4
<1> DEFINE T == {n \in Nat : \A y \in 0 .. Length : y >= z /\ y + n = Length => Integral(y, x) = 0}
<1>6. 0 \in T
  <2> SUFFICES ASSUME NEW y \in 0 .. Length, y + 0 = Length PROVE Integral(y, x) = 0
    OBVIOUS
  <2>1. y = Length
    BY <1>2
  <2> QED
    BY <1>1, <2>1 DEF SumFacts
<1>7. ASSUME NEW n \in Nat, n \in T PROVE n + 1 \in T
  <2> SUFFICES ASSUME NEW y \in 0 .. Length, y >= z, y + (n + 1) = Length PROVE Integral(y, x) = 0
    OBVIOUS
  <2>1. y # Length /\ y \in Rows /\ y + 1 \in 0 .. Length /\ y + 1 >= z /\ (y + 1) + n = Length
    BY <1>2
  <2>2. Integral(y + 1, x) = 0 /\ RowSum(y, x) = 0
    BY <1>4, <1>7, <2>1
  <2>3. Integral(y, x) = RowSum(y, x) + Integral(y + 1, x)
    BY <1>1, <2>1 DEF SumFacts
  <2> QED
    BY <2>2, <2>3
<1>8. Nat \subseteq T
  <2> HIDE DEF T
  <2> QED
    BY <1>6, <1>7, SetInduction
<1>9. z \in 0 .. Length /\ Length - z \in Nat /\ z + (Length - z) = Length /\ z >= z
  BY <1>2
<1> QED
  BY <1>8, <1>9

RowsEmpty ==
  \A z \in Rows, x \in 0 .. Length : Len(taken) <= (z + 1) * FrameWidth => Integral(z, x) = 0

LEMMA RowsAreEmpty == taken \in Seq(Pixels) => RowsEmpty
  BY EmptyRows DEF RowsEmpty

LEMMA EmptyRowsNext ==
  ASSUME (taken \in Seq(Pixels))', NEW z \in Rows, Len(taken') <= (z + 1) * FrameWidth,
         NEW x \in 0 .. Length
  PROVE  Integral(z, x)' = 0
<1>1. (taken \in Seq(Pixels))' => RowsEmpty'
  BY RowsAreEmpty, PTL
<1> QED
  BY <1>1 DEF RowsEmpty

\* The window slides by a pixel: what the FIFOs gave last enters the sums of column 0,
\* and the oldest column leaves every sum.
LEMMA IntegralSlides ==
  ASSUME taken \in Seq(Pixels), NEW pixel \in Pixels, taken' = Append(taken, pixel),
         fifo_data_out \in [Rows -> Words],
         \A r \in Rows : fifo_data_out[r] = Ago((r + 1) * FrameWidth - 1)
  PROVE  /\ \A y \in Rows :
              Integral(y, 0)' = fifo_data_out[y] + fifo_reduction_sum[y]
                                + (Integral(y, 0) - Integral(y, Top))
         /\ \A y \in Rows, x \in 1 .. Length :
              Integral(y, x)' = Integral(y, x - 1) - Integral(y, Top)
<1>1. SumFacts /\ SumFacts'
  <2>1. (taken \in Seq(Pixels))'
    BY AgoTake
  <2> QED
    BY <2>1, Sums, SumsNext
<1>2. /\ Length \in Nat /\ 0 \in 0 .. Length /\ Top \in 0 .. Length /\ Length \in 0 .. Length
      /\ \A y \in Rows : y \in 0 .. Length
      /\ \A y \in 0 .. Length : y # Length => y \in Rows /\ y + 1 \in 0 .. Length
      /\ \A y \in Rows : y # Top => y + 1 # Length
      /\ Top + 1 = Length
  BY MemoryAssumption DEF Rows, Top
<1>3. ASSUME NEW x \in 1 .. Length
      PROVE  \A y \in 0 .. Length : Integral(y, x)' = Integral(y, x - 1) - Integral(y, Top)
  <2> DEFINE f == [y \in 0 .. Length |-> Integral(y, x)']
             g == [y \in 0 .. Length |-> Integral(y, x - 1) - Integral(y, Top)]
             a == [y \in 0 .. Length |-> RowSum(y, x)']
             b == [y \in 0 .. Length |-> RowSum(y, x - 1) - RowSum(y, Top)]
  <2>1. x \in 0 .. Length /\ x - 1 \in 0 .. Length
    BY <1>2
  <2>2. Stacks(f, a, Length)
    <3>1. \A y \in 0 .. Length : y # Length => Integral(y, x)' = RowSum(y, x)' + Integral(y + 1, x)'
      BY <1>1, <2>1 DEF SumFacts
    <3> QED
      BY <1>2, <3>1 DEF Stacks
  <2>3. Stacks(g, b, Length)
    <3> SUFFICES ASSUME NEW y \in 0 .. Length, y # Length PROVE g[y] = b[y] + g[y + 1]
      BY DEF Stacks
    <3>1. /\ Integral(y, x - 1) = RowSum(y, x - 1) + Integral(y + 1, x - 1)
          /\ Integral(y, Top) = RowSum(y, Top) + Integral(y + 1, Top)
      BY <1>1, <1>2, <2>1 DEF SumFacts
    <3>2. /\ RowSum(y, x - 1) \in Int /\ Integral(y + 1, x - 1) \in Int
          /\ RowSum(y, Top) \in Int /\ Integral(y + 1, Top) \in Int
      BY <1>1, <1>2, <2>1 DEF SumFacts
    <3>3. y + 1 \in 0 .. Length
      BY <1>2
    <3>4. /\ g[y] = Integral(y, x - 1) - Integral(y, Top)
          /\ b[y] = RowSum(y, x - 1) - RowSum(y, Top)
          /\ g[y + 1] = Integral(y + 1, x - 1) - Integral(y + 1, Top)
      BY <3>3
    <3> HIDE DEF g, b
    <3> QED
      BY <3>1, <3>2, <3>4
  <2>4. Agree(a, b, Length)
    <3> SUFFICES ASSUME NEW y \in 0 .. Length, y # Length PROVE a[y] = b[y]
      BY DEF Agree
    <3>1. RowSum(y, x)' = RowSum(y, x - 1) - RowSum(y, Top)
      BY <1>2, RowSlides
    <3> QED
      BY <3>1
  <2>5. f[Length] = g[Length]
    <3>1. Integral(Length, x)' = 0
      BY <1>1, <1>2, <2>1 DEF SumFacts
    <3>2. Integral(Length, x - 1) = 0 /\ Integral(Length, Top) = 0
      BY <1>1, <1>2, <2>1 DEF SumFacts
    <3> QED
      BY <1>2, <3>1, <3>2
  <2>6. \A y \in 0 .. Length : f[y] = g[y]
    <3> HIDE DEF f, g, a, b
    <3> QED
      BY <1>2, <2>2, <2>3, <2>4, <2>5, SumsAgree
  <2> QED
    BY <2>6
<1>4. \A y \in Rows :
        Integral(y, 0)' = fifo_data_out[y] + fifo_reduction_sum[y]
                          + (Integral(y, 0) - Integral(y, Top))
  <2> DEFINE D == [y \in 0 .. Length |-> IF y = Length THEN 0
                                         ELSE fifo_data_out[y] + fifo_reduction_sum[y]]
             f == [y \in 0 .. Length |-> Integral(y, 0)']
             g == [y \in 0 .. Length |-> D[y] + (Integral(y, 0) - Integral(y, Top))]
             a == [y \in 0 .. Length |-> RowSum(y, 0)']
             b == [y \in 0 .. Length |-> fifo_data_out[y] + (RowSum(y, 0) - RowSum(y, Top))]
  <2>1. \A y \in Rows : fifo_data_out[y] \in Int
    BY DEF Words
  <2>2. Stacks(f, a, Length)
    <3>1. \A y \in 0 .. Length : y # Length => Integral(y, 0)' = RowSum(y, 0)' + Integral(y + 1, 0)'
      BY <1>1, <1>2 DEF SumFacts
    <3> QED
      BY <1>2, <3>1 DEF Stacks
  <2>3. ASSUME NEW y \in 0 .. Length, y # Length
        PROVE  D[y] = fifo_data_out[y] + D[y + 1] /\ D[y] \in Int /\ D[y + 1] \in Int
    <3>1. y \in Rows /\ y + 1 \in 0 .. Length
      BY <1>2, <2>3
    <3>2. fifo_reduction_sum[y] \in Int /\ fifo_data_out[y] \in Int
      BY <2>1, <3>1, ReductionFacts
    <3>3. D[y] = fifo_data_out[y] + fifo_reduction_sum[y]
      BY <2>3
    <3>4. CASE y = Top
      <4>1. D[y + 1] = 0 /\ fifo_reduction_sum[y] = 0
        BY <1>2, <3>1, <3>4, ReductionFacts
      <4> HIDE DEF D
      <4> QED
        BY <3>2, <3>3, <4>1
    <3>5. CASE y # Top
      <4>1. /\ y + 1 \in Rows /\ y + 1 # Length
            /\ fifo_reduction_sum[y] = fifo_reduction_sum[y + 1] + fifo_data_out[y + 1]
        BY <1>2, <3>1, <3>5, ReductionFacts
      <4>2. fifo_reduction_sum[y + 1] \in Int /\ fifo_data_out[y + 1] \in Int
        BY <2>1, <4>1, ReductionFacts
      <4>3. D[y + 1] = fifo_data_out[y + 1] + fifo_reduction_sum[y + 1]
        BY <3>1, <4>1
      <4> HIDE DEF D
      <4> QED
        BY <3>2, <3>3, <4>1, <4>2, <4>3
    <3> QED
      BY <3>4, <3>5
  <2> HIDE DEF D
  <2>4. Stacks(g, b, Length)
    <3> SUFFICES ASSUME NEW y \in 0 .. Length, y # Length PROVE g[y] = b[y] + g[y + 1]
      BY DEF Stacks
    <3>1. /\ Integral(y, 0) = RowSum(y, 0) + Integral(y + 1, 0)
          /\ Integral(y, Top) = RowSum(y, Top) + Integral(y + 1, Top)
      BY <1>1, <1>2 DEF SumFacts
    <3>2. /\ RowSum(y, 0) \in Int /\ Integral(y + 1, 0) \in Int
          /\ RowSum(y, Top) \in Int /\ Integral(y + 1, Top) \in Int
      BY <1>1, <1>2 DEF SumFacts
    <3>3. y + 1 \in 0 .. Length /\ y \in Rows
      BY <1>2
    <3>4. /\ g[y] = D[y] + (Integral(y, 0) - Integral(y, Top))
          /\ b[y] = fifo_data_out[y] + (RowSum(y, 0) - RowSum(y, Top))
          /\ g[y + 1] = D[y + 1] + (Integral(y + 1, 0) - Integral(y + 1, Top))
      BY <3>3
    <3>5. D[y] = fifo_data_out[y] + D[y + 1] /\ D[y + 1] \in Int /\ fifo_data_out[y] \in Int
      BY <2>1, <2>3, <3>3
    <3> HIDE DEF g, b
    <3> QED
      BY <3>1, <3>2, <3>4, <3>5
  <2>5. Agree(a, b, Length)
    <3> SUFFICES ASSUME NEW y \in 0 .. Length, y # Length PROVE a[y] = b[y]
      BY DEF Agree
    <3>1. y \in Rows
      BY <1>2
    <3>2. RowSum(y, 0)' = Ago((y + 1) * FrameWidth - 1) + (RowSum(y, 0) - RowSum(y, Top))
      BY <3>1, RowSlides
    <3>3. fifo_data_out[y] = Ago((y + 1) * FrameWidth - 1)
      BY <3>1
    <3> QED
      BY <3>2, <3>3
  <2>6. f[Length] = g[Length]
    <3>1. Integral(Length, 0)' = 0
      BY <1>1, <1>2 DEF SumFacts
    <3>2. Integral(Length, 0) = 0 /\ Integral(Length, Top) = 0
      BY <1>1, <1>2 DEF SumFacts
    <3>3. D[Length] = 0
      BY <1>2 DEF D
    <3> QED
      BY <1>2, <3>1, <3>2, <3>3
  <2>7. \A y \in 0 .. Length : f[y] = g[y]
    <3> HIDE DEF f, g, a, b
    <3> QED
      BY <1>2, <2>2, <2>4, <2>5, <2>6, SumsAgree
  <2> SUFFICES ASSUME NEW y \in Rows
               PROVE  Integral(y, 0)' = fifo_data_out[y] + fifo_reduction_sum[y]
                                        + (Integral(y, 0) - Integral(y, Top))
    OBVIOUS
  <2>8. y \in 0 .. Length /\ y # Length
    BY MemoryAssumption DEF Rows
  <2>9. Integral(y, 0)' = D[y] + (Integral(y, 0) - Integral(y, Top))
    BY <2>7, <2>8
  <2>10. D[y] = fifo_data_out[y] + fifo_reduction_sum[y]
    BY <2>8 DEF D
  <2> QED
    BY <2>9, <2>10, Zenon
<1> QED
  BY <1>2, <1>3, <1>4

\* A register holds a sum modulo its width.
LEMMA ModFacts ==
  ASSUME NEW a \in Int
  PROVE  /\ a % Modulus \in Words
         /\ \E k \in Int : a % Modulus = a + k * Modulus
<1>1. Modulus \in Nat \ {0}
  BY MemoryAssumption
<1>2. a % Modulus \in 0 .. Modulus - 1 /\ a \div Modulus \in Int
  BY <1>1
<1>3. a = Modulus * (a \div Modulus) + (a % Modulus)
  BY <1>1
<1>4. -(a \div Modulus) \in Int /\ a % Modulus = a + (-(a \div Modulus)) * Modulus
  BY <1>1, <1>2, <1>3
<1> QED
  BY <1>2, <1>4 DEF Words

LEMMA ModUnique ==
  ASSUME NEW a \in Int, NEW b \in Int, NEW k \in Int, a = b + k * Modulus
  PROVE  a % Modulus = b % Modulus
<1>1. Modulus \in Nat \ {0}
  BY MemoryAssumption
<1>2. PICK i \in Int : a % Modulus = a + i * Modulus
  BY ModFacts
<1>3. PICK j \in Int : b % Modulus = b + j * Modulus
  BY ModFacts
<1>4. a % Modulus \in 0 .. Modulus - 1 /\ b % Modulus \in 0 .. Modulus - 1
  BY ModFacts DEF Words
<1> DEFINE p == a % Modulus
           q == b % Modulus
           d == k + i - j
<1>5. p \in 0 .. Modulus - 1 /\ q \in 0 .. Modulus - 1 /\ d \in Int
  BY <1>4
<1>6. p - q = d * Modulus
  BY <1>1, <1>2, <1>3
<1> HIDE DEF p, q, d
<1>7. d = 0
  <2>1. ~(d >= 1)
    <3> SUFFICES ASSUME d >= 1 PROVE FALSE
      OBVIOUS
    <3>1. d * Modulus >= Modulus
      BY <1>1, <1>5
    <3> QED
      BY <1>1, <1>5, <1>6, <3>1
  <2>2. ~(d <= -1)
    <3> SUFFICES ASSUME d <= -1 PROVE FALSE
      OBVIOUS
    <3>1. d * Modulus <= -Modulus
      BY <1>1, <1>5
    <3> QED
      BY <1>1, <1>5, <1>6, <3>1
  <2> QED
    BY <1>5, <2>1, <2>2
<1>8. p = q
  BY <1>1, <1>5, <1>6, <1>7
<1> QED
  BY <1>8 DEF p, q

----------------------------------------------------------------------------
\* The words of the FIFOs are pixels of the frame: row y begins y frame lines back.
WordsInv ==
  /\ \A y \in Rows :
       fifo_data_out[y] = Ago(IF rested THEN (y + 1) * FrameWidth - 1 ELSE (y + 1) * FrameWidth)
  /\ \A y \in Rows : \A i \in 1 .. Len(fifo[y]) :
       fifo[y][i] = Ago(Before(y) + Len(fifo[y]) - i)

ImageInv ==
  /\ WindowInv
  /\ WordsInv
  /\ row_integral \in [Rows -> [Columns -> Words]]
  /\ IntegralImage
  /\ Len(taken) <= MaxPixels

LEMMA RowEnds ==
  /\ \A y \in Rows : (y + 1) * FrameWidth = Before(y) + FrameWidth
  /\ \A y \in Rows \ {0} : Before(y) = ((y - 1) + 1) * FrameWidth
<1> SUFFICES ASSUME NEW y \in Rows
             PROVE  /\ (y + 1) * FrameWidth = Before(y) + FrameWidth
                    /\ Before(y) = ((y - 1) + 1) * FrameWidth
  OBVIOUS
<1>1. y \in Nat /\ FrameWidth \in Nat
  BY MemoryAssumption DEF Rows
<1>2. (y - 1) + 1 = y
  BY <1>1
<1>3. (y + 1) * FrameWidth = y * FrameWidth + FrameWidth
  BY <1>1
<1> QED
  BY <1>2, <1>3 DEF Before

\* A pixel is appended to row 0, and to every other row what the row below gave last.
LEMMA WordsTake == ASSUME ImageInv, TakePixel PROVE WordsInv'
<1>1. PICK pixel \in Pixels :
        rested /\ rested' = FALSE /\ taken' = Append(taken, pixel) /\ Edge(TRUE, pixel)
  BY DEF TakePixel
<1>2. RowsInv /\ RowsInv'
  BY RowsTake DEF ImageInv, WindowInv
<1>3. /\ taken \in Seq(Pixels) /\ Len(taken) \in Nat /\ Len(taken') = Len(taken) + 1
      /\ Ago(0)' = pixel /\ \A k \in Nat : Ago(k + 1)' = Ago(k)
  BY <1>1, <1>2, AgoTake DEF RowsInv
<1>4. \A y \in Rows : ~fill(y) /\ (row_wen(y, TRUE) <=> Len(taken) >= Before(y))
  BY <1>1, <1>2, FillWhen, WenWhen
<1> DEFINE in(y) == IF y = 0 THEN pixel ELSE fifo_data_out[y - 1]
<1>5. fifo' = [y \in Rows |-> fifo[y] \o (IF row_wen(y, TRUE) THEN <<in(y)>> ELSE <<>>)]
  BY <1>1, <1>4 DEF Edge, FifoEdge
<1>6. fifo_data_out' = fifo_data_out
  BY <1>1, <1>2, <1>4 DEF Edge, FifoEdge, RowsInv
<1>7. \A y \in Rows : fifo_data_out[y] = Ago((y + 1) * FrameWidth - 1)
  BY <1>1 DEF ImageInv, WordsInv
<1>8. \A y \in Rows : (y + 1) * FrameWidth \in Nat \ {0}
  BY RowEnds, BeforeFacts, MemoryAssumption
<1>9. ASSUME NEW y \in Rows PROVE fifo_data_out'[y] = Ago((y + 1) * FrameWidth)'
  <2> DEFINE b == (y + 1) * FrameWidth
  <2>1. b \in Nat \ {0} /\ fifo_data_out'[y] = Ago(b - 1)
    BY <1>6, <1>7, <1>8
  <2>2. Ago((y + 1) * FrameWidth)' = Ago(b)'
    OBVIOUS
  <2> HIDE DEF b
  <2>3. b - 1 \in Nat /\ b = (b - 1) + 1
    BY <2>1
  <2>4. Ago((b - 1) + 1)' = Ago(b - 1)
    BY <1>3, <2>3
  <2> QED
    BY <2>1, <2>2, <2>3, <2>4
<1>10. ASSUME NEW y \in Rows, NEW i \in 1 .. Len(fifo'[y]),
              NEW k, k = Before(y) + Len(fifo'[y]) - i
       PROVE  fifo'[y][i] = Ago(k)'
  <2> DEFINE b == Before(y)
  <2>0. PICK L \in Nat : L = Len(fifo[y]) /\ L = Filled(y, Len(taken))
    BY <1>2 DEF RowsInv
  <2>1. b \in Nat /\ fifo[y] \in Seq(Words) /\ \A j \in 1 .. L : fifo[y][j] = Ago(b + L - j)
    BY <1>2, <2>0, BeforeFacts DEF ImageInv, WordsInv, RowsInv
  <2>2. CASE ~row_wen(y, TRUE)
    <3>1. fifo'[y] = fifo[y] \o <<>>
      BY <1>5, <2>2
    <3>2. fifo'[y] = fifo[y]
      BY <2>1, <3>1
    <3>a. ~(Len(taken) >= Before(y))
      BY <1>4, <2>2, Zenon
    <3>3. Len(taken) < Before(y)
      BY <1>3, <2>1, <3>a
    <3>4. L = 0
      BY <2>0, <3>3 DEF Filled
    <3>5. Len(fifo'[y]) = 0
      BY <2>0, <3>2, <3>4
    <3>6. i \in 1 .. 0
      BY <3>5
    <3> QED
      BY <3>6
  <2>3. CASE row_wen(y, TRUE)
    <3>1. fifo'[y] = fifo[y] \o <<in(y)>>
      BY <1>5, <2>3
    <3>a. in(y) \in Words
      BY <1>2, MemoryAssumption, BeforeFacts DEF RowsInv, Words
    <3> HIDE DEF in
    <3>2. /\ Len(fifo'[y]) = L + 1 /\ fifo'[y][L + 1] = in(y)
          /\ \A j \in 1 .. L : fifo'[y][j] = fifo[y][j]
      <4>1. fifo[y] \in Seq(Words) /\ <<in(y)>> \in Seq(Words)
        BY <2>1, <3>a
      <4>2. ASSUME NEW s \in Seq(Words), NEW e \in Words
            PROVE  /\ Len(s \o <<e>>) = Len(s) + 1 /\ (s \o <<e>>)[Len(s) + 1] = e
                   /\ \A j \in 1 .. Len(s) : (s \o <<e>>)[j] = s[j]
        OBVIOUS
      <4>3. PICK s \in Seq(Words), e \in Words : s = fifo[y] /\ e = in(y)
        BY <3>a, <4>1
      <4>4. fifo'[y] = s \o <<e>> /\ L = Len(s)
        BY <2>0, <3>1, <4>3
      <4>5. Len(fifo'[y]) = L + 1 /\ fifo'[y][L + 1] = e /\ \A j \in 1 .. L : fifo'[y][j] = s[j]
        BY <4>2, <4>4
      <4> QED
        BY <4>3, <4>5
    <3>0. k = b + (L + 1) - i
      BY <1>10, <3>2
    <3> HIDE DEF b
    <3>3. CASE i \in 1 .. L
      <4>1. b + L - i \in Nat /\ k = (b + L - i) + 1
        BY <2>1, <3>0, <3>3
      <4>2. Ago((b + L - i) + 1)' = Ago(b + L - i)
        BY <1>3, <4>1
      <4>3. fifo'[y][i] = Ago(b + L - i)
        BY <2>1, <3>2, <3>3
      <4> QED
        BY <4>1, <4>2, <4>3
    <3>4. CASE i = L + 1
      <4>1. k = b
        BY <2>1, <3>0, <3>4
      <4>2. in(y) = Ago(b)'
        <5>1. CASE y = 0
          <6>1. b = 0
            BY <5>1, BeforeFacts DEF b
          <6> QED
            BY <1>3, <5>1, <6>1 DEF in
        <5>2. CASE y # 0
          <6>1. y - 1 \in Rows /\ b = ((y - 1) + 1) * FrameWidth
            BY <5>2, RowEnds, BeforeFacts DEF b
          <6>2. in(y) = Ago(b - 1) /\ b \in Nat \ {0}
            BY <1>7, <1>8, <5>2, <6>1 DEF in
          <6>3. b - 1 \in Nat /\ b = (b - 1) + 1
            BY <6>2
          <6>4. Ago((b - 1) + 1)' = Ago(b - 1)
            BY <1>3, <6>3
          <6> QED
            BY <6>2, <6>3, <6>4
        <5> QED
          BY <5>1, <5>2
      <4> QED
        BY <3>2, <3>4, <4>1, <4>2
    <3>5. i \in 1 .. L \/ i = L + 1
      BY <3>2
    <3> QED
      BY <3>3, <3>4, <3>5
  <2> QED
    BY <2>2, <2>3
<1>11. ~rested'
  BY <1>1
<1>12. \A y \in Rows :
         (fifo_data_out[y] = Ago(IF rested THEN (y + 1) * FrameWidth - 1 ELSE (y + 1) * FrameWidth))'
  <2> TAKE y \in Rows
  <2>1. Ago(IF rested THEN (y + 1) * FrameWidth - 1 ELSE (y + 1) * FrameWidth)'
          = Ago((y + 1) * FrameWidth)'
    BY <1>11 DEF Ago
  <2> QED
    BY <1>9, <2>1
<1>13. \A y \in Rows : \A i \in 1 .. Len(fifo'[y]) :
         (fifo[y][i] = Ago(Before(y) + Len(fifo[y]) - i))'
  <2> TAKE y \in Rows
  <2> TAKE i \in 1 .. Len(fifo'[y])
  <2>1. PICK k : k = Before(y) + Len(fifo'[y]) - i
    OBVIOUS
  <2>2. Ago(Before(y) + Len(fifo[y]) - i)' = Ago(k)'
    BY <2>1 DEF Ago, Before
  <2> QED
    BY <1>10, <2>1, <2>2
<1> QED
  BY <1>12, <1>13 DEF WordsInv, Before

\* A full row gives its oldest word.
LEMMA WordsRest == ASSUME ImageInv, Rest PROVE WordsInv'
<1>1. rested' = TRUE /\ taken' = taken /\ FifoEdge(FALSE, 0)
  BY DEF Rest, Edge
<1>2. RowsInv /\ WordsInv /\ taken \in Seq(Pixels) /\ Len(taken) \in Nat /\ rested \in BOOLEAN
  BY DEF ImageInv, WindowInv, RowsInv
<1>3. /\ fifo' = [y \in Rows |-> (IF fill(y) THEN Tail(fifo[y]) ELSE fifo[y]) \o <<>>]
      /\ fifo_data_out' = [y \in Rows |-> IF fill(y) THEN Head(fifo[y]) ELSE fifo_data_out[y]]
  BY <1>1 DEF FifoEdge, row_wen
<1>4. ASSUME NEW k PROVE Ago(k)' = Ago(k)
  BY <1>1 DEF Ago
<1>5. ASSUME NEW y \in Rows
      PROVE  /\ fifo_data_out'[y] = Ago((y + 1) * FrameWidth - 1)
             /\ \A i \in 1 .. Len(fifo'[y]) : fifo'[y][i] = Ago(Before(y) + Len(fifo'[y]) - i)
  <2> DEFINE b == Before(y)
             L == Len(fifo[y])
             W == FrameWidth
  <2>1. /\ b \in Nat /\ L \in Nat /\ fifo[y] \in Seq(Words) /\ \A j \in 1 .. L : fifo[y][j] = Ago(b + L - j)
        /\ (y + 1) * FrameWidth = b + W
        /\ W \in Nat \ {0}
    BY <1>2, BeforeFacts, RowEnds, MemoryAssumption DEF WordsInv, RowsInv
  <2>2. CASE fill(y)
    <3>1. L = W
      BY <2>2 DEF fill
    <3>2. fifo'[y] = Tail(fifo[y]) \o <<>> /\ fifo_data_out'[y] = Head(fifo[y])
      BY <1>3, <2>2
    <3>3. /\ Len(fifo'[y]) = W - 1 /\ Head(fifo[y]) = fifo[y][1]
          /\ \A j \in 1 .. W - 1 : fifo'[y][j] = fifo[y][j + 1]
      BY <2>1, <3>1, <3>2
    <3> HIDE DEF b, L, W
    <3>4. fifo_data_out'[y] = Ago(b + W - 1)
      BY <2>1, <3>1, <3>2, <3>3
    <3>5. ASSUME NEW i \in 1 .. W - 1 PROVE fifo'[y][i] = Ago(b + (W - 1) - i)
      <4>1. i + 1 \in 1 .. L /\ b + L - (i + 1) = b + (W - 1) - i
        BY <2>1, <3>1
      <4>2. fifo[y][i + 1] = Ago(b + L - (i + 1))
        BY <2>1, <4>1
      <4> QED
        BY <3>3, <4>1, <4>2
    <3> QED
      BY <2>1, <3>3, <3>4, <3>5 DEF b
  <2>3. CASE ~fill(y)
    <3>1. fifo'[y] = fifo[y] \o <<>> /\ fifo_data_out'[y] = fifo_data_out[y]
      BY <1>3, <2>3
    <3>2. fifo'[y] = fifo[y]
      BY <2>1, <3>1
    <3>3. fifo_data_out[y] = Ago(b + W - 1)
      <4>1. CASE rested
        BY <1>2, <2>1, <4>1 DEF WordsInv
      <4>2. CASE ~rested
        <5>1. ~(Len(taken) >= b + W)
          BY <1>2, <2>3, <4>2, FillWhen
        <5>2. fifo_data_out[y] = Ago(b + W)
          BY <1>2, <2>1, <4>2 DEF WordsInv
        <5> HIDE DEF b, W
        <5>3. ~(b + W < Len(taken)) /\ ~(b + W - 1 < Len(taken))
          BY <1>2, <2>1, <5>1
        <5> QED
          BY <5>2, <5>3 DEF Ago
      <4> QED
        BY <1>2, <4>1, <4>2
    <3> QED
      BY <2>1, <3>1, <3>2, <3>3
  <2> QED
    BY <2>2, <2>3
<1>6. \A y \in Rows :
        (fifo_data_out[y] = Ago(IF rested THEN (y + 1) * FrameWidth - 1 ELSE (y + 1) * FrameWidth))'
  <2> TAKE y \in Rows
  <2>1. Ago(IF rested THEN (y + 1) * FrameWidth - 1 ELSE (y + 1) * FrameWidth)'
          = Ago((y + 1) * FrameWidth - 1)
    BY <1>1 DEF Ago
  <2> QED
    BY <1>5, <2>1
<1>7. \A y \in Rows : \A i \in 1 .. Len(fifo'[y]) :
        (fifo[y][i] = Ago(Before(y) + Len(fifo[y]) - i))'
  <2> TAKE y \in Rows
  <2> TAKE i \in 1 .. Len(fifo'[y])
  <2>1. PICK k : k = Before(y) + Len(fifo'[y]) - i
    OBVIOUS
  <2>2. Ago(Before(y) + Len(fifo[y]) - i)' = Ago(k)'
    BY <2>1 DEF Ago, Before
  <2> QED
    BY <1>4, <1>5, <2>1, <2>2
<1> QED
  BY <1>6, <1>7 DEF WordsInv, Before

\* A register that takes the sum of registers takes the sum of what they stand for.
LEMMA RegisterSums ==
  ASSUME NEW s \in Int, NEW p \in Int, NEW q \in Int
  PROVE  /\ (s + ((p % Modulus) - (q % Modulus))) % Modulus = (s + (p - q)) % Modulus
         /\ ((p % Modulus) - (q % Modulus)) % Modulus = (p - q) % Modulus
<1>1. PICK i \in Int : p % Modulus = p + i * Modulus
  BY ModFacts
<1>2. PICK j \in Int : q % Modulus = q + j * Modulus
  BY ModFacts
<1> DEFINE u == p % Modulus
           v == q % Modulus
           m == Modulus
<1>3. m \in Int /\ u = p + i * m /\ v = q + j * m
  BY <1>1, <1>2, MemoryAssumption
<1> HIDE DEF u, v, m
<1>4. i - j \in Int /\ (i - j) * m = i * m - j * m /\ i * m \in Int /\ j * m \in Int
  BY <1>3
<1>5. s + (u - v) = (s + (p - q)) + (i - j) * m /\ u - v = (p - q) + (i - j) * m
  BY <1>3, <1>4
<1>6. /\ s + (u - v) \in Int /\ u - v \in Int
      /\ s + (p - q) \in Int /\ p - q \in Int /\ i - j \in Int
  BY <1>3, <1>4
<1>7. \A a, b, k \in Int : a = b + k * Modulus => a % Modulus = b % Modulus
  BY ModUnique
<1>8. (s + (u - v)) % Modulus = (s + (p - q)) % Modulus
  BY <1>5, <1>6, <1>7 DEF m
<1>9. (u - v) % Modulus = (p - q) % Modulus
  BY <1>5, <1>6, <1>7 DEF m
<1> QED
  BY <1>8, <1>9 DEF u, v

\* A pixel slides the window in the rows it reaches; the others hold nothing yet.
LEMMA ImageTake ==
  ASSUME ImageInv, TakePixel
  PROVE  /\ row_integral' \in [Rows -> [Columns -> Words]]
         /\ IntegralImage'
<1>1. PICK pixel \in Pixels :
        rested /\ rested' = FALSE /\ taken' = Append(taken, pixel) /\ Edge(TRUE, pixel)
  BY DEF TakePixel
<1>2. RowsInv /\ IntegralImage /\ taken \in Seq(Pixels) /\ fifo_data_out \in [Rows -> Words]
      /\ row_integral \in [Rows -> [Columns -> Words]]
  BY DEF ImageInv, WindowInv, RowsInv
<1>3. \A r \in Rows : fifo_data_out[r] = Ago((r + 1) * FrameWidth - 1)
  BY <1>1 DEF ImageInv, WordsInv
<1>4. row_integral' = [y \in Rows |->
        IF row_wen(y, TRUE) THEN [x \in Columns |-> row_integral_next(y, x)] ELSE row_integral[y]]
  BY <1>1 DEF Edge, RowEdge
<1>5. (taken \in Seq(Pixels))' /\ Len(taken') = Len(taken) + 1 /\ Len(taken) \in Nat
  BY <1>1, <1>2, AgoTake
<1>6. SumFacts /\ SumFacts'
  BY <1>2, <1>5, Sums, SumsNext
<1>7. /\ \A y \in Rows :
           Integral(y, 0)' = fifo_data_out[y] + fifo_reduction_sum[y]
                             + (Integral(y, 0) - Integral(y, Top))
      /\ \A y \in Rows, x \in 1 .. Length :
           Integral(y, x)' = Integral(y, x - 1) - Integral(y, Top)
  BY <1>1, <1>2, <1>3, IntegralSlides
<1>8. /\ Top \in Columns /\ 0 \in Columns
      /\ \A x \in Columns : x \in 0 .. Length /\ (x # 0 => x - 1 \in Columns /\ x \in 1 .. Length)
      /\ \A y \in Rows : y \in 0 .. Length
  BY MemoryAssumption DEF Columns, Rows, Top
<1>9. \A y \in Rows, x \in Columns :
        Integral(y, x) \in Int /\ row_integral[y][x] = Integral(y, x) % Modulus
  BY <1>2, <1>6, <1>8 DEF SumFacts, IntegralImage
<1>10. ASSUME NEW y \in Rows, row_wen(y, TRUE), NEW x \in Columns
       PROVE  row_integral'[y][x] = (Integral(y, x)') % Modulus
  <2>1. row_integral'[y][x] = row_integral_next(y, x)
    BY <1>4, <1>10
  <2>2. CASE x = 0
    <3>1. PICK s \in Int : s = fifo_data_out[y] + fifo_reduction_sum[y]
      <4>1. fifo_data_out[y] \in Int /\ fifo_reduction_sum[y] \in Int
        BY <1>2, ReductionFacts DEF Words
      <4> QED
        BY <4>1
    <3>2. PICK p \in Int, q \in Int : p = Integral(y, 0) /\ q = Integral(y, Top)
      BY <1>8, <1>9
    <3>3. row_integral_next(y, 0) = (s + (row_integral[y][0] - row_integral[y][Top])) % Modulus
      BY <3>1 DEF row_integral_next
    <3>4. row_integral[y][0] = p % Modulus /\ row_integral[y][Top] = q % Modulus
      BY <1>8, <1>9, <3>2
    <3>5. Integral(y, 0)' = s + (p - q)
      BY <1>7, <3>1, <3>2
    <3>6. row_integral_next(y, 0) = (s + (p - q)) % Modulus
      <4>1. row_integral_next(y, 0) = (s + ((p % Modulus) - (q % Modulus))) % Modulus
        BY <3>3, <3>4, Zenon
      <4>2. (s + ((p % Modulus) - (q % Modulus))) % Modulus = (s + (p - q)) % Modulus
        BY RegisterSums
      <4> QED
        BY <4>1, <4>2, Zenon
    <3> QED
      BY <2>1, <2>2, <3>5, <3>6
  <2>3. CASE x # 0
    <3>1. PICK p \in Int, q \in Int : p = Integral(y, x - 1) /\ q = Integral(y, Top)
      BY <1>8, <1>9, <2>3
    <3>2. row_integral_next(y, x) = (row_integral[y][x - 1] - row_integral[y][Top]) % Modulus
      BY <2>3 DEF row_integral_next
    <3>3. row_integral[y][x - 1] = p % Modulus /\ row_integral[y][Top] = q % Modulus
      BY <1>8, <1>9, <2>3, <3>1
    <3>4. Integral(y, x)' = p - q
      BY <1>7, <1>8, <2>3, <3>1
    <3>5. row_integral_next(y, x) = (p - q) % Modulus
      BY <3>2, <3>3, RegisterSums
    <3> QED
      BY <2>1, <3>4, <3>5
  <2> QED
    BY <2>2, <2>3
<1>11. ASSUME NEW y \in Rows, ~row_wen(y, TRUE), NEW x \in Columns
       PROVE  row_integral'[y][x] = (Integral(y, x)') % Modulus
  <2>1. row_integral'[y][x] = Integral(y, x) % Modulus
    BY <1>4, <1>9, <1>11
  <2>2. ~(Len(taken) >= Before(y))
    BY <1>2, <1>11, WenWhen
  <2>3. /\ Len(taken) <= (y + 1) * FrameWidth /\ Len(taken') <= (y + 1) * FrameWidth
    BY <1>5, <2>2, RowEnds, BeforeFacts, MemoryAssumption
  <2>4. Integral(y, x) = 0
    BY <1>2, <1>8, <2>3, EmptyRows
  <2>5. Integral(y, x)' = 0
    BY <1>5, <1>8, <2>3, EmptyRowsNext
  <2> QED
    BY <2>1, <2>4, <2>5
<1>12. \A y \in Rows, x \in Columns : row_integral'[y][x] = (Integral(y, x)') % Modulus
  BY <1>10, <1>11
<1>13. \A y \in Rows, x \in Columns : row_integral'[y][x] \in Words
  <2>1. \A y \in Rows, x \in Columns : Integral(y, x)' \in Int
    BY <1>6, <1>8 DEF SumFacts
  <2> QED
    BY <1>12, <2>1, ModFacts
<1>14. row_integral' \in [Rows -> [Columns -> Words]]
  <2>1. \A y \in Rows : row_integral'[y] = [x \in Columns |-> row_integral'[y][x]]
    BY <1>2, <1>4
  <2>2. \A y \in Rows : row_integral'[y] \in [Columns -> Words]
    BY <1>13, <2>1
  <2>3. row_integral' = [y \in Rows |-> row_integral'[y]]
    BY <1>4
  <2> QED
    BY <2>2, <2>3
<1> QED
  BY <1>12, <1>14 DEF IntegralImage

\* Without a pixel the registers and the window stay.
LEMMA ImageRest ==
  ASSUME ImageInv, taken' = taken, row_integral' = row_integral
  PROVE  IntegralImage'
<1>1. taken \in Seq(Pixels) /\ IntegralImage
  BY DEF ImageInv, WindowInv, RowsInv
<1>2. \A y \in Rows, x \in Columns : y \in 0 .. Length /\ x \in 0 .. Length
  BY MemoryAssumption DEF Columns, Rows
<1>3. \A y \in Rows, x \in Columns : Integral(y, x)' = Integral(y, x)
  BY <1>1, <1>2, SumsStay
<1> QED
  BY <1>1, <1>3 DEF IntegralImage

\* The invariant with the words and the sums is inductive.
LEMMA ImageInductive == Spec => []ImageInv
<1>1. Init => ImageInv
  <2> SUFFICES ASSUME Init, WindowInv PROVE ImageInv
    BY WindowInit
  <2>1. taken = <<>> /\ Len(taken) = 0 /\ taken \in Seq(Pixels)
    BY DEF Init
  <2>2. ASSUME NEW k \in Nat PROVE Ago(k) = 0
    BY <2>1, <2>2 DEF Ago
  <2>3. \A y \in Rows : (y + 1) * FrameWidth \in Nat \ {0}
    BY RowEnds, BeforeFacts, MemoryAssumption
  <2>4. WordsInv
    <3>1. \A y \in Rows :
            fifo_data_out[y] = Ago(IF rested THEN (y + 1) * FrameWidth - 1 ELSE (y + 1) * FrameWidth)
      <4> TAKE y \in Rows
      <4>1. (y + 1) * FrameWidth - 1 \in Nat
        BY <2>3
      <4> QED
        BY <2>2, <4>1 DEF Init
    <3>2. \A y \in Rows : Len(fifo[y]) = 0
      BY DEF Init
    <3> QED
      BY <3>1, <3>2 DEF WordsInv
  <2>5. row_integral \in [Rows -> [Columns -> Words]]
    BY MemoryAssumption DEF Init, Words
  <2>6. IntegralImage
    <3> SUFFICES ASSUME NEW y \in Rows, NEW x \in Columns
                 PROVE  row_integral[y][x] = Integral(y, x) % Modulus
      BY DEF IntegralImage
    <3>1. row_integral[y][x] = 0
      BY DEF Init
    <3>2. x \in 0 .. Length /\ Len(taken) <= (y + 1) * FrameWidth
      BY <2>1, <2>3, MemoryAssumption DEF Columns
    <3>3. Integral(y, x) = 0
      BY <2>1, <3>2, EmptyRows
    <3>4. 0 % Modulus = 0
      BY MemoryAssumption
    <3> QED
      BY <3>1, <3>3, <3>4
  <2>7. Len(taken) <= MaxPixels
    BY <2>1, MemoryAssumption
  <2> QED
    BY <2>4, <2>5, <2>6, <2>7 DEF ImageInv
<1>2. ImageInv /\ [Next]_vars => ImageInv'
  <2> SUFFICES ASSUME ImageInv, [Next]_vars PROVE ImageInv'
    OBVIOUS
  <2>1. WindowInv'
    BY WindowStep DEF ImageInv
  <2>2. CASE TakePixel
    <3>1. Len(taken') <= MaxPixels
      <4>1. PICK pixel \in Pixels : Len(taken) < MaxPixels /\ taken' = Append(taken, pixel)
        BY <2>2 DEF TakePixel
      <4>2. Len(taken') = Len(taken) + 1 /\ Len(taken) \in Nat
        BY <4>1 DEF ImageInv, WindowInv, RowsInv
      <4> QED
        BY <4>1, <4>2, MemoryAssumption
    <3> QED
      BY <2>1, <2>2, <3>1, WordsTake, ImageTake DEF ImageInv
  <2>3. CASE Rest
    <3>1. taken' = taken /\ RowEdge(FALSE)
      BY <2>3 DEF Rest, Edge
    <3>2. row_integral' = row_integral
      BY <3>1 DEF RowEdge, row_wen, ImageInv
    <3>3. /\ row_integral' \in [Rows -> [Columns -> Words]]
          /\ Len(taken') <= MaxPixels
      BY <3>1, <3>2 DEF ImageInv
    <3> QED
      BY <2>1, <2>3, <3>1, <3>2, <3>3, WordsRest, ImageRest DEF ImageInv
  <2>4. CASE UNCHANGED vars
    <3>1. IntegralImage'
      BY <2>4, ImageRest DEF vars
    <3>2. WordsInv'
      BY <2>4 DEF vars, ImageInv, WordsInv, Ago, Before
    <3> QED
      BY <2>1, <2>4, <3>1, <3>2 DEF vars, ImageInv
  <2> QED
    BY <2>2, <2>3, <2>4 DEF Next
<1> QED
  BY <1>1, <1>2, PTL DEF Spec

\* However the pixels are spaced, every register of the memory is the integral of the
\* window's pixels modulo its width, for every size of window and frame, every width of
\* a register and every frame (row.v, I2LBS_memory.v).
THEOREM ImageIsIntegral == Spec => []IntegralImage
<1>1. ImageInv => IntegralImage
  BY DEF ImageInv
<1> QED
  BY <1>1, ImageInductive, PTL

\* No FIFO of the window memory takes more words than a frame is wide, however it is
\* drained, and every register keeps a word of its width (fifo.v, row.v).
THEOREM MemoryTypeCorrect == Spec => []MemoryTypeOK
<1>1. ImageInv => MemoryTypeOK
  <2> SUFFICES ASSUME ImageInv PROVE MemoryTypeOK
    OBVIOUS
  <2>1. RowsInv /\ StateInv /\ Len(taken) \in Nat
    BY DEF ImageInv, WindowInv, RowsInv
  <2>2. ASSUME NEW y \in Rows PROVE Len(fifo[y]) <= FrameWidth
    <3>1. Len(fifo[y]) = Filled(y, Len(taken))
      BY <2>1 DEF RowsInv
    <3>2. Before(y) \in Nat /\ FrameWidth \in Nat \ {0}
      BY BeforeFacts, MemoryAssumption
    <3> QED
      BY <2>1, <3>1, <3>2 DEF Filled
  <2>3. state \in {"IDLE", "FILL_FIFO_INTEGRAL", "FILL_INTEGRAL"}
    BY <2>1 DEF StateInv, Stage
  <2>4. integral_image_count \in 0 .. Length
    <3>1. integral_image_count = Counted(Len(taken)) /\ AllFull \in Nat /\ Length \in Nat
      BY <2>1, BeforeFacts, MemoryAssumption DEF StateInv
    <3> QED
      BY <2>1, <3>1 DEF Counted
  <2> QED
    BY <2>1, <2>2, <2>3, <2>4 DEF MemoryTypeOK, ImageInv, RowsInv, StateInv
<1> QED
  BY <1>1, ImageInductive, PTL
=============================================================================
