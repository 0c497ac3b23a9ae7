------------------------- MODULE ResultWordsProofs -------------------------
(***************************************************************************)
(* Proofs about the words of the result store, for every size of frame and *)
(* of the store.                                                           *)
(***************************************************************************)
EXTENDS ResultWords, FaceDetectionProofs

LEMMA ValueType ==
  ASSUME FaceDetectionTypeOK
  PROVE  \A index \in Nat :
           Word(Choice(index)) \in
             WordType("ori_x", 0 .. Width - 1) \cup WordType("ori_y", 0 .. Height - 1)
             \cup WordType("candidate", 0 .. 1)
<1> SUFFICES ASSUME NEW index \in Nat
             PROVE  Word(Choice(index)) \in
                      WordType("ori_x", 0 .. Width - 1) \cup WordType("ori_y", 0 .. Height - 1)
                      \cup WordType("candidate", 0 .. 1)
  OBVIOUS
<1> USE DEF FaceDetectionTypeOK, I2LBSTypeOK, WordType, Word
<1>1. Choice(index) \in {"ori_x", "ori_y", "candidate"}
  BY DEF Choice, Result
<1>2. CASE Choice(index) = "ori_x"
  BY <1>2 DEF Value
<1>3. CASE Choice(index) = "ori_y"
  BY <1>3 DEF Value
<1>4. CASE Choice(index) = "candidate"
  <2>1. Value("candidate") \in 0 .. 1
    BY DEF Value
  <2> QED
    BY <1>4, <2>1
<1> QED
  BY <1>1, <1>2, <1>3, <1>4

LEMMA WordsTypeInit == WordsInit => WordsTypeOK
<1> SUFFICES ASSUME WordsInit PROVE WordsTypeOK
  OBVIOUS
<1>1. FaceDetectionTypeOK
  BY FrameTypeInit DEF WordsInit
<1>2. data_in \in WordType("ori_x", 0 .. Width - 1)
  BY FrameAssumption DEF WordsInit, Cleared, WordType
<1>3. copied \in 0 .. 3
  BY DEF WordsInit
<1>4. whole \in BOOLEAN
  BY DEF WordsInit
<1> QED
  BY <1>1, <1>2, <1>3, <1>4 DEF WordsTypeOK

LEMMA WordsTypeStep ==
  ASSUME WordsTypeOK, WordsClock
  PROVE  WordsTypeOK'
<1> DEFINE Words == WordType("ori_x", 0 .. Width - 1) \cup WordType("ori_y", 0 .. Height - 1)
                    \cup WordType("candidate", 0 .. 1)
<1>1. PICK reset, resetting, recieve, trig, taken \in BOOLEAN :
        /\ FaceDetectionEdge(reset, resetting, recieve, trig, taken)
        /\ DataEdge(reset)
        /\ Observe
  BY DEF WordsClock
<1>2. FaceDetectionTypeOK'
  BY <1>1, FaceDetectionTypeStep DEF WordsTypeOK
<1>3. data_in' \in Words
  <2>1. Cleared \in Words
    BY FrameAssumption DEF Cleared, WordType
  <2>2. index_write \in Nat
    BY WordsAssumption DEF WordsTypeOK, FaceDetectionTypeOK, ResultStoreTypeOK
  <2>3. Word(Choice(index_write)) \in Words
    BY <2>2, ValueType DEF WordsTypeOK
  <2>4. data_in \in Words
    BY DEF WordsTypeOK
  <2> HIDE DEF Words
  <2>5. data_in' \in Driven(data_in,
           When(reset, Cleared) \cup When(write_result, Word(Choice(index_write))))
    BY <1>1 DEF DataEdge
  <2>6. When(reset, Cleared) \cup When(write_result, Word(Choice(index_write))) \in SUBSET Words
    BY <2>1, <2>3 DEF When
  <2> QED
    BY <2>4, <2>5, <2>6, DrivenType
<1>4. copied' \in 0 .. 3
  BY <1>1 DEF Observe, WordsTypeOK, Copies
<1>5. whole' \in BOOLEAN
  BY <1>1 DEF Observe
<1> QED
  BY <1>2, <1>3, <1>4, <1>5 DEF WordsTypeOK

\* With its words the frame controller still does what it does without them.
THEOREM WordsImplementFrameControl == Spec => FrameControl
<1>1. WordsInit => FaceDetectionInit
  BY DEF WordsInit
<1>2. [WordsClock]_wordvars => [FrameClock]_FaceDetectionvars
  BY DEF WordsClock, FrameClock, wordvars
<1> QED
  BY <1>1, <1>2, PTL DEF Spec, FrameControl

\* The words, and how much of a result they spell, keep to their ranges.
THEOREM WordsTypeCorrect == Spec => []WordsTypeOK
<1>1. WordsInit => WordsTypeOK
  BY WordsTypeInit
<1>2. WordsTypeOK /\ [WordsClock]_wordvars => WordsTypeOK'
  <2>1. ASSUME WordsTypeOK, UNCHANGED wordvars PROVE WordsTypeOK'
    BY <2>1 DEF wordvars, FaceDetectionvars, I2LBSvars, ResultStorevars, WordsTypeOK,
                FaceDetectionTypeOK, I2LBSTypeOK, ResultStoreTypeOK
  <2> QED
    BY <2>1, WordsTypeStep
<1> QED
  BY <1>1, <1>2, PTL DEF Spec

----------------------------------------------------------------------------
\* Before the n-th word of a write, the one that is on its way is the one before, and
\* the words before that are stored.
Writes ==
  /\ write_result /\ pixel_request
  /\ index_write = 0 => copied = 0
  /\ index_write = 1 => data_in = Word("ori_x")
  /\ index_write = 2 => data_in = Word("ori_y")
  /\ index_write = 3 => data_in = Word("candidate")
  /\ index_write = 1 => copied \in 0 .. 1
  /\ index_write = 2 => copied = 1
  /\ index_write = 3 => copied = 2
  /\ words + 4 <= NumWords + index_write

\* A write has not begun.
Begins == ~write_result /\ index_write = 0 /\ copied = 0 /\ words + 4 <= NumWords

\* Until the pixel is asked for the window stands.
Stands ==
  /\ window = "REQUEST_RECIEVE" /\ candidate /\ ~enable_memory

WholeInv == whole /\ ~fpga_ready_recieve_pixel => Stands /\ (Begins \/ Writes)

LEMMA WordsNumbers ==
  ASSUME WordsTypeOK, WordsClock
  PROVE  index_write \in 0 .. 3 /\ words \in Nat /\ words' \in Nat /\ NumWords \in Nat
  BY WordsAssumption, StoreAssumption, WordsTypeStep
     DEF WordsTypeOK, FaceDetectionTypeOK, ResultStoreTypeOK

\* What an edge does while the window stands and no pixel is asked for.
LEMMA StandingStep ==
  ASSUME WordsTypeOK, WordsClock, ~fpga_ready_recieve_pixel, window # "IDLE"
  PROVE  /\ ori_x' = ori_x /\ ori_y' = ori_y /\ ~enable_memory'
         /\ window' = NextWindow /\ pixel_request' = ~Inspecting
         /\ candidate' \in Driven(candidate, When(Verdict, w_candidate)
              \cup When(window = "REQUEST_RECIEVE" /\ enable_memory, FALSE))
         /\ fpga_ready_recieve_pixel' \in Driven(fpga_ready_recieve_pixel,
              When(pixel_request /\ (candidate => write_result_end), TRUE))
         /\ write_result' \in Driven(write_result,
              When(pixel_request /\ candidate, ~write_result_end))
         /\ index_write' = (IF ~write_result THEN index_write
                            ELSE IF write_result_end THEN 0 ELSE index_write + 1)
         /\ words' <= words + 1
         /\ words' <= words \/ Stores
         /\ data_in' = (IF write_result THEN Word(Choice(index_write)) ELSE data_in)
         /\ Observe
<1>1. PICK reset, resetting, recieve, trig, taken \in BOOLEAN :
        /\ reset \/ resetting => Untouched
        /\ recieve => o_fpga_ready_recieve_pixel
        /\ FaceDetectionEdge(reset, resetting, recieve, trig, taken)
        /\ DataEdge(reset)
        /\ Observe
  BY DEF WordsClock
<1>2. ~reset /\ ~resetting
  BY <1>1 DEF Untouched
<1>3. ~recieve
  BY <1>1 DEF o_fpga_ready_recieve_pixel
<1> USE <1>1, <1>2, <1>3 DEF FaceDetectionEdge
<1>4. ~recieve_coordinate' /\ ori_x' = ori_x /\ ori_y' = ori_y
  BY DEF CoordinateEdge, Driven, When
<1>5. ~enable_memory'
  BY <1>4 DEF I2LBSEdge, MemoryEnableEdge
<1>6. /\ window' = NextWindow /\ pixel_request' = ~Inspecting
      /\ candidate' \in Driven(candidate, When(Verdict, w_candidate)
           \cup When(window = "REQUEST_RECIEVE" /\ enable_memory, FALSE))
  BY DEF I2LBSEdge, WindowEdge, When, Driven
<1>7. /\ fpga_ready_recieve_pixel' \in Driven(fpga_ready_recieve_pixel,
           When(pixel_request /\ (candidate => write_result_end), TRUE))
      /\ write_result' \in Driven(write_result,
           When(pixel_request /\ candidate, ~write_result_end))
  BY DEF ReadyEdge, When, Driven
<1>8. index_write' = (IF ~write_result THEN index_write
                      ELSE IF write_result_end THEN 0 ELSE index_write + 1)
  BY DEF ResultStoreEdge, CounterEdge
<1>9. words' <= words + 1 /\ (words' <= words \/ Stores)
  BY DEF ResultStoreEdge, FifoEdge, Stores, WordsTypeOK, FaceDetectionTypeOK, ResultStoreTypeOK
<1>10. data_in' = (IF write_result THEN Word(Choice(index_write)) ELSE data_in)
  BY DEF DataEdge, When, Driven
<1> QED
  BY <1>4, <1>5, <1>6, <1>7, <1>8, <1>9, <1>10

\* The edge that finds a face at rest leaves the window standing and the store at rest.
LEMMA FoundStep ==
  ASSUME WordsTypeOK, WordsClock, FoundAtRest, ~fpga_ready_recieve_pixel'
  PROVE  Stands' /\ Begins'
<1>1. window = "INSPECT" /\ window # "IDLE" /\ inspect_done /\ w_candidate /\ Verdict
  BY DEF FoundAtRest, Verdict, Inspecting
<1>2. ~pixel_request /\ ~fpga_ready_recieve_pixel /\ ~write_result /\ index_write = 0
  BY DEF FoundAtRest, AtRest
<1>3. window' = "REQUEST_RECIEVE" /\ candidate' /\ ~enable_memory'
  BY <1>1, <1>2, StandingStep DEF NextWindow, Driven, When, Verdict, Inspecting
<1>4. ~write_result' /\ index_write' = 0
  BY <1>1, <1>2, StandingStep DEF Driven, When
<1>5. copied' = 0
  <2>1. Observe
    BY <1>1, <1>2, StandingStep
  <2> QED
    BY <1>1, <2>1 DEF Observe
<1>6. words' + 4 <= NumWords
  <2>1. words + 4 <= NumWords
    BY WordsAssumption, StoreAssumption
       DEF FoundAtRest, AtRest, WordsTypeOK, FaceDetectionTypeOK, ResultStoreTypeOK
  <2>2. words' <= words
    BY <1>1, <1>2, StandingStep DEF Stores
  <2> QED
    BY <2>1, <2>2, WordsNumbers
<1> QED
  BY <1>3, <1>4, <1>5, <1>6 DEF Stands, Begins

\* While no pixel is asked for, the window that stands goes on standing.
LEMMA StandsStep ==
  ASSUME WordsTypeOK, WordsClock, ~fpga_ready_recieve_pixel, Stands
  PROVE  /\ Stands' /\ pixel_request' /\ ~Verdict
         /\ \A field \in {"ori_x", "ori_y", "candidate"} : Word(field)' = Word(field)
<1>1. window = "REQUEST_RECIEVE" /\ window # "IDLE" /\ candidate /\ ~enable_memory
  BY DEF Stands
<1>2. window' = "REQUEST_RECIEVE" /\ candidate' /\ ~enable_memory' /\ pixel_request' /\ ~Verdict
  BY <1>1, StandingStep DEF NextWindow, Driven, When, Verdict, Inspecting
<1>3. ori_x' = ori_x /\ ori_y' = ori_y /\ candidate' = candidate
  BY <1>1, <1>2, StandingStep DEF WordsTypeOK, FaceDetectionTypeOK, I2LBSTypeOK
<1> QED
  BY <1>2, <1>3 DEF Stands, Word, Value

\* A write goes on, one word an edge; its last edge asks for the pixel, and the words
\* of the result are there.
LEMMA WritesStep ==
  ASSUME WordsTypeOK, WordsClock, ~fpga_ready_recieve_pixel, Stands, Writes
  PROVE  IF index_write = 3 THEN fpga_ready_recieve_pixel' /\ copied' = 3
         ELSE ~fpga_ready_recieve_pixel' /\ Writes'
<1>1. index_write \in 0 .. 3 /\ words \in Nat /\ words' \in Nat /\ NumWords \in Nat
  BY WordsNumbers
<1>2. write_result /\ pixel_request /\ candidate /\ Stores /\ window # "IDLE"
  BY <1>1 DEF Writes, Stands, Stores
<1>3. copied' = IF Copies THEN copied + 1 ELSE IF data_in = Word("ori_x") THEN 1 ELSE 0
  <2>1. Observe /\ ~Verdict
    BY <1>2, StandingStep, StandsStep
  <2> QED
    BY <1>2, <2>1 DEF Observe
<1>4. write_result_end = (index_write = 3)
  BY WordsAssumption DEF write_result_end
<1>5. CASE index_write = 3
  <2>1. fpga_ready_recieve_pixel'
    BY <1>2, <1>4, <1>5, StandingStep DEF Driven, When
  <2>2. copied = 2 /\ data_in = Word(Result[3])
    BY <1>5 DEF Writes, Result
  <2>3. copied' = 3
    BY <1>3, <2>2 DEF Copies
  <2> QED
    BY <1>5, <2>1, <2>3
<1>6. CASE index_write # 3
  <2>1. index_write \in 0 .. 2
    BY <1>1, <1>6
  <2>2. ~fpga_ready_recieve_pixel' /\ write_result' /\ index_write' = index_write + 1
    BY <1>2, <1>4, <1>6, StandingStep DEF Driven, When
  <2>3. pixel_request'
    BY StandsStep
  <2>4. data_in' = Word(Choice(index_write))
    BY <1>2, StandingStep
  <2>5. /\ index_write = 0 => data_in' = Word("ori_x")'
        /\ index_write = 1 => data_in' = Word("ori_y")'
        /\ index_write = 2 => data_in' = Word("candidate")'
    BY <2>4, StandsStep DEF Choice, Result
  <2>6. index_write = 0 => copied' \in 0 .. 1
    <3>1. index_write = 0 => copied = 0
      BY DEF Writes
    <3> QED
      BY <1>3, <3>1
  <2>7. index_write = 1 => copied' = 1
    <3>1. index_write = 1 => copied \in 0 .. 1 /\ data_in = Word("ori_x")
      BY DEF Writes, Result
    <3>2. Word("ori_y") # Word("ori_x")
      BY DEF Word
    <3> QED
      BY <1>3, <3>1, <3>2 DEF Copies, Result
  <2>8. index_write = 2 => copied' = 2
    <3>1. index_write = 2 => copied = 1 /\ data_in = Word(Result[2])
      BY DEF Writes, Result
    <3> QED
      BY <1>3, <3>1 DEF Copies
  <2>9. words' + 4 <= NumWords + index_write'
    <3>1. words + 4 <= NumWords + index_write
      BY DEF Writes
    <3>2. words' <= words + 1
      BY <1>2, StandingStep
    <3>3. index_write' = index_write + 1
      BY <2>2
    <3> QED
      BY <3>1, <3>2, <3>3, WordsNumbers
  <2>10. write_result' /\ index_write' \in 1 .. 3
    BY <2>1, <2>2
  <2> QED
    BY <1>6, <2>1, <2>2, <2>3, <2>5, <2>6, <2>7, <2>8, <2>9, <2>10 DEF Writes
<1> QED
  BY <1>5, <1>6

\* A write begins when the request is there.
LEMMA BeginsStep ==
  ASSUME WordsTypeOK, WordsClock, ~fpga_ready_recieve_pixel, Stands, Begins
  PROVE  ~fpga_ready_recieve_pixel' /\ (Begins' \/ Writes')
<1>1. /\ ~write_result /\ index_write = 0 /\ copied = 0 /\ words + 4 <= NumWords
      /\ candidate /\ window # "IDLE"
  BY DEF Begins, Stands
<1>2. ~write_result_end
  BY <1>1, WordsAssumption DEF write_result_end
<1>3. ~fpga_ready_recieve_pixel' /\ index_write' = 0
  BY <1>1, <1>2, StandingStep DEF Driven, When
<1>4. copied' = 0
  <2>1. Observe /\ ~Verdict /\ ~Stores
    BY <1>1, StandingStep, StandsStep DEF Stores
  <2> QED
    BY <1>1, <2>1 DEF Observe
<1>5. words' + 4 <= NumWords
  <2>1. words' <= words
    BY <1>1, StandingStep DEF Stores
  <2> QED
    BY <1>1, <2>1, WordsNumbers
<1>6. pixel_request'
  BY StandsStep
<1>7. write_result' \in BOOLEAN
  BY WordsTypeStep DEF WordsTypeOK, FaceDetectionTypeOK
<1>8. CASE write_result'
  <2>1. words' + 4 <= NumWords + index_write'
    BY <1>3, <1>5, WordsNumbers
  <2>2. index_write' = 0
    BY <1>3
  <2> QED
    BY <1>3, <1>4, <1>6, <1>8, <2>1, <2>2 DEF Writes
<1>9. CASE ~write_result'
  BY <1>3, <1>4, <1>5, <1>9 DEF Begins
<1> QED
  BY <1>8, <1>9

\* A face that finds the store at rest is stored whole before the next pixel is asked
\* for, for every frame, store, and use of them by the processor.
THEOREM ResultStoredWhole == Spec => ResultWhole
<1> DEFINE Inv == WordsTypeOK /\ WholeInv
<1>1. WordsInit => WholeInv
  BY DEF WordsInit, WholeInv
<1>2. ASSUME Inv, WordsClock PROVE WholeInv'
  <2> SUFFICES ASSUME whole', ~fpga_ready_recieve_pixel'
               PROVE  Stands' /\ (Begins' \/ Writes')
    BY DEF WholeInv
  <2>1. whole' = (FoundAtRest \/ (whole /\ ~Verdict /\ ~fpga_ready_recieve_pixel))
    BY <1>2 DEF WordsClock, Observe
  <2>2. CASE FoundAtRest
    BY <1>2, <2>2, FoundStep
  <2>3. CASE whole /\ ~fpga_ready_recieve_pixel
    <3>1. Stands /\ (Begins \/ Writes)
      BY <1>2, <2>3 DEF WholeInv
    <3>2. Stands'
      BY <1>2, <2>3, <3>1, StandsStep
    <3>3. Begins' \/ Writes'
      BY <1>2, <2>3, <3>1, WritesStep, BeginsStep
    <3> QED
      BY <3>2, <3>3
  <2> QED
    BY <2>1, <2>2, <2>3
<1>3. ASSUME Inv, WordsClock, whole, ~fpga_ready_recieve_pixel, fpga_ready_recieve_pixel'
      PROVE  copied' = 3
  <2>1. Stands /\ (Begins \/ Writes)
    BY <1>3 DEF WholeInv
  <2> QED
    BY <1>3, <2>1, WritesStep, BeginsStep
<1>4. ASSUME Inv, UNCHANGED wordvars PROVE WholeInv'
  BY <1>4 DEF wordvars, FaceDetectionvars, I2LBSvars, ResultStorevars, WholeInv, Stands,
              Begins, Writes, Word, Value
<1>5. Spec => []WordsTypeOK
  BY WordsTypeCorrect
<1>6. WordsTypeOK /\ WholeInv /\ [WordsClock]_wordvars => WholeInv'
  BY <1>2, <1>4
<1>7. WordsTypeOK /\ WholeInv /\ [WordsClock]_wordvars
      => [whole /\ ~fpga_ready_recieve_pixel /\ fpga_ready_recieve_pixel' => copied' = 3]_wordvars
  <2>1. CASE UNCHANGED wordvars
    BY <2>1
  <2>2. CASE WordsClock
    BY <1>3, <2>2
  <2> QED
    BY <2>1, <2>2
<1> QED
  BY <1>1, <1>5, <1>6, <1>7, PTL DEF Spec, ResultWhole

=============================================================================
