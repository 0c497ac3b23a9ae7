---------------------------- MODULE ResultWords ----------------------------
(***************************************************************************)
(* The words that the result store is given (result.v).  A word passes     *)
(* through the register data_in on its way to the FIFO, so that a clock of *)
(* a write stores the word that was chosen at the clock before.            *)
(*                                                                         *)
(* The module adds that register to the frame controller, whose own steps  *)
(* it leaves as they are.                                                  *)
(***************************************************************************)
EXTENDS FaceDetection

ASSUME WordsAssumption == NumVariable = 3

VARIABLES
  data_in,   \* a word: what it is of, and its value
  copied,    \* for the properties: how much of the window's result the words stored
             \* last spell,
  whole      \* and the store was at rest when the window was found to be a face

wordvars == <<FaceDetectionvars, data_in, copied, whole>>

\* The words of a result, as the counter has data_in take them.
Result == <<"ori_x", "ori_y", "candidate">>

\* A fault for ResultWhole: the words are counted from 1.
ChoiceFromOne(index) == IF index \in 1 .. 3 THEN Result[index] ELSE "ori_x"

Choice(index) == IF index \in 0 .. 2 THEN Result[index + 1] ELSE "ori_x"

Value(field) ==
  CASE field = "ori_x" -> ori_x
    [] field = "ori_y" -> ori_y
    [] field = "candidate" -> IF candidate THEN 1 ELSE 0

Word(field) == [of |-> field, value |-> Value(field)]
Cleared == [of |-> "ori_x", value |-> 0]

WordType(field, values) == [of : {field}, value : values]

WordsTypeOK ==
  /\ FaceDetectionTypeOK
  /\ data_in \in WordType("ori_x", 0 .. Width - 1) \cup WordType("ori_y", 0 .. Height - 1)
                   \cup WordType("candidate", 0 .. 1)
  /\ copied \in 0 .. 3
  /\ whole \in BOOLEAN

WordsInit ==
  /\ FaceDetectionInit
  /\ data_in = Cleared
  /\ copied = 0
  /\ whole = FALSE

DataEdge(reset) ==
  data_in' \in Driven(data_in,
    When(reset, Cleared) \cup When(write_result, Word(Choice(index_write))))

\* A full FIFO takes no word.
Stores == write_result /\ words < NumWords

Copies == copied < 3 /\ data_in = Word(Result[copied + 1])

AtRest ==
  /\ ~write_result /\ index_write = 0
  /\ words + NumVariable + 1 <= NumWords

\* A window is found to be a face while no pixel can come.
FoundAtRest == Verdict /\ w_candidate /\ ~pixel_request /\ ~fpga_ready_recieve_pixel /\ AtRest

Observe ==
  /\ copied' = IF Verdict THEN 0
               ELSE IF ~Stores THEN copied
               ELSE IF Copies THEN copied + 1
               ELSE IF data_in = Word("ori_x") THEN 1 ELSE 0
  /\ whole' = (FoundAtRest \/ (whole /\ ~Verdict /\ ~fpga_ready_recieve_pixel))

WordsClock ==
  \E reset, resetting, recieve_pixel, trig_send_result, result_sent \in BOOLEAN :
    /\ reset \/ resetting => Untouched
    /\ recieve_pixel => o_fpga_ready_recieve_pixel
    /\ FaceDetectionEdge(reset, resetting, recieve_pixel, trig_send_result, result_sent)
    /\ DataEdge(reset)
    /\ Observe

Spec == WordsInit /\ [][WordsClock]_wordvars

\* The clock never stops.
FairSpec == Spec /\ WF_wordvars(WordsClock)

----------------------------------------------------------------------------
\* A face that finds the store at rest is in it whole before the next pixel is asked
\* for: the last words stored are the window's coordinate and its candidate flag, in
\* their order, although every word is stored a clock late, the flag and the pixel
\* request are another module's, and the words are chosen by a counter that runs one
\* word further (result.v, face_detection.v, I2LBS.v).
ResultWhole ==
  [][whole /\ ~fpga_ready_recieve_pixel /\ fpga_ready_recieve_pixel' => copied' = 3]_wordvars

=============================================================================
