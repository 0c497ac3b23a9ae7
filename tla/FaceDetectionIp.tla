-------------------------- MODULE FaceDetectionIp --------------------------
(***************************************************************************)
(* The bus slave of face_detection_ip.v.  The processor writes commands    *)
(* and pixels to one register and reads the device's answers from another; *)
(* a state machine follows the commands.                                   *)
(***************************************************************************)
EXTENDS FaceDetection

CONSTANT Pixels   \* the values of a pixel

ASSUME PixelAssumption == Pixels \subseteq 0 .. 255

\* The commands and answers of the protocol.
LINUX_START_SEND_PIXEL == 1
LINUX_STOP_SEND_PIXEL == 2
LINUX_START_RECIEVE_RESULT == 3
LINUX_STOP_RECIEVE_RESULT == 4
LINUX_CALL_FPGA_RESET == 5
FPGA_START_RECIEVE_PIXEL == 11
FPGA_STOP_RECIEVE_PIXEL == 12
FPGA_START_SEND_RESULT == 13
FPGA_STOP_SEND_RESULT == 14
FPGA_FINISH_RESULT == 15

\* A word of a result: no word is told apart from another.
ResultWord == 100

Commands == 1 .. 5
Answers == (11 .. 15) \cup {ResultWord}

VARIABLES
  phase,                \* state: the last command obeyed, "IDLE" before the first
  write_data,           \* the last value written on the bus
  read_data,            \* the answer to the last read on the bus
  pixel,
  fpga_recieve_pixel,   \* the state machine has taken a value for pixel
  linux_end_send_pixel, \* the processor has ended a pixel
  trig_reset, trig_send_result,
  notify_send_result, result_sent, stop_send_result,
  store_first           \* the build runs the block storing a written value first

FaceDetectionIpvars ==
  <<FaceDetectionvars, phase, write_data, read_data, pixel, fpga_recieve_pixel,
    linux_end_send_pixel, trig_reset, trig_send_result, notify_send_result, result_sent,
    stop_send_result, store_first>>

Phases == {"IDLE", "STOP_SEND_PIXEL", "START_SEND_PIXEL", "START_RECIEVE_RESULT",
           "STOP_RECIEVE_RESULT"}

FaceDetectionIpTypeOK ==
  /\ FaceDetectionTypeOK
  /\ phase \in Phases
  /\ write_data \in {0} \cup Commands \cup Pixels
  /\ read_data \in {0} \cup Answers
  /\ pixel \in {0} \cup Commands \cup Pixels
  /\ fpga_recieve_pixel \in BOOLEAN
  /\ linux_end_send_pixel \in BOOLEAN
  /\ trig_reset \in BOOLEAN
  /\ trig_send_result \in BOOLEAN
  /\ notify_send_result \in BOOLEAN
  /\ result_sent \in BOOLEAN
  /\ stop_send_result \in BOOLEAN
  /\ store_first \in BOOLEAN

\* After s_reset, which comes once, at power up: a later one is left out.  The registers
\* that it leaves alone power up at 0.
FaceDetectionIpInit ==
  /\ FaceDetectionInit
  /\ phase = "IDLE"
  /\ write_data = 0
  /\ read_data = 0
  /\ pixel = 0
  /\ fpga_recieve_pixel = FALSE
  /\ linux_end_send_pixel = FALSE
  /\ trig_reset = FALSE
  /\ trig_send_result = FALSE
  /\ notify_send_result = FALSE
  /\ result_sent = FALSE
  /\ stop_send_result = FALSE
  /\ store_first \in BOOLEAN

\* A level: it lasts until the device is busy or a new pixel is started.
recieve_pixel == o_fpga_ready_recieve_pixel /\ linux_end_send_pixel

----------------------------------------------------------------------------
\* The transitions of the state machine on command c.

\* A fault for DrivesFrameControl: the reset is obeyed in every state.
ResetsAnywhere(c) == c = LINUX_CALL_FPGA_RESET

Resets(c) == phase = "IDLE" /\ c = LINUX_CALL_FPGA_RESET

StartsPixel(c) == phase = "STOP_SEND_PIXEL" /\ c = LINUX_START_SEND_PIXEL

EndsPixel(c) ==
  phase = "START_SEND_PIXEL" /\ c = LINUX_STOP_SEND_PIXEL /\ fpga_recieve_pixel

\* A fault for MemoryTakesSentPixel: the command that ends a pixel is taken too.
TakesPixelAndCommand(c) == phase = "START_SEND_PIXEL"

\* Whatever else is in the register while a pixel is open is a value of it.
TakesPixel(c) == phase = "START_SEND_PIXEL" /\ ~EndsPixel(c)

StartsResult(c) ==
  /\ phase \in {"STOP_SEND_PIXEL", "STOP_RECIEVE_RESULT"}
  /\ end_coordinate /\ c = LINUX_START_RECIEVE_RESULT

StopsResult(c) ==
  phase = "START_RECIEVE_RESULT" /\ end_coordinate /\ c = LINUX_STOP_RECIEVE_RESULT

NextPhase(c) ==
  CASE Resets(c) \/ EndsPixel(c) -> "STOP_SEND_PIXEL"
    [] StartsPixel(c) -> "START_SEND_PIXEL"
    [] StartsResult(c) -> "START_RECIEVE_RESULT"
    [] StopsResult(c) -> "STOP_RECIEVE_RESULT"
    [] OTHER -> phase

----------------------------------------------------------------------------
\* What a read on the bus returns, in the order of the code's tests.

AnswersReady == o_fpga_ready_recieve_pixel
AnswersTaken == ~AnswersReady /\ recieve_coordinate
AnswersFinish == ~AnswersReady /\ ~recieve_coordinate /\ result_empty

SendsResult ==
  /\ ~AnswersReady /\ ~recieve_coordinate /\ ~result_empty
  /\ o_fpga_ready_send_result

\* A fault for KeepsOneWord: a word is sent before it is announced.
AnswersNotifyLate == SendsResult /\ notify_send_result /\ result_sent

AnswersNotify == SendsResult /\ notify_send_result
AnswersStop == SendsResult /\ ~AnswersNotify /\ result_sent /\ stop_send_result
AnswersWord == SendsResult /\ ~AnswersNotify /\ ~AnswersStop

Answer ==
  CASE AnswersReady -> FPGA_START_RECIEVE_PIXEL
    [] AnswersTaken -> FPGA_STOP_RECIEVE_PIXEL
    [] AnswersFinish -> FPGA_FINISH_RESULT
    [] AnswersNotify -> FPGA_START_SEND_RESULT
    [] AnswersStop -> FPGA_STOP_SEND_RESULT
    [] AnswersWord -> ResultWord
    [] OTHER -> read_data

----------------------------------------------------------------------------
\* A fault for CoordinateStands: the next pixel does not clear the end of this one.
EndEdgeSticky(c) ==
  linux_end_send_pixel' \in Driven(linux_end_send_pixel,
    When(EndsPixel(c), TRUE) \cup When(trig_reset, FALSE))

EndEdge(c) ==
  linux_end_send_pixel' \in Driven(linux_end_send_pixel,
    When(EndsPixel(c), TRUE) \cup When(StartsPixel(c) \/ trig_reset, FALSE))

\* The clocked blocks that follow the commands: c is the value of write_data
\* they read.
CommandEdge(c) ==
  /\ phase' = NextPhase(c)
  /\ trig_reset' = Resets(c)
  /\ pixel' \in Driven(pixel, When(TakesPixel(c), c) \cup When(trig_reset, 0))
  /\ fpga_recieve_pixel' \in Driven(fpga_recieve_pixel,
       When(TakesPixel(c), TRUE) \cup When(EndsPixel(c) \/ trig_reset, FALSE))
  /\ EndEdge(c)
  /\ trig_send_result' \in When(trig_reset, FALSE) \cup {StartsResult(c)}

\* The block that answers a read, with the flags it shares with the others.
AnswerEdge(c, s_read) ==
  /\ read_data' = IF s_read THEN Answer ELSE read_data
  /\ notify_send_result' \in Driven(notify_send_result,
       When(StartsResult(c), TRUE) \cup When(trig_reset \/ (s_read /\ AnswersNotify), FALSE))
  /\ result_sent' \in Driven(result_sent,
       When(s_read /\ AnswersWord, TRUE) \cup When(trig_reset \/ (s_read /\ AnswersStop), FALSE))
  /\ stop_send_result' \in Driven(stop_send_result,
       When(StopsResult(c), TRUE) \cup When(trig_reset \/ (s_read /\ AnswersStop), FALSE))

\* One clock edge with this cycle's use of the bus.  The block that stores a
\* written value assigns at once, and the state machine, another block on the
\* same edge, reads the value before or after that, as the build ordered them.
DeviceEdge(written, s_read) ==
  LET c == IF store_first THEN written ELSE write_data IN
  /\ write_data' = written
  /\ CommandEdge(c)
  /\ AnswerEdge(c, s_read)
  /\ UNCHANGED store_first
  /\ FaceDetectionEdge(trig_reset, trig_reset', recieve_pixel, trig_send_result, result_sent)

=============================================================================
