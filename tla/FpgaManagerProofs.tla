------------------------- MODULE FpgaManagerProofs -------------------------
(***************************************************************************)
(* Proofs about the link between the program and the device, for every     *)
(* image and size of frame, every number of runs and results, and both     *)
(* orders in which a build may run the blocks that share write_data; and   *)
(* about the words that the program keeps of the results.                  *)
(***************************************************************************)
EXTENDS ResultReads, FaceDetectionProofs

\* No pixel of the image has the value of a command.
PixelsAreNoCommands == Pixels \cap Commands = {}

\* A pixel the window memory may take.
Fit == pixel \in Pixels /\ (runs = 1 => pixel = completed)

\* What the program has written when it comes to its next access.
WrittenInv ==
  /\ pc \in {"connect", "reset", "poll", "start", "send", "stop"} => sent < Len(Image)
  /\ pc = "reset" => write_data = LINUX_CALL_FPGA_RESET
  /\ pc \in {"poll", "start"} => write_data \in {LINUX_CALL_FPGA_RESET, LINUX_STOP_SEND_PIXEL}
  /\ pc = "send" => write_data = LINUX_START_SEND_PIXEL
  /\ pc = "stop" => write_data = Image[sent + 1]

\* The command machine keeps step with the first run of the program.
FirstRunInv ==
  runs = 1 =>
    /\ pc = "connect" => phase = "IDLE" /\ write_data = 0
    /\ pc = "reset" => \/ phase = "STOP_SEND_PIXEL"
                       \/ phase = "IDLE" /\ ~store_first /\ write_data = LINUX_CALL_FPGA_RESET
    /\ pc = "poll" => \/ phase = "STOP_SEND_PIXEL"
                      \/ phase = "START_SEND_PIXEL" /\ write_data = LINUX_STOP_SEND_PIXEL
    /\ pc = "start" => phase = "STOP_SEND_PIXEL"
    /\ pc = "send" => phase \in {"STOP_SEND_PIXEL", "START_SEND_PIXEL"}
    /\ pc = "send" /\ store_first => phase = "START_SEND_PIXEL"
    /\ pc = "stop" => phase = "START_SEND_PIXEL"

\* The device is reset before it is given anything.
ResetInv ==
  /\ phase = "IDLE" \/ trig_reset => Untouched /\ ~linux_end_send_pixel
  /\ trig_reset => phase = "STOP_SEND_PIXEL"

\* From the value the program writes to the value the window memory takes.
PixelInv ==
  /\ phase = "START_SEND_PIXEL" => ~linux_end_send_pixel
  /\ phase = "START_SEND_PIXEL" /\ pc = "stop" /\ store_first =>
       fpga_recieve_pixel /\ pixel = Image[sent + 1]
  /\ phase = "START_SEND_PIXEL" /\ write_data = LINUX_STOP_SEND_PIXEL =>
       ~store_first /\ fpga_recieve_pixel /\ Fit
  /\ linux_end_send_pixel => Fit
  /\ enable_memory => Fit

----------------------------------------------------------------------------
\* What the program may have on the bus.
Written == {0} \cup Commands \cup Pixels

\* One clock of the device keeps the types of its registers.
LEMMA DeviceTypeStep ==
  ASSUME FaceDetectionIpTypeOK, NEW w \in Written, NEW s \in BOOLEAN, DeviceEdge(w, s)
  PROVE  FaceDetectionIpTypeOK'
<1> DEFINE c == IF store_first THEN w ELSE write_data
<1>1. CommandEdge(c) /\ AnswerEdge(c, s) /\ write_data' = w /\ UNCHANGED store_first
  BY DEF DeviceEdge
<1>2. c \in Written
  BY DEF FaceDetectionIpTypeOK, Written
<1>3. trig_reset' \in BOOLEAN
  BY <1>1 DEF CommandEdge, Resets
<1>4. FaceDetectionTypeOK'
  <2>1. recieve_pixel \in BOOLEAN
    BY DEF recieve_pixel, o_fpga_ready_recieve_pixel
  <2>2. FaceDetectionEdge(trig_reset, trig_reset', recieve_pixel, trig_send_result, result_sent)
    BY DEF DeviceEdge
  <2>3. trig_reset \in BOOLEAN /\ trig_send_result \in BOOLEAN /\ result_sent \in BOOLEAN
    BY DEF FaceDetectionIpTypeOK
  <2> HIDE DEF c
  <2> QED
    BY <1>3, <2>1, <2>2, <2>3, FaceDetectionTypeStep DEF FaceDetectionIpTypeOK
<1> HIDE DEF c
<1>5. phase' \in Phases
  BY <1>1 DEF CommandEdge, NextPhase, Phases, FaceDetectionIpTypeOK
<1>6. read_data' \in {0} \cup Answers
  BY <1>1 DEF AnswerEdge, Answer, Answers, FaceDetectionIpTypeOK, FPGA_START_RECIEVE_PIXEL,
     FPGA_STOP_RECIEVE_PIXEL, FPGA_START_SEND_RESULT, FPGA_STOP_SEND_RESULT,
     FPGA_FINISH_RESULT
<1>7. pixel' \in Written
  BY <1>1, <1>2 DEF CommandEdge, EndEdge, Driven, When, Written, FaceDetectionIpTypeOK
<1>8. fpga_recieve_pixel' \in BOOLEAN /\ linux_end_send_pixel' \in BOOLEAN
  BY <1>1 DEF CommandEdge, EndEdge, Driven, When, FaceDetectionIpTypeOK
<1>9. trig_send_result' \in BOOLEAN
  <2>1. StartsResult(c) \in BOOLEAN
    BY DEF StartsResult
  <2> QED
    BY <1>1, <2>1 DEF CommandEdge, When
<1>10. /\ notify_send_result' \in BOOLEAN /\ result_sent' \in BOOLEAN
       /\ stop_send_result' \in BOOLEAN
  BY <1>1 DEF AnswerEdge, Driven, When, FaceDetectionIpTypeOK
<1> QED
  BY <1>1, <1>3, <1>4, <1>5, <1>6, <1>7, <1>8, <1>9, <1>10
  DEF FaceDetectionIpTypeOK, Written

\* Without a pixel the device stays untouched.
LEMMA UntouchedStep ==
  ASSUME Untouched, NEW reset, NEW resetting, NEW trig, NEW taken,
         FaceDetectionEdge(reset, resetting, FALSE, trig, taken)
  PROVE  Untouched'
<1> USE DEF Untouched, FaceDetectionEdge, I2LBSEdge
<1>1. window' = "IDLE" /\ ~enable'
  BY DEF WindowEdge, NextWindow, Inspecting, Driven, When
<1>2. ~recieve_coordinate' /\ ori_x' = 0 /\ ori_y' = 0 /\ ~end_coordinate'
  BY DEF CoordinateEdge, Driven, When
<1>3. ~enable_memory'
  BY <1>2 DEF MemoryEnableEdge
<1>4. ~integral_image_ready'
  BY DEF MemoryEdge, When
<1> QED
  BY <1>1, <1>2, <1>3, <1>4

\* One clock of the device keeps ResetInv, whatever is on the bus.
LEMMA ResetStep ==
  ASSUME FaceDetectionIpTypeOK, ResetInv, NEW w, NEW s, DeviceEdge(w, s)
  PROVE  ResetInv'
<1> DEFINE c == IF store_first THEN w ELSE write_data
<1>1. CommandEdge(c)
  BY DEF DeviceEdge
<1>2. FaceDetectionEdge(trig_reset, trig_reset', recieve_pixel, trig_send_result, result_sent)
  BY DEF DeviceEdge
<1> HIDE DEF c
<1>3. phase' = "IDLE" \/ trig_reset' => phase = "IDLE"
  BY <1>1 DEF CommandEdge, NextPhase, Resets
<1>4. trig_reset' => phase' = "STOP_SEND_PIXEL"
  BY <1>1 DEF CommandEdge, NextPhase, Resets, StartsPixel, StartsResult, StopsResult
<1>5. ASSUME phase = "IDLE" PROVE Untouched' /\ ~linux_end_send_pixel'
  <2>1. Untouched /\ ~linux_end_send_pixel
    BY <1>5 DEF ResetInv
  <2>2. recieve_pixel = FALSE
    BY <2>1 DEF recieve_pixel
  <2>3. Untouched'
    BY <1>2, <2>1, <2>2, UntouchedStep
  <2>4. ~linux_end_send_pixel'
    BY <1>1, <1>5, <2>1 DEF CommandEdge, EndEdge, Driven, When, EndsPixel
  <2> QED
    BY <2>3, <2>4
<1> QED
  BY <1>3, <1>4, <1>5 DEF ResetInv

----------------------------------------------------------------------------
\* What one clock does to the registers between the bus and the window memory,
\* when the command machine reads c.
Clocked(c) ==
  /\ UNCHANGED store_first
  /\ phase = "START_SEND_PIXEL" /\ ~(c = LINUX_STOP_SEND_PIXEL /\ fpga_recieve_pixel) =>
       phase' = "START_SEND_PIXEL" /\ pixel' = c /\ fpga_recieve_pixel'
  /\ phase = "START_SEND_PIXEL" /\ c = LINUX_STOP_SEND_PIXEL /\ fpga_recieve_pixel =>
       phase' = "STOP_SEND_PIXEL" /\ pixel' = pixel
  /\ phase # "START_SEND_PIXEL" /\ ~trig_reset => pixel' = pixel
  /\ phase' = "START_SEND_PIXEL" => ~linux_end_send_pixel'
  /\ linux_end_send_pixel' =>
       \/ linux_end_send_pixel /\ phase # "START_SEND_PIXEL" /\ ~trig_reset
       \/ phase = "START_SEND_PIXEL" /\ c = LINUX_STOP_SEND_PIXEL /\ fpga_recieve_pixel
  /\ enable_memory' => linux_end_send_pixel
  /\ phase = "IDLE" => phase' = IF c = LINUX_CALL_FPGA_RESET THEN "STOP_SEND_PIXEL" ELSE "IDLE"
  /\ phase = "STOP_SEND_PIXEL" /\ c = LINUX_START_SEND_PIXEL => phase' = "START_SEND_PIXEL"
  /\ phase = "STOP_SEND_PIXEL" /\ c \notin {LINUX_START_SEND_PIXEL, LINUX_START_RECIEVE_RESULT} =>
       phase' = "STOP_SEND_PIXEL"
  /\ phase' = "START_SEND_PIXEL" =>
       phase = "START_SEND_PIXEL" \/ c = LINUX_START_SEND_PIXEL

LEMMA ClockedStep ==
  ASSUME FaceDetectionIpTypeOK, ResetInv,
         phase = "START_SEND_PIXEL" => ~linux_end_send_pixel,
         NEW w, NEW s, DeviceEdge(w, s)
  PROVE  write_data' = w /\ Clocked(IF store_first THEN w ELSE write_data)
<1> DEFINE c == IF store_first THEN w ELSE write_data
<1>1. CommandEdge(c) /\ UNCHANGED store_first /\ write_data' = w
  BY DEF DeviceEdge
<1>2. FaceDetectionEdge(trig_reset, trig_reset', recieve_pixel, trig_send_result, result_sent)
  BY DEF DeviceEdge
<1> HIDE DEF c
<1> USE DEF LINUX_START_SEND_PIXEL, LINUX_STOP_SEND_PIXEL, LINUX_START_RECIEVE_RESULT,
            LINUX_STOP_RECIEVE_RESULT, LINUX_CALL_FPGA_RESET
<1>3. phase' = NextPhase(c)
  BY <1>1 DEF CommandEdge
<1>4. phase = "START_SEND_PIXEL" => ~trig_reset
  BY DEF ResetInv
<1>5. phase = "START_SEND_PIXEL" /\ ~(c = LINUX_STOP_SEND_PIXEL /\ fpga_recieve_pixel) =>
        phase' = "START_SEND_PIXEL" /\ pixel' = c /\ fpga_recieve_pixel'
  <2> SUFFICES ASSUME phase = "START_SEND_PIXEL", ~(c = LINUX_STOP_SEND_PIXEL /\ fpga_recieve_pixel)
               PROVE  phase' = "START_SEND_PIXEL" /\ pixel' = c /\ fpga_recieve_pixel'
    OBVIOUS
  <2>1. TakesPixel(c) /\ ~EndsPixel(c) /\ ~trig_reset
    BY <1>4 DEF TakesPixel, EndsPixel
  <2>2. phase' = "START_SEND_PIXEL"
    BY <1>3, <2>1 DEF NextPhase, Resets, StartsPixel, StartsResult, StopsResult
  <2> QED
    BY <1>1, <2>1, <2>2 DEF CommandEdge, EndEdge, Driven, When
<1>6. phase = "START_SEND_PIXEL" /\ c = LINUX_STOP_SEND_PIXEL /\ fpga_recieve_pixel =>
        phase' = "STOP_SEND_PIXEL" /\ pixel' = pixel
  <2> SUFFICES ASSUME phase = "START_SEND_PIXEL", c = LINUX_STOP_SEND_PIXEL, fpga_recieve_pixel
               PROVE  phase' = "STOP_SEND_PIXEL" /\ pixel' = pixel
    OBVIOUS
  <2>1. ~TakesPixel(c) /\ EndsPixel(c) /\ ~trig_reset
    BY <1>4 DEF TakesPixel, EndsPixel
  <2>2. phase' = "STOP_SEND_PIXEL"
    BY <1>3, <2>1 DEF NextPhase, Resets, StartsPixel, StartsResult, StopsResult
  <2> QED
    BY <1>1, <2>1, <2>2 DEF CommandEdge, EndEdge, Driven, When
<1>7. phase # "START_SEND_PIXEL" /\ ~trig_reset => pixel' = pixel
  BY <1>1 DEF CommandEdge, TakesPixel, Driven, When
<1>8. phase' = "START_SEND_PIXEL" => phase = "START_SEND_PIXEL" \/ StartsPixel(c)
  BY <1>3 DEF NextPhase
<1>9. phase' = "START_SEND_PIXEL" => ~linux_end_send_pixel'
  <2> SUFFICES ASSUME phase' = "START_SEND_PIXEL" PROVE ~linux_end_send_pixel'
    OBVIOUS
  <2>1. ~EndsPixel(c)
    BY <1>6 DEF EndsPixel
  <2>2. StartsPixel(c) \/ ~linux_end_send_pixel
    BY <1>8
  <2> QED
    BY <1>1, <2>1, <2>2 DEF CommandEdge, EndEdge, Driven, When
<1>10. linux_end_send_pixel' =>
         \/ linux_end_send_pixel /\ phase # "START_SEND_PIXEL" /\ ~trig_reset
         \/ phase = "START_SEND_PIXEL" /\ c = LINUX_STOP_SEND_PIXEL /\ fpga_recieve_pixel
  <2> SUFFICES ASSUME linux_end_send_pixel', ~EndsPixel(c)
               PROVE  linux_end_send_pixel
    BY DEF EndsPixel, ResetInv
  <2> QED
    BY <1>1 DEF CommandEdge, EndEdge, Driven, When
<1>11. enable_memory' => linux_end_send_pixel
  <2> SUFFICES ASSUME enable_memory' PROVE linux_end_send_pixel
    OBVIOUS
  <2>1. recieve_coordinate'
    BY <1>2 DEF FaceDetectionEdge, I2LBSEdge, MemoryEnableEdge
  <2>2. recieve_pixel
    BY <1>2, <2>1 DEF FaceDetectionEdge, CoordinateEdge, When
  <2> QED
    BY <2>2 DEF recieve_pixel
<1>12. phase = "IDLE" => phase' = IF c = LINUX_CALL_FPGA_RESET THEN "STOP_SEND_PIXEL" ELSE "IDLE"
  BY <1>3 DEF NextPhase, Resets, EndsPixel, StartsPixel, StartsResult, StopsResult
<1>13. phase = "STOP_SEND_PIXEL" /\ c = LINUX_START_SEND_PIXEL => phase' = "START_SEND_PIXEL"
  BY <1>3 DEF NextPhase, Resets, EndsPixel, StartsPixel, StartsResult, StopsResult
<1>14. phase = "STOP_SEND_PIXEL" /\ c \notin {LINUX_START_SEND_PIXEL, LINUX_START_RECIEVE_RESULT}
         => phase' = "STOP_SEND_PIXEL"
  BY <1>3 DEF NextPhase, Resets, EndsPixel, StartsPixel, StartsResult, StopsResult
<1>15. StartsPixel(c) => c = LINUX_START_SEND_PIXEL
  BY DEF StartsPixel
<1>16. Clocked(c)
  BY <1>1, <1>5, <1>6, <1>7, <1>8, <1>9, <1>10, <1>11, <1>12, <1>13, <1>14, <1>15 DEF Clocked
<1> QED
  BY <1>1, <1>16 DEF c

----------------------------------------------------------------------------
\* The bytes of the image are pixels.
LEMMA ImagePixel ==
  ASSUME NEW n \in Nat, n < Len(Image) PROVE Image[n + 1] \in Pixels
  BY ProgramAssumption

LEMMA CommandsWritten ==
  /\ 0 \in Written
  /\ LINUX_CALL_FPGA_RESET \in Written /\ LINUX_START_SEND_PIXEL \in Written
  /\ LINUX_STOP_SEND_PIXEL \in Written /\ LINUX_START_RECIEVE_RESULT \in Written
  /\ LINUX_STOP_RECIEVE_RESULT \in Written
BY DEF Written, Commands, LINUX_CALL_FPGA_RESET, LINUX_START_SEND_PIXEL, LINUX_STOP_SEND_PIXEL,
   LINUX_START_RECIEVE_RESULT, LINUX_STOP_RECIEVE_RESULT

\* Every step of the program is one clock of the device.
LEMMA StepIsClock ==
  ASSUME TypeOK, WrittenInv, Next
  PROVE  \E w \in Written, s \in BOOLEAN : DeviceEdge(w, s)
<1>1. write_data \in Written
  BY DEF TypeOK, FaceDetectionIpTypeOK, Written
<1> USE <1>1, CommandsWritten DEF Write, Read, NoAccess
<1>2. CASE Idle
  BY <1>2 DEF Idle
<1>3. CASE Restart
  BY <1>3 DEF Restart
<1>4. CASE Connect
  BY <1>4 DEF Connect
<1>5. CASE ResetFPGASystem
  BY <1>5 DEF ResetFPGASystem
<1>6. CASE PollReady
  BY <1>6 DEF PollReady
<1>7. CASE StartPixel
  BY <1>7 DEF StartPixel
<1>8. CASE SendPixel
  <2>1. Image[sent + 1] \in Written
    BY <1>8, ImagePixel, ProgramAssumption DEF SendPixel, Goto, WrittenInv, TypeOK, Written
  <2> QED
    BY <1>8, <2>1 DEF SendPixel
<1>9. CASE StopPixel
  BY <1>9 DEF StopPixel
<1>10. CASE AskWord
  BY <1>10 DEF AskWord
<1>11. CASE ReadWord
  BY <1>11 DEF ReadWord
<1>12. CASE EndResult
  BY <1>12 DEF EndResult
<1>13. CASE CheckFinished
  BY <1>13 DEF CheckFinished
<1> QED
  BY <1>2, <1>3, <1>4, <1>5, <1>6, <1>7, <1>8, <1>9, <1>10, <1>11, <1>12, <1>13 DEF Next, Access,
     WriteAccess, ReadAccess

----------------------------------------------------------------------------
\* The invariant that holds of every image: types, what is on the bus, and that
\* the device is reset before it is given anything.
BusInv ==
  /\ TypeOK
  /\ WrittenInv
  /\ ResetInv
  /\ phase = "START_SEND_PIXEL" => ~linux_end_send_pixel

\* The program's own variables, step by step.
LEMMA ProgramStep ==
  ASSUME TypeOK, WrittenInv, Next, FaceDetectionIpTypeOK',
         \A w, s : DeviceEdge(w, s) => write_data' = w
  PROVE  TypeOK' /\ WrittenInv'
<1> USE ProgramAssumption DEF TypeOK, WrittenInv, Write, NoAccess, Goto, Accesses
<1>a. read_data' \in {0} \cup Answers /\ read_data \in {0} \cup Answers
  BY DEF FaceDetectionIpTypeOK
<1>2. CASE Idle
  BY <1>2 DEF Idle
<1>3. CASE Restart
  BY <1>3 DEF Restart
<1>4. CASE Connect
  BY <1>4 DEF Connect
<1>5. CASE ResetFPGASystem
  BY <1>5 DEF ResetFPGASystem
<1>6. CASE PollReady
  BY <1>6, <1>a DEF PollReady, Read
<1>7. CASE StartPixel
  BY <1>7 DEF StartPixel
<1>8. CASE SendPixel
  BY <1>8 DEF SendPixel
<1>9. CASE StopPixel
  <2>1. Len(Image) \in Nat /\ sent < Len(Image) /\ sent \in Nat
    BY <1>9 DEF StopPixel
  <2>2. Image[sent + 1] \in Pixels
    BY <2>1, ImagePixel
  <2>3. completed' \in Pixels \cup {NoPixel} /\ sent' \in 0 .. Len(Image)
    BY <1>9, <2>1, <2>2 DEF StopPixel
  <2>4. pc' \in {"poll", "ask_x"} /\ (pc' = "poll" => sent' < Len(Image))
    BY <1>9, <2>1 DEF StopPixel
  <2> QED
    BY <1>9, <2>3, <2>4 DEF StopPixel
<1>10. CASE AskWord
  BY <1>10 DEF AskWord, AskNext
<1>11. CASE ReadWord
  BY <1>11, <1>a DEF ReadWord, Read, ReadNext
<1>12. CASE EndResult
  BY <1>12 DEF EndResult
<1>13. CASE CheckFinished
  <2>1. Answered \in {0} \cup Answers
    BY <1>a DEF Answered
  <2> QED
    BY <1>13, <1>a, <2>1 DEF CheckFinished, Read
<1> QED
  BY <1>2, <1>3, <1>4, <1>5, <1>6, <1>7, <1>8, <1>9, <1>10, <1>11, <1>12, <1>13 DEF Next, Access,
     WriteAccess, ReadAccess

LEMMA BusStep ==
  ASSUME BusInv, Next PROVE BusInv'
<1>1. PICK w \in Written, s \in BOOLEAN : DeviceEdge(w, s)
  BY StepIsClock DEF BusInv
<1>2. FaceDetectionIpTypeOK
  BY DEF BusInv, TypeOK
<1>3. FaceDetectionIpTypeOK' /\ ResetInv'
  BY <1>1, <1>2, DeviceTypeStep, ResetStep DEF BusInv
<1>4. phase' = "START_SEND_PIXEL" => ~linux_end_send_pixel'
  BY <1>1, <1>2, ClockedStep DEF BusInv, Clocked
<1>5. \A v, t : DeviceEdge(v, t) => write_data' = v
  BY DEF DeviceEdge
<1>6. TypeOK' /\ WrittenInv'
  BY <1>3, <1>5, ProgramStep DEF BusInv
<1> QED
  BY <1>3, <1>4, <1>6 DEF BusInv

----------------------------------------------------------------------------
\* The part of the invariant that follows a pixel value through the link.  It
\* holds when no pixel of the image has the value of a command.
LEMMA BusClock ==
  ASSUME BusInv, NEW w, NEW s, DeviceEdge(w, s)
  PROVE  write_data' = w /\ Clocked(IF store_first THEN w ELSE write_data)
BY ClockedStep DEF BusInv, TypeOK

LEMMA FirstRunStep ==
  ASSUME PixelsAreNoCommands, BusInv, FirstRunInv, PixelInv, Next
  PROVE  FirstRunInv'
<1> SUFFICES ASSUME runs' = 1 PROVE FirstRunInv'
  BY DEF FirstRunInv
<1>1. store_first \in BOOLEAN /\ runs \in Nat
  BY DEF BusInv, TypeOK, FaceDetectionIpTypeOK
<1>p. pc \in {"send", "stop"} => Image[sent + 1] \in Pixels /\ Image[sent + 1] \notin 1 .. 5
  BY ImagePixel, ProgramAssumption DEF BusInv, TypeOK, WrittenInv, PixelsAreNoCommands, Commands
<1>w. WrittenInv
  BY DEF BusInv
<1> USE <1>1, <1>w DEF WrittenInv, FirstRunInv, Write, NoAccess, Goto,
     LINUX_CALL_FPGA_RESET, LINUX_START_SEND_PIXEL, LINUX_STOP_SEND_PIXEL,
     LINUX_START_RECIEVE_RESULT
<1>2. CASE Idle
  <2>1. write_data' = write_data /\ Clocked(write_data)
    BY <1>2, BusClock DEF Idle
  <2>2. /\ UNCHANGED <<pc, runs, sent, store_first>>
    BY <1>2, <2>1 DEF Idle, Clocked
  <2>3. CASE pc = "connect"
    BY <2>1, <2>2, <2>3 DEF Clocked
  <2>4. CASE pc = "reset"
    BY <2>1, <2>2, <2>4 DEF Clocked
  <2>5. CASE pc = "poll"
    BY <2>1, <2>2, <2>5 DEF Clocked, PixelInv
  <2>6. CASE pc = "start"
    BY <2>1, <2>2, <2>6 DEF Clocked
  <2>7. CASE pc = "send"
    BY <2>1, <2>2, <2>7 DEF Clocked
  <2>8. CASE pc = "stop"
    BY <2>1, <2>2, <2>8, <1>p DEF Clocked
  <2> QED
    BY <2>2, <2>3, <2>4, <2>5, <2>6, <2>7, <2>8
<1>3. CASE Restart
  <2>1. runs \in 1 .. MaxRuns /\ MaxRuns \in Nat
    BY ProgramAssumption DEF BusInv, TypeOK
  <2> QED
    BY <1>3, <2>1 DEF Restart
<1>4. CASE Connect
  <2>1. write_data' = 5 /\ Clocked(IF store_first THEN 5 ELSE write_data)
    BY <1>4, BusClock DEF Connect
  <2> QED
    BY <1>4, <2>1 DEF Connect, Clocked
<1>5. CASE ResetFPGASystem
  <2>1. write_data' = 5 /\ Clocked(IF store_first THEN 5 ELSE write_data)
    BY <1>5, BusClock DEF ResetFPGASystem
  <2> QED
    BY <1>5, <2>1 DEF ResetFPGASystem, Clocked
<1>6. CASE PollReady
  <2>1. write_data' = write_data /\ Clocked(write_data)
    BY <1>6, BusClock DEF PollReady, Read
  <2>2. phase' = "STOP_SEND_PIXEL"
    BY <1>6, <2>1 DEF PollReady, Clocked, PixelInv
  <2> QED
    BY <1>6, <2>1, <2>2 DEF PollReady
<1>7. CASE StartPixel
  <2>1. write_data' = 1 /\ Clocked(IF store_first THEN 1 ELSE write_data)
    BY <1>7, BusClock DEF StartPixel
  <2>2. (store_first' <=> store_first) /\ phase = "STOP_SEND_PIXEL"
    BY <1>7, <2>1 DEF StartPixel, Clocked
  <2>3. store_first => phase' = "START_SEND_PIXEL"
    BY <2>1, <2>2 DEF Clocked
  <2>4. ~store_first => phase' = "STOP_SEND_PIXEL"
    BY <1>7, <2>1, <2>2 DEF StartPixel, Clocked
  <2> QED
    BY <1>7, <2>2, <2>3, <2>4 DEF StartPixel
<1>8. CASE SendPixel
  <2> DEFINE p == Image[sent + 1]
  <2>1. write_data' = p /\ Clocked(IF store_first THEN p ELSE write_data)
    BY <1>8, BusClock DEF SendPixel
  <2>2. p \notin 1 .. 5 /\ pc = "send" /\ write_data = 1
    BY <1>8, <1>p DEF SendPixel
  <2> HIDE DEF p
  <2>3. store_first => phase' = "START_SEND_PIXEL"
    BY <1>8, <2>1, <2>2 DEF SendPixel, Clocked
  <2>4. ~store_first => phase' = "START_SEND_PIXEL"
    BY <1>8, <2>1, <2>2 DEF SendPixel, Clocked
  <2> QED
    BY <1>8, <2>3, <2>4 DEF SendPixel
<1>9. CASE StopPixel
  <2> DEFINE p == Image[sent + 1]
  <2>1. write_data' = 2 /\ Clocked(IF store_first THEN 2 ELSE write_data)
    BY <1>9, BusClock DEF StopPixel
  <2>2. p \notin 1 .. 5 /\ pc = "stop" /\ write_data = p
    BY <1>9, <1>p DEF StopPixel
  <2>3. runs = 1 /\ phase = "START_SEND_PIXEL"
    BY <1>9, <2>2 DEF StopPixel
  <2>4. store_first => phase' = "STOP_SEND_PIXEL"
    BY <2>1, <2>2, <2>3 DEF Clocked, PixelInv
  <2> HIDE DEF p
  <2>5. ~store_first => phase' = "START_SEND_PIXEL"
    BY <2>1, <2>2, <2>3 DEF Clocked
  <2> QED
    BY <1>9, <2>1, <2>4, <2>5 DEF StopPixel
<1>10. CASE AskWord
  BY <1>10 DEF AskWord, AskNext
<1>11. CASE ReadWord
  BY <1>11 DEF ReadWord, ReadNext
<1>12. CASE EndResult
  BY <1>12 DEF EndResult
<1>13. CASE CheckFinished
  BY <1>13 DEF CheckFinished
<1> QED
  BY <1>2, <1>3, <1>4, <1>5, <1>6, <1>7, <1>8, <1>9, <1>10, <1>11, <1>12, <1>13 DEF Next, Access,
     WriteAccess, ReadAccess

\* What the proof of PixelInv needs to know of a step that writes w.
Shape(w) ==
  /\ write_data' = w
  /\ Clocked(IF store_first THEN w ELSE write_data)
  /\ runs' = 1 => runs = 1
  /\ w = LINUX_STOP_SEND_PIXEL => StopPixel \/ w = write_data
  /\ pc' = "stop" => ~StopPixel /\ sent' = sent /\ w = Image[sent + 1] /\ w \in Pixels
  /\ \/ StopPixel /\ pc = "stop" /\ completed' = Image[sent + 1]
     \/ ~StopPixel /\ (runs' = 1 => completed' = completed)

LEMMA StepShape ==
  ASSUME PixelsAreNoCommands, BusInv, Next PROVE \E w : Shape(w)
<1>p. pc = "send" \/ pc = "stop" => Image[sent + 1] \in Pixels /\ Image[sent + 1] \notin 1 .. 5
  BY ImagePixel, ProgramAssumption DEF BusInv, TypeOK, WrittenInv, PixelsAreNoCommands, Commands
<1>r. runs \in 1 .. MaxRuns /\ MaxRuns \in Nat
  BY ProgramAssumption DEF BusInv, TypeOK
<1> USE <1>p, <1>r DEF Write, NoAccess, Goto, LINUX_CALL_FPGA_RESET, LINUX_START_SEND_PIXEL,
     LINUX_STOP_SEND_PIXEL, LINUX_START_RECIEVE_RESULT, LINUX_STOP_RECIEVE_RESULT
<1>2. CASE Idle
  <2>1. write_data' = write_data /\ Clocked(write_data)
    BY <1>2, BusClock DEF Idle
  <2>2. pc = "stop" => write_data = Image[sent + 1]
    BY DEF BusInv, WrittenInv
  <2>3. ~StopPixel
    BY <1>2 DEF Idle, StopPixel
  <2>4. Shape(write_data)
    BY <1>2, <2>1, <2>2, <2>3 DEF Idle, Shape
  <2> QED
    BY <2>4
<1>3. CASE Restart
  <2>1. write_data' = write_data /\ Clocked(write_data)
    BY <1>3, BusClock DEF Restart
  <2>3. ~StopPixel
    BY <1>3 DEF Restart, StopPixel
  <2>4. Shape(write_data)
    BY <1>3, <2>1, <2>3 DEF Restart, Shape
  <2> QED
    BY <2>4
<1>4. CASE Connect
  <2>1. DeviceEdge(5, FALSE) /\ ~StopPixel
    BY <1>4 DEF Connect, StopPixel
  <2>2. write_data' = 5 /\ Clocked(IF store_first THEN 5 ELSE write_data)
    BY <2>1, BusClock
  <2>3. Shape(5)
    BY <1>4, <2>1, <2>2 DEF Connect, Shape
  <2> QED
    BY <2>3
<1>5. CASE ResetFPGASystem
  <2>1. DeviceEdge(5, FALSE) /\ ~StopPixel
    BY <1>5 DEF ResetFPGASystem, StopPixel
  <2>2. write_data' = 5 /\ Clocked(IF store_first THEN 5 ELSE write_data)
    BY <2>1, BusClock
  <2>3. Shape(5)
    BY <1>5, <2>1, <2>2 DEF ResetFPGASystem, Shape
  <2> QED
    BY <2>3
<1>6. CASE PollReady
  <2>1. DeviceEdge(write_data, TRUE) /\ ~StopPixel
    BY <1>6 DEF PollReady, Read, StopPixel
  <2>2. write_data' = write_data /\ Clocked(write_data)
    BY <2>1, BusClock
  <2>3. Shape(write_data)
    BY <1>6, <2>1, <2>2 DEF PollReady, Shape
  <2> QED
    BY <2>3
<1>7. CASE StartPixel
  <2>1. DeviceEdge(1, FALSE) /\ ~StopPixel
    BY <1>7 DEF StartPixel, StopPixel
  <2>2. write_data' = 1 /\ Clocked(IF store_first THEN 1 ELSE write_data)
    BY <2>1, BusClock
  <2>3. Shape(1)
    BY <1>7, <2>1, <2>2 DEF StartPixel, Shape
  <2> QED
    BY <2>3
<1>8. CASE SendPixel
  <2>1. DeviceEdge(Image[sent + 1], FALSE) /\ ~StopPixel
    BY <1>8 DEF SendPixel, StopPixel
  <2>2. write_data' = Image[sent + 1] /\ Clocked(IF store_first THEN Image[sent + 1] ELSE write_data)
    BY <2>1, BusClock
  <2>3. Shape(Image[sent + 1])
    BY <1>8, <2>1, <2>2 DEF SendPixel, Shape
  <2> QED
    BY <2>3
<1>9. CASE StopPixel
  <2>1. DeviceEdge(2, FALSE)
    BY <1>9 DEF StopPixel
  <2>2. write_data' = 2 /\ Clocked(IF store_first THEN 2 ELSE write_data)
    BY <2>1, BusClock
  <2>3. pc = "stop" /\ pc' # "stop" /\ completed' = Image[sent + 1] /\ runs' = runs
    BY <1>9 DEF StopPixel
  <2>4. Shape(2)
    BY <1>9, <2>2, <2>3 DEF Shape
  <2> QED
    BY <2>4
<1>10. CASE AskWord
  <2>1. DeviceEdge(3, FALSE) /\ ~StopPixel
    BY <1>10 DEF AskWord, StopPixel, AskNext
  <2>2. write_data' = 3 /\ Clocked(IF store_first THEN 3 ELSE write_data)
    BY <2>1, BusClock
  <2>3. Shape(3)
    BY <1>10, <2>1, <2>2 DEF AskWord, Shape, AskNext
  <2> QED
    BY <2>3
<1>11. CASE ReadWord
  <2>1. DeviceEdge(write_data, TRUE) /\ ~StopPixel
    BY <1>11 DEF ReadWord, Read, StopPixel, ReadNext
  <2>2. write_data' = write_data /\ Clocked(write_data)
    BY <2>1, BusClock
  <2>3. Shape(write_data)
    BY <1>11, <2>1, <2>2 DEF ReadWord, Shape, ReadNext
  <2> QED
    BY <2>3
<1>12. CASE EndResult
  <2>1. DeviceEdge(4, FALSE) /\ ~StopPixel
    BY <1>12 DEF EndResult, StopPixel
  <2>2. write_data' = 4 /\ Clocked(IF store_first THEN 4 ELSE write_data)
    BY <2>1, BusClock
  <2>3. Shape(4)
    BY <1>12, <2>1, <2>2 DEF EndResult, Shape
  <2> QED
    BY <2>3
<1>13. CASE CheckFinished
  <2>1. DeviceEdge(write_data, TRUE) /\ ~StopPixel
    BY <1>13 DEF CheckFinished, Read, StopPixel
  <2>2. write_data' = write_data /\ Clocked(write_data)
    BY <2>1, BusClock
  <2>3. Shape(write_data)
    BY <1>13, <2>1, <2>2 DEF CheckFinished, Shape
  <2> QED
    BY <2>3
<1> QED
  BY <1>2, <1>3, <1>4, <1>5, <1>6, <1>7, <1>8, <1>9, <1>10, <1>11, <1>12, <1>13 DEF Next, Access,
     WriteAccess, ReadAccess

LEMMA PixelStep ==
  ASSUME PixelsAreNoCommands, BusInv, FirstRunInv, PixelInv, Next
  PROVE  PixelInv'
<1>1. PICK w : Shape(w)
  BY StepShape
<1> DEFINE c == IF store_first THEN w ELSE write_data
<1>2. Clocked(c) /\ write_data' = w
  BY <1>1 DEF Shape
<1>3. store_first' = store_first /\ store_first \in BOOLEAN
  BY <1>2 DEF Clocked, BusInv, TypeOK, FaceDetectionIpTypeOK
<1>4. pc = "stop" => Image[sent + 1] \in Pixels /\ write_data = Image[sent + 1]
  BY ImagePixel, ProgramAssumption DEF BusInv, TypeOK, WrittenInv
<1>5. \A p \in Pixels : p # LINUX_STOP_SEND_PIXEL /\ p # LINUX_START_SEND_PIXEL
  BY DEF PixelsAreNoCommands, Commands, LINUX_STOP_SEND_PIXEL, LINUX_START_SEND_PIXEL
<1>6. LINUX_STOP_SEND_PIXEL # LINUX_START_SEND_PIXEL
  BY DEF LINUX_STOP_SEND_PIXEL, LINUX_START_SEND_PIXEL
\* A pixel that fits goes on fitting while no transfer is open.
<1>7. ASSUME Fit, phase # "START_SEND_PIXEL", ~trig_reset PROVE Fit'
  <2>1. pixel' = pixel
    BY <1>2, <1>7 DEF Clocked
  <2>2. runs' = 1 => completed' = completed
    BY <1>1, <1>7 DEF Shape, FirstRunInv
  <2> QED
    BY <1>1, <1>7, <2>1, <2>2 DEF Shape, Fit
\* A pixel that is ended fits.
<1>8. ASSUME phase = "START_SEND_PIXEL", c = LINUX_STOP_SEND_PIXEL, fpga_recieve_pixel PROVE Fit'
  <2>1. pixel' = pixel
    BY <1>2, <1>8 DEF Clocked
  <2>2. CASE store_first
    <3>1. w = LINUX_STOP_SEND_PIXEL
      BY <1>8, <2>2
    <3>2. write_data # LINUX_STOP_SEND_PIXEL
      BY <1>8, <2>2 DEF PixelInv
    <3>3. StopPixel /\ pc = "stop" /\ completed' = Image[sent + 1]
      BY <1>1, <3>1, <3>2 DEF Shape
    <3> QED
      BY <1>8, <1>4, <2>1, <2>2, <3>3 DEF PixelInv, Fit
  <2>3. CASE ~store_first
    <3>1. Fit /\ pc # "stop"
      BY <1>8, <1>4, <1>5, <2>3 DEF PixelInv
    <3>2. runs' = 1 => runs = 1 /\ completed' = completed
      BY <1>1, <3>1 DEF Shape
    <3> QED
      BY <2>1, <3>1, <3>2 DEF Fit
  <2> QED
    BY <1>3, <2>2, <2>3
<1>9. phase' = "START_SEND_PIXEL" => ~linux_end_send_pixel'
  BY <1>2 DEF Clocked
<1>10. ASSUME phase' = "START_SEND_PIXEL", pc' = "stop", store_first'
       PROVE  fpga_recieve_pixel' /\ pixel' = Image[sent' + 1]
  <2>1. c = Image[sent' + 1] /\ c \in Pixels
    BY <1>1, <1>3, <1>10 DEF Shape
  <2>2. phase = "START_SEND_PIXEL"
    BY <1>2, <1>5, <1>10, <2>1 DEF Clocked
  <2> QED
    BY <1>2, <1>5, <2>1, <2>2 DEF Clocked
<1>11. ASSUME phase' = "START_SEND_PIXEL", write_data' = LINUX_STOP_SEND_PIXEL
       PROVE  ~store_first' /\ fpga_recieve_pixel' /\ Fit'
  <2>1. phase = "START_SEND_PIXEL" \/ c = LINUX_START_SEND_PIXEL
    BY <1>2, <1>11 DEF Clocked
  <2>2. phase = "START_SEND_PIXEL" => ~(c = LINUX_STOP_SEND_PIXEL /\ fpga_recieve_pixel)
    BY <1>2, <1>11 DEF Clocked
  <2>3. CASE StopPixel
    <3>1. pc = "stop" /\ completed' = Image[sent + 1] /\ write_data \in Pixels
      BY <1>1, <1>4, <2>3 DEF Shape
    <3>2. phase = "START_SEND_PIXEL"
      BY <1>2, <1>3, <1>5, <1>6, <1>11, <2>1, <3>1
    <3>3. ~store_first
      BY <1>2, <1>11, <2>2, <3>1, <3>2 DEF PixelInv
    <3>4. pixel' = write_data /\ fpga_recieve_pixel'
      BY <1>2, <2>2, <3>2, <3>3 DEF Clocked
    <3> QED
      BY <1>3, <1>4, <3>1, <3>3, <3>4 DEF Fit
  <2>4. CASE ~StopPixel
    <3>1. c = LINUX_STOP_SEND_PIXEL /\ write_data = LINUX_STOP_SEND_PIXEL
      BY <1>1, <1>2, <1>11, <2>4 DEF Shape
    <3>2. phase = "START_SEND_PIXEL"
      BY <1>6, <2>1, <3>1
    <3> QED
      BY <2>2, <3>1, <3>2 DEF PixelInv
  <2> QED
    BY <2>3, <2>4
<1>12. linux_end_send_pixel' => Fit'
  BY <1>2, <1>7, <1>8 DEF Clocked, PixelInv
<1>13. enable_memory' => Fit'
  <2> SUFFICES ASSUME enable_memory' PROVE Fit'
    OBVIOUS
  <2>1. linux_end_send_pixel /\ Fit
    BY <1>2 DEF Clocked, PixelInv
  <2>2. phase # "START_SEND_PIXEL" /\ ~trig_reset
    BY <2>1 DEF PixelInv, BusInv, ResetInv
  <2> QED
    BY <1>7, <2>1, <2>2
<1> QED
  BY <1>9, <1>10, <1>11, <1>12, <1>13 DEF PixelInv

----------------------------------------------------------------------------
LEMMA BusInit ==
  ASSUME Init PROVE BusInv /\ FirstRunInv /\ PixelInv
<1>1. Untouched /\ ~linux_end_send_pixel /\ ~trig_reset /\ phase = "IDLE" /\ ~enable_memory
  BY DEF Init, FaceDetectionIpInit, FaceDetectionInit, I2LBSInit, Untouched
<1>2. FaceDetectionIpTypeOK
  <2>1. FaceDetectionTypeOK
    BY FrameTypeInit DEF Init, FaceDetectionIpInit
  <2> QED
    BY <2>1 DEF Init, FaceDetectionIpInit, FaceDetectionIpTypeOK, Phases
<1>3. TypeOK
  BY <1>2, ProgramAssumption DEF Init, TypeOK, Accesses
<1>4. WrittenInv
  BY ProgramAssumption DEF Init, WrittenInv
<1>5. FirstRunInv
  BY DEF Init, FaceDetectionIpInit, FirstRunInv
<1> QED
  BY <1>1, <1>3, <1>4, <1>5 DEF BusInv, ResetInv, PixelInv

LEMMA BusStutter ==
  ASSUME BusInv, UNCHANGED vars PROVE BusInv'
BY DEF BusInv, TypeOK, FaceDetectionIpTypeOK, FaceDetectionTypeOK, I2LBSTypeOK, ResultStoreTypeOK,
   WrittenInv, ResetInv, Untouched, vars, FaceDetectionIpvars, FaceDetectionvars, I2LBSvars,
   ResultStorevars, Programvars

LEMMA BusInductive == Spec => []BusInv
<1>1. Init => BusInv
  BY BusInit
<1>2. BusInv /\ [Next]_vars => BusInv'
  BY BusStep, BusStutter
<1> QED
  BY <1>1, <1>2, PTL DEF Spec

\* The registers of the device and the variables of the program keep their types,
\* for every image, in every run (face_detection_ip.v, FPGAManager.cpp).
THEOREM LinkTypeCorrect == Spec => []TypeOK
<1>1. BusInv => TypeOK
  BY DEF BusInv
<1> QED
  BY <1>1, BusInductive, PTL

\* The program and the bus slave drive the frame controller as its specification
\* expects of its environment: what is proved of FrameControl, such as that the
\* window memory stands still during an inspection, holds in the whole device
\* (face_detection_ip.v, face_detection.v, FPGAManager.cpp).
THEOREM LinkDrivesFrameControl == Spec => DrivesFrameControl
<1>1. Init => FaceDetectionInit
  BY DEF Init, FaceDetectionIpInit
<1>2. BusInv /\ BusInv' /\ [Next]_vars => [FrameClock]_FaceDetectionvars
  <2>1. ASSUME BusInv, BusInv', Next PROVE FrameClock
    <3>1. PICK w \in Written, s \in BOOLEAN : DeviceEdge(w, s)
      BY <2>1, StepIsClock DEF BusInv
    <3>2. FaceDetectionEdge(trig_reset, trig_reset', recieve_pixel, trig_send_result, result_sent)
      BY <3>1 DEF DeviceEdge
    <3>3. /\ trig_reset \in BOOLEAN /\ trig_reset' \in BOOLEAN
          /\ trig_send_result \in BOOLEAN /\ result_sent \in BOOLEAN
      BY <2>1 DEF BusInv, TypeOK, FaceDetectionIpTypeOK
    <3>4. recieve_pixel \in BOOLEAN /\ (recieve_pixel => o_fpga_ready_recieve_pixel)
      BY DEF recieve_pixel, o_fpga_ready_recieve_pixel
    <3>5. trig_reset' => phase = "IDLE"
      BY <3>1 DEF DeviceEdge, CommandEdge, Resets
    <3>6. trig_reset \/ trig_reset' => Untouched
      BY <2>1, <3>5 DEF BusInv, ResetInv
    <3> QED
      BY <3>2, <3>3, <3>4, <3>6 DEF FrameClock
  <2>2. UNCHANGED vars => UNCHANGED FaceDetectionvars
    BY DEF vars, FaceDetectionIpvars
  <2> QED
    BY <2>1, <2>2
<1> QED
  BY <1>1, <1>2, BusInductive, PTL DEF Spec, DrivesFrameControl, FrameControl

\* In the whole device too the window memory stands still during an inspection
\* (I2LBS.v).
THEOREM LinkImageStable == Spec => []StableImage
BY LinkDrivesFrameControl, ImageStable, PTL DEF DrivesFrameControl

\* Driven by the program, the window memory never takes pixels at two clocks in a
\* row (row.v).
THEOREM LinkSpaced == Spec => PixelsSpaced
BY LinkDrivesFrameControl, MemorySpaced, PTL DEF DrivesFrameControl

\* The coordinate stands still while a transfer is open (face_detection_ip.v).
THEOREM LinkCoordinateStands == Spec => CoordinateStands
<1>1. BusInv /\ [Next]_vars => [phase = "START_SEND_PIXEL" => UNCHANGED <<ori_x, ori_y>>]_vars
  <2> SUFFICES ASSUME BusInv, Next, phase = "START_SEND_PIXEL" PROVE UNCHANGED <<ori_x, ori_y>>
    OBVIOUS
  <2>1. PICK w \in Written, s \in BOOLEAN : DeviceEdge(w, s)
    BY StepIsClock DEF BusInv
  <2>2. ~trig_reset /\ ~recieve_pixel
    BY DEF BusInv, ResetInv, recieve_pixel
  <2>3. CoordinateEdge(trig_reset, recieve_pixel)
    BY <2>1 DEF DeviceEdge, FaceDetectionEdge
  <2> QED
    BY <2>2, <2>3 DEF CoordinateEdge, Driven, When
<1> QED
  BY <1>1, BusInductive, PTL DEF Spec, CoordinateStands

LEMMA LinkInductive == PixelsAreNoCommands => (Spec => [](BusInv /\ FirstRunInv /\ PixelInv))
<1> SUFFICES ASSUME PixelsAreNoCommands PROVE Spec => [](BusInv /\ FirstRunInv /\ PixelInv)
  OBVIOUS
<1> DEFINE I == BusInv /\ FirstRunInv /\ PixelInv
<1>1. Init => I
  BY BusInit
<1>2. I /\ [Next]_vars => I'
  <2>1. ASSUME I, Next PROVE I'
    BY <2>1, BusStep, FirstRunStep, PixelStep
  <2>2. ASSUME I, UNCHANGED vars PROVE I'
    BY <2>2, BusStutter DEF FirstRunInv, PixelInv, Fit, vars, FaceDetectionIpvars,
       FaceDetectionvars, I2LBSvars, Programvars
  <2> QED
    BY <2>1, <2>2
<1>3. Spec => []I
  <2> HIDE DEF I
  <2> QED
    BY <1>1, <1>2, PTL DEF Spec
<1> QED
  BY <1>3

\* When no pixel of the image has the value of a command, the window memory takes
\* only pixels, and in a first run only the one whose transfer the program completed
\* last, in both orders of the blocks that share write_data (face_detection_ip.v).
THEOREM LinkTakesSentPixel == PixelsAreNoCommands => (Spec => []MemoryTakesSentPixel)
<1> SUFFICES ASSUME PixelsAreNoCommands PROVE Spec => []MemoryTakesSentPixel
  OBVIOUS
<1>1. BusInv /\ FirstRunInv /\ PixelInv => MemoryTakesSentPixel
  BY DEF PixelInv, Fit, MemoryTakesSentPixel
<1> QED
  BY <1>1, LinkInductive, PTL

----------------------------------------------------------------------------
\* The words that the program keeps of a result, in a first run.

\* Before the first request for a result, and from it to the end of that result.
Sending == results = 0 /\ pc \in {"connect", "reset", "poll", "start", "send", "stop", "ask_x"}
FirstResult ==
  results = 0 /\ pc \in {"read_x", "ask_y", "read_y", "ask_scale", "read_scale", "end_result"}
LaterResult ==
  results # 0 /\ pc \in {"ask_x", "read_x", "ask_y", "read_y", "ask_scale", "read_scale", "end_result"}

\* Nothing was asked of the store.
Unasked == q = NoWord /\ ~trig_send_result /\ ~notify_send_result

\* One word was asked for, and is on its way or at the output; or the store had none.
AskedOnce == q = NoWord \/ (q = 1 /\ ~trig_send_result)

SendingInv ==
  Sending =>
    /\ Unasked
    /\ held = NoWord
    /\ phase \in {"IDLE", "STOP_SEND_PIXEL", "START_SEND_PIXEL"}
    /\ pc = "ask_x" => write_data = LINUX_STOP_SEND_PIXEL

FirstResultInv ==
  FirstResult =>
    /\ write_data = LINUX_START_RECIEVE_RESULT
    /\ \/ phase = "STOP_SEND_PIXEL" /\ Unasked
       \/ phase = "START_RECIEVE_RESULT" /\ AskedOnce
    /\ pc = "read_x" => held = NoWord /\ (phase = "START_RECIEVE_RESULT" => notify_send_result)
    /\ held \in {NoWord, 1}
    /\ kept \in [Fields -> {NoWord, 1}]
    /\ kept["read_x"] = NoWord

LaterResultInv == LaterResult => result_empty /\ held = NoWord /\ kept = NoResult

\* The reset is over before a pixel is sent; what said that no result is left stands.
EmptyInv ==
  /\ pc \in {"connect", "reset"} \/ trig_reset => read_data = 0
  /\ pc \notin {"connect", "reset"} => phase # "IDLE"
  /\ pc \notin {"connect", "reset", "poll"} => ~trig_reset
  /\ read_data = FPGA_FINISH_RESULT /\ pc # "poll" => result_empty

\* Where in its run the program is.
PlaceInv ==
  /\ pc \in {"connect", "reset", "poll", "start", "send", "stop"} => results = 0
  /\ pc \in {"finished", "disconnect"} => results # 0

KeptInv ==
  runs = 1 =>
    /\ PlaceInv /\ SendingInv /\ FirstResultInv /\ LaterResultInv /\ EmptyInv
    /\ pc = "ask_x" => kept = NoResult

\* What one clock does to the words on their way, when the command machine reads c
\* and the bus reads (s) or not.
Reads(c, s) ==
  /\ trig_reset' => phase = "IDLE"
  /\ phase' = "IDLE" => phase = "IDLE"
  /\ ~s => read_data' = read_data /\ held' = held
  /\ read_data' = FPGA_FINISH_RESULT => read_data = FPGA_FINISH_RESULT \/ result_empty
  /\ result_empty /\ ~trig_reset => result_empty'
  /\ result_empty /\ s => held' = NoWord
  /\ held' \in {held, q, NoWord}
  /\ notify_send_result => held' \in {held, NoWord}
  /\ q' \in {q, q + 1}
  /\ ~trig_send_result => q' = q
  /\ trig_send_result' => phase # "START_RECIEVE_RESULT" /\ phase' = "START_RECIEVE_RESULT"
  /\ phase' = "START_RECIEVE_RESULT" /\ phase # "START_RECIEVE_RESULT" =>
       /\ c = LINUX_START_RECIEVE_RESULT
       /\ ~notify_send_result /\ ~trig_reset => notify_send_result'
  /\ ~notify_send_result /\ phase' # "START_RECIEVE_RESULT" => ~notify_send_result'
  /\ notify_send_result /\ ~s /\ ~trig_reset => notify_send_result'
  /\ c = LINUX_START_RECIEVE_RESULT /\ phase = "START_RECIEVE_RESULT" =>
       phase' = "START_RECIEVE_RESULT"
  /\ c = LINUX_START_RECIEVE_RESULT /\ phase = "STOP_SEND_PIXEL" =>
       phase' \in {"STOP_SEND_PIXEL", "START_RECIEVE_RESULT"}
  /\ c # LINUX_START_RECIEVE_RESULT /\ phase \in {"IDLE", "STOP_SEND_PIXEL", "START_SEND_PIXEL"} =>
       phase' \in {"IDLE", "STOP_SEND_PIXEL", "START_SEND_PIXEL"}
  /\ phase = "START_SEND_PIXEL" => phase' \in {"STOP_SEND_PIXEL", "START_SEND_PIXEL"}

LEMMA ReadsStep ==
  ASSUME FaceDetectionIpTypeOK, NEW w, NEW s \in BOOLEAN, DeviceEdge(w, s), OutputEdge, HeldEdge(s)
  PROVE  Reads(IF store_first THEN w ELSE write_data, s)
<1> DEFINE c == IF store_first THEN w ELSE write_data
<1>1. CommandEdge(c) /\ AnswerEdge(c, s)
  BY DEF DeviceEdge
<1>2. FaceDetectionEdge(trig_reset, trig_reset', recieve_pixel, trig_send_result, result_sent)
  BY DEF DeviceEdge
<1> HIDE DEF c
<1>3. phase' = NextPhase(c)
  BY <1>1 DEF CommandEdge
<1>t. /\ trig_reset \in BOOLEAN /\ notify_send_result \in BOOLEAN /\ result_empty \in BOOLEAN
      /\ trig_send_result \in BOOLEAN /\ phase \in Phases
  BY DEF FaceDetectionIpTypeOK, FaceDetectionTypeOK, ResultStoreTypeOK
<1> USE DEF LINUX_START_SEND_PIXEL, LINUX_STOP_SEND_PIXEL, LINUX_START_RECIEVE_RESULT,
            LINUX_STOP_RECIEVE_RESULT, LINUX_CALL_FPGA_RESET
<1>4. trig_reset' => phase = "IDLE"
  BY <1>1 DEF CommandEdge, Resets
<1>5. phase' = "IDLE" => phase = "IDLE"
  BY <1>3 DEF NextPhase
<1>6. ~s => read_data' = read_data /\ held' = held
  BY <1>1 DEF AnswerEdge, HeldEdge
<1>7. read_data' = FPGA_FINISH_RESULT => read_data = FPGA_FINISH_RESULT \/ result_empty
  <2>1. Answer = FPGA_FINISH_RESULT => read_data = FPGA_FINISH_RESULT \/ result_empty
    BY DEF Answer, AnswersFinish, FPGA_START_RECIEVE_PIXEL, FPGA_STOP_RECIEVE_PIXEL,
       FPGA_FINISH_RESULT, FPGA_START_SEND_RESULT, FPGA_STOP_SEND_RESULT, ResultWord
  <2> QED
    BY <1>1, <2>1 DEF AnswerEdge
<1>8. result_empty /\ ~trig_reset => result_empty'
  BY <1>2 DEF FaceDetectionEdge, ResultStoreEdge, StoreFlags, Driven, When
<1>9. result_empty /\ s => held' = NoWord
  BY DEF HeldEdge, AnswersReady, AnswersTaken, AnswersFinish, AnswersWord, SendsResult
<1>10. held' \in {held, q, NoWord}
  BY DEF HeldEdge
<1>11. notify_send_result => held' \in {held, NoWord}
  BY DEF HeldEdge, AnswersWord, AnswersNotify
<1>12. q' \in {q, q + 1} /\ (~trig_send_result => q' = q)
  BY DEF OutputEdge
<1>13. StartsResult(c) <=> phase' = "START_RECIEVE_RESULT" /\ phase # "START_RECIEVE_RESULT"
  <2>1. StartsResult(c) =>
          ~Resets(c) /\ ~EndsPixel(c) /\ ~StartsPixel(c) /\ phase # "START_RECIEVE_RESULT"
    BY DEF StartsResult, Resets, EndsPixel, StartsPixel
  <2>2. StartsResult(c) => phase' = "START_RECIEVE_RESULT"
    BY <1>3 DEF NextPhase, Resets, EndsPixel, StartsPixel, StartsResult, StopsResult
  <2>3. phase' = "START_RECIEVE_RESULT" /\ phase # "START_RECIEVE_RESULT" => StartsResult(c)
    BY <1>3 DEF NextPhase
  <2>4. StartsResult(c) \in BOOLEAN
    BY DEF StartsResult
  <2> QED
    BY <2>1, <2>2, <2>3, <2>4
<1>14. StartsResult(c) => c = LINUX_START_RECIEVE_RESULT
  BY DEF StartsResult
<1>15. trig_send_result' => StartsResult(c)
  BY <1>1 DEF CommandEdge, When
<1>16. StartsResult(c) /\ ~notify_send_result /\ ~trig_reset => notify_send_result'
  <2>1. ~notify_send_result => ~AnswersNotify
    BY DEF AnswersNotify
  <2> QED
    BY <1>1, <2>1 DEF AnswerEdge, Driven, When
<1>17. ~notify_send_result /\ ~StartsResult(c) => ~notify_send_result'
  BY <1>1 DEF AnswerEdge, Driven, When
<1>18. notify_send_result /\ ~s /\ ~trig_reset => notify_send_result'
  BY <1>1 DEF AnswerEdge, Driven, When
<1>19. /\ c = LINUX_START_RECIEVE_RESULT /\ phase = "START_RECIEVE_RESULT" =>
            phase' = "START_RECIEVE_RESULT"
       /\ c = LINUX_START_RECIEVE_RESULT /\ phase = "STOP_SEND_PIXEL" =>
            phase' \in {"STOP_SEND_PIXEL", "START_RECIEVE_RESULT"}
  BY <1>3 DEF NextPhase, Resets, EndsPixel, StartsPixel, StopsResult
<1>20. c # LINUX_START_RECIEVE_RESULT /\ phase \in {"IDLE", "STOP_SEND_PIXEL", "START_SEND_PIXEL"}
         => phase' \in {"IDLE", "STOP_SEND_PIXEL", "START_SEND_PIXEL"}
  BY <1>3 DEF NextPhase, StartsResult, StopsResult
<1>21. phase = "START_SEND_PIXEL" => phase' \in {"STOP_SEND_PIXEL", "START_SEND_PIXEL"}
  BY <1>3 DEF NextPhase, StartsResult, StopsResult
<1>22. Reads(c, s)
  BY <1>t, <1>4, <1>5, <1>6, <1>7, <1>8, <1>9, <1>10, <1>11, <1>12, <1>13, <1>14, <1>15, <1>16,
     <1>17, <1>18, <1>19, <1>20, <1>21 DEF Reads
<1> QED
  BY <1>22 DEF c

Asks ==
  \/ pc = "ask_x" /\ pc' = "read_x"
  \/ pc = "ask_y" /\ pc' = "read_y"
  \/ pc = "ask_scale" /\ pc' = "read_scale"

Takes ==
  \/ pc = "read_x" /\ pc' = "ask_y"
  \/ pc = "read_y" /\ pc' = "ask_scale"
  \/ pc = "read_scale" /\ pc' = "end_result"

\* A step of a first run: where the program is and goes, what is on the bus in it, and
\* how the device answers.
Turn(w, s) ==
  \/ pc' = pc /\ results' = results /\ w = write_data /\ ~s
  \/ pc = "connect" /\ pc' = "reset" /\ results' = results /\ w = LINUX_CALL_FPGA_RESET /\ ~s
  \/ pc = "reset" /\ pc' = "poll" /\ results' = results /\ w = LINUX_CALL_FPGA_RESET /\ ~s
  \/ /\ pc = "poll" /\ pc' \in {"poll", "start"} /\ results' = results /\ w = write_data /\ s
     /\ pc' = "start" => Answered = FPGA_START_RECIEVE_PIXEL
  \/ pc = "start" /\ pc' = "send" /\ results' = results /\ w = LINUX_START_SEND_PIXEL /\ ~s
  \/ pc = "send" /\ pc' = "stop" /\ results' = results /\ w \notin Commands /\ ~s
  \/ pc = "stop" /\ pc' \in {"poll", "ask_x"} /\ results' = results /\ w = LINUX_STOP_SEND_PIXEL /\ ~s
  \/ Asks /\ results' = results /\ w = LINUX_START_RECIEVE_RESULT /\ ~s
  \/ Takes /\ results' = results /\ w = write_data /\ s
  \/ pc = "end_result" /\ pc' = "finished" /\ results' = results + 1 /\ w = LINUX_STOP_RECIEVE_RESULT /\ ~s
  \/ /\ pc = "finished" /\ pc' \in {"ask_x", "disconnect"} /\ results' = results /\ w = write_data /\ s
     /\ pc' = "ask_x" => Answered = FPGA_FINISH_RESULT

Turned(w, s) ==
  /\ Turn(w, s) /\ KeptEdge
  /\ write_data' = w
  /\ Clocked(IF store_first THEN w ELSE write_data)
  /\ Reads(IF store_first THEN w ELSE write_data, s)
  /\ runs = 1

LEMMA ReadsShape ==
  ASSUME PixelsAreNoCommands, BusInv, ReadsNext, runs' = 1
  PROVE  \E w, s : Turned(w, s)
<1>p. pc = "send" => Image[sent + 1] \notin Commands
  BY ImagePixel, ProgramAssumption DEF BusInv, TypeOK, WrittenInv, PixelsAreNoCommands
<1>r. runs \in 1 .. MaxRuns /\ MaxRuns \in Nat
  BY ProgramAssumption DEF BusInv, TypeOK
<1>t. FaceDetectionIpTypeOK
  BY DEF BusInv, TypeOK
<1>1. ASSUME NEW w, NEW s \in BOOLEAN, DeviceEdge(w, s), OutputEdge, HeldEdge(s), KeptEdge,
             Turn(w, s), runs = 1
      PROVE  \E v, u : Turned(v, u)
  <2>1. write_data' = w /\ Clocked(IF store_first THEN w ELSE write_data)
    BY <1>1, BusClock
  <2>2. Reads(IF store_first THEN w ELSE write_data, s)
    BY <1>t, <1>1, ReadsStep
  <2>3. Turned(w, s)
    BY <1>1, <2>1, <2>2 DEF Turned
  <2> QED
    BY <2>3
<1>2. ASSUME ~Restart, Idle \/ Restart \/ WriteAccess, OutputEdge, HeldEdge(FALSE), KeptEdge
      PROVE  \E v, u : Turned(v, u)
  <2>1. \E w : DeviceEdge(w, FALSE) /\ Turn(w, FALSE) /\ runs = 1
    <3> USE DEF Write, NoAccess, Goto, Turn
    <3>1. CASE Idle
      BY <3>1 DEF Idle
    <3>2. CASE Connect
      BY <3>2 DEF Connect
    <3>3. CASE ResetFPGASystem
      BY <3>3 DEF ResetFPGASystem
    <3>4. CASE StartPixel
      BY <3>4 DEF StartPixel
    <3>5. CASE SendPixel
      BY <3>5, <1>p DEF SendPixel
    <3>6. CASE StopPixel
      BY <3>6 DEF StopPixel
    <3>7. CASE AskWord
      <4>1. /\ DOMAIN AskNext = {"ask_x", "ask_y", "ask_scale"}
            /\ AskNext["ask_x"] = "read_x" /\ AskNext["ask_y"] = "read_y"
            /\ AskNext["ask_scale"] = "read_scale"
        BY DEF AskNext
      <4> QED
        BY <3>7, <4>1 DEF AskWord, Asks
    <3>8. CASE EndResult
      BY <3>8 DEF EndResult
    <3> QED
      BY <1>2, <3>1, <3>2, <3>3, <3>4, <3>5, <3>6, <3>7, <3>8 DEF WriteAccess
  <2> QED
    BY <1>1, <1>2, <2>1
<1>3. ASSUME ReadAccess, OutputEdge, HeldEdge(TRUE), KeptEdge
      PROVE  \E v, u : Turned(v, u)
  <2>1. \E w : DeviceEdge(w, TRUE) /\ Turn(w, TRUE) /\ runs = 1
    <3> USE DEF Read, Turn
    <3>1. CASE PollReady
      BY <3>1 DEF PollReady
    <3>2. CASE ReadWord
      <4>1. /\ DOMAIN ReadNext = {"read_x", "read_y", "read_scale"}
            /\ ReadNext["read_x"] = "ask_y" /\ ReadNext["read_y"] = "ask_scale"
            /\ ReadNext["read_scale"] = "end_result"
        BY DEF ReadNext
      <4> QED
        BY <3>2, <4>1 DEF ReadWord, Takes
    <3>3. CASE CheckFinished
      BY <3>3 DEF CheckFinished
    <3> QED
      BY <1>3, <3>1, <3>2, <3>3 DEF ReadAccess
  <2> QED
    BY <1>1, <1>3, <2>1
<1>4. ~Restart
  BY <1>r DEF Restart
<1> QED
  BY <1>2, <1>3, <1>4 DEF ReadsNext

\* The parts of the invariant, each over a step of a first run.
LEMMA EmptyStep ==
  ASSUME BusInv, FirstRunInv', KeptInv, runs' = 1, NEW w, NEW s, Turned(w, s)
  PROVE  EmptyInv'
<1>1. EmptyInv /\ runs = 1
  BY DEF KeptInv, Turned
<1>2. Reads(IF store_first THEN w ELSE write_data, s)
  BY DEF Turned
<1>3. Turn(w, s)
  BY DEF Turned
<1>4. /\ trig_reset \in BOOLEAN /\ read_waits \in BOOLEAN
  BY DEF BusInv, TypeOK, FaceDetectionIpTypeOK
<1>5. trig_reset' => pc \in {"connect", "reset"}
  BY <1>1, <1>2 DEF EmptyInv, Reads
<1>6. /\ pc \in {"connect", "reset"} => ~s /\ pc' \in {"connect", "reset", "poll"}
      /\ pc' \in {"connect", "reset"} => pc \in {"connect", "reset"}
      /\ pc = "poll" => pc' = "poll" \/ (s /\ pc' = "start" /\ Answered = FPGA_START_RECIEVE_PIXEL)
  BY <1>3 DEF Turn, Asks, Takes
<1>7. pc' \in {"connect", "reset"} \/ trig_reset' => read_data' = 0
  BY <1>1, <1>2, <1>5, <1>6 DEF EmptyInv, Reads
<1>8. pc' \notin {"connect", "reset"} => phase' # "IDLE"
  <2>1. CASE pc \in {"connect", "reset"}
    BY <1>6, <2>1 DEF FirstRunInv
  <2>2. CASE pc \notin {"connect", "reset"}
    BY <1>1, <1>2, <2>2 DEF EmptyInv, Reads
  <2> QED
    BY <2>1, <2>2
<1>9. pc' \notin {"connect", "reset", "poll"} => ~trig_reset'
  BY <1>5, <1>6
<1>10. ASSUME read_data' = FPGA_FINISH_RESULT, pc' # "poll" PROVE result_empty'
  <2>1. read_data' # 0 /\ read_data' # FPGA_START_RECIEVE_PIXEL
    BY <1>10 DEF FPGA_FINISH_RESULT, FPGA_START_RECIEVE_PIXEL
  <2>2. pc \notin {"connect", "reset"}
    BY <1>1, <1>2, <1>6, <2>1 DEF EmptyInv, Reads
  <2>3. CASE pc = "poll"
    <3>1. Answered = FPGA_START_RECIEVE_PIXEL
      BY <1>6, <1>10, <2>3
    <3>2. read_data = FPGA_START_RECIEVE_PIXEL
      BY <2>1, <3>1 DEF Answered
    <3>3. ~trig_reset
      BY <1>1, <3>2 DEF EmptyInv, FPGA_START_RECIEVE_PIXEL
    <3>4. result_empty
      BY <1>2, <1>10, <3>2 DEF Reads, FPGA_START_RECIEVE_PIXEL, FPGA_FINISH_RESULT
    <3> QED
      BY <1>2, <3>3, <3>4 DEF Reads
  <2>4. CASE pc # "poll"
    <3>1. result_empty /\ ~trig_reset
      BY <1>1, <1>2, <1>10, <2>2, <2>4 DEF EmptyInv, Reads
    <3> QED
      BY <1>2, <3>1 DEF Reads
  <2> QED
    BY <2>3, <2>4
<1> QED
  BY <1>7, <1>8, <1>9, <1>10 DEF EmptyInv

LEMMA PlaceStep ==
  ASSUME BusInv, KeptInv, runs' = 1, NEW w, NEW s, Turned(w, s)
  PROVE  PlaceInv'
<1>1. PlaceInv /\ results \in Nat /\ Turn(w, s)
  BY DEF KeptInv, Turned, BusInv, TypeOK
<1>2. ASSUME pc' \in {"connect", "reset", "poll", "start", "send", "stop"} PROVE results' = 0
  <2>1. pc \in {"connect", "reset", "poll", "start", "send", "stop"} /\ results' = results
    BY <1>1, <1>2 DEF Turn, Asks, Takes
  <2> QED
    BY <1>1, <2>1 DEF PlaceInv
<1>3. ASSUME pc' \in {"finished", "disconnect"} PROVE results' # 0
  <2>1. \/ pc = "end_result" /\ results' = results + 1
        \/ pc \in {"finished", "disconnect"} /\ results' = results
    BY <1>1, <1>3 DEF Turn, Asks, Takes
  <2> QED
    BY <1>1, <2>1 DEF PlaceInv
<1> QED
  BY <1>2, <1>3 DEF PlaceInv

LEMMA SendingStep ==
  ASSUME BusInv, FirstRunInv, KeptInv, runs' = 1, NEW w, NEW s, Turned(w, s)
  PROVE  SendingInv'
<1> SUFFICES ASSUME Sending' PROVE SendingInv'
  BY DEF SendingInv
<1>1. SendingInv /\ runs = 1 /\ PlaceInv
  BY DEF KeptInv, Turned
<1>2. Reads(IF store_first THEN w ELSE write_data, s)
  BY DEF Turned
<1>3. Turn(w, s) /\ write_data' = w
  BY DEF Turned
<1>4. results \in Nat
  BY DEF BusInv, TypeOK
<1>5. Sending /\ (pc = "ask_x" => pc' = "ask_x")
  <2>1. /\ results' = 0
        /\ pc' \in {"connect", "reset", "poll", "start", "send", "stop", "ask_x"}
    BY DEF Sending
  <2>2. pc' # "finished" => results' = results
    BY <1>3 DEF Turn
  <2>3. /\ pc \in {"connect", "reset", "poll", "start", "send", "stop", "ask_x", "finished"}
        /\ pc = "ask_x" => pc' = "ask_x"
    BY <1>3, <2>1 DEF Turn, Asks, Takes
  <2> QED
    <3>1. results = 0
      BY <2>1, <2>2
    <3>2. pc # "finished"
      BY <1>1, <3>1 DEF PlaceInv
    <3>3. pc \in {"connect", "reset", "poll", "start", "send", "stop", "ask_x"}
      BY <2>3, <3>2
    <3>4. Sending
      BY <3>1, <3>3 DEF Sending
    <3> QED
      BY <2>3, <3>4
<1>6. ASSUME pc # "stop" PROVE write_data # 3
  <2>1. Sending
    BY <1>5
  <2> QED
    BY <1>1, <1>6, <2>1 DEF Sending, SendingInv, FirstRunInv, BusInv, WrittenInv,
       LINUX_CALL_FPGA_RESET, LINUX_START_SEND_PIXEL, LINUX_STOP_SEND_PIXEL
<1>7. pc = "stop" => phase = "START_SEND_PIXEL"
  BY <1>1 DEF FirstRunInv
<1>8. pc # "stop" => w # 3
  BY <1>3, <1>5, <1>6 DEF Turn, Sending, Asks, Takes, Commands, LINUX_CALL_FPGA_RESET,
     LINUX_START_SEND_PIXEL, LINUX_STOP_SEND_PIXEL, LINUX_STOP_RECIEVE_RESULT
<1>9. phase' \in {"IDLE", "STOP_SEND_PIXEL", "START_SEND_PIXEL"}
  <2>1. CASE pc = "stop"
    BY <1>2, <1>7, <2>1 DEF Reads
  <2>2. CASE pc # "stop"
    <3> DEFINE c == IF store_first THEN w ELSE write_data
    <3>1. c # LINUX_START_RECIEVE_RESULT
      BY <1>6, <1>8, <2>2 DEF LINUX_START_RECIEVE_RESULT
    <3>2. Reads(c, s)
      BY <1>2
    <3> HIDE DEF c
    <3> QED
      BY <1>1, <1>5, <3>1, <3>2 DEF Reads, SendingInv
  <2> QED
    BY <2>1, <2>2
<1>10. Unasked /\ held = NoWord
  BY <1>1, <1>5 DEF SendingInv
<1>11. Unasked' /\ held' = NoWord
  BY <1>2, <1>9, <1>10 DEF Reads, Unasked, NoWord
<1>12. pc' = "ask_x" => write_data' = LINUX_STOP_SEND_PIXEL
  BY <1>1, <1>3, <1>5 DEF Turn, Sending, SendingInv, Asks, Takes
<1> QED
  BY <1>9, <1>11, <1>12 DEF SendingInv

LEMMA FirstResultStep ==
  ASSUME BusInv, PixelInv, KeptInv, runs' = 1, NEW w, NEW s, Turned(w, s)
  PROVE  FirstResultInv'
<1> SUFFICES ASSUME FirstResult' PROVE FirstResultInv'
  BY DEF FirstResultInv
<1> DEFINE c == IF store_first THEN w ELSE write_data
<1>1. /\ SendingInv /\ FirstResultInv /\ EmptyInv /\ runs = 1
      /\ pc = "ask_x" => kept = NoResult
  BY DEF KeptInv, Turned
<1>2. Reads(c, s) /\ Clocked(c)
  BY DEF Turned
<1>3. Turn(w, s) /\ write_data' = w /\ KeptEdge
  BY DEF Turned
<1>4. (w = write_data => c = w) /\ c \in {w, write_data}
  OBVIOUS
<1> HIDE DEF c
<1>5. /\ results' = 0
      /\ pc' \in {"read_x", "ask_y", "read_y", "ask_scale", "read_scale", "end_result"}
  BY DEF FirstResult
<1>6. results = 0
  BY <1>3, <1>5 DEF Turn
<1>7. \/ FirstResult
      \/ Sending /\ pc = "ask_x" /\ pc' = "read_x" /\ w = LINUX_START_RECIEVE_RESULT /\ ~s
  <2>1. \/ pc \in {"read_x", "ask_y", "read_y", "ask_scale", "read_scale", "end_result"}
        \/ pc = "ask_x" /\ pc' = "read_x" /\ w = LINUX_START_RECIEVE_RESULT /\ ~s
    BY <1>3, <1>5 DEF Turn, Asks, Takes
  <2> QED
    BY <1>6, <2>1 DEF Sending, FirstResult
<1>8. CASE Sending /\ pc = "ask_x" /\ pc' = "read_x" /\ w = LINUX_START_RECIEVE_RESULT /\ ~s
  <2>1. /\ Unasked /\ held = NoWord /\ write_data = LINUX_STOP_SEND_PIXEL
        /\ phase \in {"STOP_SEND_PIXEL", "START_SEND_PIXEL"}
        /\ kept = NoResult /\ ~trig_reset
    BY <1>1, <1>8 DEF SendingInv, EmptyInv
  <2>2. phase' \in {"STOP_SEND_PIXEL", "START_RECIEVE_RESULT"}
    <3>1. CASE phase = "START_SEND_PIXEL"
      <4>1. c = LINUX_STOP_SEND_PIXEL /\ fpga_recieve_pixel
        BY <2>1, <3>1 DEF PixelInv, c
      <4> QED
        BY <1>2, <3>1, <4>1 DEF Clocked
    <3>2. CASE phase = "STOP_SEND_PIXEL"
      <4>1. c \in {LINUX_STOP_SEND_PIXEL, LINUX_START_RECIEVE_RESULT}
        BY <1>4, <1>8, <2>1
      <4>2. c = LINUX_STOP_SEND_PIXEL => phase' = "STOP_SEND_PIXEL"
        BY <1>2, <3>2 DEF Clocked, LINUX_STOP_SEND_PIXEL, LINUX_START_SEND_PIXEL,
           LINUX_START_RECIEVE_RESULT
      <4> QED
        BY <1>2, <3>2, <4>1, <4>2 DEF Reads
    <3> QED
      BY <2>1, <3>1, <3>2
  <2>3. q' = NoWord /\ held' = NoWord
    BY <1>2, <1>8, <2>1 DEF Reads, Unasked
  <2>4. phase' = "STOP_SEND_PIXEL" => Unasked'
    BY <1>2, <2>1, <2>3 DEF Reads, Unasked
  <2>5. phase' = "START_RECIEVE_RESULT" => AskedOnce' /\ notify_send_result'
    BY <1>2, <2>1, <2>3 DEF Reads, Unasked, AskedOnce
  <2>6. kept' = NoResult
    BY <1>3, <1>8, <2>1 DEF KeptEdge, Fields
  <2>7. kept' \in [Fields -> {NoWord, 1}] /\ kept'["read_x"] = NoWord
    BY <2>6 DEF NoResult, Fields
  <2> QED
    BY <1>3, <1>8, <2>2, <2>3, <2>4, <2>5, <2>7 DEF FirstResultInv
<1>9. CASE FirstResult
  <2>1. /\ write_data = LINUX_START_RECIEVE_RESULT /\ held \in {NoWord, 1}
        /\ kept \in [Fields -> {NoWord, 1}] /\ kept["read_x"] = NoWord
        /\ \/ phase = "STOP_SEND_PIXEL" /\ Unasked
           \/ phase = "START_RECIEVE_RESULT" /\ AskedOnce
        /\ pc = "read_x" => held = NoWord /\ (phase = "START_RECIEVE_RESULT" => notify_send_result)
        /\ ~trig_reset
    BY <1>1, <1>9 DEF FirstResultInv, EmptyInv, FirstResult
  <2>2. c = LINUX_START_RECIEVE_RESULT /\ w = LINUX_START_RECIEVE_RESULT
    <3>1. w \in {write_data, LINUX_START_RECIEVE_RESULT}
      BY <1>3, <1>5, <1>9 DEF Turn, FirstResult
    <3> QED
      BY <1>4, <2>1, <3>1
  <2>3. q \in {NoWord, 1} /\ (pc = "read_x" /\ q # NoWord => notify_send_result)
    BY <2>1 DEF Unasked, AskedOnce
  <2>4. held' \in {NoWord, 1}
    BY <1>2, <2>1, <2>3 DEF Reads
  <2>5. pc = "read_x" => held' = NoWord
    BY <1>2, <2>1, <2>3 DEF Reads
  <2>6. ASSUME phase = "STOP_SEND_PIXEL"
        PROVE  /\ \/ phase' = "STOP_SEND_PIXEL" /\ Unasked'
                  \/ phase' = "START_RECIEVE_RESULT" /\ AskedOnce'
               /\ phase' = "START_RECIEVE_RESULT" => notify_send_result'
    <3>1. q' = NoWord /\ phase' \in {"STOP_SEND_PIXEL", "START_RECIEVE_RESULT"}
      BY <1>2, <2>1, <2>2, <2>6 DEF Reads, Unasked
    <3>2. phase' = "STOP_SEND_PIXEL" => Unasked'
      BY <1>2, <2>1, <2>6, <3>1 DEF Reads, Unasked
    <3>3. phase' = "START_RECIEVE_RESULT" => AskedOnce' /\ notify_send_result'
      BY <1>2, <2>1, <2>6, <3>1 DEF Reads, Unasked, AskedOnce
    <3> QED
      BY <3>1, <3>2, <3>3
  <2>7. ASSUME phase = "START_RECIEVE_RESULT"
        PROVE  /\ phase' = "START_RECIEVE_RESULT" /\ AskedOnce'
               /\ pc = "read_x" /\ ~s => notify_send_result'
    <3>1. phase' = "START_RECIEVE_RESULT" /\ ~trig_send_result'
      BY <1>2, <2>2, <2>7 DEF Reads
    <3>2. q' \in {NoWord, 1}
      BY <1>2, <2>1, <2>7 DEF Reads, AskedOnce, NoWord
    <3>3. AskedOnce'
      BY <3>1, <3>2 DEF AskedOnce
    <3>4. pc = "read_x" /\ ~s => notify_send_result'
      BY <1>2, <2>1, <2>7 DEF Reads
    <3> QED
      BY <3>1, <3>3, <3>4
  <2>8. \/ phase' = "STOP_SEND_PIXEL" /\ Unasked'
        \/ phase' = "START_RECIEVE_RESULT" /\ AskedOnce'
    BY <2>1, <2>6, <2>7
  <2>9. pc' = "read_x" => pc = "read_x" /\ ~s
    BY <1>3, <1>5, <1>9 DEF Turn, Asks, Takes, FirstResult
  <2>10. pc' = "read_x" => held' = NoWord /\ (phase' = "START_RECIEVE_RESULT" => notify_send_result')
    BY <2>1, <2>5, <2>6, <2>7, <2>9
  <2>11. kept' \in [Fields -> {NoWord, 1}] /\ kept'["read_x"] = NoWord
    <3>1. CASE pc \in Fields /\ pc' # pc
      <4>1. PICK v : /\ kept' = [kept EXCEPT ![pc] = v] /\ v \in {NoWord, 1}
                     /\ pc = "read_x" => v = NoWord
        BY <1>3, <2>1, <2>4, <2>5, <3>1 DEF KeptEdge
      <4> QED
        BY <2>1, <3>1, <4>1 DEF Fields
    <3>2. CASE ~(pc \in Fields /\ pc' # pc)
      BY <1>3, <1>5, <2>1, <3>2 DEF KeptEdge
    <3> QED
      BY <3>1, <3>2
  <2> QED
    BY <1>3, <2>2, <2>4, <2>8, <2>10, <2>11 DEF FirstResultInv
<1> QED
  BY <1>7, <1>8, <1>9

LEMMA LaterResultStep ==
  ASSUME BusInv, EmptyInv', KeptInv, runs' = 1, NEW w, NEW s, Turned(w, s)
  PROVE  LaterResultInv'
<1> SUFFICES ASSUME LaterResult' PROVE LaterResultInv'
  BY DEF LaterResultInv
<1>1. LaterResultInv /\ EmptyInv /\ PlaceInv
  BY DEF KeptInv, Turned
<1>2. Reads(IF store_first THEN w ELSE write_data, s)
  BY DEF Turned
<1>3. Turn(w, s) /\ KeptEdge
  BY DEF Turned
<1>4. /\ results' # 0
      /\ pc' \in {"ask_x", "read_x", "ask_y", "read_y", "ask_scale", "read_scale", "end_result"}
  BY DEF LaterResult
<1>5. results = results'
  BY <1>3, <1>4 DEF Turn
<1>6. \/ pc \in {"ask_x", "read_x", "ask_y", "read_y", "ask_scale", "read_scale", "end_result"}
      \/ pc = "stop" /\ pc' = "ask_x"
      \/ pc = "finished" /\ pc' = "ask_x" /\ s /\ Answered = FPGA_FINISH_RESULT
  BY <1>3, <1>4 DEF Turn, Asks, Takes
<1>7. CASE pc \in {"ask_x", "read_x", "ask_y", "read_y", "ask_scale", "read_scale", "end_result"}
  <2>1. result_empty /\ held = NoWord /\ kept = NoResult /\ ~trig_reset
    BY <1>1, <1>4, <1>5, <1>7 DEF LaterResult, LaterResultInv, EmptyInv
  <2>2. result_empty' /\ held' = NoWord
    BY <1>2, <2>1 DEF Reads
  <2>3. kept' = NoResult
    <3>1. CASE pc \in Fields /\ pc' # pc
      <4>1. kept' = [NoResult EXCEPT ![pc] = NoWord]
        BY <1>3, <2>1, <2>2, <3>1 DEF KeptEdge
      <4> QED
        BY <4>1 DEF NoResult
    <3>2. CASE ~(pc \in Fields /\ pc' # pc)
      BY <1>3, <2>1, <3>2 DEF KeptEdge
    <3> QED
      BY <3>1, <3>2
  <2> QED
    BY <2>2, <2>3 DEF LaterResultInv
<1>8. CASE pc = "finished" /\ pc' = "ask_x" /\ s /\ Answered = FPGA_FINISH_RESULT
  <2>1. result_empty /\ ~trig_reset
    <3>1. read_data = FPGA_FINISH_RESULT \/ read_data' = FPGA_FINISH_RESULT
      BY <1>8 DEF Answered
    <3> QED
      BY <1>1, <1>2, <1>8, <3>1 DEF EmptyInv, Reads
  <2>2. result_empty' /\ held' = NoWord
    BY <1>2, <1>8, <2>1 DEF Reads
  <2>3. kept' = NoResult
    BY <1>3, <1>8 DEF KeptEdge, Fields
  <2> QED
    BY <2>2, <2>3 DEF LaterResultInv
<1>9. ~(pc = "stop" /\ pc' = "ask_x")
  BY <1>1, <1>4, <1>5 DEF PlaceInv
<1> QED
  BY <1>6, <1>7, <1>8, <1>9

LEMMA KeptInit == ReadsInit => KeptInv
BY DEF ReadsInit, Init, FaceDetectionIpInit, KeptInv, PlaceInv, SendingInv, FirstResultInv,
   LaterResultInv, EmptyInv, Sending, FirstResult, LaterResult, Unasked,
   FPGA_FINISH_RESULT

LEMMA KeptStep ==
  ASSUME PixelsAreNoCommands, BusInv, FirstRunInv, FirstRunInv', PixelInv, KeptInv, ReadsNext
  PROVE  KeptInv'
<1> SUFFICES ASSUME runs' = 1
             PROVE  /\ PlaceInv' /\ SendingInv' /\ FirstResultInv' /\ LaterResultInv' /\ EmptyInv'
                    /\ pc' = "ask_x" => kept' = NoResult
  BY DEF KeptInv
<1>1. PICK w, s : Turned(w, s)
  BY ReadsShape
<1>2. PlaceInv' /\ SendingInv' /\ EmptyInv' /\ FirstResultInv'
  BY <1>1, PlaceStep, SendingStep, EmptyStep, FirstResultStep
<1>3. LaterResultInv'
  BY <1>1, <1>2, LaterResultStep
<1>4. pc' = "ask_x" => kept' = NoResult
  <2>1. Turn(w, s) /\ KeptEdge
    BY <1>1 DEF Turned
  <2>2. pc' = "ask_x" => ~(pc \in Fields /\ pc' # pc)
    BY <2>1 DEF Turn, Asks, Takes, Fields
  <2> QED
    BY <2>1, <2>2 DEF KeptEdge
<1> QED
  BY <1>2, <1>3, <1>4

\* Following the words leaves the steps of the program and its device as they are.
LEMMA ReadsAreSteps == ReadsSpec => Spec
<1>1. ReadsInit => Init
  BY DEF ReadsInit
<1>2. [ReadsNext]_readvars => [Next]_vars
  BY DEF ReadsNext, Next, Access, readvars
<1> QED
  BY <1>1, <1>2, PTL DEF ReadsSpec, Spec

\* If no pixel is a command, what the program keeps of a result in its first run is one
\* word of the store at most, and none for x: for every image, frame and size of the
\* store, and however the polls of the program meet the device
\* (FPGAManager.cpp, face_detection_ip.v).
THEOREM OneWordIsKept == PixelsAreNoCommands => (ReadsSpec => []KeepsOneWord)
<1> SUFFICES ASSUME PixelsAreNoCommands PROVE ReadsSpec => []KeepsOneWord
  OBVIOUS
<1>1. ReadsSpec => [](BusInv /\ FirstRunInv /\ PixelInv)
  BY ReadsAreSteps, LinkInductive, PTL
<1>2. ReadsInit => KeptInv
  BY KeptInit
<1>3. ASSUME BusInv /\ FirstRunInv /\ PixelInv, (BusInv /\ FirstRunInv /\ PixelInv)', KeptInv,
             [ReadsNext]_readvars
      PROVE  KeptInv'
  <2>1. CASE ReadsNext
    BY <1>3, <2>1, KeptStep
  <2>2. CASE UNCHANGED readvars
    BY <1>3, <2>2 DEF KeptInv, PlaceInv, SendingInv, FirstResultInv, LaterResultInv, EmptyInv,
       Sending, FirstResult, LaterResult, Unasked, AskedOnce, readvars, vars,
       FaceDetectionIpvars, FaceDetectionvars, ResultStorevars, Programvars
  <2> QED
    BY <1>3, <2>1, <2>2
<1>4. KeptInv => KeepsOneWord
  BY DEF KeptInv, KeepsOneWord, FirstResultInv, FirstResult, LaterResultInv, LaterResult, NoResult,
     Fields, NoWord
<1> QED
  BY <1>1, <1>2, <1>3, <1>4, PTL DEF ReadsSpec

=============================================================================
