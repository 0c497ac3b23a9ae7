--------------------------- MODULE FaceDetection ---------------------------
(***************************************************************************)
(* The frame controller of face_detection.v around its window controller   *)
(* and its result store.  It says when the next pixel may come, counts the *)
(* coordinate of the pixel being processed, and has the coordinate of a    *)
(* candidate window written to the store.                                  *)
(***************************************************************************)
EXTENDS I2LBS, ResultStore, Loading

CONSTANTS
  Width,    \* FRAME_ORIGINAL_CAMERA_WIDTH
  Height    \* FRAME_ORIGINAL_CAMERA_HEIGHT

ASSUME FrameAssumption == Width \in Nat \ {0} /\ Height \in Nat \ {0}

VARIABLES
  fpga_ready_recieve_pixel,
  recieve_coordinate,   \* a coordinate has just been taken
  end_coordinate,       \* the last coordinate of a frame has been taken
  ori_x, ori_y,
  write_result

FaceDetectionvars ==
  <<I2LBSvars, ResultStorevars, fpga_ready_recieve_pixel, recieve_coordinate, end_coordinate,
    ori_x, ori_y, write_result, load_done>>

FaceDetectionTypeOK ==
  /\ I2LBSTypeOK
  /\ ResultStoreTypeOK
  /\ fpga_ready_recieve_pixel \in BOOLEAN
  /\ recieve_coordinate \in BOOLEAN
  /\ end_coordinate \in BOOLEAN
  /\ ori_x \in 0 .. Width - 1
  /\ ori_y \in 0 .. Height - 1
  /\ write_result \in BOOLEAN
  /\ load_done \in BOOLEAN

FaceDetectionInit ==
  /\ I2LBSInit
  /\ ResultStoreInit
  /\ fpga_ready_recieve_pixel = FALSE
  /\ recieve_coordinate = FALSE
  /\ end_coordinate = FALSE
  /\ ori_x = 0
  /\ ori_y = 0
  /\ write_result = FALSE
  /\ LoadInit

o_fpga_ready_recieve_pixel == fpga_ready_recieve_pixel /\ load_done
o_fpga_ready_send_result == ready_send_result /\ ~result_empty

\* A fault for ReadyAgain: the device waits for a candidate it never writes.
ReadyEdgeUnwritten(reset, recieve_pixel) ==
  /\ fpga_ready_recieve_pixel' \in Driven(fpga_ready_recieve_pixel,
       When(reset, FALSE)
       \cup When(pixel_request /\ (candidate => write_result_end), TRUE)
       \cup When(~pixel_request /\ recieve_pixel, FALSE))
  /\ write_result' = FALSE

\* A candidate is written to the store first, and only then a pixel asked for.
ReadyEdge(reset, recieve_pixel) ==
  /\ fpga_ready_recieve_pixel' \in Driven(fpga_ready_recieve_pixel,
       When(reset, FALSE)
       \cup When(pixel_request /\ (candidate => write_result_end), TRUE)
       \cup When(~pixel_request /\ recieve_pixel, FALSE))
  /\ write_result' \in Driven(write_result,
       When(reset, FALSE) \cup When(pixel_request /\ candidate, ~write_result_end))

\* A fault for WordsTypeOK: the row ends one pixel late.
EndOfRowLate == ori_x = Width

EndOfRow == ori_x = Width - 1
EndOfFrame == EndOfRow /\ ori_y = Height - 1

CoordinateEdge(reset, recieve_pixel) ==
  /\ recieve_coordinate' \in When(reset, FALSE) \cup {recieve_pixel}
  /\ ori_x' \in Driven(ori_x,
       When(reset, 0) \cup When(recieve_pixel, IF EndOfRow THEN 0 ELSE ori_x + 1))
  /\ ori_y' \in Driven(ori_y,
       When(reset, 0)
       \cup When(recieve_pixel /\ EndOfRow, IF EndOfFrame THEN 0 ELSE ori_y + 1))
  /\ end_coordinate' \in Driven(end_coordinate,
       When(reset, FALSE) \cup When(recieve_pixel /\ EndOfFrame, TRUE))

\* resetting is the value of the reset after the edge.
FaceDetectionEdge(reset, resetting, recieve_pixel, trig_send_result, result_sent) ==
  /\ ReadyEdge(reset, recieve_pixel)
  /\ CoordinateEdge(reset, recieve_pixel)
  /\ LoadEdge(reset)
  /\ I2LBSEdge(reset, recieve_coordinate' /\ ~recieve_coordinate,
               <<ori_x, ori_y>>' # <<ori_x, ori_y>>)
  /\ ResultStoreEdge(reset, resetting, write_result, trig_send_result, result_sent)

----------------------------------------------------------------------------
\* The frame controller with nothing assumed of the processor but that a reset
\* comes before the first pixel, and a pixel only when the device is ready.

Untouched ==
  /\ window = "IDLE" /\ ~enable /\ ~enable_memory /\ ~integral_image_ready
  /\ ~recieve_coordinate /\ ori_x = 0 /\ ori_y = 0 /\ ~end_coordinate

FrameClock ==
  \E reset, resetting, recieve_pixel, trig_send_result, result_sent \in BOOLEAN :
    /\ reset \/ resetting => Untouched
    /\ recieve_pixel => o_fpga_ready_recieve_pixel
    /\ FaceDetectionEdge(reset, resetting, recieve_pixel, trig_send_result, result_sent)

FrameControl == FaceDetectionInit /\ [][FrameClock]_FaceDetectionvars

\* The clock never stops.
FairFrameControl == FrameControl /\ WF_FaceDetectionvars(FrameClock)

----------------------------------------------------------------------------
\* The window memory never changes while the classifiers run on it: a pixel that
\* arrives during an inspection does not slide the window under it (I2LBS.v).
StableImage == enable => ~enable_memory

\* The window memory takes pixels at most at every other clock: its rows hand their
\* words on in the clock between two pixels (I2LBS.v, row.v).
PixelsSpaced == [][enable_memory => ~enable_memory']_FaceDetectionvars

\* What the cascade owes the frame controller: an inspection ends with a verdict.
VerdictsCome == []<>(enable => inspect_done)

\* However the processor behaves, the device asks for a pixel again and again: the
\* window controller, the result store and the frame controller never wait for
\* each other for ever (I2LBS.v, result.v, face_detection.v).
ReadyAgain == DatabaseLoads /\ VerdictsCome => []<>o_fpga_ready_recieve_pixel

=============================================================================
