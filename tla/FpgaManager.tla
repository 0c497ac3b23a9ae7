--------------------------- MODULE FpgaManager ---------------------------
(***************************************************************************)
(* The processor's program (main.cpp, FPGAManager.cpp) driving the device  *)
(* over the bus.  Each step is one clock of the device; the program either *)
(* leaves the bus idle in it or does its next bus access, at any pace: the *)
(* waits between accesses are a few nanoseconds, less than a clock.        *)
(***************************************************************************)
EXTENDS FaceDetectionIp, Sequences

CONSTANTS
  Image,        \* the pixels of the image file
  MaxResults,   \* bound on the results one run of the program reads
  MaxRuns       \* bound on the runs of the program on one powered device

ASSUME ProgramAssumption ==
  /\ Image \in Seq(Pixels) /\ Image # <<>>
  /\ MaxResults \in Nat \ {0}
  /\ MaxRuns \in Nat \ {0}

VARIABLES
  pc,        \* the program's next bus access
  sent,      \* pixels whose transfer this run has completed
  results,   \* results this run has read
  runs,      \* runs of the program so far
  answer,    \* the last answer to the question whether the results are finished
  read_waits,\* the slave was integrated with a read wait state
  completed  \* for the properties: the pixel of the last completed transfer

Programvars == <<pc, sent, results, runs, answer, read_waits, completed>>
vars == <<FaceDetectionIpvars, Programvars>>

\* No pixel has been completed yet.
NoPixel == 256

Accesses == {"connect", "reset", "poll", "start", "send", "stop",
             "ask_x", "read_x", "ask_y", "read_y", "ask_scale", "read_scale",
             "end_result", "finished", "disconnect"}

TypeOK ==
  /\ FaceDetectionIpTypeOK
  /\ pc \in Accesses
  /\ sent \in 0 .. Len(Image)
  /\ results \in 0 .. MaxResults
  /\ runs \in 1 .. MaxRuns
  /\ answer \in {0} \cup Answers
  /\ read_waits \in BOOLEAN
  /\ completed \in Pixels \cup {NoPixel}

Init ==
  /\ FaceDetectionIpInit
  /\ pc = "connect"
  /\ sent = 0
  /\ results = 0
  /\ runs = 1
  /\ answer = 0
  /\ read_waits \in BOOLEAN
  /\ completed = NoPixel

----------------------------------------------------------------------------
Write(v) == DeviceEdge(v, FALSE) /\ UNCHANGED read_waits

Read == DeviceEdge(write_data, TRUE) /\ UNCHANGED read_waits

\* The read register is loaded at the edge that ends the access: without a wait
\* state the bus returns what the previous read left in it.
Answered == IF read_waits THEN read_data' ELSE read_data

\* A clock in which the program does not use the bus.
NoAccess == Write(write_data)

Goto(from, to) == pc = from /\ pc' = to

Idle == NoAccess /\ UNCHANGED <<pc, sent, results, runs, answer, completed>>

\* The program ended, or was killed between two accesses, and is run again on
\* the device as it stands.
Restart ==
  /\ pc # "connect" /\ pc' = "connect"
  /\ runs < MaxRuns /\ runs' = runs + 1
  /\ NoAccess
  /\ sent' = 0
  /\ results' = 0
  /\ answer' = 0
  /\ completed' = NoPixel

\* ConnectBridge and main both reset the device.
Connect ==
  /\ Goto("connect", "reset")
  /\ Write(LINUX_CALL_FPGA_RESET)
  /\ UNCHANGED <<sent, results, runs, answer, completed>>

ResetFPGASystem ==
  /\ Goto("reset", "poll")
  /\ Write(LINUX_CALL_FPGA_RESET)
  /\ UNCHANGED <<sent, results, runs, answer, completed>>

----------------------------------------------------------------------------
\* WritePixelToFPGA

PollReady ==
  /\ pc = "poll"
  /\ Read
  /\ pc' = IF Answered = FPGA_START_RECIEVE_PIXEL THEN "start" ELSE "poll"
  /\ UNCHANGED <<sent, results, runs, answer, completed>>

StartPixel ==
  /\ Goto("start", "send")
  /\ Write(LINUX_START_SEND_PIXEL)
  /\ UNCHANGED <<sent, results, runs, answer, completed>>

SendPixel ==
  /\ Goto("send", "stop")
  /\ Write(Image[sent + 1])
  /\ UNCHANGED <<sent, results, runs, answer, completed>>

\* The next pixel of the image, or the results when there is none.
StopPixel ==
  /\ Goto("stop", IF sent + 1 < Len(Image) THEN "poll" ELSE "ask_x")
  /\ Write(LINUX_STOP_SEND_PIXEL)
  /\ sent' = sent + 1
  /\ completed' = Image[sent + 1]
  /\ UNCHANGED <<results, runs, answer>>

----------------------------------------------------------------------------
\* ReadResultsFromFPGA

AskNext == [ask_x |-> "read_x", ask_y |-> "read_y", ask_scale |-> "read_scale"]
ReadNext == [read_x |-> "ask_y", read_y |-> "ask_scale", read_scale |-> "end_result"]

AskWord ==
  /\ pc \in DOMAIN AskNext
  /\ pc' = AskNext[pc]
  /\ Write(LINUX_START_RECIEVE_RESULT)
  /\ UNCHANGED <<sent, results, runs, answer, completed>>

ReadWord ==
  /\ pc \in DOMAIN ReadNext
  /\ pc' = ReadNext[pc]
  /\ Read
  /\ UNCHANGED <<sent, results, runs, answer, completed>>

\* push_back
EndResult ==
  /\ Goto("end_result", "finished")
  /\ Write(LINUX_STOP_RECIEVE_RESULT)
  /\ results < MaxResults
  /\ results' = results + 1
  /\ UNCHANGED <<sent, runs, answer, completed>>

\* while(GetIsFPGAFinishSendAllResult())
CheckFinished ==
  /\ pc = "finished"
  /\ Read
  /\ answer' = Answered
  /\ pc' = IF Answered = FPGA_FINISH_RESULT THEN "ask_x" ELSE "disconnect"
  /\ UNCHANGED <<sent, results, runs, completed>>

----------------------------------------------------------------------------
WriteAccess ==
  \/ Connect \/ ResetFPGASystem
  \/ StartPixel \/ SendPixel \/ StopPixel
  \/ AskWord \/ EndResult

ReadAccess == PollReady \/ ReadWord \/ CheckFinished

Access == WriteAccess \/ ReadAccess

Next == Idle \/ Restart \/ Access

Spec == Init /\ [][Next]_vars

----------------------------------------------------------------------------
\* The window memory never takes a command caught in the pixel register, even
\* when the program was killed inside a transfer and run again; in a first run it
\* takes only the pixel whose transfer the program completed last
\* (face_detection_ip.v, I2LBS.v, FPGAManager.cpp).
MemoryTakesSentPixel ==
  enable_memory => pixel \in Pixels /\ (runs = 1 => pixel = completed)

\* The coordinate stands still while a transfer is open: the device goes on with
\* the next pixel only when the program has ended it (face_detection_ip.v).
CoordinateStands == [][phase = "START_SEND_PIXEL" => UNCHANGED <<ori_x, ori_y>>]_vars

\* The program and the bus slave drive the frame controller as it expects: by
\* trig_reset they reset it only before its first pixel, and they give it a pixel only
\* when it is ready (face_detection_ip.v around face_detection.v).
DrivesFrameControl == FrameControl

----------------------------------------------------------------------------
\* What the test bench and the program say of the link, and the code does not do.

\* A pixel counts for one coordinate, as in the bench, which goes on to the next for
\* each pixel it prepares: within the first frame the device has counted no more
\* coordinates than the program has completed pixels.
CountsPixels ==
  runs = 1 /\ ~end_coordinate => ori_y * Width + ori_x <= sent

\* A run of the program begins by resetting the device: its first pixel has the
\* first coordinate of a frame.
FrameStartsAtOrigin == pc = "start" /\ sent = 0 => ori_x = 0 /\ ori_y = 0

\* The program stops reading results when the device says it has no more.
StopsOnFinish == pc = "disconnect" => answer = FPGA_FINISH_RESULT

=============================================================================
