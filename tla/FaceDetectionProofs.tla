------------------------ MODULE FaceDetectionProofs ------------------------
(***************************************************************************)
(* Proofs about the frame controller, for every size of frame and of the   *)
(* result store, and for every use of it by the processor.                 *)
(***************************************************************************)
EXTENDS FaceDetection, TLAPS

\* A register keeps to a type that its old value and every assigned value have.
LEMMA DrivenType ==
  ASSUME NEW T, NEW old \in T, NEW writers \in SUBSET T, NEW v \in Driven(old, writers)
  PROVE  v \in T
  BY DEF Driven

LEMMA WhenType ==
  ASSUME NEW T, NEW c, NEW v, c => v \in T
  PROVE  When(c, v) \in SUBSET T
  BY DEF When

\* An edge of the window controller keeps its types.
LEMMA I2LBSTypeStep ==
  ASSUME I2LBSTypeOK, NEW reset \in BOOLEAN, NEW rises \in BOOLEAN, NEW moves \in BOOLEAN,
         I2LBSEdge(reset, rises, moves)
  PROVE  I2LBSTypeOK'
<1> USE DEF I2LBSTypeOK, I2LBSEdge
<1>1. NextWindow \in {"IDLE", "INSPECT", "REQUEST_RECIEVE"}
  BY DEF NextWindow
<1>2. window' \in {"IDLE", "INSPECT", "REQUEST_RECIEVE"}
  BY <1>1 DEF WindowEdge, When
<1>3. pixel_request' \in BOOLEAN /\ database_request' \in BOOLEAN
  <2>1. Inspecting \in BOOLEAN
    BY DEF Inspecting
  <2>2. When(reset, FALSE) \in SUBSET BOOLEAN
    BY WhenType
  <2>3. pixel_request' \in When(reset, FALSE) \cup {~Inspecting}
    BY DEF WindowEdge
  <2>4. database_request' \in When(reset, FALSE) \cup {Inspecting}
    BY DEF WindowEdge
  <2> QED
    BY <2>1, <2>2, <2>3, <2>4
<1>4. enable' \in BOOLEAN /\ candidate' \in BOOLEAN
  BY DEF WindowEdge, When, Driven
<1>5. reach' \in BOOLEAN
  BY DEF ResizeEdge, When
<1>6. enable_memory' \in BOOLEAN
  BY <1>5 DEF MemoryEnableEdge
<1>7. integral_image_ready' \in BOOLEAN
  BY DEF MemoryEdge, When
<1>8. inspect_done' \in BOOLEAN /\ w_candidate' \in BOOLEAN
  BY DEF ClassifierEdge, When
<1> QED
  BY <1>2, <1>3, <1>4, <1>5, <1>6, <1>7, <1>8

\* An edge of the result store keeps its types: no word is written to a full FIFO
\* nor taken from an empty one, and the counter wraps at NUM_VARIABLE.
LEMMA ResultStoreTypeStep ==
  ASSUME ResultStoreTypeOK,
         NEW reset \in BOOLEAN, NEW resetting \in BOOLEAN, NEW write \in BOOLEAN,
         NEW trig \in BOOLEAN, NEW taken \in BOOLEAN,
         ResultStoreEdge(reset, resetting, write, trig, taken)
  PROVE  ResultStoreTypeOK'
<1> USE StoreAssumption DEF ResultStoreTypeOK, ResultStoreEdge
<1>1. index_write' \in 0 .. NumVariable
  BY DEF CounterEdge, write_result_end
<1>2. words' \in 0 .. NumWords
  BY DEF FifoEdge
<1>3. ready_send_result' \in BOOLEAN /\ result_empty' \in BOOLEAN
  BY DEF StoreFlags, Driven, When
<1> QED
  BY <1>1, <1>2, <1>3

\* An edge of the frame controller keeps its types; the coordinate stays inside
\* the frame.
LEMMA FaceDetectionTypeStep ==
  ASSUME FaceDetectionTypeOK,
         NEW reset \in BOOLEAN, NEW resetting \in BOOLEAN, NEW recieve \in BOOLEAN,
         NEW trig \in BOOLEAN, NEW taken \in BOOLEAN,
         FaceDetectionEdge(reset, resetting, recieve, trig, taken)
  PROVE  FaceDetectionTypeOK'
<1> USE FrameAssumption, StoreAssumption DEF FaceDetectionTypeOK, FaceDetectionEdge
<1>1. fpga_ready_recieve_pixel' \in BOOLEAN /\ write_result' \in BOOLEAN
  BY DEF ReadyEdge, Driven, When
<1>2. recieve_coordinate' \in BOOLEAN /\ end_coordinate' \in BOOLEAN
  BY DEF CoordinateEdge, Driven, When
<1>3. ori_x' \in 0 .. Width - 1
  BY DEF CoordinateEdge, Driven, When, EndOfRow
<1>4. ori_y' \in 0 .. Height - 1
  BY DEF CoordinateEdge, Driven, When, EndOfFrame, EndOfRow
<1>5. load_done' \in BOOLEAN
  BY DEF LoadEdge
<1>6. I2LBSTypeOK'
  BY I2LBSTypeStep
<1>7. ResultStoreTypeOK'
  BY ResultStoreTypeStep
<1> QED
  BY <1>1, <1>2, <1>3, <1>4, <1>5, <1>6, <1>7

----------------------------------------------------------------------------
\* The classifiers run only in the inspecting state, in which no pixel is let
\* through to the window memory.
FrameInv ==
  /\ FaceDetectionTypeOK
  /\ enable => Inspecting
  /\ StableImage

\* An edge that resets only an untouched device keeps FrameInv.
LEMMA StableStep ==
  ASSUME FrameInv,
         NEW reset \in BOOLEAN, NEW resetting \in BOOLEAN, NEW recieve \in BOOLEAN,
         NEW trig \in BOOLEAN, NEW taken \in BOOLEAN,
         reset => Untouched,
         FaceDetectionEdge(reset, resetting, recieve, trig, taken)
  PROVE  FrameInv'
<1>1. FaceDetectionTypeOK'
  BY FaceDetectionTypeStep DEF FrameInv
<1>2. WindowEdge(reset) /\ MemoryEnableEdge(recieve_coordinate' /\ ~recieve_coordinate)
  BY DEF FaceDetectionEdge, I2LBSEdge
<1>3. Inspecting => ~reset
  BY DEF Inspecting, Untouched
<1>4. enable' => Inspecting /\ Inspecting' /\ ~reset
  <2> SUFFICES ASSUME enable' PROVE Inspecting /\ Inspecting' /\ ~reset
    OBVIOUS
  <2>1. Inspecting
    BY <1>2 DEF WindowEdge, Driven, When, FrameInv
  <2>2. ~inspect_done
    BY <1>2, <1>3, <2>1 DEF WindowEdge, Driven, When
  <2>3. window' = "INSPECT"
    BY <1>2, <1>3, <2>1, <2>2 DEF WindowEdge, When, NextWindow, Inspecting
  <2> QED
    BY <1>3, <2>1, <2>3 DEF Inspecting
<1>5. enable' => ~enable_memory'
  BY <1>2, <1>4 DEF MemoryEnableEdge, Inspecting
<1> QED
  BY <1>1, <1>4, <1>5 DEF FrameInv, StableImage

\* The initial states are of the right types.
LEMMA FrameTypeInit == FaceDetectionInit => FaceDetectionTypeOK
<1> SUFFICES ASSUME FaceDetectionInit PROVE FaceDetectionTypeOK
  OBVIOUS
<1>1. I2LBSTypeOK
  BY DEF FaceDetectionInit, I2LBSInit, I2LBSTypeOK
<1>2. ResultStoreTypeOK
  <2>1. ResultStoreInit
    BY DEF FaceDetectionInit
  <2>2. index_write \in 0 .. NumVariable /\ words \in 0 .. NumWords
    BY <2>1, StoreAssumption DEF ResultStoreInit
  <2> QED
    BY <2>1, <2>2 DEF ResultStoreInit, ResultStoreTypeOK
<1>3. ori_x \in 0 .. Width - 1 /\ ori_y \in 0 .. Height - 1
  BY FrameAssumption DEF FaceDetectionInit
<1> QED
  BY <1>1, <1>2, <1>3 DEF FaceDetectionInit, LoadInit, FaceDetectionTypeOK

\* FrameInv is inductive.
LEMMA FrameInductive == FrameControl => []FrameInv
<1>1. FaceDetectionInit => FrameInv
  BY FrameTypeInit DEF FaceDetectionInit, I2LBSInit, FrameInv, StableImage
<1>2. FrameInv /\ [FrameClock]_FaceDetectionvars => FrameInv'
  <2>1. ASSUME FrameInv, FrameClock PROVE FrameInv'
    BY <2>1, StableStep DEF FrameClock
  <2>2. ASSUME FrameInv, UNCHANGED FaceDetectionvars PROVE FrameInv'
    BY <2>2 DEF FrameInv, StableImage, Inspecting, FaceDetectionTypeOK, I2LBSTypeOK,
                ResultStoreTypeOK, FaceDetectionvars, I2LBSvars, ResultStorevars
  <2> QED
    BY <2>1, <2>2
<1> QED
  BY <1>1, <1>2, PTL DEF FrameControl

\* The registers of the frame controller keep to their types, whatever the
\* processor does: the coordinate never leaves the frame, the store never
\* overflows its FIFO.
THEOREM FrameTypeCorrect == FrameControl => []FaceDetectionTypeOK
<1>1. FrameInv => FaceDetectionTypeOK
  BY DEF FrameInv
<1> QED
  BY <1>1, FrameInductive, PTL

\* The window memory never changes under running classifiers, for every size of
\* frame and store and every behaviour of the processor.
THEOREM ImageStable == FrameControl => []StableImage
<1>1. FrameInv => StableImage
  BY DEF FrameInv
<1> QED
  BY <1>1, FrameInductive, PTL

----------------------------------------------------------------------------
\* A pixel is given to the memory at the clock its coordinate is taken at, and no
\* coordinate is taken anew while the last one still is.
SpacedInv == enable_memory => recieve_coordinate

\* The window memory never takes pixels at two clocks in a row, for every size of
\* frame and store and every behaviour of the processor: the contract under which
\* its rows of FIFOs keep in step (row.v).
THEOREM MemorySpaced == FrameControl => PixelsSpaced
<1> DEFINE Spaced == enable_memory => ~enable_memory'
<1>1. FaceDetectionInit => SpacedInv
  BY DEF FaceDetectionInit, I2LBSInit, SpacedInv
<1>2. SpacedInv /\ FrameClock => SpacedInv' /\ Spaced
  <2> SUFFICES ASSUME SpacedInv, FrameClock PROVE SpacedInv' /\ Spaced
    OBVIOUS
  <2>1. MemoryEnableEdge(recieve_coordinate' /\ ~recieve_coordinate)
    BY DEF FrameClock, FaceDetectionEdge, I2LBSEdge
  <2>2. enable_memory' => recieve_coordinate' /\ ~recieve_coordinate
    BY <2>1 DEF MemoryEnableEdge
  <2> QED
    BY <2>2 DEF SpacedInv
<1>3. SpacedInv /\ UNCHANGED FaceDetectionvars => SpacedInv'
  BY DEF SpacedInv, FaceDetectionvars, I2LBSvars
<1>4. SpacedInv /\ [FrameClock]_FaceDetectionvars => SpacedInv'
  BY <1>2, <1>3
<1>5. SpacedInv /\ [FrameClock]_FaceDetectionvars => [Spaced]_FaceDetectionvars
  BY <1>2
<1> QED
  BY <1>1, <1>4, <1>5, PTL DEF FrameControl, PixelsSpaced

=============================================================================
