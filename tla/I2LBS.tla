------------------------------- MODULE I2LBS -------------------------------
(***************************************************************************)
(* The window controller of I2LBS.v.  It asks for pixels until the window  *)
(* memory holds a full integral image, then alternates between inspecting  *)
(* the window and asking for the pixel that slides it by one.              *)
(*                                                                         *)
(* Its submodules are reduced to what they tell the controller: the window *)
(* memory says when it is full, the classifier cascade when a verdict is   *)
(* there, the resizer whether the coordinate belongs to the scaled frame.  *)
(***************************************************************************)
EXTENDS Verilog

VARIABLES
  window,               \* state: "IDLE", "INSPECT" or "REQUEST_RECIEVE"
  enable,               \* the classifiers run on the window
  candidate,            \* the window just inspected is a face
  pixel_request,        \* a pixel is wanted
  database_request,     \* the cascade parameters are wanted
  enable_memory,        \* the window memory takes the pixel at the next edge
  integral_image_ready, \* the memory holds a full window
  inspect_done,         \* the cascade has a verdict,
  w_candidate,          \* and this is it
  reach                 \* the resizer keeps the current coordinate

I2LBSvars ==
  <<window, enable, candidate, pixel_request, database_request, enable_memory,
    integral_image_ready, inspect_done, w_candidate, reach>>

I2LBSTypeOK ==
  /\ window \in {"IDLE", "INSPECT", "REQUEST_RECIEVE"}
  /\ enable \in BOOLEAN
  /\ candidate \in BOOLEAN
  /\ pixel_request \in BOOLEAN
  /\ database_request \in BOOLEAN
  /\ enable_memory \in BOOLEAN
  /\ integral_image_ready \in BOOLEAN
  /\ inspect_done \in BOOLEAN
  /\ w_candidate \in BOOLEAN
  /\ reach \in BOOLEAN

I2LBSInit ==
  /\ window = "IDLE"
  /\ enable = FALSE
  /\ candidate = FALSE
  /\ pixel_request = FALSE
  /\ database_request = FALSE
  /\ enable_memory = FALSE
  /\ integral_image_ready = FALSE
  /\ inspect_done = FALSE
  /\ w_candidate = FALSE
  /\ reach \in BOOLEAN

Inspecting == window = "INSPECT"
Verdict == Inspecting /\ inspect_done

NextWindow ==
  CASE window = "IDLE" -> IF reach /\ integral_image_ready THEN "INSPECT" ELSE "IDLE"
    [] window = "INSPECT" -> IF inspect_done THEN "REQUEST_RECIEVE" ELSE "INSPECT"
    [] window = "REQUEST_RECIEVE" -> IF enable_memory THEN "INSPECT" ELSE "REQUEST_RECIEVE"

\* The two clocked blocks: the reset and the state machine.
WindowEdge(reset) ==
  /\ window' \in When(reset, "IDLE") \cup {NextWindow}
  /\ pixel_request' \in When(reset, FALSE) \cup {~Inspecting}
  /\ database_request' \in When(reset, FALSE) \cup {Inspecting}
  /\ enable' \in Driven(enable, When(reset, FALSE) \cup When(Inspecting, ~inspect_done))
  /\ candidate' \in Driven(candidate,
       When(reset, FALSE)
       \cup When(Verdict, w_candidate)
       \cup When(window = "REQUEST_RECIEVE" /\ enable_memory, FALSE))

\* A fault for StableImage: the memory takes every pixel that is kept.
MemoryEnableAnywhere(recieve_rises) ==
  IF recieve_rises THEN enable_memory' \in {reach, reach'} ELSE enable_memory' = FALSE

\* A fault for PixelsSpaced: enable_memory is not cleared before the next pixel.
MemoryEnableKept(recieve_rises) ==
  IF recieve_rises
  THEN \E w \in {window, window'}, r \in {reach, reach'} :
         enable_memory' = (r /\ w # "INSPECT")
  ELSE enable_memory' = enable_memory

\* The block on posedge enable_recieve_pixel runs after the clocked blocks, in
\* the instant that updates the state and the coordinate: it may read either
\* value of each.  Every other clock edge clears enable_memory.
MemoryEnableEdge(recieve_rises) ==
  IF recieve_rises
  THEN \E w \in {window, window'}, r \in {reach, reach'} :
         enable_memory' = (r /\ w # "INSPECT")
  ELSE enable_memory' = FALSE

\* I2LBS_memory: the window becomes full by taking a pixel, and stays full.
MemoryEdge(reset) ==
  integral_image_ready' \in
    When(reset, FALSE) \cup {integral_image_ready} \cup When(enable_memory, TRUE)

\* I2LBS_classifier may give a verdict at any clock, and nothing but the state
\* INSPECT looks at it.
ClassifierEdge ==
  /\ inspect_done' \in {FALSE} \cup When(window' = "INSPECT", TRUE)
  /\ w_candidate' \in {FALSE} \cup When(inspect_done', TRUE)

\* resize: the verdict on a coordinate changes only with the coordinate.
ResizeEdge(moves) == reach' \in {reach} \cup When(moves, ~reach)

I2LBSEdge(reset, recieve_rises, moves) ==
  /\ WindowEdge(reset)
  /\ ResizeEdge(moves)
  /\ MemoryEnableEdge(recieve_rises)
  /\ MemoryEdge(reset)
  /\ ClassifierEdge

=============================================================================
