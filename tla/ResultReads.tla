---------------------------- MODULE ResultReads ----------------------------
(***************************************************************************)
(* The words that the program keeps of the results (FPGAManager.cpp around *)
(* face_detection_ip.v and fifo.v).  A word is told by its place in the    *)
(* store; an answer of the protocol is no word.                            *)
(*                                                                         *)
(* The module adds the words to the program and its device, whose own      *)
(* steps it leaves as they are.                                            *)
(***************************************************************************)
EXTENDS FpgaManager

VARIABLES
  q,      \* the word at the FIFO's output: how many were taken out by then
  held,   \* the word in the read register
  kept    \* what ReadResultsFromFPGA has for the x, y and scale of a result

readvars == <<vars, q, held, kept>>

NoWord == 0
Fields == {"read_x", "read_y", "read_scale"}
NoResult == [field \in Fields |-> NoWord]

ReadsInit ==
  /\ Init
  /\ q = NoWord
  /\ held = NoWord
  /\ kept = NoResult

\* Without show-ahead the output changes when a word is taken out, and stays.
OutputEdge == q' = IF trig_send_result /\ words > 0 THEN q + 1 ELSE q

\* The read register after a read: no answer applies, a word, or the protocol's.
HeldEdge(s_read) ==
  held' = IF ~s_read \/ ~(AnswersReady \/ AnswersTaken \/ AnswersFinish \/ SendsResult)
          THEN held
          ELSE IF AnswersWord THEN q ELSE NoWord

KeptEdge ==
  kept' = IF pc \in Fields /\ pc' # pc
          THEN [kept EXCEPT ![pc] = IF read_waits THEN held' ELSE held]
          ELSE IF pc' = "ask_x" THEN NoResult ELSE kept

ReadsNext ==
  \/ (Idle \/ Restart \/ WriteAccess) /\ OutputEdge /\ HeldEdge(FALSE) /\ KeptEdge
  \/ ReadAccess /\ OutputEdge /\ HeldEdge(TRUE) /\ KeptEdge

ReadsSpec == ReadsInit /\ [][ReadsNext]_readvars

----------------------------------------------------------------------------
\* What the program keeps of a result is one word of the store at most: it never has
\* a word for x, and where it has words for y and scale they are the same one.  It
\* asks three times and reads three times, and the device takes one word out of the
\* store for the three (FPGAManager.cpp, face_detection_ip.v).
KeepsOneWord ==
  pc = "end_result" /\ runs = 1 =>
    /\ kept["read_x"] = NoWord
    /\ kept["read_y"] # NoWord /\ kept["read_scale"] # NoWord
       => kept["read_y"] = kept["read_scale"]

=============================================================================
