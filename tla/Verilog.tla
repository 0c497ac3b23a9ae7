------------------------------ MODULE Verilog ------------------------------
(***************************************************************************)
(* Vocabulary for clocked Verilog.  A step of a hardware module is one     *)
(* posedge of the clock.  Several always blocks of this design assign the  *)
(* same register at the same edge; the language leaves the winner open, so *)
(* a register takes any of the values assigned to it, and keeps its value  *)
(* when no block assigns it.                                               *)
(***************************************************************************)

\* The values a block assigns: v when its condition c holds, none otherwise.
When(c, v) == IF c THEN {v} ELSE {}

\* The values a register holding old may have after the edge.
Driven(old, writers) == IF writers = {} THEN {old} ELSE writers

=============================================================================
