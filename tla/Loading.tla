------------------------------ MODULE Loading ------------------------------
(***************************************************************************)
(* What the frame controller is told of the database of the first stages:  *)
(* whether it is there.  database_embedded.v says so by o_load_done, and   *)
(* the frame controller asks for no pixel without it.                      *)
(***************************************************************************)
VARIABLE load_done    \* database_load_done

\* Before the first reset the flags behind it have whatever value they power up with.
LoadInit == load_done \in BOOLEAN

\* Loading restarts with a reset, and with nothing else.
LoadEdge(reset) == load_done' \in (IF reset THEN {FALSE} ELSE {load_done, TRUE})

\* What the loader owes the frame controller.
DatabaseLoads == <>[]load_done

=============================================================================
