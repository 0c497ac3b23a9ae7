--------------------------- MODULE MCResultReads ---------------------------
(***************************************************************************)
(* An image of one pixel for TLC.                                          *)
(***************************************************************************)
EXTENDS ResultReads

MCImage == <<7>>

=============================================================================
