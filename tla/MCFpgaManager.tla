--------------------------- MODULE MCFpgaManager ---------------------------
(***************************************************************************)
(* Images for TLC: two different pixels, and one that holds a pixel of     *)
(* value 2.                                                                *)
(***************************************************************************)
EXTENDS FpgaManager

MCImage == <<7, 9>>
MCImageTwo == <<2, 7>>

=============================================================================
