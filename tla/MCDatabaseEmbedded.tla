------------------------- MODULE MCDatabaseEmbedded -------------------------
(***************************************************************************)
(* For TLC: two stages of different sizes, and memories with every pattern *)
(* of equal neighbours.                                                    *)
(***************************************************************************)
EXTENDS DatabaseEmbedded, TLC

MCSize == 1 :> 2 @@ 2 :> 3

MCContents ==
  {1 :> a @@ 2 :> b : a \in [0 .. 1 -> Words], b \in [0 .. 2 -> Words]}

=============================================================================
