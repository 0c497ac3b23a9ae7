----------------------------- MODULE MCCascade -----------------------------
(***************************************************************************)
(* Cascades for TLC: with stages that grow, shrink, are equal and lap each *)
(* other, wired and not wired; memories with and without equal neighbours, *)
(* and with a word that does not fit the register of a parameter.          *)
(***************************************************************************)
EXTENDS Cascade, Sequences

Digits == 0 .. 6

\* A memory that repeats w.
Memory(size, w) == [i \in 0 .. size - 1 |-> w[(i % Len(w)) + 1]]

Build(wires, sizes, w) ==
  [wire |-> [s \in Stages |-> wires[s + 1]],
   trees |-> [s \in Stages |-> sizes[s + 1]],
   contents |-> [s \in Stages |-> Memory(SizeStage(sizes[s + 1]), w)]]

Cascades ==
  {Build(<<"stage", "stage">>, sizes, <<1, 2, 3, 3, 6, 1, 1, 3, 2>>) :
     sizes \in {<<2, 3>>, <<2, 2>>, <<3, 2>>, <<1, 3>>}}
  \cup {Build(<<"stage", "stage">>, <<2, 3>>, <<1, 5, 5, 2>>)}
  \cup {Build(<<unwired, "stage">>, <<2, 2>>, <<0, 0, 1>>) : unwired \in {"low", "high"}}

\* Every parameter but one has a register.
HeldParams == (0 .. Params - 1) \ {3}

=============================================================================
