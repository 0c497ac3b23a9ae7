----------------------------- MODULE Classifier -----------------------------
(***************************************************************************)
(* The classifier of a later stage (classifier.v).  It copies the          *)
(* parameters of a tree as its database gives them, into registers that    *)
(* are narrower than a word, adds the tree's value when the last one is    *)
(* there, and compares the sum with a threshold when the database ends.    *)
(*                                                                         *)
(* A classifier cl is a record.  What a tree adds is not computed: the sum *)
(* is 0 or anything.                                                       *)
(***************************************************************************)
EXTENDS DatabaseStage

CONSTANTS
  MaxSize,        \* MAX_SIZE
  Held,           \* the parameters that have a register
  HeldValues      \* 2^DATA_WIDTH_12: what such a register tells apart

ASSUME ClassifierAssumption ==
  /\ MaxSize \in Nat
  /\ Held \subseteq 0 .. Params - 1
  /\ HeldValues \in Nat \ {0}

\* What a register holds of a word: its low bits, of a negative number too.
Cut(word) == word % HeldValues

ClassifierType(words) ==
  [candidate : BOOLEAN, summed : BOOLEAN, copied : [Held -> 0 .. HeldValues - 1],
   index_stage_threshold : 0 .. MaxSize, r_stage_threshold : words]

ClassifierInit ==
  [candidate |-> FALSE, summed |-> FALSE, copied |-> [i \in Held |-> 0],
   index_stage_threshold |-> 0, r_stage_threshold |-> 0]

\* A fault for ComparedWith: the thresholds are counted from the first tree on.
CountThresholdsAlways(cl, st, trees, cleared) ==
  Counter(cl.index_stage_threshold, MaxSize + 1, st.count_leaf, cleared)

CountThresholds(cl, st, trees, cleared) ==
  Counter(cl.index_stage_threshold, MaxSize + 1, EndTrees(st, trees), cleared)

\* The classifiers that cl may become at a clock edge of its stage st: clears is the
\* classifier's reset, clearing the same after the edge; reset is the stage's.
ClassifierStep(cl, st, trees, enable, clears, clearing, reset) ==
  LET cleared == clears \/ ~enable
      sum == (enable /\ EndsLeafs(st, reset)) \/ (cl.summed /\ ~cleared)
  IN [candidate : IF EndsDatabase(st, trees, reset) THEN {FALSE} \cup When(sum, TRUE)
                  ELSE {cl.candidate /\ ~cleared},
      summed : {sum},
      copied : {[i \in Held |-> IF cleared THEN 0
                                ELSE IF i = st.index_leaf /\ ~EndTrees(st, trees)
                                THEN Cut(st.memory.data) ELSE cl.copied[i]]},
      index_stage_threshold : {CountThresholds(cl, st, trees, clears \/ clearing)},
      r_stage_threshold : Driven(cl.r_stage_threshold,
        When(cleared, 0)
        \cup When(EndTrees(st, trees) /\ cl.index_stage_threshold = 0, st.memory.data))]

=============================================================================
