--------------------------- MODULE DatabaseStage ---------------------------
(***************************************************************************)
(* A later stage of the database (database_stage.v).  Enabled, it reads    *)
(* its memory from the first word to the last and says which parameter of  *)
(* which tree the word at its output is.  Its three counters run while     *)
(* count_leaf is up, which a block sets when the memory's output changes.  *)
(*                                                                         *)
(* A stage st is a record of its registers and its memory.                 *)
(***************************************************************************)
EXTENDS DatabaseStageMemory, Verilog

CONSTANTS
  Params,         \* NUM_PARAM_PER_CLASSIFIER
  Thresholds,     \* NUM_STAGE_THRESHOLD
  DefaultValue    \* DEFAULT_VALUE

ASSUME StageAssumption == Params \in Nat \ {0, 1} /\ Thresholds \in Nat \ {0}

SizeStage(trees) == trees * Params + Thresholds

StageType(trees, words) ==
  [renable : BOOLEAN, count_leaf : BOOLEAN, trig_count_tree : BOOLEAN,
   index_tree : 0 .. trees - 1, index_leaf : 0 .. Params - 1,
   index_database : 0 .. SizeStage(trees) - 1,
   memory : MemoryType(SizeStage(trees), words)]

StageInit ==
  [renable |-> FALSE, count_leaf |-> FALSE, trig_count_tree |-> FALSE,
   index_tree |-> 0, index_leaf |-> 0, index_database |-> 0, memory |-> PoweredUp]

EndLeafs(st) == st.index_leaf = Params - 1
EndTrees(st, trees) == st.index_tree = trees - 1
EndDatabase(st, trees) == st.index_database = SizeStage(trees) - 1

\* A fault for EvaluatedWith: the parameters are counted while the memory is read.
LeafReachedReading(st, reset) == Counter(st.index_leaf, Params, st.renable, reset)

\* A fault for StreamAligned: so are the words.
WordReachedReading(st, trees, reset) ==
  Counter(st.index_database, SizeStage(trees), st.renable, reset)

\* What the counters reach at a clock edge, when reset is up before it.  A reset that
\* rises with the edge clears them after that, and the blocks that wait for their end
\* run all the same.
LeafReached(st, reset) == Counter(st.index_leaf, Params, st.count_leaf, reset)
WordReached(st, trees, reset) ==
  Counter(st.index_database, SizeStage(trees), st.count_leaf, reset)

EndsLeafs(st, reset) == LeafReached(st, reset) = Params - 1 /\ ~EndLeafs(st)
EndsDatabase(st, trees, reset) ==
  WordReached(st, trees, reset) = SizeStage(trees) - 1 /\ ~EndDatabase(st, trees)

\* The stages that st may become at a clock edge at which the enable rises (loads) and
\* the reset is up before (reset) and after (resetting).  The blocks on the memory's
\* output, the enable and the reset run after the clocked ones, and the first of them
\* may see end_database as it was before the counter moved.
StageEdge(st, contents, trees, loads, reset, resetting) ==
  LET cleared == reset \/ resetting
      tree == Counter(st.index_tree, trees, st.trig_count_tree, reset)
      memory == Read(st.memory, contents, SizeStage(trees), st.renable, cleared)
      end == {EndDatabase(st, trees), WordReached(st, trees, reset) = SizeStage(trees) - 1}
      counts == {memory.data # DefaultValue /\ ~e : e \in end}
      rising == When(resetting /\ ~reset, FALSE)
  IN [renable : Driven(st.renable /\ ~EndDatabase(st, trees), When(loads, TRUE) \cup rising),
      count_leaf : Driven(st.count_leaf,
                     rising \cup IF memory.data # st.memory.data THEN counts ELSE {}),
      trig_count_tree : {EndsLeafs(st, reset) /\ tree # trees - 1},
      index_tree : {IF cleared THEN 0 ELSE tree},
      index_leaf : {IF cleared THEN 0 ELSE LeafReached(st, reset)},
      index_database : {IF cleared THEN 0 ELSE WordReached(st, trees, reset)},
      memory : {memory}]

=============================================================================
