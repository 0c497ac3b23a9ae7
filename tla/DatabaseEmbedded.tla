-------------------------- MODULE DatabaseEmbedded --------------------------
(***************************************************************************)
(* The loader of the first stages (database_embedded.v).  After a reset    *)
(* each stage copies its memory into registers.  It has no clocked counter *)
(* for that: a block runs whenever the memory's output changes, stores the *)
(* output as the next word and counts it.                                  *)
(*                                                                         *)
(* A step is one clock edge, with the block that follows it.  The reset    *)
(* may last any number of clocks and come back at any time.                *)
(***************************************************************************)
EXTENDS DatabaseStageMemory, FiniteSetsExt

CONSTANTS
  Stages,     \* the stages that are loaded
  Size,       \* NUM_CLASSIFIERS_STAGE_n, the words loaded of each
  Words,      \* the values of a word
  Contents    \* what the memories may hold, a function of the stage

ASSUME LoadAssumption ==
  /\ Stages # {} /\ Size \in [Stages -> Nat \ {0, 1}]
  /\ 0 \in Words
  /\ \A c \in Contents, s \in Stages : c[s] \in [0 .. Size[s] - 1 -> Words]

VARIABLES
  reset,
  contents,       \* the memories of the build
  memory,         \* their counters and outputs
  load_count,
  load_data,
  database,
  whole,          \* for the properties: the memory was at rest when the reset came
  held            \* for the properties: its output when the first word was awaited

vars == <<reset, contents, memory, load_count, load_data, database, whole, held>>

Index(s) == 0 .. Size[s] - 1

LoadTypeOK ==
  /\ reset \in BOOLEAN
  /\ contents \in Contents
  /\ \A s \in Stages :
       /\ memory[s] \in MemoryType(Size[s], Words)
       /\ load_count[s] \in 0 .. Size[s] + 1
       /\ load_data[s] \in BOOLEAN
       /\ database[s] \in [Index(s) -> Words]
       /\ whole[s] \in BOOLEAN
       /\ held[s] \in Words

Init ==
  /\ reset = FALSE
  /\ contents \in Contents
  /\ memory = [s \in Stages |-> PoweredUp]
  /\ load_count = [s \in Stages |-> 0]
  /\ load_data \in [Stages -> BOOLEAN]
  /\ database = [s \in Stages |-> [i \in Index(s) |-> 0]]
  /\ whole = [s \in Stages |-> FALSE]
  /\ held = [s \in Stages |-> 0]

load_done == \A s \in Stages : ~load_data[s]

----------------------------------------------------------------------------
\* A fault for LoadsChanges: the addresses go on from where the last load ended.
MemoryEdgeUncleared ==
  \E sees \in SUBSET Stages :
    memory' = [s \in Stages |->
      Read(memory[s], contents[s], Size[s], load_data[s] \/ (reset /\ s \in sees), FALSE)]

\* The reset block assigns at once, and the memory reads its enable on the same
\* edge: it may or may not see the enable that the reset has just set.
MemoryEdge ==
  \E sees \in SUBSET Stages :
    memory' = [s \in Stages |->
      Read(memory[s], contents[s], Size[s],
           load_data[s] \/ (reset /\ s \in sees), reset \/ reset')]

Arrives(s) == memory'[s].data # memory[s].data

\* A fault for LoadsMemory: the reset does not start the count again.
CountKept(s) == load_count[s]

\* The reset block, which runs before the output changes.
Count(s) == IF reset THEN 0 ELSE load_count[s]

LastWord(s) == Arrives(s) /\ Count(s) + 1 = Size[s]

\* A fault for LoadsAsSpecified: a reset does not start the load.
LoadFlagsLazy == load_data' = [s \in Stages |-> load_data[s] /\ ~LastWord(s)]

LoadFlags == load_data' = [s \in Stages |-> (reset \/ load_data[s]) /\ ~LastWord(s)]

\* A word past the last register is not stored, but counted.
StoreWords ==
  /\ load_count' = [s \in Stages |-> Count(s) + (IF Arrives(s) THEN 1 ELSE 0)]
  /\ database' = [s \in Stages |-> [i \in Index(s) |->
       IF Arrives(s) /\ i = Count(s) THEN memory'[s].data
       ELSE IF reset THEN 0 ELSE database[s][i]]]

AtRest(s) == ~load_data[s] /\ memory[s].word = memory[s].data

Observe ==
  /\ whole' = [s \in Stages |-> IF ~reset /\ reset' THEN AtRest(s)' ELSE whole[s]]
  /\ held' = [s \in Stages |->
       IF reset THEN IF Arrives(s) THEN memory[s].data ELSE memory'[s].data ELSE held[s]]

Clock ==
  /\ reset' \in BOOLEAN
  /\ UNCHANGED contents
  /\ MemoryEdge
  /\ StoreWords
  /\ LoadFlags
  /\ Observe

Spec == Init /\ [][Clock]_vars

\* The clock never stops while the reset stands as it is; whether and when the reset
\* moves is not the loader's to say.
FairSpec == Spec /\ WF_vars(Clock /\ reset' = reset)

----------------------------------------------------------------------------
\* The words a memory gives, from its first on and around its end.
Stream(s, p) == contents[s][p % Size[s]]

\* The place in that stream of the k-th word that differs from the one before it,
\* when the output held some word before the first.
ChangeAfter(s, word, p) == Min({q \in p .. p + Size[s] : Stream(s, q) # word})

Change(s) ==
  LET place[k \in Index(s)] ==
        IF k = 0 THEN ChangeAfter(s, held[s], 0)
        ELSE ChangeAfter(s, Stream(s, place[k - 1]), place[k - 1])
  IN place

\* A load that was not cut short by a reset gives exactly the changes of the memory's
\* output: words equal to their neighbour are dropped and the memory read on around
\* its end, and a first word that the output held already is missed.  However long
\* the reset, and whichever block saw it first (database_embedded.v).
LoadsChanges ==
  \A s \in Stages :
    ~reset /\ whole[s] /\ ~load_data[s] =>
      \A k \in Index(s) : database[s][k] = Stream(s, Change(s)[k])

\* A memory no two neighbours of which are equal, the last and the first included,
\* is loaded word by word; after a first load, the next is one word off.
Alternates(s) == \A i \in Index(s) : Stream(s, i) # Stream(s, i + 1)

LoadsMemory ==
  \A s \in Stages :
    ~reset /\ whole[s] /\ ~load_data[s] /\ Alternates(s) =>
      \A k \in Index(s) :
        database[s][k] = Stream(s, IF held[s] = contents[s][0] THEN k + 1 ELSE k)

----------------------------------------------------------------------------
\* The loader is what the frame controller takes it for.
Frame == INSTANCE Loading WITH load_done <- load_done

\* The database is withdrawn by every reset and by nothing else, so that no pixel is
\* asked for while it is loaded again (database_embedded.v for face_detection.v).
LoadsAsSpecified == Frame!LoadInit /\ [][Frame!LoadEdge(reset)]_vars

\* Words dropped do not stop the load: unless a memory has one word only, all over,
\* it ends once resets do.
LoadEnds ==
  (\A s \in Stages : \E i \in Index(s) : Stream(s, i) # Stream(s, 0)) /\ <>[]~reset
    => Frame!DatabaseLoads

=============================================================================
