------------------------------ MODULE Cascade ------------------------------
(***************************************************************************)
(* The later stages of the cascade (I2LBS_classifier.v) with the database  *)
(* that feeds them (database.v) and the window controller that starts      *)
(* them.  All stages read their memories at once; the cascade looks at     *)
(* their ends one after the other, and the window is a face when none of   *)
(* them rejects it.                                                        *)
(*                                                                         *)
(* A step is one clock edge.  All registers of the edge move first; the    *)
(* blocks that wait for a change of theirs run after it.                   *)
(***************************************************************************)
EXTENDS I2LBS, Classifier

CONSTANTS
  NumStages,    \* NUM_STAGE; stages are counted from 0
  Words,        \* the values of a word of a memory
  Builds        \* what may be built: the number of trees of each stage, what its
                \* memory holds, and what drives its bit of end_database: the
                \* stage, or nothing, which is then "low" or "high"

Stages == 0 .. NumStages - 1

ASSUME CascadeAssumption ==
  /\ NumStages \in Nat \ {0} /\ Words \subseteq Nat /\ 0 \in Words
  /\ \A b \in Builds, s \in Stages :
       /\ b.trees[s] \in Nat \ {0}
       /\ b.wire[s] \in {"stage", "low", "high"}
       /\ b.contents[s] \in [0 .. SizeStage(b.trees[s]) - 1 -> Words]

VARIABLES
  reset,
  build,                             \* one of Builds
  pass_first_stage, pass_stage_1,    \* nets that never change
  enable_second_stage,
  stage, classifier,                 \* the instances for each stage
  count_stage, reset_classifier,
  fresh,      \* for the properties: the stage was at rest when it was enabled,
  clean,      \* that all were, and the cascade with its classifiers too,
  decided     \* and what the stages have decided since

registers == <<I2LBSvars, enable_second_stage, stage, classifier, count_stage, reset_classifier>>
nets == <<build, pass_first_stage, pass_stage_1>>
vars == <<registers, nets, reset, fresh, clean, decided>>

CascadeTypeOK ==
  /\ I2LBSTypeOK
  /\ enable_second_stage \in BOOLEAN
  /\ reset_classifier \in BOOLEAN
  /\ count_stage \in 0 .. NumStages
  /\ \A s \in Stages :
       /\ stage[s] \in StageType(build.trees[s], Words)
       /\ classifier[s] \in ClassifierType(Words)

CascadeInit ==
  /\ I2LBSInit
  /\ reset = FALSE
  /\ build \in Builds
  /\ pass_first_stage \in BOOLEAN
  /\ pass_stage_1 \in BOOLEAN
  /\ enable_second_stage = FALSE
  /\ stage = [s \in Stages |-> StageInit]
  /\ classifier = [s \in Stages |-> ClassifierInit]
  /\ count_stage = 0
  /\ reset_classifier = FALSE
  /\ fresh = [s \in Stages |-> FALSE]
  /\ clean = FALSE
  /\ decided = [s \in Stages |-> {}]

Wired(s) == build.wire[s] = "stage"
trees(s) == build.trees[s]

end_database(s) ==
  \/ build.wire[s] = "high"
  \/ Wired(s) /\ EndDatabase(stage[s], trees(s))

\* A fault for NoFaceUnwired: one stage that accepts is enough.
passOne == \E s \in Stages : classifier[s].candidate

pass == \A s \in Stages : classifier[s].candidate
load_second_stage == enable_second_stage /\ database_request

\* A fault for NoVerdictLeft: the stages go on where they were.
reset_databaseOnce == reset

reset_database == pixel_request \/ reset

----------------------------------------------------------------------------
\* The functions that take each stage to one of its choices.
Chosen(choices) ==
  {f \in [Stages -> UNION {choices[s] : s \in Stages}] : \A s \in Stages : f[s] \in choices[s]}

Loads == load_second_stage' /\ ~load_second_stage

DatabaseEdge ==
  /\ enable_second_stage' = (pass_first_stage \/ (enable_second_stage /\ ~reset_database))
  /\ stage' \in Chosen([s \in Stages |->
       IF Wired(s)
       THEN StageEdge(stage[s], build.contents[s], trees(s), Loads,
                      reset_database, reset_database')
       ELSE {stage[s]}])

\* A fault for FirstRejects: the end of any stage is taken for that of the current one.
EndedAny == \E s \in Stages : end_database(s)

Ended == count_stage \in Stages /\ end_database(count_stage)
Accepted == classifier[count_stage].candidate

\* A fault for VerdictFounded: the first stage that ends concludes.
ConcludedFirst == Ended

\* A fault for InspectionEnds: a stage that rejects does not conclude.
ConcludedPass == Ended /\ pass

Concluded == Ended /\ (~Accepted \/ pass)

\* Two clocked blocks assign the same registers: the one that ends a verdict, and the
\* one that follows the ends of the stages.
CascadeEdge ==
  /\ count_stage' \in Driven(count_stage,
       When(reset \/ reset_classifier, 0) \cup When(Ended /\ Accepted /\ ~pass, count_stage + 1))
  /\ reset_classifier' \in Driven(reset_classifier,
       When(reset \/ reset_classifier, ~reset_classifier) \cup When(Concluded, TRUE))
  /\ inspect_done' \in Driven(inspect_done,
       When(reset \/ reset_classifier \/ inspect_done, FALSE) \cup When(Concluded, TRUE))

ClassifiersEdge ==
  /\ classifier' \in Chosen([s \in Stages |->
       ClassifierStep(classifier[s], stage[s], trees(s), pass_stage_1,
                      reset_classifier, reset_classifier', reset_database)])
  /\ w_candidate' = pass'

Decides(s) == EndsDatabase(stage[s], trees(s), reset_database)

AtRest(s) ==
  /\ ~stage[s].count_leaf
  /\ stage[s].memory.word = stage[s].memory.data
  /\ build.contents[s][0] # stage[s].memory.data

Observe ==
  /\ fresh' = [s \in Stages |-> IF Loads THEN AtRest(s) ELSE fresh[s] /\ load_second_stage']
  /\ clean' = IF Loads
              THEN /\ count_stage' = 0 /\ ~reset_classifier' /\ ~inspect_done'
                   /\ \A s \in Stages : AtRest(s) /\ Wired(s) /\ ~classifier'[s].candidate
              ELSE clean /\ load_second_stage'
  /\ decided' = [s \in Stages |->
       (IF Loads THEN {} ELSE decided[s]) \cup When(Decides(s), classifier'[s].candidate)]

\* The pixel that slides the window comes at any time, a reset only before the first.
\* A pixel that the resizer skips is none to the cascade, so it skips all or none.
Clock ==
  /\ reset' \in BOOLEAN
  /\ UNCHANGED nets
  /\ WindowEdge(reset)
  /\ \E recieve_rises \in BOOLEAN :
       /\ recieve_rises => ~enable_memory
       /\ ResizeEdge(FALSE)
       /\ MemoryEnableEdge(recieve_rises)
  /\ MemoryEdge(reset)
  /\ reset' => window' = "IDLE" /\ ~integral_image_ready'
  /\ CascadeEdge
  /\ DatabaseEdge
  /\ ClassifiersEdge
  /\ Observe

Spec == CascadeInit /\ [][Clock]_vars

\* The clock never stops.
FairSpec == Spec /\ WF_vars(Clock)

----------------------------------------------------------------------------
\* The word DEFAULT_VALUE, which stops the counters, is in no memory of the build.
Plain(s) == \A i \in DOMAIN build.contents[s] : build.contents[s][i] # DefaultValue

\* A stage that was at rest when it was enabled says of every word of its memory, and
\* of no other, where it is: the counters, started by a change of the output that is
\* one clock old, never run ahead of the memory or behind it (database_stage.v).
StreamAligned ==
  \A s \in Stages :
    Plain(s) /\ fresh[s] /\ stage[s].renable /\ stage[s].count_leaf =>
      stage[s].memory.data = build.contents[s][stage[s].index_database]

\* What a tree is evaluated with: its own parameters but for the last one, which is
\* copied a clock too late and is the last of the tree before; the last tree, which
\* is taken for the thresholds, with those of the tree before.  Of each the low bits:
\* a word that does not fit its register, as a negative weight, is another number
\* there (classifier.v).
EvaluatedTree(s, i) ==
  IF EndTrees(stage[s], trees(s)) \/ i = Params - 1
  THEN stage[s].index_tree - 1 ELSE stage[s].index_tree

EvaluatedWith ==
  [][\A s \in Stages :
       /\ Plain(s) /\ clean /\ enable /\ ~inspect_done /\ pass_stage_1
       /\ stage[s].renable /\ EndsLeafs(stage[s], reset_database)
       => \A i \in Held :
            EvaluatedTree(s, i) >= 0 =>
              classifier'[s].copied[i] =
                build.contents[s][EvaluatedTree(s, i) * Params + i] % HeldValues]_vars

\* The sum is compared with the threshold of the stage or with the word after it: the
\* counter of the thresholds goes on, by four, through the parameters of the last tree
\* (classifier.v; for as many parameters as are built, modulo four, and for more than
\* one tree: a tree that is the first too is taken for the last between windows).
ComparedWith ==
  [][\A s \in Stages :
       /\ trees(s) > 1 /\ Plain(s) /\ clean /\ enable /\ ~inspect_done /\ pass_stage_1
       /\ stage[s].renable /\ Decides(s)
       => \E i \in {0, 1} :
            classifier'[s].r_stage_threshold = build.contents[s][trees(s) * Params + i]]_vars

\* In a window that the stages and the cascade start at rest, whatever the sizes: a
\* face has been accepted by every stage, and a window is rejected only if some stage
\* has rejected it in this window (I2LBS_classifier.v).
VerdictFounded ==
  clean /\ Verdict =>
    IF w_candidate THEN \A s \in Stages : TRUE \in decided[s]
    ELSE \E s \in Stages : FALSE \in decided[s]

Growing == \A s, c \in Stages : s < c => trees(s) < trees(c)

\* The counters of a stage may run on when it has ended, and end again: so early that
\* c may not have had its verdict yet.
Laps(s, c) == 2 * SizeStage(trees(s)) <= SizeStage(trees(c)) + 1

\* When each stage is longer than those before it, the verdict is taken at the first
\* stage that rejects or at the last; the stages before it have accepted, and have
\* decided again only if they are so short that they may lap it, which is what else
\* can turn a face down (I2LBS_classifier.v, database_stage.v).
FirstRejects ==
  clean /\ Growing /\ (\A s \in Stages : Plain(s)) /\ Verdict =>
    /\ \A s \in 0 .. count_stage - 1 :
         TRUE \in decided[s] /\ (decided[s] = {TRUE} \/ Laps(s, count_stage))
    /\ IF w_candidate THEN count_stage = NumStages - 1 /\ decided[count_stage] = {TRUE}
       ELSE \/ decided[count_stage] = {FALSE}
            \/ \E s \in 0 .. count_stage - 1 : FALSE \in decided[s]

\* A verdict may outlast its inspection by two clocks, because the end of a stage does,
\* and would be taken for that of a window begun by then; a pixel that is taken when
\* pixels have been asked for has an inspection of its own (I2LBS_classifier.v, I2LBS.v).
NoVerdictLeft ==
  [][(\A s \in Stages : Wired(s)) /\ window = "REQUEST_RECIEVE" /\ pixel_request
     => ~inspect_done']_vars

\* A stage whose bit nothing drives keeps every window from being a face
\* (face_detection.v, where the first three are such).
NoFaceUnwired == (\E s \in Stages : ~Wired(s)) => ~w_candidate

\* Stages each longer than those before it, and none so short that it laps another, end
\* every inspection, from whatever state the one before left the counters in
\* (I2LBS_classifier.v, database_stage.v).
InspectionEnds ==
  /\ pass_first_stage /\ Growing
  /\ \A s \in Stages : Wired(s) /\ Plain(s) /\ \A c \in Stages : ~Laps(s, c)
  => (enable ~> inspect_done)

=============================================================================
