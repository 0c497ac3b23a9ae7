--------------------------- MODULE CascadeProofs ---------------------------
(***************************************************************************)
(* Proofs about the later stages of the cascade, for any number of stages, *)
(* any sizes and memories and any wiring: the types; that a stage nothing  *)
(* drives lets no face pass; that around the stages the window controller  *)
(* is the frame's; that a stage that starts at rest says of each           *)
(* word where it is; that no verdict is left from the window before and    *)
(* the verdict stands on this window; which stage it is that rejects; with *)
(* which parameters a tree is evaluated and with which word a sum is       *)
(* compared.                                                               *)
(***************************************************************************)
EXTENDS Cascade, TLAPS

\* A register keeps to a type that its old value and every assigned value have.
LEMMA DrivenType ==
  ASSUME NEW T, NEW old \in T, NEW writers \in SUBSET T, NEW v \in Driven(old, writers)
  PROVE  v \in T
  BY DEF Driven

LEMMA WhenType ==
  ASSUME NEW T, NEW c, NEW v, c => v \in T
  PROVE  When(c, v) \in SUBSET T
  BY DEF When

\* A counter stays below its size.
LEMMA CounterType ==
  ASSUME NEW size \in Nat \ {0}, NEW ctr \in 0 .. size - 1, NEW on, NEW cleared
  PROVE  Counter(ctr, size, on, cleared) \in 0 .. size - 1
  BY DEF Counter, NextAddress

\* A stage has more than one word.
LEMMA SizeType ==
  ASSUME NEW t \in Nat \ {0}
  PROVE  SizeStage(t) \in Nat /\ SizeStage(t) >= 2
<1>1. Params \in Nat \ {0, 1} /\ Thresholds \in Nat \ {0}
  BY StageAssumption
<1>2. t * Params \in Nat /\ t * Params >= 1
  BY <1>1
<1> QED
  BY <1>1, <1>2 DEF SizeStage

\* Chosen takes each stage to one of its choices.
LEMMA ChosenAt ==
  ASSUME NEW choices, NEW f \in Chosen(choices), NEW s \in Stages
  PROVE  f[s] \in choices[s]
  BY DEF Chosen

\* A memory with its words keeps its types.
LEMMA ReadType ==
  ASSUME NEW size \in Nat \ {0}, NEW m \in MemoryType(size, Words),
         NEW contents \in [0 .. size - 1 -> Words], NEW ren, NEW cleared
  PROVE  Read(m, contents, size, ren, cleared) \in MemoryType(size, Words)
<1> DEFINE n == Read(m, contents, size, ren, cleared)
<1>1. m.address \in 0 .. size - 1 /\ m.word \in Words /\ m.data \in Words
  BY DEF MemoryType
<1>2. Counter(m.address, size, ren, cleared) \in 0 .. size - 1
  BY <1>1, CounterType
<1>3. (IF ren THEN contents[m.address] ELSE m.word) \in Words
  BY <1>1
<1> QED
  BY <1>1, <1>2, <1>3 DEF MemoryType, Read

\* What an edge does to a stage.
LEMMA StageEdgeType ==
  ASSUME NEW t \in Nat \ {0}, NEW st \in StageType(t, Words),
         NEW contents \in [0 .. SizeStage(t) - 1 -> Words],
         NEW loads, NEW rst, NEW resetting,
         NEW n \in StageEdge(st, contents, t, loads, rst, resetting)
  PROVE  n \in StageType(t, Words)
<1> DEFINE size == SizeStage(t)
<1>1. size \in Nat \ {0} /\ Params \in Nat \ {0}
  BY SizeType, StageAssumption
<1>2. /\ st.renable \in BOOLEAN /\ st.count_leaf \in BOOLEAN
      /\ st.index_tree \in 0 .. t - 1 /\ st.index_leaf \in 0 .. Params - 1
      /\ st.index_database \in 0 .. size - 1 /\ st.memory \in MemoryType(size, Words)
  BY DEF StageType
<1> DEFINE cleared == rst \/ resetting
           tree == Counter(st.index_tree, t, st.trig_count_tree, rst)
           mem == Read(st.memory, contents, size, st.renable, cleared)
           end == {EndDatabase(st, t), WordReached(st, t, rst) = size - 1}
           counts == {mem.data # DefaultValue /\ ~e : e \in end}
           rising == When(resetting /\ ~rst, FALSE)
<1>3. /\ n.renable \in Driven(st.renable /\ ~EndDatabase(st, t), When(loads, TRUE) \cup rising)
      /\ n.count_leaf \in Driven(st.count_leaf,
                           rising \cup IF mem.data # st.memory.data THEN counts ELSE {})
      /\ n.trig_count_tree = (EndsLeafs(st, rst) /\ tree # t - 1)
      /\ n.index_tree = IF cleared THEN 0 ELSE tree
      /\ n.index_leaf = IF cleared THEN 0 ELSE LeafReached(st, rst)
      /\ n.index_database = IF cleared THEN 0 ELSE WordReached(st, t, rst)
      /\ n.memory = mem
      /\ n = [renable |-> n.renable, count_leaf |-> n.count_leaf,
              trig_count_tree |-> n.trig_count_tree, index_tree |-> n.index_tree,
              index_leaf |-> n.index_leaf, index_database |-> n.index_database,
              memory |-> n.memory]
  BY DEF StageEdge
<1>4. n.renable \in BOOLEAN
  <2>1. When(loads, TRUE) \cup rising \in SUBSET BOOLEAN
    BY DEF When
  <2>2. (st.renable /\ ~EndDatabase(st, t)) \in BOOLEAN
    BY DEF EndDatabase
  <2> HIDE DEF rising
  <2> QED
    BY <1>3, <2>1, <2>2, DrivenType
<1>5. n.count_leaf \in BOOLEAN
  <2>1. rising \in SUBSET BOOLEAN
    BY DEF When
  <2>2. counts \in SUBSET BOOLEAN
    OBVIOUS
  <2> HIDE DEF rising, counts, mem
  <2>3. rising \cup (IF mem.data # st.memory.data THEN counts ELSE {}) \in SUBSET BOOLEAN
    BY <2>1, <2>2
  <2> QED
    BY <1>2, <1>3, <2>3, DrivenType
<1>6. tree \in 0 .. t - 1
  BY <1>2, CounterType
<1>7. LeafReached(st, rst) \in 0 .. Params - 1
  BY <1>1, <1>2, CounterType DEF LeafReached
<1>8. WordReached(st, t, rst) \in 0 .. size - 1
  BY <1>1, <1>2, CounterType DEF WordReached
<1>9. mem \in MemoryType(size, Words)
  BY <1>1, <1>2, ReadType
<1>10. n.trig_count_tree \in BOOLEAN
  BY <1>3 DEF EndsLeafs
<1>11. 0 \in 0 .. t - 1 /\ 0 \in 0 .. Params - 1 /\ 0 \in 0 .. size - 1
  BY <1>1
<1>12. /\ n.index_tree \in 0 .. t - 1 /\ n.index_leaf \in 0 .. Params - 1
       /\ n.index_database \in 0 .. size - 1
  BY <1>3, <1>6, <1>7, <1>8, <1>11
<1> HIDE DEF size, mem, tree
<1> QED
  BY <1>3, <1>4, <1>5, <1>9, <1>10, <1>12 DEF StageType, size

\* What a register holds of a word has its width.
LEMMA CutType ==
  ASSUME NEW word \in Words
  PROVE  Cut(word) \in 0 .. HeldValues - 1
<1>1. word \in Nat /\ HeldValues \in Nat /\ HeldValues > 0
  BY CascadeAssumption, ClassifierAssumption
<1> QED
  BY <1>1 DEF Cut

LEMMA ClassifierStepType ==
  ASSUME NEW t \in Nat \ {0}, NEW st \in StageType(t, Words), NEW cl \in ClassifierType(Words),
         NEW on, NEW clears, NEW clearing, NEW rst,
         NEW n \in ClassifierStep(cl, st, t, on, clears, clearing, rst)
  PROVE  n \in ClassifierType(Words)
<1>1. MaxSize \in Nat /\ 0 \in Words /\ 0 \in 0 .. HeldValues - 1
  BY CascadeAssumption, ClassifierAssumption
<1>2. /\ st.index_leaf \in 0 .. Params - 1 /\ st.memory.data \in Words
      /\ cl.candidate \in BOOLEAN /\ cl.summed \in BOOLEAN
      /\ cl.copied \in [Held -> 0 .. HeldValues - 1]
      /\ cl.index_stage_threshold \in 0 .. MaxSize /\ cl.r_stage_threshold \in Words
  BY DEF StageType, MemoryType, ClassifierType
<1> DEFINE cleared == clears \/ ~on
           sum == (on /\ EndsLeafs(st, rst)) \/ (cl.summed /\ ~cleared)
           copied == [i \in Held |-> IF cleared THEN 0
                                     ELSE IF i = st.index_leaf /\ ~EndTrees(st, t)
                                     THEN Cut(st.memory.data) ELSE cl.copied[i]]
           candidates == IF EndsDatabase(st, t, rst) THEN {FALSE} \cup When(sum, TRUE)
                         ELSE {cl.candidate /\ ~cleared}
           writers == When(cleared, 0)
                      \cup When(EndTrees(st, t) /\ cl.index_stage_threshold = 0, st.memory.data)
<1> DEFINE index == CountThresholds(cl, st, t, clears \/ clearing)
<1>3. /\ n.candidate \in candidates /\ n.summed = sum /\ n.copied = copied
      /\ n.index_stage_threshold = index
      /\ n.r_stage_threshold \in Driven(cl.r_stage_threshold, writers)
      /\ n = [candidate |-> n.candidate, summed |-> n.summed, copied |-> n.copied,
              index_stage_threshold |-> n.index_stage_threshold,
              r_stage_threshold |-> n.r_stage_threshold]
  BY DEF ClassifierStep
<1>4. n.candidate \in BOOLEAN
  BY <1>3 DEF When
<1>5. sum \in BOOLEAN
  BY DEF EndsLeafs
<1>6. copied \in [Held -> 0 .. HeldValues - 1]
  BY <1>1, <1>2, CutType
<1>7. index \in 0 .. MaxSize
  <2>1. MaxSize + 1 \in Nat \ {0} /\ (MaxSize + 1) - 1 = MaxSize
    BY <1>1
  <2> QED
    BY <1>2, <2>1, CounterType DEF CountThresholds
<1>8. n.r_stage_threshold \in Words
  <2>1. writers \in SUBSET Words
    BY <1>1, <1>2 DEF When
  <2> QED
    BY <1>2, <1>3, <2>1, DrivenType
<1> HIDE DEF sum, copied, candidates, writers, index
<1> QED
  BY <1>3, <1>4, <1>5, <1>6, <1>7, <1>8 DEF ClassifierType

----------------------------------------------------------------------------
\* The types, and those of the nets and the reset.
CascadeTypes ==
  /\ CascadeTypeOK
  /\ reset \in BOOLEAN /\ build \in Builds
  /\ pass_first_stage \in BOOLEAN /\ pass_stage_1 \in BOOLEAN

LEMMA BuildType ==
  ASSUME CascadeTypes, NEW s \in Stages
  PROVE  /\ trees(s) \in Nat \ {0}
         /\ build.contents[s] \in [0 .. SizeStage(trees(s)) - 1 -> Words]
         /\ SizeStage(trees(s)) \in Nat /\ SizeStage(trees(s)) >= 2
         /\ stage[s] \in StageType(trees(s), Words)
         /\ classifier[s] \in ClassifierType(Words)
<1>1. trees(s) \in Nat \ {0} /\ build.contents[s] \in [0 .. SizeStage(trees(s)) - 1 -> Words]
  BY CascadeAssumption DEF CascadeTypes, trees
<1> QED
  BY <1>1, SizeType DEF CascadeTypes, CascadeTypeOK, trees

\* The stages and classifiers after a clock.
LEMMA InstancesStep ==
  ASSUME Clock, NEW s \in Stages
  PROVE  /\ Wired(s) => stage'[s] \in StageEdge(stage[s], build.contents[s], trees(s), Loads,
                                                reset_database, reset_database')
         /\ ~Wired(s) => stage'[s] = stage[s]
         /\ classifier'[s] \in ClassifierStep(classifier[s], stage[s], trees(s), pass_stage_1,
                                 reset_classifier, reset_classifier', reset_database)
<1> DEFINE stages == [t \in Stages |->
             IF Wired(t)
             THEN StageEdge(stage[t], build.contents[t], trees(t), Loads,
                            reset_database, reset_database')
             ELSE {stage[t]}]
           classifiers == [t \in Stages |->
             ClassifierStep(classifier[t], stage[t], trees(t), pass_stage_1,
                            reset_classifier, reset_classifier', reset_database)]
<1>1. stage' \in Chosen(stages)
  BY DEF Clock, DatabaseEdge
<1>2. classifier' \in Chosen(classifiers)
  BY DEF Clock, ClassifiersEdge
<1>3. stage'[s] \in stages[s] /\ classifier'[s] \in classifiers[s]
  <2> HIDE DEF stages, classifiers
  <2> QED
    BY <1>1, <1>2, ChosenAt
<1> QED
  BY <1>3

LEMMA CascadeTypesInit == CascadeInit => CascadeTypes
<1> SUFFICES ASSUME CascadeInit PROVE CascadeTypes
  OBVIOUS
<1>1. I2LBSTypeOK
  BY DEF CascadeInit, I2LBSInit, I2LBSTypeOK
<1>2. /\ enable_second_stage \in BOOLEAN /\ reset_classifier \in BOOLEAN
      /\ count_stage \in 0 .. NumStages
      /\ reset \in BOOLEAN /\ build \in Builds
      /\ pass_first_stage \in BOOLEAN /\ pass_stage_1 \in BOOLEAN
  <2>1. 0 \in 0 .. NumStages
    BY CascadeAssumption
  <2> QED
    BY <2>1 DEF CascadeInit
<1>3. ASSUME NEW s \in Stages
      PROVE  stage[s] \in StageType(build.trees[s], Words)
  <2>1. build.trees[s] \in Nat \ {0} /\ Params \in Nat \ {0} /\ 0 \in Words
    BY <1>2, StageAssumption, CascadeAssumption
  <2>2. /\ 0 \in 0 .. build.trees[s] - 1 /\ 0 \in 0 .. Params - 1
        /\ 0 \in 0 .. SizeStage(build.trees[s]) - 1
    BY <2>1, SizeType
  <2>3. stage[s] = StageInit
    BY DEF CascadeInit
  <2>4. PoweredUp \in MemoryType(SizeStage(build.trees[s]), Words)
    BY <2>1, <2>2 DEF PoweredUp, MemoryType
  <2> QED
    BY <2>2, <2>3, <2>4 DEF StageInit, StageType
<1>4. ASSUME NEW s \in Stages PROVE classifier[s] \in ClassifierType(Words)
  <2>1. MaxSize \in Nat /\ 0 \in Words /\ 0 \in 0 .. HeldValues - 1
    BY CascadeAssumption, ClassifierAssumption
  <2>2. classifier[s] = ClassifierInit
    BY DEF CascadeInit
  <2> QED
    BY <2>1, <2>2 DEF ClassifierInit, ClassifierType
<1> QED
  BY <1>1, <1>2, <1>3, <1>4 DEF CascadeTypes, CascadeTypeOK

\* The window controller's registers, driven by the cascade.
LEMMA WindowTypes ==
  ASSUME CascadeTypes, Clock
  PROVE  I2LBSTypeOK'
<1>1. I2LBSTypeOK /\ reset \in BOOLEAN
  BY DEF CascadeTypes, CascadeTypeOK
<1> USE DEF I2LBSTypeOK
<1>2. NextWindow \in {"IDLE", "INSPECT", "REQUEST_RECIEVE"}
  BY <1>1 DEF NextWindow
<1>3. window' \in {"IDLE", "INSPECT", "REQUEST_RECIEVE"}
  BY <1>2 DEF Clock, WindowEdge, When
<1>4. pixel_request' \in BOOLEAN /\ database_request' \in BOOLEAN
  <2>1. Inspecting \in BOOLEAN
    BY DEF Inspecting
  <2>2. /\ pixel_request' \in When(reset, FALSE) \cup {~Inspecting}
        /\ database_request' \in When(reset, FALSE) \cup {Inspecting}
    BY DEF Clock, WindowEdge
  <2> QED
    BY <2>1, <2>2 DEF When
<1>5. enable' \in BOOLEAN /\ candidate' \in BOOLEAN
  BY <1>1 DEF Clock, WindowEdge, When, Driven
<1>6. reach' \in BOOLEAN
  BY <1>1 DEF Clock, ResizeEdge, When
<1>7. enable_memory' \in BOOLEAN
  BY <1>6 DEF Clock, MemoryEnableEdge
<1>8. integral_image_ready' \in BOOLEAN
  BY <1>1 DEF Clock, MemoryEdge, When
<1>9. inspect_done' \in BOOLEAN
  BY <1>1 DEF Clock, CascadeEdge, When, Driven
<1>10. w_candidate' \in BOOLEAN
  <2>1. pass' \in BOOLEAN
    BY DEF pass
  <2> QED
    BY <2>1 DEF Clock, ClassifiersEdge
<1> QED
  BY <1>3, <1>4, <1>5, <1>6, <1>7, <1>8, <1>9, <1>10

LEMMA CascadeTypesStep ==
  ASSUME CascadeTypes, Clock
  PROVE  CascadeTypes'
<1>1. reset' \in BOOLEAN /\ build' = build /\ build \in Builds
      /\ pass_first_stage' \in BOOLEAN /\ pass_stage_1' \in BOOLEAN
  BY DEF Clock, nets, CascadeTypes
<1>2. enable_second_stage' \in BOOLEAN
  BY DEF Clock, DatabaseEdge
<1>3. count_stage' \in 0 .. NumStages
  <2>1. NumStages \in Nat /\ count_stage \in 0 .. NumStages
    BY CascadeAssumption DEF CascadeTypes, CascadeTypeOK
  <2>2. Ended => count_stage + 1 \in 0 .. NumStages
    BY <2>1 DEF Ended, Stages
  <2>3. count_stage' \in Driven(count_stage,
          When(reset \/ reset_classifier, 0)
          \cup When(Ended /\ Accepted /\ ~pass, count_stage + 1))
    BY DEF Clock, CascadeEdge
  <2>4. When(reset \/ reset_classifier, 0) \in SUBSET (0 .. NumStages)
    BY <2>1 DEF When
  <2>5. When(Ended /\ Accepted /\ ~pass, count_stage + 1) \in SUBSET (0 .. NumStages)
    BY <2>2 DEF When
  <2> QED
    BY <2>1, <2>3, <2>4, <2>5 DEF Driven
<1>4. reset_classifier' \in BOOLEAN
  <2>1. reset_classifier \in BOOLEAN
    BY DEF CascadeTypes, CascadeTypeOK
  <2> QED
    BY <2>1 DEF Clock, CascadeEdge, When, Driven
<1>5. ASSUME NEW s \in Stages
      PROVE  stage'[s] \in StageType(build.trees[s], Words)
  <2>1. CASE Wired(s)
    BY <2>1, BuildType, InstancesStep, StageEdgeType DEF trees
  <2>2. CASE ~Wired(s)
    BY <2>2, BuildType, InstancesStep DEF trees
  <2> QED
    BY <2>1, <2>2
<1>6. ASSUME NEW s \in Stages PROVE classifier'[s] \in ClassifierType(Words)
  BY BuildType, InstancesStep, ClassifierStepType
<1> QED
  BY <1>1, <1>2, <1>3, <1>4, <1>5, <1>6, WindowTypes DEF CascadeTypes, CascadeTypeOK

LEMMA CascadeTypesKept == CascadeTypes /\ [Clock]_vars => CascadeTypes'
<1>1. ASSUME CascadeTypes, UNCHANGED vars PROVE CascadeTypes'
  BY <1>1 DEF vars, registers, nets, I2LBSvars, CascadeTypes, CascadeTypeOK, I2LBSTypeOK
<1> QED
  BY <1>1, CascadeTypesStep

\* Every register of the cascade, its classifiers and their database keeps its range:
\* the counters of a stage stay in its memory, and the cascade counts no stage past
\* the last (I2LBS_classifier.v, classifier.v, database_stage.v).
THEOREM CascadeTypeCorrect == Spec => []CascadeTypeOK
<1>1. CascadeTypes => CascadeTypeOK
  BY DEF CascadeTypes
<1> QED
  BY <1>1, CascadeTypesInit, CascadeTypesKept, PTL DEF Spec

----------------------------------------------------------------------------
\* The window controller of the frame, whose cascade may give any verdict at any clock of
\* an inspection: here it gives the one of the stages, which nothing else looks at.
Controller ==
  INSTANCE I2LBS WITH inspect_done <- Verdict, w_candidate <- Verdict /\ w_candidate

ControlsWindow ==
  /\ Controller!I2LBSInit
  /\ [][\E recieve_rises \in BOOLEAN :
          Controller!I2LBSEdge(reset, recieve_rises, FALSE)]_<<Controller!I2LBSvars, reset>>

LEMMA ControllerStep ==
  ASSUME CascadeTypes, CascadeTypes', Clock
  PROVE  \E recieve_rises \in BOOLEAN : Controller!I2LBSEdge(reset, recieve_rises, FALSE)
<1>1. I2LBSTypeOK /\ I2LBSTypeOK'
  BY DEF CascadeTypes, CascadeTypeOK
<1>2. PICK recieve_rises \in BOOLEAN : ResizeEdge(FALSE) /\ MemoryEnableEdge(recieve_rises)
  BY DEF Clock
<1>3. Controller!WindowEdge(reset)
  <2>1. Controller!Inspecting <=> Inspecting
    BY DEF Controller!Inspecting, Inspecting
  <2>2. Controller!Verdict <=> Verdict
    BY <2>1 DEF Controller!Verdict, Verdict
  <2>3. Controller!NextWindow = NextWindow
    BY DEF Controller!NextWindow, NextWindow, Verdict, Inspecting
  <2>4. WindowEdge(reset)
    BY DEF Clock
  <2>5. window' \in When(reset, "IDLE") \cup {Controller!NextWindow}
    BY <2>3, <2>4 DEF WindowEdge
  <2>6. /\ pixel_request' \in When(reset, FALSE) \cup {~Controller!Inspecting}
        /\ database_request' \in When(reset, FALSE) \cup {Controller!Inspecting}
    BY <2>4 DEF WindowEdge, Controller!Inspecting, Inspecting
  <2>7. enable' \in Driven(enable,
          When(reset, FALSE) \cup When(Controller!Inspecting, ~Verdict))
    BY <1>1, <2>4 DEF WindowEdge, Controller!Inspecting, Inspecting, Verdict, When, Driven, I2LBSTypeOK
  <2>8. candidate' \in Driven(candidate,
          When(reset, FALSE)
          \cup When(Controller!Verdict, Verdict /\ w_candidate)
          \cup When(window = "REQUEST_RECIEVE" /\ enable_memory, FALSE))
    BY <1>1, <2>2, <2>4 DEF WindowEdge, When, Driven, I2LBSTypeOK
  <2> QED
    BY <2>5, <2>6, <2>7, <2>8 DEF Controller!WindowEdge, Controller!When, When,
       Controller!Driven, Driven
<1>4. Controller!ClassifierEdge
  BY <1>1 DEF Controller!ClassifierEdge, Controller!When, Verdict, Inspecting, I2LBSTypeOK
<1>5. /\ Controller!ResizeEdge(FALSE) /\ Controller!MemoryEnableEdge(recieve_rises)
      /\ Controller!MemoryEdge(reset)
  BY <1>2 DEF Clock, Controller!ResizeEdge, ResizeEdge, Controller!MemoryEnableEdge, MemoryEnableEdge,
     Controller!MemoryEdge, MemoryEdge, Controller!When, When
<1> QED
  BY <1>3, <1>4, <1>5 DEF Controller!I2LBSEdge

\* The window controller with its later stages is the window controller the frame
\* controller is composed with: what the stages say when no window is inspected, an old
\* end or a second one, goes unseen (I2LBS.v around I2LBS_classifier.v).
THEOREM StagesControlWindow == Spec => ControlsWindow
<1>1. CascadeInit => Controller!I2LBSInit
  BY DEF CascadeInit, I2LBSInit, Controller!I2LBSInit, Verdict, Inspecting
<1>2. CascadeTypes /\ CascadeTypes' /\ [Clock]_vars =>
        [\E recieve_rises \in BOOLEAN :
           Controller!I2LBSEdge(reset, recieve_rises, FALSE)]_<<Controller!I2LBSvars, reset>>
  <2>1. UNCHANGED vars => UNCHANGED <<Controller!I2LBSvars, reset>>
    BY DEF vars, registers, I2LBSvars, Controller!I2LBSvars, Verdict, Inspecting
  <2> QED
    BY <2>1, ControllerStep
<1> QED
  BY <1>1, <1>2, CascadeTypesInit, CascadeTypesKept, PTL DEF Spec, ControlsWindow

----------------------------------------------------------------------------
\* A stage whose bit nothing drives has no instance in database.v: it never ends, and
\* its classifier keeps the verdict it was powered up with.
UnwiredInv ==
  /\ \A s \in Stages : ~Wired(s) => stage[s] = StageInit /\ ~classifier[s].candidate
  /\ w_candidate => pass

LEMMA UnwiredStep ==
  ASSUME CascadeTypes, UnwiredInv, Clock
  PROVE  UnwiredInv'
<1>1. build' = build
  BY DEF Clock, nets
<1>2. ASSUME NEW s \in Stages, ~Wired(s)
      PROVE  stage'[s] = StageInit /\ ~classifier'[s].candidate
  <2>1. stage[s] = StageInit /\ stage'[s] = StageInit /\ ~classifier[s].candidate
    BY <1>2, InstancesStep DEF UnwiredInv
  <2>2. ~EndsDatabase(stage[s], trees(s), reset_database)
    BY <2>1, BuildType DEF EndsDatabase, WordReached, Counter, StageInit
  <2>3. classifier'[s].candidate =
          (classifier[s].candidate /\ ~(reset_classifier \/ ~pass_stage_1))
    BY <2>2, InstancesStep DEF ClassifierStep
  <2> QED
    BY <2>1, <2>3
<1>3. w_candidate' => pass'
  BY DEF Clock, ClassifiersEdge
<1> QED
  BY <1>1, <1>2, <1>3 DEF UnwiredInv, Wired

\* One stage whose bit nothing drives is enough for no window to be a face, whatever
\* the others answer and whatever the net is tied to (face_detection.v, where nothing
\* drives the first three).
THEOREM NoFaceWithoutWire == Spec => []NoFaceUnwired
<1> DEFINE Inv == CascadeTypes /\ UnwiredInv
<1>1. CascadeInit => Inv
  BY CascadeTypesInit DEF CascadeInit, I2LBSInit, UnwiredInv, ClassifierInit
<1>2. Inv /\ [Clock]_vars => Inv'
  <2>1. CASE Clock
    BY <2>1, CascadeTypesStep, UnwiredStep
  <2>2. CASE UNCHANGED vars
    BY <2>2, CascadeTypesKept DEF vars, registers, nets, I2LBSvars, UnwiredInv, Wired, pass
  <2> QED
    BY <2>1, <2>2
<1>3. Inv => NoFaceUnwired
  BY DEF UnwiredInv, NoFaceUnwired, pass
<1> QED
  BY <1>1, <1>2, <1>3, PTL DEF Spec

----------------------------------------------------------------------------
\* The requests of the window controller and the enable of the stages: an inspection
\* asks for the parameters one clock after the last pixel request, so the reset that
\* the request is to the stages is up when they are enabled, and down while they run.
RequestInv ==
  /\ reset => window = "IDLE" /\ ~integral_image_ready
  /\ window = "IDLE" => ~database_request
  /\ ~(database_request /\ pixel_request)
  /\ window = "INSPECT" /\ ~database_request => pixel_request
  /\ enable_second_stage => pass_first_stage
  /\ database_request /\ pass_first_stage => enable_second_stage

LEMMA RequestStep ==
  ASSUME CascadeTypes, RequestInv, Clock
  PROVE  RequestInv'
<1>1. /\ window \in {"IDLE", "INSPECT", "REQUEST_RECIEVE"} /\ reset \in BOOLEAN
      /\ pass_first_stage' = pass_first_stage
  BY DEF CascadeTypes, CascadeTypeOK, I2LBSTypeOK, Clock, nets
<1>2. reset' => window' = "IDLE" /\ ~integral_image_ready'
  BY DEF Clock
<1>3. /\ window' \in When(reset, "IDLE") \cup {NextWindow}
      /\ pixel_request' \in When(reset, FALSE) \cup {~Inspecting}
      /\ database_request' \in When(reset, FALSE) \cup {Inspecting}
  BY DEF Clock, WindowEdge
<1>4. ~(database_request' /\ pixel_request')
  BY <1>3 DEF When
<1>5. window' = "IDLE" => ~database_request'
  BY <1>1, <1>3 DEF RequestInv, When, NextWindow, Inspecting
<1>6. window' = "INSPECT" /\ ~database_request' => pixel_request'
  BY <1>1, <1>3 DEF RequestInv, When, NextWindow, Inspecting
<1>7. enable_second_stage' = (pass_first_stage \/ (enable_second_stage /\ ~reset_database))
  BY DEF Clock, DatabaseEdge
<1> QED
  BY <1>1, <1>2, <1>4, <1>5, <1>6, <1>7 DEF RequestInv

\* The stages are enabled under the reset of the last pixel request, and no reset
\* meets them until the request of the next one withdraws the enable.
LEMMA LoadStep ==
  ASSUME CascadeTypes, RequestInv, Clock
  PROVE  /\ load_second_stage => ~reset_database
         /\ Loads => reset_database
         /\ load_second_stage /\ ~load_second_stage' => reset_database'
<1>1. RequestInv'
  BY RequestStep
<1>2. load_second_stage => ~reset_database
  BY DEF RequestInv, load_second_stage, reset_database
<1>3. /\ pixel_request' \in When(reset, FALSE) \cup {~Inspecting}
      /\ database_request' \in When(reset, FALSE) \cup {Inspecting}
      /\ pass_first_stage' = pass_first_stage
  BY DEF Clock, WindowEdge, nets
<1>4. Loads => reset_database
  <2> SUFFICES ASSUME Loads PROVE reset_database
    OBVIOUS
  <2>1. database_request' /\ enable_second_stage' /\ pass_first_stage
    BY <1>1, <1>3 DEF Loads, load_second_stage, RequestInv
  <2>2. Inspecting /\ ~database_request
    BY <1>3, <2>1 DEF When, Loads, load_second_stage, RequestInv
  <2> QED
    BY <2>2 DEF RequestInv, Inspecting, reset_database
<1>5. ASSUME load_second_stage, ~load_second_stage' PROVE reset_database'
  <2>1. enable_second_stage' /\ ~reset
    BY <1>2, <1>5 DEF Clock, DatabaseEdge, RequestInv, load_second_stage, reset_database
  <2>2. ~database_request'
    BY <1>5, <2>1 DEF load_second_stage
  <2>3. pixel_request'
    BY <1>3, <2>1, <2>2 DEF When
  <2> QED
    BY <2>3 DEF reset_database
<1> QED
  BY <1>2, <1>4, <1>5

Next(s, a) == NextAddress(a, SizeStage(trees(s)))

\* Where a stage that was at rest when it was enabled may be while it reads: the first
\* word is on its way, is read, or is out and the counter two words behind the address.
Waits(s) ==
  /\ ~stage[s].count_leaf /\ stage[s].index_database = 0
  /\ stage[s].memory.data # build.contents[s][0]
  /\ \/ stage[s].memory.address = 0 /\ stage[s].memory.word = stage[s].memory.data
     \/ stage[s].memory.address = Next(s, 0) /\ stage[s].memory.word = build.contents[s][0]

Runs(s) ==
  /\ stage[s].count_leaf
  /\ stage[s].memory.data = build.contents[s][stage[s].index_database]
  /\ stage[s].memory.word = build.contents[s][Next(s, stage[s].index_database)]
  /\ stage[s].memory.address = Next(s, Next(s, stage[s].index_database))

Stops(s) == ~stage[s].count_leaf /\ EndDatabase(stage[s], trees(s))

AlignedInv(s) ==
  /\ stage[s].renable => load_second_stage
  /\ fresh[s] => load_second_stage
  /\ Plain(s) /\ fresh[s] /\ stage[s].renable => Waits(s) \/ Runs(s) \/ Stops(s)

\* What an edge does to the registers that tell where a stage is.
LEMMA StageFields ==
  ASSUME NEW t, NEW st, NEW contents, NEW loads, NEW rst, NEW resetting,
         NEW n \in StageEdge(st, contents, t, loads, rst, resetting)
  PROVE  /\ ~loads /\ n.renable => st.renable /\ ~EndDatabase(st, t) /\ ~(resetting /\ ~rst)
         /\ n.index_database = IF rst \/ resetting THEN 0 ELSE WordReached(st, t, rst)
         /\ n.memory = Read(st.memory, contents, SizeStage(t), st.renable, rst \/ resetting)
         /\ ~(resetting /\ ~rst) /\ n.memory.data = st.memory.data =>
              n.count_leaf = st.count_leaf
         /\ ~(resetting /\ ~rst) /\ n.memory.data # st.memory.data =>
              \E e \in {EndDatabase(st, t), WordReached(st, t, rst) = SizeStage(t) - 1} :
                n.count_leaf = (n.memory.data # DefaultValue /\ ~e)
<1> DEFINE mem == Read(st.memory, contents, SizeStage(t), st.renable, rst \/ resetting)
           end == {EndDatabase(st, t), WordReached(st, t, rst) = SizeStage(t) - 1}
           counts == {mem.data # DefaultValue /\ ~e : e \in end}
           rising == When(resetting /\ ~rst, FALSE)
<1>1. /\ n.renable \in Driven(st.renable /\ ~EndDatabase(st, t), When(loads, TRUE) \cup rising)
      /\ n.index_database = IF rst \/ resetting THEN 0 ELSE WordReached(st, t, rst)
      /\ n.memory = mem
      /\ n.count_leaf \in Driven(st.count_leaf,
                           rising \cup IF mem.data # st.memory.data THEN counts ELSE {})
  BY DEF StageEdge
<1>2. ~(resetting /\ ~rst) => rising = {}
  BY DEF When
<1>3. counts # {} /\ \A c \in counts :
        \E e \in end : c = (mem.data # DefaultValue /\ ~e)
  OBVIOUS
<1>4. ~loads /\ n.renable => st.renable /\ ~EndDatabase(st, t) /\ ~(resetting /\ ~rst)
  BY <1>1 DEF Driven, When
<1>5. ASSUME ~(resetting /\ ~rst), mem.data = st.memory.data
      PROVE  n.count_leaf = st.count_leaf
  <2> HIDE DEF mem, counts, rising
  <2> QED
    BY <1>1, <1>2, <1>5 DEF Driven
<1>6. ASSUME ~(resetting /\ ~rst), mem.data # st.memory.data
      PROVE  \E e \in end : n.count_leaf = (mem.data # DefaultValue /\ ~e)
  <2>1. n.count_leaf \in counts
    <3> HIDE DEF mem, counts, rising
    <3> QED
      BY <1>1, <1>2, <1>3, <1>6 DEF Driven
  <2> QED
    BY <1>3, <2>1
<1> QED
  BY <1>1, <1>4, <1>5, <1>6

LEMMA AlignedStep ==
  ASSUME CascadeTypes, RequestInv, NEW s \in Stages, Wired(s), AlignedInv(s), Clock
  PROVE  AlignedInv(s)'
<1> DEFINE st == stage[s]
           n == stage'[s]
           t == trees(s)
           size == SizeStage(t)
           contents == build.contents[s]
<1>1. /\ n \in StageEdge(st, contents, t, Loads, reset_database, reset_database')
      /\ fresh'[s] = IF Loads THEN AtRest(s) ELSE fresh[s] /\ load_second_stage'
      /\ build' = build
  BY InstancesStep DEF Clock, Observe, nets
<1>2. /\ size \in Nat /\ size >= 2 /\ contents \in [0 .. size - 1 -> Words]
      /\ st.index_database \in 0 .. size - 1 /\ st.memory.address \in 0 .. size - 1
      /\ st.renable \in BOOLEAN /\ st.count_leaf \in BOOLEAN
  BY BuildType DEF StageType, MemoryType
<1>3. /\ ~Loads /\ n.renable => /\ st.renable /\ ~EndDatabase(st, t)
                                /\ ~(reset_database' /\ ~reset_database)
      /\ n.index_database =
           IF reset_database \/ reset_database' THEN 0 ELSE WordReached(st, t, reset_database)
      /\ n.memory = Read(st.memory, contents, size, st.renable, reset_database \/ reset_database')
      /\ ~(reset_database' /\ ~reset_database) /\ n.memory.data = st.memory.data =>
           n.count_leaf = st.count_leaf
      /\ ~(reset_database' /\ ~reset_database) /\ n.memory.data # st.memory.data =>
           \E e \in {EndDatabase(st, t), WordReached(st, t, reset_database) = size - 1} :
             n.count_leaf = (n.memory.data # DefaultValue /\ ~e)
  <2> HIDE DEF st, n, t, contents
  <2> QED
    BY <1>1, StageFields
<1>4. n.memory.data = st.memory.word
  BY <1>3 DEF Read
<1> HIDE DEF n
<1>5. n.renable => load_second_stage'
  <2> SUFFICES ASSUME n.renable, ~load_second_stage' PROVE FALSE
    OBVIOUS
  <2>1. ~Loads
    BY DEF Loads
  <2>2. CASE load_second_stage
    BY <1>3, <2>1, <2>2, LoadStep
  <2>3. CASE ~load_second_stage
    BY <1>3, <2>1, <2>3 DEF AlignedInv
  <2> QED
    BY <2>2, <2>3
<1>6. fresh'[s] => load_second_stage'
  BY <1>1 DEF Loads
<1>7. ASSUME Plain(s), fresh'[s], n.renable
      PROVE  (Waits(s) \/ Runs(s) \/ Stops(s))'
  <2>1. Plain(s)' /\ contents' = contents /\ t' = t
    <3>1. build' = build
      BY <1>1
    <3> QED
      BY <1>7, <3>1 DEF Plain, trees
  <2>2. CASE Loads
    <3>1. reset_database /\ ~st.renable /\ AtRest(s)
      BY <1>1, <1>7, <2>2, LoadStep DEF AlignedInv, Loads
    <3>2. /\ ~st.count_leaf /\ st.memory.word = st.memory.data
          /\ contents[0] # st.memory.data
      BY <3>1 DEF AtRest
    <3>3. n.memory.address = 0 /\ n.memory.word = st.memory.word /\ n.index_database = 0
      BY <1>3, <3>1 DEF Read, Counter
    <3>4. ~n.count_leaf
      BY <1>3, <1>4, <3>1, <3>2
    <3> QED
      BY <1>1, <1>4, <3>2, <3>3, <3>4 DEF Waits, n
  <2>3. CASE ~Loads
    <3>1. fresh[s] /\ load_second_stage /\ ~reset_database
      BY <1>1, <1>7, <2>3, LoadStep DEF Loads
    <3>2. ~reset_database'
      <4>1. load_second_stage' /\ RequestInv'
        BY <1>6, <1>7, RequestStep
      <4> QED
        BY <4>1 DEF RequestInv, load_second_stage, reset_database
    <3>3. st.renable /\ ~EndDatabase(st, t)
      BY <1>3, <1>7, <2>3
    <3>4. /\ n.memory.word = contents[st.memory.address]
          /\ n.memory.address = NextAddress(st.memory.address, size)
          /\ n.index_database =
               IF st.count_leaf THEN NextAddress(st.index_database, size) ELSE st.index_database
      BY <1>3, <3>1, <3>2, <3>3 DEF Read, Counter, WordReached
    <3>5. WordReached(st, t, reset_database) = n.index_database
      BY <1>3, <3>1, <3>2
    <3>6. \A a \in 0 .. size - 1 : NextAddress(a, size) \in 0 .. size - 1
      BY <1>2 DEF NextAddress
    <3>7. \A i \in 0 .. size - 1 : contents[i] # DefaultValue
      BY <1>2, <1>7 DEF Plain
    <3>8. \A a : Next(s, a)' = NextAddress(a, size) /\ Next(s, a) = NextAddress(a, size)
      BY <2>1 DEF Next
    <3>9. EndDatabase(n, t) <=> n.index_database = size - 1
      BY DEF EndDatabase
    <3>10. Waits(s) \/ Runs(s)
      BY <1>7, <3>1, <3>3 DEF AlignedInv, Stops
    <3>11. CASE Waits(s)
      <4>1. /\ ~st.count_leaf /\ st.index_database = 0 /\ n.index_database = 0
            /\ st.memory.data # contents[0]
        BY <3>4, <3>11 DEF Waits
      <4>2. CASE st.memory.address = 0 /\ st.memory.word = st.memory.data
        <5>1. ~n.count_leaf /\ n.memory.word = contents[0]
              /\ n.memory.address = NextAddress(0, size) /\ n.memory.data = st.memory.data
          BY <1>3, <1>4, <3>2, <3>4, <4>1, <4>2
        <5> QED
          BY <1>1, <3>8, <4>1, <5>1 DEF Waits, n
      <4>3. CASE st.memory.address = NextAddress(0, size) /\ st.memory.word = contents[0]
        <5>1. n.memory.data = contents[0] /\ n.memory.data # st.memory.data
          BY <1>4, <4>1, <4>3
        <5>2. contents[0] # DefaultValue /\ 0 # size - 1
          BY <1>2, <3>7
        <5>3. n.count_leaf
          BY <1>3, <3>2, <3>3, <3>5, <4>1, <5>1, <5>2
        <5> QED
          BY <1>1, <3>4, <3>8, <4>1, <4>3, <5>1, <5>3 DEF Runs, n
      <4> QED
        BY <3>8, <3>11, <4>2, <4>3 DEF Waits
    <3>12. CASE Runs(s)
      <4> DEFINE i == NextAddress(st.index_database, size)
      <4>1. /\ st.count_leaf /\ n.index_database = i /\ i \in 0 .. size - 1
            /\ n.memory.data = contents[i]
            /\ n.memory.word = contents[NextAddress(i, size)]
            /\ n.memory.address = NextAddress(NextAddress(i, size), size)
        BY <1>2, <1>4, <3>4, <3>6, <3>8, <3>12 DEF Runs
      <4>2. n.memory.data # DefaultValue
        BY <3>7, <4>1
      <4>3. n.count_leaf \/ (~n.count_leaf /\ n.index_database = size - 1)
        BY <1>3, <3>2, <3>3, <3>5, <4>1, <4>2
      <4>4. CASE n.count_leaf
        BY <1>1, <3>8, <4>1, <4>4 DEF Runs, n
      <4>5. CASE ~n.count_leaf /\ n.index_database = size - 1
        BY <2>1, <3>9, <4>5 DEF Stops, n, EndDatabase
      <4> QED
        BY <4>3, <4>4, <4>5
    <3> QED
      BY <3>10, <3>11, <3>12
  <2> QED
    BY <2>2, <2>3
<1>8. Plain(s)' <=> Plain(s)
  BY <1>1 DEF Plain
<1> QED
  BY <1>5, <1>6, <1>7, <1>8 DEF AlignedInv, n

\* All that is known of the stages and of the window controller that starts them.
StreamInv ==
  /\ CascadeTypes
  /\ UnwiredInv
  /\ RequestInv
  /\ \A s \in Stages : AlignedInv(s)

LEMMA StreamInvHolds == Spec => []StreamInv
<1>1. CascadeInit => StreamInv
  BY CascadeTypesInit DEF StreamInv, CascadeInit, I2LBSInit, UnwiredInv, ClassifierInit,
     RequestInv, AlignedInv, StageInit
<1>2. StreamInv /\ [Clock]_vars => StreamInv'
  <2>1. ASSUME StreamInv, Clock PROVE StreamInv'
    <3> SUFFICES ASSUME NEW s \in Stages PROVE AlignedInv(s)'
      BY <2>1, CascadeTypesStep, UnwiredStep, RequestStep DEF StreamInv
    <3>1. CASE Wired(s)
      BY <2>1, <3>1, AlignedStep DEF StreamInv
    <3>2. CASE ~Wired(s)
      <4>1. ~stage'[s].renable
        BY <2>1, <3>2, InstancesStep DEF StreamInv, UnwiredInv, StageInit
      <4>2. fresh'[s] => load_second_stage'
        BY <2>1 DEF Clock, Observe, Loads
      <4> QED
        BY <4>1, <4>2 DEF AlignedInv
    <3> QED
      BY <3>1, <3>2
  <2>2. ASSUME StreamInv, UNCHANGED vars PROVE StreamInv'
    BY <2>2, CascadeTypesKept DEF StreamInv, vars, registers, nets, I2LBSvars, UnwiredInv,
       Wired, pass, RequestInv, AlignedInv, Plain, Waits, Runs, Stops, Next, trees,
       load_second_stage
  <2> QED
    BY <2>1, <2>2
<1> QED
  BY <1>1, <1>2, PTL DEF Spec

\* What the parameters are: a stage that was at rest when it was enabled gives, with
\* each word, the word's own place, for any sizes and any memories with no word
\* DEFAULT_VALUE, equal neighbours included, whatever interrupted the windows before.
THEOREM StreamStaysAligned == Spec => []StreamAligned
<1>1. StreamInv => StreamAligned
  <2> SUFFICES ASSUME StreamInv, NEW s \in Stages,
                      Plain(s), fresh[s], stage[s].renable, stage[s].count_leaf
               PROVE  stage[s].memory.data = build.contents[s][stage[s].index_database]
    BY DEF StreamAligned
  <2> QED
    BY DEF StreamInv, AlignedInv, Waits, Runs, Stops
<1> QED
  BY <1>1, StreamInvHolds, PTL

----------------------------------------------------------------------------
\* A pixel request is a reset of the stages, which puts their counters at their first
\* word, so that none is at its end while the request stands.
ClearedInv == \A s \in Stages : Wired(s) /\ reset_database => stage[s].index_database = 0

LEMMA ClearedStep ==
  ASSUME Clock
  PROVE  ClearedInv'
<1> SUFFICES ASSUME NEW s \in Stages, Wired(s)', reset_database'
             PROVE  stage'[s].index_database = 0
  BY DEF ClearedInv
<1>1. Wired(s)
  BY DEF Clock, nets, Wired
<1>2. stage'[s] \in StageEdge(stage[s], build.contents[s], trees(s), Loads,
                              reset_database, reset_database')
  BY <1>1, InstancesStep
<1> QED
  BY <1>2 DEF StageEdge

\* A verdict is given in the clock that concludes, and in no other.
LEMMA VerdictStep ==
  ASSUME Clock, inspect_done'
  PROVE  Concluded
BY DEF Clock, CascadeEdge, Driven, When

\* A verdict that outlasts its inspection is gone when the pixel it was asked for can
\* be taken: nothing of it is left for the window that this pixel completes, whatever
\* the sizes of the stages and whatever state the windows before left them in.
THEOREM NoVerdictIsLeft == Spec => NoVerdictLeft
<1>1. CascadeInit => ClearedInv
  BY DEF CascadeInit, StageInit, ClearedInv
<1>2. ClearedInv /\ [Clock]_vars => ClearedInv'
  <2>1. ASSUME ClearedInv, UNCHANGED vars PROVE ClearedInv'
    BY <2>1 DEF vars, registers, nets, I2LBSvars, ClearedInv, Wired, reset_database
  <2> QED
    BY <2>1, ClearedStep
<1>3. StreamInv /\ ClearedInv /\ [Clock]_vars =>
        [(\A s \in Stages : Wired(s)) /\ window = "REQUEST_RECIEVE" /\ pixel_request
         => ~inspect_done']_vars
  <2> SUFFICES ASSUME StreamInv, ClearedInv, Clock, \A s \in Stages : Wired(s),
                      pixel_request, inspect_done'
               PROVE  FALSE
    OBVIOUS
  <2>1. count_stage \in Stages /\ end_database(count_stage)
    BY VerdictStep DEF Concluded, Ended
  <2>2. EndDatabase(stage[count_stage], trees(count_stage))
    BY <2>1 DEF end_database, Wired
  <2>3. stage[count_stage].index_database = 0
    BY <2>1 DEF ClearedInv, reset_database
  <2> QED
    BY <2>1, <2>2, <2>3, BuildType DEF EndDatabase, StreamInv
<1> QED
  BY <1>1, <1>2, <1>3, StreamInvHolds, PTL DEF Spec, NoVerdictLeft

----------------------------------------------------------------------------
\* A window that is clean was enabled with every stage wired and at rest, and stays so
\* until the enable is withdrawn; the classifiers run until its verdict.
CleanInv ==
  /\ clean => load_second_stage /\ \A s \in Stages : Wired(s) /\ fresh[s]
  /\ clean /\ ~Inspecting => ~enable

\* What a clock finds and leaves when the window is clean after it: the clock enables
\* the stages, or no reset meets them.
LEMMA CleanClock ==
  ASSUME StreamInv, CleanInv, Clock, clean'
  PROVE  /\ Inspecting /\ ~reset /\ ~reset_database'
         /\ Loads => /\ reset_database /\ count_stage' = 0
                     /\ ~reset_classifier' /\ ~inspect_done'
                     /\ \A s \in Stages : AtRest(s) /\ Wired(s) /\ ~classifier'[s].candidate
         /\ ~Loads => clean /\ load_second_stage /\ ~reset_database
         /\ Inspecting' => ~Verdict
<1>1. load_second_stage' /\ RequestInv'
  BY RequestStep DEF StreamInv, CleanInv, Clock, Observe, Loads
<1>2. ~reset_database'
  BY <1>1 DEF RequestInv, load_second_stage, reset_database
<1>3. /\ window' \in When(reset, "IDLE") \cup {NextWindow}
      /\ database_request' \in When(reset, FALSE) \cup {Inspecting}
      /\ database_request'
  BY <1>1 DEF Clock, WindowEdge, load_second_stage
<1>4. Inspecting
  BY <1>3 DEF When
<1>5. ~reset
  BY <1>4 DEF StreamInv, RequestInv, Inspecting
<1>6. Inspecting' => ~Verdict
  BY <1>3, <1>5 DEF When, NextWindow, Inspecting, Verdict
<1>7. ~Loads => clean /\ load_second_stage
  BY DEF Clock, Observe, CleanInv
<1>8. /\ load_second_stage => ~reset_database
      /\ Loads => reset_database
  BY LoadStep DEF StreamInv
<1>9. Loads => /\ count_stage' = 0 /\ ~reset_classifier' /\ ~inspect_done'
               /\ \A s \in Stages : AtRest(s) /\ Wired(s) /\ ~classifier'[s].candidate
  BY DEF Clock, Observe
<1> QED
  BY <1>2, <1>4, <1>5, <1>6, <1>7, <1>8, <1>9

LEMMA CleanStep ==
  ASSUME StreamInv, CleanInv, Clock
  PROVE  CleanInv'
<1> SUFFICES ASSUME clean' PROVE CleanInv'
  BY DEF CleanInv
<1>1. load_second_stage'
  BY DEF CleanInv, Clock, Observe, Loads
<1>2. ASSUME NEW s \in Stages PROVE Wired(s)' /\ fresh'[s]
  <2>1. fresh'[s] = IF Loads THEN AtRest(s) ELSE fresh[s] /\ load_second_stage'
    BY DEF Clock, Observe
  <2>2. Wired(s)' <=> Wired(s)
    BY DEF Clock, nets, Wired
  <2> QED
    BY <1>1, <2>1, <2>2, CleanClock DEF CleanInv
<1>3. ~Inspecting' => ~enable'
  <2> SUFFICES ASSUME ~Inspecting' PROVE ~enable'
    OBVIOUS
  <2>1. Inspecting /\ ~reset
    BY CleanClock
  <2>2. /\ window' \in When(reset, "IDLE") \cup {NextWindow}
        /\ enable' \in Driven(enable, When(reset, FALSE) \cup When(Inspecting, ~inspect_done))
    BY DEF Clock, WindowEdge
  <2>3. inspect_done
    BY <2>1, <2>2 DEF When, NextWindow, Inspecting
  <2> QED
    BY <2>1, <2>2, <2>3 DEF When, Driven
<1> QED
  BY <1>1, <1>2, <1>3 DEF CleanInv

\* The window is inspected and has no verdict yet.
Asking == clean /\ Inspecting /\ ~inspect_done

\* What a classifier's flag stands for while the window has no verdict: a flag that is
\* up was put up in this window, and one whose stage is at its end was set by it.
Heard(s) ==
  /\ classifier[s].candidate => pass_stage_1 /\ TRUE \in decided[s]
  /\ EndDatabase(stage[s], trees(s)) => classifier[s].candidate \in decided[s]

FoundedInv ==
  /\ Asking => ~reset_classifier /\ \A s \in Stages : Heard(s)
  /\ VerdictFounded

\* A clock at which neither the stage nor its classifier is reset.
LEMMA HeardStep ==
  ASSUME StreamInv, Clock, NEW s \in Stages, Wired(s), Heard(s), ~Loads,
         ~reset_classifier, ~reset_database, ~reset_database'
  PROVE  /\ Heard(s)'
         /\ ~Decides(s) => /\ classifier'[s].candidate = classifier[s].candidate
                           /\ decided'[s] = decided[s]
         /\ Decides(s) => decided'[s] = decided[s] \cup {classifier'[s].candidate}
<1>1. /\ stage'[s] \in StageEdge(stage[s], build.contents[s], trees(s), Loads,
                                 reset_database, reset_database')
      /\ classifier'[s] \in ClassifierStep(classifier[s], stage[s], trees(s), pass_stage_1,
                              reset_classifier, reset_classifier', reset_database)
  BY InstancesStep
<1>2. /\ pass_stage_1' = pass_stage_1 /\ trees(s)' = trees(s)
      /\ pass_stage_1 \in BOOLEAN /\ classifier[s].candidate \in BOOLEAN
  <2>1. pass_stage_1' = pass_stage_1 /\ build' = build
    BY DEF Clock, nets
  <2> QED
    BY <2>1, BuildType DEF trees, StreamInv, CascadeTypes, ClassifierType
<1>3. decided'[s] = decided[s] \cup When(Decides(s), classifier'[s].candidate)
  BY DEF Clock, Observe
<1>4. stage'[s].index_database = WordReached(stage[s], trees(s), reset_database)
  BY <1>1 DEF StageEdge
<1>5. EndDatabase(stage'[s], trees(s)) => EndDatabase(stage[s], trees(s)) \/ Decides(s)
  BY <1>4 DEF EndDatabase, Decides, EndsDatabase
<1> DEFINE sum == (pass_stage_1 /\ EndsLeafs(stage[s], reset_database))
                  \/ (classifier[s].summed /\ ~(reset_classifier \/ ~pass_stage_1))
<1>6. classifier'[s].candidate \in
        (IF Decides(s) THEN {FALSE} \cup When(sum, TRUE)
         ELSE {classifier[s].candidate /\ ~(reset_classifier \/ ~pass_stage_1)})
  BY <1>1 DEF ClassifierStep, Decides
<1>7. sum => pass_stage_1
  OBVIOUS
<1> HIDE DEF sum
<1>8. CASE Decides(s)
  <2>1. decided'[s] = decided[s] \cup {classifier'[s].candidate}
    BY <1>3, <1>8 DEF When
  <2>2. classifier'[s].candidate => pass_stage_1
    BY <1>6, <1>7, <1>8 DEF When
  <2>3. classifier'[s].candidate \in BOOLEAN
    BY <1>6, <1>8 DEF When
  <2>4. Heard(s)'
    BY <1>2, <2>1, <2>2, <2>3 DEF Heard
  <2> QED
    BY <1>8, <2>1, <2>4
<1>9. CASE ~Decides(s)
  <2>1. decided'[s] = decided[s]
    BY <1>3, <1>9 DEF When
  <2>2. classifier'[s].candidate = classifier[s].candidate
    BY <1>2, <1>6, <1>9 DEF Heard
  <2>3. Heard(s)'
    BY <1>2, <1>5, <1>9, <2>1, <2>2 DEF Heard
  <2> QED
    BY <1>9, <2>1, <2>2, <2>3
<1> QED
  BY <1>8, <1>9

LEMMA FoundedStep ==
  ASSUME StreamInv, CleanInv, FoundedInv, Clock
  PROVE  FoundedInv'
<1> SUFFICES ASSUME clean', Inspecting'
             PROVE  /\ ~inspect_done' => ~reset_classifier' /\ \A s \in Stages : Heard(s)'
                    /\ inspect_done' => VerdictFounded'
  BY DEF FoundedInv, Asking, VerdictFounded, Verdict
<1>1. CASE Loads
  <2>1. ~inspect_done' /\ ~reset_classifier' /\ reset_database
    BY <1>1, CleanClock
  <2>2. ASSUME NEW s \in Stages PROVE Heard(s)'
    <3>1. Wired(s) /\ ~classifier'[s].candidate
      BY <1>1, CleanClock
    <3>2. stage'[s].index_database = 0 /\ build' = build
      BY <2>1, <3>1, InstancesStep DEF StageEdge, Clock, nets
    <3>3. ~EndDatabase(stage'[s], trees(s))
      BY <3>2, BuildType DEF EndDatabase, StreamInv
    <3> QED
      BY <3>1, <3>2, <3>3 DEF Heard, trees
  <2> QED
    BY <2>1, <2>2
<1>2. CASE ~Loads
  <2>1. /\ Asking /\ ~reset /\ ~reset_database /\ ~reset_database'
        /\ \A s \in Stages : Wired(s)
    BY <1>2, CleanClock DEF Asking, Verdict, CleanInv
  <2>2. ~reset_classifier /\ \A s \in Stages : Heard(s)
    BY <2>1 DEF FoundedInv
  <2>3. ASSUME NEW s \in Stages
        PROVE  /\ Heard(s)'
               /\ ~Decides(s) => /\ classifier'[s].candidate = classifier[s].candidate
                                 /\ decided'[s] = decided[s]
               /\ Decides(s) => decided'[s] = decided[s] \cup {classifier'[s].candidate}
    BY <1>2, <2>1, <2>2, HeardStep
  <2>4. ASSUME ~inspect_done' PROVE ~reset_classifier'
    <3>1. ~Concluded
      BY <2>1, <2>2, <2>4 DEF Clock, CascadeEdge, Driven, When, Asking
    <3> QED
      BY <2>1, <2>2, <3>1 DEF Clock, CascadeEdge, Driven, When
  <2>5. ASSUME inspect_done' PROVE VerdictFounded'
    <3>1. Concluded /\ w_candidate' = pass'
      BY <2>5, VerdictStep DEF Clock, ClassifiersEdge
    <3>2. count_stage \in Stages /\ EndDatabase(stage[count_stage], trees(count_stage))
      BY <2>1, <3>1 DEF Concluded, Ended, end_database, Wired
    <3>3. ASSUME pass' PROVE \A s \in Stages : TRUE \in decided'[s]
      BY <2>3, <3>3 DEF pass, Heard
    <3>4. ASSUME ~pass' PROVE \E s \in Stages : FALSE \in decided'[s]
      <4>1. CASE ~Accepted
        <5>1. classifier[count_stage].candidate = FALSE
          BY <3>2, <4>1, BuildType DEF Accepted, StreamInv, ClassifierType
        <5>2. FALSE \in decided[count_stage]
          BY <2>2, <3>2, <5>1 DEF Heard
        <5>3. FALSE \in decided'[count_stage]
          BY <2>3, <3>2, <5>2
        <5> QED
          BY <3>2, <5>3
      <4>2. CASE pass
        <5>1. PICK s \in Stages : ~classifier'[s].candidate
          BY <3>4 DEF pass
        <5>2. classifier[s].candidate
          BY <4>2 DEF pass
        <5>3. Decides(s)
          BY <2>3, <5>1, <5>2
        <5>4. classifier'[s].candidate = FALSE
          <6>1. CascadeTypes'
            BY CascadeTypesStep DEF StreamInv
          <6>2. classifier'[s] \in ClassifierType(Words)
            BY <6>1 DEF CascadeTypes, CascadeTypeOK
          <6> QED
            BY <5>1, <6>2 DEF ClassifierType
        <5> QED
          BY <2>3, <5>3, <5>4
      <4> QED
        BY <3>1, <4>1, <4>2 DEF Concluded
    <3> QED
      BY <3>1, <3>3, <3>4 DEF VerdictFounded
  <2> QED
    BY <2>2, <2>3, <2>4, <2>5
<1> QED
  BY <1>1, <1>2

LEMMA FoundedInvHolds == Spec => [](CleanInv /\ FoundedInv)
<1>1. CascadeInit => CleanInv /\ FoundedInv
  BY DEF CascadeInit, I2LBSInit, CleanInv, FoundedInv, Asking, VerdictFounded
<1>2. StreamInv /\ CleanInv /\ FoundedInv /\ [Clock]_vars => (CleanInv /\ FoundedInv)'
  <2>1. ASSUME CleanInv, FoundedInv, UNCHANGED vars PROVE (CleanInv /\ FoundedInv)'
    BY <2>1 DEF vars, registers, nets, I2LBSvars, CleanInv, FoundedInv, Asking, Heard,
       VerdictFounded, Verdict, Inspecting, Wired, trees, load_second_stage
  <2> QED
    BY <2>1, CleanStep, FoundedStep
<1> QED
  BY <1>1, <1>2, StreamInvHolds, PTL DEF Spec

\* What a verdict stands on, for any number of stages of any sizes: in a window that the
\* stages and the cascade start at rest, a face has been accepted by every stage, and a
\* window that is no face has been rejected by one of them, in this window.
THEOREM VerdictIsFounded == Spec => []VerdictFounded
<1>1. FoundedInv => VerdictFounded
  BY DEF FoundedInv
<1> QED
  BY <1>1, FoundedInvHolds, PTL

----------------------------------------------------------------------------
\* How a stage that is in step with its memory reads on: it waits for its first word,
\* then goes from word to word.
First(s) == Waits(s) /\ stage[s].memory.address = 0
Second(s) == Waits(s) /\ stage[s].memory.address # 0

LEMMA ReadsOn ==
  ASSUME StreamInv, Clock, NEW s \in Stages, Wired(s), Plain(s), fresh[s], fresh'[s],
         stage[s].renable, ~EndDatabase(stage[s], trees(s)),
         ~Loads, ~reset_database, ~reset_database'
  PROVE  /\ stage'[s].renable
         /\ First(s) \/ Second(s) \/ Runs(s)
         /\ First(s) => Second(s)'
         /\ Second(s) => Runs(s)'
         /\ Waits(s) => stage[s].index_database = 0 /\ stage'[s].index_database = 0
         /\ Runs(s) => stage'[s].index_database = stage[s].index_database + 1
         /\ stage'[s].index_database = WordReached(stage[s], trees(s), reset_database)
<1> DEFINE st == stage[s]
           n == stage'[s]
           t == trees(s)
           size == SizeStage(t)
           contents == build.contents[s]
<1>1. n \in StageEdge(st, contents, t, Loads, reset_database, reset_database')
  BY InstancesStep
<1>2. /\ t' = t /\ contents' = contents /\ Plain(s)'
      /\ \A a : Next(s, a)' = NextAddress(a, size) /\ Next(s, a) = NextAddress(a, size)
  <2>1. build' = build
    BY DEF Clock, nets
  <2> QED
    BY <2>1 DEF trees, Plain, Next
<1>3. /\ size \in Nat /\ size >= 2
      /\ st.index_database \in 0 .. size - 1 /\ st.memory.address \in 0 .. size - 1
      /\ st.renable \in BOOLEAN
  BY BuildType DEF StageType, MemoryType, StreamInv
<1>4. /\ n.renable \in Driven(st.renable /\ ~EndDatabase(st, t),
                              When(Loads, TRUE) \cup When(reset_database' /\ ~reset_database, FALSE))
      /\ n.index_database = WordReached(st, t, reset_database)
      /\ n.memory = Read(st.memory, contents, size, st.renable, FALSE)
  BY <1>1 DEF StageEdge
<1>5. n.renable
  BY <1>4 DEF Driven, When
<1>6. /\ n.memory.data = st.memory.word
      /\ n.memory.address = NextAddress(st.memory.address, size)
  BY <1>4 DEF Read, Counter
<1>7. n.index_database = IF st.count_leaf THEN NextAddress(st.index_database, size)
                         ELSE st.index_database
  BY <1>4 DEF WordReached, Counter
<1>8. Waits(s) \/ Runs(s)
  BY DEF StreamInv, AlignedInv, Stops
<1>9. Waits(s)' \/ Runs(s)' \/ Stops(s)'
  <2>1. AlignedInv(s)'
    BY AlignedStep DEF StreamInv
  <2> QED
    BY <1>2, <1>5, <2>1 DEF AlignedInv
<1>10. NextAddress(0, size) # 0
  BY <1>3 DEF NextAddress
<1>11. ASSUME Waits(s) PROVE /\ st.index_database = 0 /\ n.index_database = 0 /\ ~Stops(s)'
  <2>1. st.index_database = 0 /\ n.index_database = 0
    BY <1>7, <1>11 DEF Waits
  <2>2. ~EndDatabase(n, t)
    BY <1>3, <2>1 DEF EndDatabase
  <2> QED
    BY <1>2, <2>1, <2>2 DEF Stops
<1>12. ASSUME First(s) PROVE Second(s)'
  <2>1. Waits(s) /\ st.memory.address = 0 /\ st.memory.word = st.memory.data
    BY <1>2, <1>10, <1>12 DEF First, Waits
  <2>2. n.memory.data # contents[0] /\ n.memory.address # 0
    BY <1>6, <1>10, <2>1 DEF Waits
  <2>3. ~Runs(s)'
    BY <1>2, <1>11, <2>1, <2>2 DEF Runs
  <2> QED
    BY <1>9, <1>11, <2>1, <2>2, <2>3 DEF Second
<1>13. ASSUME Second(s) PROVE Runs(s)'
  <2>1. Waits(s) /\ st.memory.word = contents[0]
    BY <1>13 DEF Second, Waits
  <2>2. ~Waits(s)'
    BY <1>2, <1>6, <2>1 DEF Waits
  <2> QED
    BY <1>9, <1>11, <2>1, <2>2
<1>14. ASSUME Runs(s) PROVE n.index_database = st.index_database + 1
  BY <1>3, <1>7, <1>14 DEF Runs, NextAddress, EndDatabase
<1>15. First(s) \/ Second(s) \/ Runs(s)
  BY <1>8 DEF First, Second
<1> QED
  BY <1>4, <1>5, <1>11, <1>12, <1>13, <1>14, <1>15

----------------------------------------------------------------------------
\* Stages that grow are read in step: those that have not ended stand at the same word
\* as the last one, and end one after the other, so that the one the cascade asks is
\* the first of them that can end.
Size(s) == SizeStage(trees(s))
Last == NumStages - 1
Lead == stage[Last].index_database

AllPlain == \A s \in Stages : Plain(s)

Follows(s) ==
  /\ stage[s].renable
  /\ stage[s].index_database = Lead
  /\ First(s) <=> First(Last)
  /\ Second(s) <=> Second(Last)

\* A stage that has ended and accepted.  If its counters run on, they are one length of
\* the stage behind the others.
Ahead(s) ==
  /\ Size(s) <= Lead
  /\ stage[s].index_database = Size(s) - 1 \/ stage[s].index_database + Size(s) <= Lead
  /\ TRUE \in decided[s]
  /\ decided[s] = {TRUE} \/ 2 * Size(s) <= Lead + 1

OrderInv ==
  Asking /\ Growing /\ AllPlain /\ count_stage \in Stages =>
    /\ \A s \in Stages : IF s < count_stage THEN Ahead(s) ELSE Follows(s)
    /\ Lead <= Size(count_stage) - 1
    /\ decided[count_stage] =
         IF Lead = Size(count_stage) - 1 THEN {classifier[count_stage].candidate} ELSE {}
    /\ \A s \in Stages : s > count_stage => decided[s] = {}

LEMMA LastIsStage == Last \in Stages /\ \A s \in Stages : s \in Nat /\ s <= Last
BY CascadeAssumption DEF Last, Stages

LEMMA SizesGrow ==
  ASSUME StreamInv, Growing, NEW s \in Stages, NEW c \in Stages, s < c
  PROVE  Size(s) + 2 <= Size(c)
<1> DEFINE a == trees(s)
           b == trees(c)
           d == b - a
<1>1. a \in Nat /\ b \in Nat /\ a < b /\ Params \in Nat /\ Params >= 2 /\ Thresholds \in Nat
  BY BuildType, StageAssumption DEF StreamInv, Growing
<1>2. d \in Nat /\ d >= 1 /\ b = a + d
  BY <1>1
<1> HIDE DEF a, b, d
<1>3. (a + d) * Params = a * Params + d * Params /\ d * Params >= Params
  BY <1>1, <1>2
<1>4. a * Params \in Nat /\ b * Params \in Nat /\ a * Params + 2 <= b * Params
  BY <1>1, <1>2, <1>3
<1> QED
  BY <1>1, <1>4 DEF Size, SizeStage, a, b

LEMMA SizeBounds ==
  ASSUME StreamInv, NEW s \in Stages
  PROVE  /\ Size(s) \in Nat /\ Size(s) >= 2
         /\ stage[s].index_database \in Nat /\ stage[s].index_database <= Size(s) - 1
BY BuildType DEF StreamInv, Size, StageType

\* A stage that has not ended goes on in step with the last one.
LEMMA FollowsOn ==
  ASSUME StreamInv, CleanInv, Clock, clean', ~Loads, AllPlain,
         NEW s \in Stages, Follows(s), Follows(Last),
         Lead < Size(s) - 1, Lead < Size(Last) - 1
  PROVE  /\ Follows(s)'
         /\ Lead' \in {Lead, Lead + 1}
         /\ Lead >= 1 => Lead' = Lead + 1
         /\ Decides(s) <=> Lead' = Size(s) - 1
<1>1. /\ Last \in Stages /\ ~reset_database /\ ~reset_database'
      /\ Size(s) \in Nat /\ Size(s) >= 2 /\ Lead \in Nat
  BY LastIsStage, CleanClock, SizeBounds DEF Lead
<1>2. CleanInv'
  BY CleanStep
<1>3. ASSUME NEW r \in Stages, Follows(r), Lead < Size(r) - 1
      PROVE  /\ stage'[r].renable
             /\ First(r) \/ Second(r) \/ Runs(r)
             /\ First(r) => Second(r)'
             /\ Second(r) => Runs(r)'
             /\ Waits(r) => stage[r].index_database = 0 /\ stage'[r].index_database = 0
             /\ Runs(r) => stage'[r].index_database = stage[r].index_database + 1
             /\ stage'[r].index_database = WordReached(stage[r], trees(r), reset_database)
  <2>1. Wired(r) /\ fresh[r]
    BY CleanClock DEF CleanInv
  <2>2. fresh'[r]
    BY <1>2 DEF CleanInv
  <2>3. Plain(r) /\ stage[r].renable /\ ~EndDatabase(stage[r], trees(r))
    BY <1>3, SizeBounds DEF AllPlain, Follows, EndDatabase, Size
  <2> QED
    BY <1>1, <2>1, <2>2, <2>3, ReadsOn
<1>4. /\ stage'[s].renable
      /\ First(s) \/ Second(s) \/ Runs(s)
      /\ First(s) => Second(s)'
      /\ Second(s) => Runs(s)'
      /\ Waits(s) => stage[s].index_database = 0 /\ stage'[s].index_database = 0
      /\ Runs(s) => stage'[s].index_database = stage[s].index_database + 1
      /\ stage'[s].index_database = WordReached(stage[s], trees(s), reset_database)
  BY <1>3
<1>5. /\ First(Last) \/ Second(Last) \/ Runs(Last)
      /\ First(Last) => Second(Last)'
      /\ Second(Last) => Runs(Last)'
      /\ Waits(Last) => Lead = 0 /\ Lead' = 0
      /\ Runs(Last) => Lead' = Lead + 1
  BY <1>1, <1>3 DEF Lead
<1>6. \A r : /\ ~(Waits(r) /\ Runs(r)) /\ (First(r) => Waits(r)) /\ (Second(r) => Waits(r))
             /\ ~(First(r) /\ Second(r))
  BY DEF Waits, Runs, First, Second
<1>7. \A r : /\ ~(Waits(r)' /\ Runs(r)') /\ (First(r)' => Waits(r)') /\ (Second(r)' => Waits(r)')
             /\ ~(First(r)' /\ Second(r)') /\ (Waits(r)' => stage'[r].index_database = 0)
  BY DEF Waits, Runs, First, Second
<1>8. stage[s].index_database = Lead /\ (First(s) <=> First(Last)) /\ (Second(s) <=> Second(Last))
  BY DEF Follows
<1>9. /\ stage'[s].index_database = Lead'
      /\ (First(s)' <=> First(Last)') /\ (Second(s)' <=> Second(Last)')
      /\ Lead' \in {Lead, Lead + 1} /\ (Lead >= 1 => Lead' = Lead + 1)
  <2>1. CASE First(s)
    BY <1>1, <1>4, <1>5, <1>6, <1>7, <1>8, <2>1
  <2>2. CASE Second(s)
    BY <1>1, <1>4, <1>5, <1>6, <1>7, <1>8, <2>2
  <2>3. CASE Runs(s)
    <3>1. Runs(Last)
      BY <1>5, <1>6, <1>8, <2>3
    <3>2. stage'[s].index_database = Lead + 1 /\ Lead' = Lead + 1
      BY <1>4, <1>5, <1>8, <2>3, <3>1
    <3>3. ~Waits(s)' /\ ~Waits(Last)'
      BY <1>1, <1>7, <3>2 DEF Lead
    <3> QED
      BY <1>7, <3>2, <3>3
  <2> QED
    BY <1>4, <2>1, <2>2, <2>3
<1>10. Follows(s)'
  BY <1>4, <1>9 DEF Follows
<1>11. Decides(s) <=> Lead' = Size(s) - 1
  BY <1>1, <1>4, <1>8, <1>9 DEF Decides, EndsDatabase, EndDatabase, Size
<1> QED
  BY <1>9, <1>10, <1>11

\* A stage that has ended decides again only if it laps the one that is asked.
LEMMA AheadOn ==
  ASSUME StreamInv, CleanInv, FoundedInv, Asking, Clock, clean', ~Loads,
         NEW s \in Stages, Ahead(s)
  PROVE  /\ \/ stage'[s].index_database = Size(s) - 1
            \/ stage'[s].index_database + Size(s) <= Lead + 1
         /\ TRUE \in decided'[s]
         /\ decided'[s] = {TRUE} \/ 2 * Size(s) <= Lead + 2
<1>1. /\ Wired(s) /\ Heard(s) /\ ~reset_classifier /\ ~reset_database /\ ~reset_database'
  BY CleanClock DEF CleanInv, FoundedInv
<1>2. /\ Size(s) \in Nat /\ Size(s) >= 2 /\ Lead \in Nat
      /\ stage[s].index_database \in Nat /\ stage[s].index_database <= Size(s) - 1
  BY SizeBounds, LastIsStage DEF Lead
<1>3. stage'[s].index_database = WordReached(stage[s], trees(s), reset_database)
  BY <1>1, InstancesStep DEF StageEdge
<1>4. \/ stage'[s].index_database = stage[s].index_database
      \/ stage'[s].index_database = IF stage[s].index_database = Size(s) - 1 THEN 0
                                    ELSE stage[s].index_database + 1
  BY <1>1, <1>3 DEF WordReached, Counter, NextAddress, Size
<1>5. \/ stage'[s].index_database = Size(s) - 1
      \/ stage'[s].index_database + Size(s) <= Lead + 1
  BY <1>2, <1>4 DEF Ahead
<1>6. /\ ~Decides(s) => decided'[s] = decided[s]
      /\ Decides(s) => decided'[s] = decided[s] \cup {classifier'[s].candidate}
  BY <1>1, HeardStep
<1>7. Decides(s) => 2 * Size(s) <= Lead + 2
  <2> SUFFICES ASSUME Decides(s) PROVE 2 * Size(s) <= Lead + 2
    OBVIOUS
  <2>1. stage'[s].index_database = Size(s) - 1 /\ stage[s].index_database # Size(s) - 1
    BY <1>3 DEF Decides, EndsDatabase, EndDatabase, Size
  <2>2. stage[s].index_database + Size(s) <= Lead
    BY <2>1 DEF Ahead
  <2>3. stage[s].index_database + 1 = Size(s) - 1
    BY <1>2, <1>4, <2>1
  <2>4. ASSUME NEW i \in Nat, NEW size \in Nat, NEW lead \in Nat,
               i + size <= lead, i + 1 = size - 1
        PROVE  2 * size <= lead + 2
    BY <2>4
  <2> QED
    BY <1>2, <2>2, <2>3, <2>4
<1>8. TRUE \in decided'[s]
  BY <1>6 DEF Ahead
<1>9. decided'[s] = {TRUE} \/ 2 * Size(s) <= Lead + 2
  <2>1. decided[s] = {TRUE} \/ 2 * Size(s) <= Lead + 1
    BY DEF Ahead
  <2>2. 2 * Size(s) <= Lead + 1 => 2 * Size(s) <= Lead + 2
    BY <1>2
  <2> QED
    BY <1>6, <1>7, <2>1, <2>2
<1> QED
  BY <1>5, <1>8, <1>9

\* The clock that enables the stages leaves each of them waiting for its first word.
LEMMA LoadsFirst ==
  ASSUME StreamInv, CleanInv, Clock, clean', Loads, NEW s \in Stages
  PROVE  /\ stage'[s].renable /\ First(s)'
         /\ stage'[s].index_database = 0
         /\ decided'[s] = {}
<1> DEFINE st == stage[s]
           n == stage'[s]
           t == trees(s)
           contents == build.contents[s]
<1>1. reset_database /\ ~reset_database' /\ AtRest(s) /\ Wired(s)
  BY CleanClock
<1>2. n \in StageEdge(st, contents, t, Loads, reset_database, reset_database')
  BY <1>1, InstancesStep
<1>3. /\ ~st.renable /\ st.count_leaf = FALSE
      /\ st.memory.word = st.memory.data /\ st.memory.data # contents[0]
  BY <1>1, BuildType DEF StreamInv, AlignedInv, Loads, AtRest, StageType
<1>4. /\ n.index_database = 0
      /\ n.memory = Read(st.memory, contents, SizeStage(t), st.renable, TRUE)
  BY <1>1, <1>2 DEF StageEdge
<1>5. n.memory.address = 0 /\ n.memory.word = st.memory.word /\ n.memory.data = st.memory.word
  BY <1>3, <1>4 DEF Read, Counter
<1>6. n.renable /\ n.count_leaf = st.count_leaf
  BY <1>1, <1>2, <1>3, <1>4, <1>5 DEF StageEdge, Driven, When
<1>7. build' = build /\ decided'[s] = When(Decides(s), classifier'[s].candidate)
  BY DEF Clock, Observe, nets
<1>8. ~Decides(s)
  BY <1>1, BuildType DEF Decides, EndsDatabase, WordReached, Counter, StreamInv
<1> QED
  BY <1>3, <1>4, <1>5, <1>6, <1>7, <1>8 DEF First, Waits, When

\* What a clock finds in an inspection whose stages grow, and what the stages that the
\* cascade has passed do in it.
LEMMA AskedClock ==
  ASSUME StreamInv, CleanInv, FoundedInv, OrderInv, Clock, clean', Inspecting', ~Loads,
         Growing, AllPlain, count_stage \in Stages
  PROVE  /\ Asking /\ ~reset /\ ~reset_classifier /\ ~reset_database /\ ~reset_database'
         /\ Lead \in Nat /\ Lead <= Size(count_stage) - 1
         /\ Ended <=> Lead = Size(count_stage) - 1
         /\ \A s \in Stages : s < count_stage =>
              /\ \/ stage'[s].index_database = Size(s) - 1
                 \/ stage'[s].index_database + Size(s) <= Lead + 1
              /\ Size(s) <= Lead
              /\ TRUE \in decided'[s]
              /\ decided'[s] = {TRUE} \/ 2 * Size(s) <= Lead + 2
         /\ \A s \in Stages : s >= count_stage => Follows(s)
         /\ \A s \in Stages : s > count_stage => decided[s] = {}
         /\ decided[count_stage] =
              IF Lead = Size(count_stage) - 1 THEN {classifier[count_stage].candidate} ELSE {}
         /\ \A s \in Stages :
              /\ Wired(s) /\ Heard(s) /\ Heard(s)'
              /\ ~Decides(s) => /\ classifier'[s].candidate = classifier[s].candidate
                                /\ decided'[s] = decided[s]
              /\ Decides(s) => decided'[s] = decided[s] \cup {classifier'[s].candidate}
<1>1. Asking /\ ~reset /\ ~reset_database /\ ~reset_database' /\ \A s \in Stages : Wired(s)
  BY CleanClock DEF CleanInv, Asking, Verdict
<1>2. ~reset_classifier /\ \A s \in Stages : Heard(s)
  BY <1>1 DEF FoundedInv
<1>3. /\ \A s \in Stages : IF s < count_stage THEN Ahead(s) ELSE Follows(s)
      /\ Lead <= Size(count_stage) - 1
      /\ decided[count_stage] =
           IF Lead = Size(count_stage) - 1 THEN {classifier[count_stage].candidate} ELSE {}
      /\ \A s \in Stages : s > count_stage => decided[s] = {}
  BY <1>1 DEF OrderInv
<1>4. Lead \in Nat /\ \A s \in Stages : s \in Nat
  BY LastIsStage, SizeBounds DEF Lead
<1>5. Ended <=> Lead = Size(count_stage) - 1
  <2>1. Follows(count_stage)
    BY <1>3, <1>4
  <2>2. end_database(count_stage) <=> EndDatabase(stage[count_stage], trees(count_stage))
    BY <1>1 DEF end_database, Wired
  <2> QED
    BY <2>1, <2>2 DEF Ended, Follows, EndDatabase, Size
<1>6. ASSUME NEW s \in Stages, s < count_stage
      PROVE  /\ \/ stage'[s].index_database = Size(s) - 1
                \/ stage'[s].index_database + Size(s) <= Lead + 1
             /\ Size(s) <= Lead
             /\ TRUE \in decided'[s]
             /\ decided'[s] = {TRUE} \/ 2 * Size(s) <= Lead + 2
  <2>1. Ahead(s)
    BY <1>3, <1>6
  <2>2. Size(s) <= Lead
    BY <2>1 DEF Ahead
  <2> QED
    BY <1>1, <2>1, <2>2, AheadOn
<1>7. ASSUME NEW s \in Stages, s >= count_stage PROVE Follows(s)
  BY <1>3, <1>4, <1>7
<1>8. ASSUME NEW s \in Stages
      PROVE  /\ Heard(s)'
             /\ ~Decides(s) => /\ classifier'[s].candidate = classifier[s].candidate
                               /\ decided'[s] = decided[s]
             /\ Decides(s) => decided'[s] = decided[s] \cup {classifier'[s].candidate}
  BY <1>1, <1>2, HeardStep
<1> QED
  BY <1>1, <1>2, <1>3, <1>4, <1>5, <1>6, <1>7, <1>8

\* The stage that is asked is not at its end: all that have not ended read on.
LEMMA ReadsBefore ==
  ASSUME StreamInv, CleanInv, FoundedInv, OrderInv, Clock, clean', Inspecting', ~Loads,
         Growing, AllPlain, count_stage \in Stages, Lead < Size(count_stage) - 1
  PROVE  OrderInv' /\ ~inspect_done'
<1>1. /\ ~reset /\ ~reset_classifier /\ ~Ended
      /\ Lead \in Nat /\ Last \in Stages /\ Asking
  BY AskedClock, LastIsStage
<1>2. count_stage' = count_stage /\ ~inspect_done'
  <2>1. ~inspect_done'
    BY <1>1, VerdictStep DEF Concluded
  <2> QED
    BY <1>1, <2>1 DEF Clock, CascadeEdge, Driven, When
<1>3. /\ Stages' = Stages /\ build' = build
      /\ \A s \in Stages : Size(s)' = Size(s)
      /\ \A s \in Stages : s \in Nat /\ Size(s) \in Nat /\ s <= Last
  <2>1. build' = build
    BY DEF Clock, nets
  <2> QED
    BY <2>1, LastIsStage, SizeBounds DEF Stages, Size, trees
<1>4. Lead < Size(Last) - 1 /\ Follows(Last)
  <2>1. count_stage = Last \/ count_stage < Last
    BY <1>1, <1>3
  <2>2. count_stage < Last => Size(count_stage) + 2 <= Size(Last)
    BY <1>1, SizesGrow
  <2>3. Lead < Size(Last) - 1
    BY <1>1, <1>3, <2>1, <2>2
  <2>4. Last >= count_stage
    BY <1>1, <1>3
  <2> QED
    BY <1>1, <2>3, <2>4, AskedClock
<1>5. ASSUME NEW s \in Stages, s >= count_stage
      PROVE  /\ Follows(s)'
             /\ Lead' \in {Lead, Lead + 1}
             /\ Lead >= 1 => Lead' = Lead + 1
             /\ Decides(s) <=> Lead' = Size(s) - 1
             /\ s > count_stage => Size(count_stage) + 2 <= Size(s)
  <2>1. s = count_stage \/ s > count_stage
    BY <1>3, <1>5
  <2>2. s > count_stage => Size(count_stage) + 2 <= Size(s)
    BY SizesGrow
  <2>3. Lead < Size(s) - 1
    BY <1>1, <1>3, <2>1, <2>2
  <2>4. Follows(s)
    BY <1>5, AskedClock
  <2> QED
    BY <1>4, <2>2, <2>3, <2>4, FollowsOn
<1>6. /\ Lead' \in {Lead, Lead + 1} /\ (Lead >= 1 => Lead' = Lead + 1)
      /\ Lead' <= Size(count_stage) - 1
  <2>1. Lead' \in {Lead, Lead + 1} /\ (Lead >= 1 => Lead' = Lead + 1)
    BY <1>3, <1>5
  <2> QED
    BY <1>1, <1>3, <2>1
<1>7. ASSUME NEW s \in Stages, s < count_stage PROVE Ahead(s)'
  <2>1. /\ \/ stage'[s].index_database = Size(s) - 1
           \/ stage'[s].index_database + Size(s) <= Lead + 1
        /\ Size(s) <= Lead
        /\ TRUE \in decided'[s]
        /\ decided'[s] = {TRUE} \/ 2 * Size(s) <= Lead + 2
    BY <1>7, AskedClock
  <2>2. Lead' = Lead + 1
    BY <1>1, <1>6, <2>1, SizeBounds
  <2>3. Size(s) <= Lead + 1
    BY <1>1, <1>3, <2>1
  <2>4. Lead + 1 + 1 = Lead + 2
    BY <1>1
  <2> QED
    BY <1>3, <2>1, <2>2, <2>3, <2>4 DEF Ahead
<1>8. ASSUME NEW s \in Stages, s > count_stage PROVE decided'[s] = {}
  <2>1. ~Decides(s)
    <3>1. /\ Decides(s) <=> Lead' = Size(s) - 1
          /\ Size(count_stage) + 2 <= Size(s)
      BY <1>3, <1>5, <1>8
    <3>2. Lead' # Size(s) - 1
      BY <1>1, <1>3, <1>6, <3>1
    <3> QED
      BY <3>1, <3>2
  <2> QED
    BY <1>8, <2>1, AskedClock
<1>9. decided'[count_stage] =
        IF Lead' = Size(count_stage) - 1 THEN {classifier'[count_stage].candidate} ELSE {}
  <2>1. decided[count_stage] = {}
    BY <1>1, AskedClock
  <2>2. Decides(count_stage) <=> Lead' = Size(count_stage) - 1
    BY <1>3, <1>5
  <2> QED
    BY <2>1, <2>2, AskedClock
<1>10. ASSUME NEW s \in Stages PROVE (IF s < count_stage' THEN Ahead(s)' ELSE Follows(s)')
  BY <1>2, <1>3, <1>5, <1>7
<1> QED
  BY <1>2, <1>3, <1>6, <1>8, <1>9, <1>10 DEF OrderInv

\* The stage that is asked is at its end: the verdict is taken, or the next one is asked
\* when it has two words or more to go.
LEMMA AskedEnds ==
  ASSUME StreamInv, CleanInv, FoundedInv, OrderInv, Clock, clean', Inspecting', ~Loads,
         Growing, AllPlain, count_stage \in Stages, Lead = Size(count_stage) - 1
  PROVE  OrderInv' /\ FirstRejects'
<1>1. /\ ~reset /\ ~reset_classifier /\ ~inspect_done /\ Ended /\ ~reset_database
      /\ Lead \in Nat /\ Last \in Stages
  BY AskedClock, LastIsStage DEF Asking
<1>2. /\ Stages' = Stages /\ build' = build /\ (Growing' <=> Growing)
      /\ \A s \in Stages : Size(s)' = Size(s) /\ SizeStage(trees(s)) = Size(s)
      /\ \A s \in Stages : s \in Nat /\ Size(s) \in Nat /\ Size(s) >= 2 /\ s <= Last
  <2>1. build' = build
    BY DEF Clock, nets
  <2> QED
    BY <2>1, LastIsStage, SizeBounds DEF Stages, Size, trees, Growing
<1>3. Lead >= 1
  BY <1>1, <1>2
<1>4. ASSUME NEW s \in Stages, s > count_stage
      PROVE  /\ Follows(s)' /\ Lead' = Lead + 1 /\ ~Decides(s) /\ decided'[s] = {}
             /\ Size(count_stage) + 2 <= Size(s)
  <2>1. Size(count_stage) + 2 <= Size(s) /\ Size(count_stage) + 2 <= Size(Last)
    BY <1>1, <1>2, <1>4, SizesGrow
  <2>2. Lead < Size(s) - 1 /\ Lead < Size(Last) - 1
    BY <1>1, <1>2, <2>1
  <2>3. Follows(s) /\ Follows(Last)
    BY <1>1, <1>2, <1>4, AskedClock
  <2>4. Follows(s)' /\ (Lead >= 1 => Lead' = Lead + 1) /\ (Decides(s) <=> Lead' = Size(s) - 1)
    BY <2>2, <2>3, FollowsOn
  <2>5. Lead' = Lead + 1
    BY <1>3, <2>4
  <2>6. Lead' # Size(s) - 1
    BY <1>1, <1>2, <2>1, <2>5
  <2>7. ~Decides(s)
    BY <2>4, <2>6
  <2>8. decided'[s] = {}
    BY <1>4, <2>7, AskedClock
  <2> QED
    BY <2>1, <2>4, <2>5, <2>7, <2>8
<1>5. /\ EndDatabase(stage[count_stage], trees(count_stage)) /\ ~Decides(count_stage)
      /\ decided'[count_stage] = {classifier[count_stage].candidate}
  <2>1. stage[count_stage].index_database = Size(count_stage) - 1
    BY <1>2, AskedClock DEF Follows
  <2>2. EndDatabase(stage[count_stage], trees(count_stage))
    BY <2>1 DEF EndDatabase, Size
  <2>3. ~Decides(count_stage)
    BY <2>2 DEF Decides, EndsDatabase
  <2> QED
    BY <2>2, <2>3, AskedClock
<1>6. ASSUME NEW s \in Stages, s < count_stage
      PROVE  /\ \/ stage'[s].index_database = Size(s) - 1
                \/ stage'[s].index_database + Size(s) <= Lead + 1
             /\ Size(s) <= Lead
             /\ TRUE \in decided'[s]
             /\ decided'[s] = {TRUE} \/ 2 * Size(s) <= Size(count_stage) + 1
  <2>1. Lead + 2 = Size(count_stage) + 1
    BY <1>1, <1>2
  <2> QED
    BY <1>6, <2>1, AskedClock
<1>7. CASE Concluded
  <2>1. inspect_done' /\ count_stage' = count_stage /\ w_candidate' = pass'
    BY <1>1, <1>7 DEF Clock, CascadeEdge, ClassifiersEdge, Driven, When, Concluded
  <2>2. ASSUME NEW s \in Stages, s < count_stage
        PROVE  TRUE \in decided'[s] /\ (decided'[s] = {TRUE} \/ Laps(s, count_stage)')
    <3>1. Laps(s, count_stage)' <=> 2 * Size(s) <= Size(count_stage) + 1
      BY <1>2, <2>1 DEF Laps, Size
    <3> QED
      BY <1>6, <2>2, <3>1
  <2>3. ASSUME pass' PROVE count_stage = Last /\ decided'[count_stage] = {TRUE}
    <3>1. \A s \in Stages : TRUE \in decided'[s]
      BY <2>3, AskedClock DEF pass, Heard
    <3>2. ~(count_stage < Last)
      BY <1>1, <1>2, <1>4, <3>1
    <3>3. count_stage = Last
      BY <1>1, <1>2, <3>2
    <3> QED
      BY <1>5, <3>1, <3>3
  <2>4. ASSUME ~pass'
        PROVE  \/ decided'[count_stage] = {FALSE}
               \/ \E s \in Stages : s < count_stage /\ FALSE \in decided'[s]
    <3>1. CASE ~Accepted
      <4>1. classifier[count_stage].candidate = FALSE
        BY <3>1, BuildType DEF Accepted, StreamInv, ClassifierType
      <4> QED
        BY <1>5, <4>1
    <3>2. CASE pass
      <4>1. PICK s \in Stages : ~classifier'[s].candidate
        BY <2>4 DEF pass
      <4>2. Decides(s)
        BY <3>2, <4>1, AskedClock DEF pass
      <4>3. s < count_stage
        BY <1>2, <1>4, <1>5, <4>2
      <4>4. classifier'[s].candidate = FALSE
        <5>1. CascadeTypes'
          BY CascadeTypesStep DEF StreamInv
        <5>2. classifier'[s] \in ClassifierType(Words)
          BY <5>1 DEF CascadeTypes, CascadeTypeOK
        <5> QED
          BY <4>1, <5>2 DEF ClassifierType
      <4>5. FALSE \in decided'[s]
        BY <4>2, <4>4, AskedClock
      <4> QED
        BY <4>3, <4>5
    <3> QED
      BY <1>7, <3>1, <3>2 DEF Concluded
  <2>5. \A s \in 0 .. count_stage - 1 : s \in Stages /\ s < count_stage
    BY <1>1, <1>2 DEF Stages, Last
  <2>6. \A s \in Stages : s < count_stage => s \in 0 .. count_stage - 1
    BY <1>2
  <2>7. FirstRejects'
    BY <2>1, <2>2, <2>3, <2>4, <2>5, <2>6 DEF FirstRejects, Last
  <2> QED
    BY <2>1, <2>7 DEF OrderInv, Asking
<1>8. CASE ~Concluded
  <2>1. ~inspect_done' /\ count_stage' = count_stage + 1 /\ Accepted
    BY <1>1, <1>8 DEF Clock, CascadeEdge, Driven, When, Concluded
  <2> SUFFICES ASSUME count_stage' \in Stages PROVE OrderInv'
    BY <2>1 DEF FirstRejects, Verdict, OrderInv
  <2>2. count_stage' > count_stage /\ Lead' = Lead + 1 /\ Lead' = Size(count_stage)
    <3>1. count_stage' > count_stage
      BY <1>2, <2>1
    <3>2. Lead' = Lead + 1
      BY <1>4, <3>1
    <3> QED
      BY <1>2, <3>1, <3>2
  <2>3. /\ Lead' <= Size(count_stage') - 1 /\ Lead' # Size(count_stage') - 1
        /\ decided'[count_stage'] = {}
    <3>1. decided'[count_stage'] = {} /\ Size(count_stage) + 2 <= Size(count_stage')
      BY <1>4, <2>2
    <3> QED
      BY <1>2, <2>2, <3>1
  <2>4. ASSUME NEW s \in Stages, s < count_stage PROVE Ahead(s)'
    <3>1. /\ \/ stage'[s].index_database = Size(s) - 1
             \/ stage'[s].index_database + Size(s) <= Lead'
          /\ Size(s) <= Lead
          /\ TRUE \in decided'[s]
          /\ decided'[s] = {TRUE} \/ 2 * Size(s) <= Lead' + 1
      <4>1. Lead' + 1 = Size(count_stage) + 1
        BY <2>2
      <4> QED
        BY <1>6, <2>2, <2>4, <4>1
    <3>2. Size(s) <= Lead'
      BY <1>1, <1>2, <2>2, <3>1
    <3> QED
      BY <1>2, <3>1, <3>2 DEF Ahead
  <2>5. ASSUME NEW s \in Stages, s = count_stage PROVE Ahead(s)'
    <3>1. stage'[s].index_database \in {Size(s) - 1, 0}
      <4>1. stage'[s].index_database = WordReached(stage[s], trees(s), reset_database)
        BY AskedClock, InstancesStep DEF StageEdge
      <4> QED
        BY <1>1, <1>5, <2>5, <4>1 DEF WordReached, Counter, NextAddress, Size, EndDatabase
    <3>2. 0 + Size(s) <= Lead' /\ Size(s) <= Lead'
      BY <1>2, <2>2, <2>5
    <3>3. decided'[s] = {TRUE}
      <4>1. classifier[s].candidate = TRUE
        BY <2>1, <2>5, BuildType DEF Accepted, StreamInv, ClassifierType
      <4> QED
        BY <1>5, <2>5, <4>1
    <3>4. \/ stage'[s].index_database = Size(s) - 1
          \/ stage'[s].index_database + Size(s) <= Lead'
      BY <3>1, <3>2
    <3> QED
      BY <1>2, <3>2, <3>3, <3>4 DEF Ahead
  <2>6. ASSUME NEW s \in Stages PROVE (IF s < count_stage' THEN Ahead(s)' ELSE Follows(s)')
    <3>1. s < count_stage \/ s = count_stage \/ s > count_stage
      BY <1>2
    <3>2. s < count_stage' <=> s <= count_stage
      BY <1>2, <2>1
    <3>3. CASE s < count_stage
      BY <1>2, <2>4, <3>2, <3>3
    <3>4. CASE s = count_stage
      BY <1>2, <2>5, <3>2, <3>4
    <3>5. CASE s > count_stage
      BY <1>2, <1>4, <3>2, <3>5
    <3> QED
      BY <3>1, <3>3, <3>4, <3>5
  <2>7. \A s \in Stages : s > count_stage' => decided'[s] = {}
    BY <1>2, <1>4, <2>1
  <2> QED
    BY <1>2, <2>3, <2>6, <2>7 DEF OrderInv
<1> QED
  BY <1>7, <1>8

LEMMA OrderStep ==
  ASSUME StreamInv, CleanInv, FoundedInv, OrderInv, Clock
  PROVE  OrderInv' /\ FirstRejects'
<1>1. /\ (Growing' <=> Growing) /\ (AllPlain' <=> AllPlain)
      /\ ((\A s \in Stages : Plain(s))' <=> AllPlain)
  <2>1. build' = build
    BY DEF Clock, nets
  <2> QED
    BY <2>1 DEF Growing, AllPlain, Plain, trees
<1> SUFFICES ASSUME clean', Inspecting', Growing, AllPlain
             PROVE  OrderInv' /\ FirstRejects'
  BY <1>1 DEF OrderInv, FirstRejects, Asking, Verdict
<1>2. CASE Loads
  <2>1. count_stage' = 0 /\ ~inspect_done'
    BY <1>2, CleanClock
  <2>2. \A s \in Stages : /\ stage'[s].renable /\ First(s)' /\ stage'[s].index_database = 0
                          /\ decided'[s] = {}
    BY <1>2, LoadsFirst
  <2>3. 0 \in Stages /\ Last \in Stages /\ \A s \in Stages : ~(s < 0)
    BY CascadeAssumption, LastIsStage DEF Stages
  <2>4. \A s \in Stages : Follows(s)'
    BY <2>2, <2>3 DEF Follows, Lead, First, Second
  <2>5. /\ Lead' = 0 /\ Size(0)' = Size(0)
        /\ Lead' <= Size(0) - 1 /\ Lead' # Size(0) - 1
    <3>1. Lead' = 0
      BY <2>2, <2>3 DEF Lead
    <3>2. Size(0)' = Size(0)
      BY DEF Clock, nets, Size, trees
    <3> QED
      BY <2>3, <3>1, <3>2, SizeBounds
  <2>6. Size(count_stage)' = Size(0)' /\ decided'[count_stage'] = {}
    BY <2>1, <2>2, <2>3 DEF Size
  <2>7. OrderInv'
    BY <2>1, <2>2, <2>3, <2>4, <2>5, <2>6 DEF OrderInv
  <2> QED
    BY <2>1, <2>7 DEF FirstRejects, Verdict
<1>3. CASE ~Loads
  <2>1. CASE count_stage \in Stages
    <3>1. Lead \in Nat /\ Size(count_stage) \in Nat /\ Lead <= Size(count_stage) - 1
      BY <1>3, <2>1, AskedClock, SizeBounds
    <3>2. CASE Lead < Size(count_stage) - 1
      BY <1>3, <2>1, <3>2, ReadsBefore DEF FirstRejects, Verdict
    <3>3. CASE Lead = Size(count_stage) - 1
      BY <1>3, <2>1, <3>3, AskedEnds
    <3> QED
      BY <3>1, <3>2, <3>3
  <2>2. CASE count_stage \notin Stages
    <3>1. Asking /\ ~reset
      BY <1>3, CleanClock DEF Asking, Verdict
    <3>2. ~reset_classifier /\ ~Ended
      BY <2>2, <3>1 DEF FoundedInv, Ended
    <3>3. count_stage' = count_stage
      BY <3>1, <3>2 DEF Clock, CascadeEdge, Driven, When
    <3>4. ~inspect_done'
      BY <3>2, VerdictStep DEF Concluded
    <3> QED
      BY <2>2, <3>3, <3>4 DEF OrderInv, FirstRejects, Verdict, Stages
  <2> QED
    BY <2>1, <2>2
<1> QED
  BY <1>2, <1>3

\* Which stage a verdict is taken at, for any number of stages that grow and any memories
\* with no word DEFAULT_VALUE: the first that rejects, or the last.  Those before it have
\* accepted, and only one so short that it may lap it has decided a second time.
THEOREM FirstStageRejects == Spec => []FirstRejects
<1>1. CascadeInit => OrderInv /\ FirstRejects
  BY DEF CascadeInit, OrderInv, Asking, FirstRejects
<1>2. StreamInv /\ CleanInv /\ FoundedInv /\ OrderInv /\ FirstRejects /\ [Clock]_vars
        => (OrderInv /\ FirstRejects)'
  <2>1. ASSUME OrderInv, UNCHANGED vars PROVE OrderInv'
    <3>1. /\ build' = build /\ stage' = stage /\ classifier' = classifier
          /\ count_stage' = count_stage /\ decided' = decided /\ (Asking' <=> Asking)
      BY <2>1 DEF vars, registers, nets, I2LBSvars, Asking, Inspecting
    <3>2. /\ (Growing' <=> Growing) /\ (AllPlain' <=> AllPlain) /\ Lead' = Lead
          /\ Size(count_stage)' = Size(count_stage)
      BY <3>1 DEF Growing, AllPlain, Plain, Lead, Size, trees
    <3>3. \A s \in Stages : Ahead(s)' <=> Ahead(s)
      BY <3>1 DEF Ahead, Lead, Size, trees
    <3>4. \A s \in Stages : Follows(s)' <=> Follows(s)
      <4>1. \A s : Waits(s)' <=> Waits(s)
        BY <3>1 DEF Waits, Next, trees
      <4> QED
        BY <3>1, <4>1 DEF Follows, Lead, First, Second
    <3> QED
      BY <2>1, <3>1, <3>2, <3>3, <3>4 DEF OrderInv
  <2>2. ASSUME FirstRejects, UNCHANGED vars PROVE FirstRejects'
    BY <2>2 DEF vars, registers, nets, I2LBSvars, FirstRejects, Verdict, Inspecting,
       Growing, Plain, trees, Laps
  <2> QED
    BY <2>1, <2>2, OrderStep
<1> QED
  BY <1>1, <1>2, StreamInvHolds, FoundedInvHolds, PTL DEF Spec

----------------------------------------------------------------------------
\* Where the counters of the trees and of their parameters are while a stage reads: at
\* the place of the word, up to the last tree, and at the last tree from then on.
Placed(s) ==
  LET st == stage[s] IN
  \/ /\ st.index_database = st.index_tree * Params + st.index_leaf
     /\ st.trig_count_tree <=> st.index_leaf = Params - 1 /\ st.index_tree # trees(s) - 1
  \/ /\ st.index_tree = trees(s) - 1 /\ ~st.trig_count_tree
     /\ st.index_database >= trees(s) * Params

\* What a classifier holds by then: of its tree the parameters before the counter,
\* and of the tree before the others; of the last tree none.
Copies(s) ==
  LET st == stage[s] IN
  \A i \in Held :
    IF st.index_tree # trees(s) - 1 /\ i < st.index_leaf
    THEN classifier[s].copied[i] = Cut(build.contents[s][st.index_tree * Params + i])
    ELSE st.index_tree > 0 =>
           classifier[s].copied[i] = Cut(build.contents[s][(st.index_tree - 1) * Params + i])

TreeInv(s) ==
  Plain(s) /\ fresh[s] /\ stage[s].renable /\ (Waits(s) \/ Runs(s)) =>
    Placed(s) /\ (Asking /\ pass_stage_1 => Copies(s))

LEMMA TreeAfter ==
  ASSUME NEW k \in Nat
  PROVE  /\ k * Params \in Nat /\ (k + 1) * Params = k * Params + Params
         /\ k >= 1 => k * Params >= Params
<1>1. Params \in Nat /\ Params >= 2
  BY StageAssumption
<1>2. k * Params \in Nat /\ (k + 1) * Params = k * Params + Params
  BY <1>1
<1>3. ASSUME k >= 1 PROVE k * Params >= Params
  <2>1. k - 1 \in Nat /\ k = (k - 1) + 1
    BY <1>3
  <2>2. (k - 1) * Params \in Nat
    BY <1>1, <2>1
  <2>3. ((k - 1) + 1) * Params = (k - 1) * Params + Params
    BY <1>1, <2>1
  <2> QED
    BY <1>1, <2>1, <2>2, <2>3
<1> QED
  BY <1>2, <1>3

LEMMA PlacedFirst ==
  ASSUME StreamInv, NEW s \in Stages, Placed(s), stage[s].index_database = 0
  PROVE  /\ stage[s].index_tree = 0 /\ stage[s].index_leaf = 0
         /\ ~stage[s].trig_count_tree
<1> DEFINE st == stage[s]
           t == trees(s)
<1>1. /\ st.index_tree \in Nat /\ st.index_leaf \in Nat /\ t \in Nat /\ t >= 1
      /\ Params \in Nat /\ Params >= 2
  BY BuildType, StageAssumption DEF StreamInv, StageType
<1>2. /\ st.index_tree * Params \in Nat /\ t * Params >= Params /\ t * Params \in Nat
      /\ st.index_tree >= 1 => st.index_tree * Params >= Params
  BY <1>1, TreeAfter
<1>3. ~(st.index_database >= t * Params)
  BY <1>1, <1>2
<1>4. /\ st.index_database = st.index_tree * Params + st.index_leaf
      /\ st.trig_count_tree <=> st.index_leaf = Params - 1 /\ st.index_tree # t - 1
  BY <1>3 DEF Placed
<1>5. ASSUME NEW a \in Nat, NEW b \in Nat, 0 = a + b PROVE a = 0 /\ b = 0
  BY <1>5
<1>6. st.index_tree * Params = 0 /\ st.index_leaf = 0
  BY <1>1, <1>2, <1>4, <1>5
<1>7. ~(st.index_tree >= 1) /\ Params - 1 # 0
  BY <1>1, <1>2, <1>6
<1>8. st.index_tree = 0
  BY <1>1, <1>7
<1> QED
  BY <1>4, <1>6, <1>7, <1>8

\* The counters of a stage that no reset meets.
LEMMA TreeFields ==
  ASSUME StreamInv, Clock, NEW s \in Stages, Wired(s), ~reset_database, ~reset_database'
  PROVE  /\ stage'[s].index_tree = IF stage[s].trig_count_tree
                                   THEN NextAddress(stage[s].index_tree, trees(s))
                                   ELSE stage[s].index_tree
         /\ stage'[s].index_leaf = IF stage[s].count_leaf
                                   THEN NextAddress(stage[s].index_leaf, Params)
                                   ELSE stage[s].index_leaf
         /\ stage'[s].trig_count_tree <=> /\ stage'[s].index_leaf = Params - 1
                                          /\ stage[s].index_leaf # Params - 1
                                          /\ stage'[s].index_tree # trees(s) - 1
         /\ stage[s].index_tree \in 0 .. trees(s) - 1
         /\ stage[s].index_leaf \in 0 .. Params - 1
         /\ stage[s].index_database \in Nat
         /\ stage[s].trig_count_tree \in BOOLEAN
         /\ trees(s)' = trees(s) /\ trees(s) \in Nat \ {0}
         /\ build' = build /\ Plain(s)' = Plain(s)
<1>1. stage'[s] \in StageEdge(stage[s], build.contents[s], trees(s), Loads,
                              reset_database, reset_database')
  BY InstancesStep
<1>2. /\ stage[s] \in StageType(trees(s), Words) /\ trees(s) \in Nat \ {0}
      /\ stage[s].index_database \in Nat
  BY BuildType, SizeBounds DEF StreamInv
<1>3. build' = build
  BY DEF Clock, nets
<1>4. trees(s)' = trees(s) /\ Plain(s)' = Plain(s)
  BY <1>3 DEF trees, Plain
<1>5. /\ stage'[s].index_tree = Counter(stage[s].index_tree, trees(s),
                                        stage[s].trig_count_tree, reset_database)
      /\ stage'[s].index_leaf = LeafReached(stage[s], reset_database)
      /\ stage'[s].trig_count_tree =
           (EndsLeafs(stage[s], reset_database) /\ stage'[s].index_tree # trees(s) - 1)
  BY <1>1 DEF StageEdge
<1>6. stage'[s].trig_count_tree <=> /\ stage'[s].index_leaf = Params - 1
                                    /\ stage[s].index_leaf # Params - 1
                                    /\ stage'[s].index_tree # trees(s) - 1
  BY <1>5 DEF EndsLeafs, EndLeafs
<1> QED
  BY <1>2, <1>3, <1>4, <1>5, <1>6 DEF Counter, LeafReached, StageType

\* What a classifier that nothing clears copies at a clock.
LEMMA CopyStep ==
  ASSUME Clock, NEW s \in Stages, pass_stage_1, ~reset_classifier, NEW i \in Held
  PROVE  classifier'[s].copied[i] =
           IF i = stage[s].index_leaf /\ stage[s].index_tree # trees(s) - 1
           THEN Cut(stage[s].memory.data) ELSE classifier[s].copied[i]
  BY InstancesStep DEF ClassifierStep, EndTrees

\* A stage that goes from one word to the next.
LEMMA TreeOn ==
  ASSUME StreamInv, Clock, NEW s \in Stages, Wired(s), Plain(s), fresh[s], fresh'[s],
         stage[s].renable, ~EndDatabase(stage[s], trees(s)),
         ~Loads, ~reset_database, ~reset_database', Placed(s)
  PROVE  /\ Placed(s)'
         /\ Copies(s) /\ pass_stage_1 /\ ~reset_classifier => Copies(s)'
<1> DEFINE st == stage[s]
           n == stage'[s]
           t == trees(s)
           copied == classifier[s].copied
           after == classifier'[s].copied
           contents == build.contents[s]
<1>1. /\ n.index_tree = IF st.trig_count_tree THEN NextAddress(st.index_tree, t)
                        ELSE st.index_tree
      /\ n.index_leaf = IF st.count_leaf THEN NextAddress(st.index_leaf, Params)
                        ELSE st.index_leaf
      /\ n.trig_count_tree <=> /\ n.index_leaf = Params - 1 /\ st.index_leaf # Params - 1
                               /\ n.index_tree # t - 1
      /\ st.index_tree \in 0 .. t - 1 /\ st.index_leaf \in 0 .. Params - 1
      /\ st.index_database \in Nat /\ st.trig_count_tree \in BOOLEAN
      /\ t' = t /\ t \in Nat \ {0} /\ build' = build
  BY TreeFields
<1>2. /\ Waits(s) \/ Runs(s)
      /\ Waits(s) => st.index_database = 0 /\ n.index_database = 0
      /\ Runs(s) => n.index_database = st.index_database + 1
  BY ReadsOn DEF First, Second
<1>3. Waits(s) => ~st.count_leaf
  BY DEF Waits
<1>4. Runs(s) => st.count_leaf /\ st.memory.data = contents[st.index_database]
  BY DEF Runs
<1>5. Params \in Nat /\ Params >= 2
  BY StageAssumption
<1>6. /\ st.index_tree * Params \in Nat
      /\ (st.index_tree + 1) * Params = st.index_tree * Params + Params
      /\ st.index_tree >= 1 => st.index_tree * Params >= Params
      /\ t * Params \in Nat /\ t * Params >= Params
  <2>1. st.index_tree \in Nat /\ t \in Nat /\ t >= 1
    BY <1>1
  <2> QED
    BY <2>1, TreeAfter
<1>7. pass_stage_1 /\ ~reset_classifier =>
        \A i \in Held : after[i] = IF i = st.index_leaf /\ st.index_tree # t - 1
                                   THEN Cut(st.memory.data) ELSE copied[i]
  BY CopyStep
<1>8. Placed(s)' <=>
        \/ /\ n.index_database = n.index_tree * Params + n.index_leaf
           /\ n.trig_count_tree <=> n.index_leaf = Params - 1 /\ n.index_tree # t - 1
        \/ /\ n.index_tree = t - 1 /\ ~n.trig_count_tree
           /\ n.index_database >= t * Params
  BY <1>1 DEF Placed
<1>9. Copies(s)' <=>
        \A i \in Held :
          IF n.index_tree # t - 1 /\ i < n.index_leaf
          THEN after[i] = Cut(contents[n.index_tree * Params + i])
          ELSE n.index_tree > 0 => after[i] = Cut(contents[(n.index_tree - 1) * Params + i])
  BY <1>1 DEF Copies
<1>10. Copies(s) <=>
        \A i \in Held :
          IF st.index_tree # t - 1 /\ i < st.index_leaf
          THEN copied[i] = Cut(contents[st.index_tree * Params + i])
          ELSE st.index_tree > 0 => copied[i] = Cut(contents[(st.index_tree - 1) * Params + i])
  BY DEF Copies
<1>11. \/ /\ st.index_database = st.index_tree * Params + st.index_leaf
          /\ st.trig_count_tree <=> st.index_leaf = Params - 1 /\ st.index_tree # t - 1
       \/ /\ st.index_tree = t - 1 /\ ~st.trig_count_tree
          /\ st.index_database >= t * Params
  BY DEF Placed
<1>14. Held \subseteq 0 .. Params - 1
  BY ClassifierAssumption
<1> HIDE DEF n, after, copied, contents, t
\* The first word is not there yet.
<1>12. CASE Waits(s)
  <2>1. st.index_tree = 0 /\ st.index_leaf = 0 /\ ~st.trig_count_tree
    BY <1>2, <1>12, PlacedFirst
  <2>2. n.index_tree = 0 /\ n.index_leaf = 0 /\ n.index_database = 0 /\ ~n.trig_count_tree
    BY <1>1, <1>2, <1>3, <1>5, <1>12, <2>1
  <2>3. 0 * Params = 0
    BY <1>5
  <2>4. Placed(s)'
    BY <1>5, <1>8, <2>2, <2>3
  <2>5. Copies(s)'
    BY <1>5, <1>9, <1>14, <2>2
  <2> QED
    BY <2>4, <2>5
<1>13. CASE Runs(s)
  <2>1. /\ st.count_leaf /\ st.memory.data = contents[st.index_database]
        /\ n.index_database = st.index_database + 1
        /\ n.index_leaf = NextAddress(st.index_leaf, Params)
    BY <1>1, <1>2, <1>4, <1>13
  \* The last tree stays the last.
  <2>2. ASSUME st.index_tree = t - 1, n.index_tree = t - 1
        PROVE  Copies(s) /\ pass_stage_1 /\ ~reset_classifier => Copies(s)'
    BY <1>7, <1>9, <1>10, <2>2
  <2>3. CASE st.index_database >= t * Params /\ st.index_tree = t - 1 /\ ~st.trig_count_tree
    <3>1. n.index_tree = t - 1 /\ ~n.trig_count_tree
      BY <1>1, <2>3
    <3>2. n.index_database >= t * Params
      BY <1>1, <1>6, <2>1, <2>3
    <3> QED
      BY <1>8, <2>2, <2>3, <3>1, <3>2
  <2>4. CASE /\ st.index_database = st.index_tree * Params + st.index_leaf
             /\ st.trig_count_tree <=> st.index_leaf = Params - 1 /\ st.index_tree # t - 1
    \* Within a tree.
    <3>1. CASE st.index_leaf # Params - 1
      <4>1. n.index_tree = st.index_tree /\ n.index_leaf = st.index_leaf + 1
        BY <1>1, <1>5, <2>1, <2>4, <3>1 DEF NextAddress
      <4>2. n.index_database = n.index_tree * Params + n.index_leaf
        BY <1>1, <1>6, <2>1, <2>4, <4>1
      <4>3. Placed(s)'
        BY <1>1, <1>8, <3>1, <4>1, <4>2
      <4>4. ASSUME Copies(s), pass_stage_1, ~reset_classifier, st.index_tree # t - 1
            PROVE  Copies(s)'
        <5>1. \A i \in Held : i = st.index_leaf =>
                 after[i] = Cut(contents[st.index_tree * Params + i])
          BY <1>7, <2>1, <2>4, <4>4
        <5>2. \A i \in Held : i # st.index_leaf => after[i] = copied[i]
          BY <1>7, <4>4
        <5>3. \A i \in Held : i < n.index_leaf <=> i < st.index_leaf \/ i = st.index_leaf
          BY <1>1, <1>14, <4>1
        <5> QED
          BY <1>9, <1>10, <4>1, <4>4, <5>1, <5>2, <5>3
      <4> QED
        BY <2>2, <4>1, <4>3, <4>4
    \* From a tree to the next.
    <3>2. CASE st.index_leaf = Params - 1 /\ st.index_tree # t - 1
      <4>1. /\ n.index_tree = st.index_tree + 1 /\ n.index_leaf = 0 /\ ~n.trig_count_tree
            /\ n.index_tree - 1 = st.index_tree /\ n.index_tree > 0
        BY <1>1, <1>5, <2>1, <2>4, <3>2 DEF NextAddress
      <4>2. n.index_database = n.index_tree * Params + n.index_leaf
        <5>1. ASSUME NEW a \in Nat, NEW d \in Nat, NEW p \in Nat, d = a + (p - 1)
              PROVE  d + 1 = (a + p) + 0
          BY <5>1
        <5>2. st.index_database = st.index_tree * Params + (Params - 1)
          BY <2>4, <3>2
        <5>3. st.index_database + 1 = (st.index_tree * Params + Params) + 0
          BY <1>1, <1>5, <1>6, <5>1, <5>2
        <5>4. n.index_tree * Params = st.index_tree * Params + Params
          BY <1>6, <4>1
        <5> QED
          BY <2>1, <4>1, <5>3, <5>4
      <4>3. Placed(s)'
        BY <1>5, <1>8, <4>1, <4>2
      <4>4. ASSUME Copies(s), pass_stage_1, ~reset_classifier PROVE Copies(s)'
        <5>1. \A i \in Held : i = st.index_leaf =>
                 after[i] = Cut(contents[st.index_tree * Params + i])
          BY <1>7, <2>1, <2>4, <3>2, <4>4
        <5>2. \A i \in Held : i # st.index_leaf => after[i] = copied[i]
          BY <1>7, <4>4
        <5>3. \A i \in Held : i < st.index_leaf \/ i = st.index_leaf
          BY <1>5, <1>14, <3>2
        <5>4. \A i \in Held : ~(i < n.index_leaf)
          BY <1>5, <1>14, <4>1
        <5>5. \A i \in Held : after[i] = Cut(contents[st.index_tree * Params + i])
          BY <1>10, <3>2, <4>4, <5>1, <5>2, <5>3
        <5> QED
          BY <1>9, <4>1, <5>4, <5>5
      <4> QED
        BY <4>3, <4>4
    \* From the last tree to the thresholds.
    <3>3. CASE st.index_leaf = Params - 1 /\ st.index_tree = t - 1
      <4>1. n.index_tree = t - 1 /\ n.index_leaf = 0 /\ ~n.trig_count_tree
        BY <1>1, <1>5, <2>1, <2>4, <3>3 DEF NextAddress
      <4>2. n.index_database = t * Params
        <5>1. (st.index_tree + 1) = t
          BY <1>1, <3>3
        <5>2. t * Params = st.index_tree * Params + Params
          BY <1>6, <5>1
        <5>3. ASSUME NEW a \in Nat, NEW d \in Nat, NEW p \in Nat, d = a + (p - 1)
              PROVE  d + 1 = a + p
          BY <5>3
        <5> QED
          BY <1>1, <1>5, <1>6, <2>1, <2>4, <3>3, <5>2, <5>3
      <4>3. Placed(s)'
        BY <1>6, <1>8, <4>1, <4>2
      <4> QED
        BY <2>2, <3>3, <4>1, <4>3
    <3> QED
      BY <3>1, <3>2, <3>3
  <2> QED
    BY <1>11, <2>3, <2>4
<1> QED
  BY <1>2, <1>12, <1>13

\* A stage that still reads after a clock that does not enable it was reading before it.
LEMMA WasReading ==
  ASSUME StreamInv, Clock, NEW s \in Stages, Plain(s)', fresh'[s], stage'[s].renable, ~Loads
  PROVE  /\ Wired(s) /\ Plain(s) /\ fresh[s] /\ stage[s].renable
         /\ ~EndDatabase(stage[s], trees(s))
         /\ ~reset_database /\ ~reset_database'
         /\ Waits(s) \/ Runs(s)
<1>1. Wired(s)
  BY InstancesStep DEF StreamInv, UnwiredInv, StageInit
<1>2. fresh[s] /\ load_second_stage /\ ~reset_database /\ load_second_stage'
  BY LoadStep DEF Clock, Observe, Loads, StreamInv
<1>3. ~reset_database'
  <2>1. RequestInv'
    BY RequestStep DEF StreamInv
  <2> QED
    BY <1>2, <2>1 DEF RequestInv, load_second_stage, reset_database
<1>4. stage[s].renable /\ ~EndDatabase(stage[s], trees(s))
  <2>1. stage'[s] \in StageEdge(stage[s], build.contents[s], trees(s), Loads,
                                reset_database, reset_database')
    BY <1>1, InstancesStep
  <2> QED
    BY <2>1 DEF StageEdge, Driven, When
<1>5. Plain(s)
  BY DEF Clock, nets, Plain
<1>6. Waits(s) \/ Runs(s)
  BY <1>2, <1>4, <1>5 DEF StreamInv, AlignedInv, Stops
<1> QED
  BY <1>1, <1>2, <1>3, <1>4, <1>5, <1>6

LEMMA TreeStep ==
  ASSUME StreamInv, CleanInv, FoundedInv, NEW s \in Stages, TreeInv(s), Clock
  PROVE  TreeInv(s)'
<1> SUFFICES ASSUME Plain(s)', fresh'[s], stage'[s].renable
             PROVE  Placed(s)' /\ (Asking' /\ pass_stage_1' => Copies(s)')
  BY DEF TreeInv
<1>1. build' = build /\ pass_stage_1' = pass_stage_1 /\ trees(s)' = trees(s)
  BY DEF Clock, nets, trees
<1>2. Wired(s)
  BY InstancesStep DEF StreamInv, UnwiredInv, StageInit
<1>3. fresh'[s] = IF Loads THEN AtRest(s) ELSE fresh[s] /\ load_second_stage'
  BY DEF Clock, Observe
<1>4. stage'[s] \in StageEdge(stage[s], build.contents[s], trees(s), Loads,
                              reset_database, reset_database')
  BY <1>2, InstancesStep
<1>5. CASE Loads
  <2>1. reset_database
    BY <1>5, LoadStep DEF StreamInv
  <2>2. Params \in Nat /\ Params >= 2 /\ 0 # Params - 1
    BY StageAssumption
  <2>3. LeafReached(stage[s], reset_database) = 0
    BY <2>1 DEF LeafReached, Counter
  <2>4. /\ stage'[s].index_database = 0 /\ stage'[s].index_tree = 0
        /\ stage'[s].index_leaf = 0 /\ ~stage'[s].trig_count_tree
    BY <1>4, <2>1, <2>2, <2>3 DEF StageEdge, EndsLeafs
  <2>5. Placed(s)'
    BY <1>1, <2>2, <2>4 DEF Placed
  <2>6. Copies(s)'
    BY <2>2, ClassifierAssumption, <2>4 DEF Copies
  <2> QED
    BY <2>5, <2>6
<1>6. CASE ~Loads
  <2>1. /\ Plain(s) /\ fresh[s] /\ stage[s].renable /\ ~EndDatabase(stage[s], trees(s))
        /\ ~reset_database /\ ~reset_database' /\ (Waits(s) \/ Runs(s))
    BY <1>6, WasReading
  <2>2. Placed(s) /\ (Asking /\ pass_stage_1 => Copies(s))
    BY <2>1 DEF TreeInv
  <2>3. Placed(s)' /\ (Copies(s) /\ pass_stage_1 /\ ~reset_classifier => Copies(s)')
    BY <1>2, <1>6, <2>1, <2>2, TreeOn
  <2>4. Asking' => Asking /\ ~reset_classifier
    BY <1>6, CleanClock DEF Asking, Verdict, FoundedInv
  <2> QED
    BY <1>1, <2>2, <2>3, <2>4
<1> QED
  BY <1>5, <1>6

\* What the trees are evaluated with, for any number of parameters and trees and any
\* width of the registers: each tree with the low bits of its own parameters but the
\* last, whose place still holds that of the tree before, and the last tree with those
\* of the tree before it.
THEOREM TreesAreEvaluatedWith == Spec => EvaluatedWith
<1> DEFINE Inv == \A s \in Stages : TreeInv(s)
<1>1. CascadeInit => Inv
  BY DEF CascadeInit, TreeInv
<1>2. StreamInv /\ CleanInv /\ FoundedInv /\ Inv /\ [Clock]_vars => Inv'
  <2>1. ASSUME Inv, UNCHANGED vars PROVE Inv'
    <3>1. /\ build' = build /\ stage' = stage /\ classifier' = classifier /\ fresh' = fresh
          /\ pass_stage_1' = pass_stage_1 /\ (Asking' <=> Asking)
      BY <2>1 DEF vars, registers, nets, I2LBSvars, Asking, Inspecting
    <3>2. ASSUME NEW s \in Stages
          PROVE  /\ (Waits(s)' <=> Waits(s)) /\ (Runs(s)' <=> Runs(s))
                 /\ (Placed(s)' <=> Placed(s)) /\ (Copies(s)' <=> Copies(s))
                 /\ (Plain(s)' <=> Plain(s))
      BY <3>1 DEF Waits, Runs, Next, Placed, Copies, Plain, trees
    <3> QED
      BY <2>1, <3>1, <3>2 DEF TreeInv
  <2>2. ASSUME StreamInv, CleanInv, FoundedInv, Inv, Clock PROVE Inv'
    BY <2>2, TreeStep
  <2> QED
    BY <2>1, <2>2
<1>3. ASSUME StreamInv, CleanInv, FoundedInv, Inv, Clock, NEW s \in Stages,
             Plain(s), clean, enable, ~inspect_done, pass_stage_1, stage[s].renable,
             EndsLeafs(stage[s], reset_database),
             NEW i \in Held, EvaluatedTree(s, i) >= 0
      PROVE  classifier'[s].copied[i] = Cut(build.contents[s][EvaluatedTree(s, i) * Params + i])
  <2> DEFINE st == stage[s]
             copied == classifier[s].copied
             after == classifier'[s].copied
             contents == build.contents[s]
  <2>1. Inspecting /\ Asking /\ ~reset_classifier /\ fresh[s] /\ Wired(s)
    BY <1>3 DEF CleanInv, FoundedInv, Asking
  <2>2. Params \in Nat /\ Params >= 2 /\ i \in Nat /\ i <= Params - 1
    BY StageAssumption, ClassifierAssumption
  <2>3. /\ st.index_leaf \in 0 .. Params - 1 /\ st.index_tree \in 0 .. trees(s) - 1
        /\ trees(s) \in Nat \ {0}
    BY <1>3, BuildType DEF StreamInv, StageType
  <2>4. st.count_leaf /\ st.index_leaf = Params - 2
    <3>1. /\ LeafReached(st, reset_database) = Params - 1 /\ st.index_leaf # Params - 1
      BY <1>3 DEF EndsLeafs, EndLeafs
    <3>2. st.count_leaf /\ NextAddress(st.index_leaf, Params) = Params - 1
      BY <2>2, <3>1 DEF LeafReached, Counter
    <3> QED
      BY <2>2, <2>3, <3>1, <3>2 DEF NextAddress
  <2>5. Runs(s)
    BY <1>3, <2>1, <2>4 DEF StreamInv, AlignedInv, Waits, Stops
  <2>6. Placed(s) /\ Copies(s)
    BY <1>3, <2>1, <2>5 DEF TreeInv
  <2>7. after[i] = IF i = st.index_leaf /\ st.index_tree # trees(s) - 1
                   THEN Cut(st.memory.data) ELSE copied[i]
    BY <1>3, <2>1, CopyStep
  <2>8. /\ IF st.index_tree # trees(s) - 1 /\ i < st.index_leaf
           THEN copied[i] = Cut(contents[st.index_tree * Params + i])
           ELSE st.index_tree > 0 => copied[i] = Cut(contents[(st.index_tree - 1) * Params + i])
    BY <2>6 DEF Copies
  <2>9. st.index_tree # trees(s) - 1 =>
          st.memory.data = contents[st.index_tree * Params + st.index_leaf]
    BY <2>5, <2>6 DEF Placed, Runs
  <2>10. EvaluatedTree(s, i) = IF st.index_tree = trees(s) - 1 \/ i = Params - 1
                               THEN st.index_tree - 1 ELSE st.index_tree
    BY DEF EvaluatedTree, EndTrees
  <2> HIDE DEF copied, after, contents, st
  <2>11. CASE st.index_tree = trees(s) - 1
    <3>1. EvaluatedTree(s, i) = st.index_tree - 1 /\ st.index_tree > 0
      BY <1>3, <2>3, <2>10, <2>11
    <3> QED
      BY <2>7, <2>8, <2>11, <3>1 DEF after, contents
  <2>12. CASE st.index_tree # trees(s) - 1 /\ i = Params - 1
    <3>1. EvaluatedTree(s, i) = st.index_tree - 1 /\ st.index_tree > 0
      BY <1>3, <2>3, <2>10, <2>12
    <3>2. i # st.index_leaf /\ ~(i < st.index_leaf)
      BY <2>2, <2>4, <2>12
    <3>3. after[i] = copied[i]
      BY <2>7, <2>12, <3>2
    <3> QED
      BY <2>8, <3>1, <3>2, <3>3 DEF after, contents
  <2>13. CASE st.index_tree # trees(s) - 1 /\ i = st.index_leaf
    <3>1. EvaluatedTree(s, i) = st.index_tree
      BY <2>2, <2>4, <2>10, <2>13
    <3>2. after[i] = Cut(st.memory.data)
      BY <2>7, <2>13
    <3> QED
      BY <2>9, <2>13, <3>1, <3>2 DEF after, contents
  <2>14. CASE st.index_tree # trees(s) - 1 /\ i < st.index_leaf
    <3>1. EvaluatedTree(s, i) = st.index_tree /\ i # st.index_leaf
      BY <2>2, <2>4, <2>10, <2>14
    <3>2. after[i] = copied[i]
      BY <2>7, <2>14, <3>1
    <3> QED
      BY <2>8, <2>14, <3>1, <3>2 DEF after, contents
  <2> QED
    BY <2>2, <2>4, <2>11, <2>12, <2>13, <2>14
<1>4. StreamInv /\ CleanInv /\ FoundedInv /\ Inv /\ [Clock]_vars =>
        [\A s \in Stages :
           /\ Plain(s) /\ clean /\ enable /\ ~inspect_done /\ pass_stage_1
           /\ stage[s].renable /\ EndsLeafs(stage[s], reset_database)
           => \A i \in Held :
                EvaluatedTree(s, i) >= 0 =>
                  classifier'[s].copied[i]
                    = build.contents[s][EvaluatedTree(s, i) * Params + i] % HeldValues]_vars
  <2> HIDE DEF Inv
  <2> QED
    BY <1>3 DEF Cut
<1> QED
  BY <1>1, <1>2, <1>4, StreamInvHolds, FoundedInvHolds, PTL DEF Spec, EvaluatedWith

----------------------------------------------------------------------------
\* The counter of the thresholds counts the clocks of the last tree, and is cleared only
\* with the classifiers.  A verdict clears them, and by the time the stages are reset
\* for the next pixel at most one more clock has been counted.
thr(s) == classifier[s].index_stage_threshold

CountInv ==
  (\A s \in Stages : Wired(s)) =>
    /\ Inspecting /\ ~inspect_done => ~reset_classifier \/ reset_database
    /\ Verdict => reset_classifier \/ reset_database
    /\ \A s \in Stages : trees(s) > 1 =>
         /\ reset_database \/ window = "IDLE" => stage[s].index_tree = 0 /\ thr(s) <= 1
         /\ window = "REQUEST_RECIEVE" =>
              thr(s) = 0 \/ (thr(s) <= 1 /\ stage[s].index_tree = 0)

LEMMA ThresholdFields ==
  ASSUME StreamInv, Clock, NEW s \in Stages
  PROVE  /\ thr(s) \in 0 .. MaxSize /\ MaxSize \in Nat
         /\ thr(s)' = IF reset_classifier \/ reset_classifier' THEN 0
                      ELSE IF EndTrees(stage[s], trees(s))
                      THEN NextAddress(thr(s), MaxSize + 1) ELSE thr(s)
         /\ thr(s)' \in 0 .. MaxSize
         /\ pass_stage_1 /\ ~reset_classifier =>
              classifier'[s].r_stage_threshold =
                IF EndTrees(stage[s], trees(s)) /\ thr(s) = 0
                THEN stage[s].memory.data ELSE classifier[s].r_stage_threshold
<1>1. classifier'[s] \in ClassifierStep(classifier[s], stage[s], trees(s), pass_stage_1,
                           reset_classifier, reset_classifier', reset_database)
  BY InstancesStep
<1>2. classifier[s] \in ClassifierType(Words) /\ MaxSize \in Nat
  BY BuildType, ClassifierAssumption DEF StreamInv
<1>3. thr(s) \in 0 .. MaxSize
  BY <1>2 DEF ClassifierType, thr
<1>4. thr(s)' = IF reset_classifier \/ reset_classifier' THEN 0
                ELSE IF EndTrees(stage[s], trees(s))
                THEN NextAddress(thr(s), MaxSize + 1) ELSE thr(s)
  BY <1>1 DEF ClassifierStep, CountThresholds, Counter, thr
<1>5. classifier'[s].r_stage_threshold \in Driven(classifier[s].r_stage_threshold,
        When(reset_classifier \/ ~pass_stage_1, 0)
        \cup When(EndTrees(stage[s], trees(s)) /\ thr(s) = 0, stage[s].memory.data))
  BY <1>1 DEF ClassifierStep, thr
<1>6. pass_stage_1 /\ ~reset_classifier =>
        classifier'[s].r_stage_threshold =
          IF EndTrees(stage[s], trees(s)) /\ thr(s) = 0
          THEN stage[s].memory.data ELSE classifier[s].r_stage_threshold
  BY <1>5 DEF Driven, When
<1>7. thr(s)' \in 0 .. MaxSize
  BY <1>2, <1>3, <1>4 DEF NextAddress
<1> QED
  BY <1>2, <1>3, <1>4, <1>6, <1>7

LEMMA CountStep ==
  ASSUME StreamInv, ClearedInv, CountInv, Clock
  PROVE  CountInv'
<1> SUFFICES ASSUME \A s \in Stages : Wired(s) PROVE CountInv'
  BY DEF CountInv, Clock, nets, Wired
<1>1. reset_database => ~Ended
  <2> SUFFICES ASSUME reset_database, Ended PROVE FALSE
    OBVIOUS
  <2>1. EndDatabase(stage[count_stage], trees(count_stage)) /\ count_stage \in Stages
    BY DEF Ended, end_database, Wired
  <2> QED
    BY <2>1, BuildType DEF ClearedInv, EndDatabase, StreamInv
<1>2. /\ reset => window = "IDLE" /\ ~integral_image_ready
      /\ window \in {"IDLE", "INSPECT", "REQUEST_RECIEVE"}
      /\ reset' => window' = "IDLE"
      /\ reset \in BOOLEAN
  BY DEF StreamInv, RequestInv, CascadeTypes, CascadeTypeOK, I2LBSTypeOK, Clock
<1>3. /\ window' \in When(reset, "IDLE") \cup {NextWindow}
      /\ pixel_request' \in When(reset, FALSE) \cup {~Inspecting}
  BY DEF Clock, WindowEdge
<1>4. /\ window' = "IDLE" => window = "IDLE"
      /\ Inspecting' => Inspecting \/ window = "REQUEST_RECIEVE" \/ window = "IDLE"
      /\ Inspecting /\ Inspecting' => ~inspect_done
      /\ window' = "REQUEST_RECIEVE" => window = "REQUEST_RECIEVE" \/ Verdict
      /\ Inspecting' => ~reset
  BY <1>2, <1>3 DEF When, NextWindow, Inspecting, Verdict
<1>5. ~Inspecting => reset_database \/ reset_database'
  BY <1>3 DEF When, reset_database
<1>6. reset_database' => window = "IDLE" \/ window = "REQUEST_RECIEVE"
  BY <1>2, <1>3, <1>4 DEF When, reset_database, Inspecting
\* Nothing ends a stage that is reset, and each verdict resets the classifiers.
<1>7. ASSUME Inspecting', ~reset_database'
      PROVE  IF inspect_done' THEN reset_classifier' ELSE ~reset_classifier'
  <2>1. ~reset /\ Inspecting /\ ~inspect_done
    <3>1. ~reset
      BY <1>4, <1>7
    <3>2. Inspecting
      BY <1>3, <1>7, <3>1 DEF When, reset_database
    <3> QED
      BY <1>4, <1>7, <3>1, <3>2
  <2>2. ~reset_classifier \/ reset_database
    BY <2>1 DEF CountInv
  <2>3. Concluded => ~reset_classifier
    BY <1>1, <2>2 DEF Concluded
  <2>4. CASE Concluded
    BY <2>1, <2>3, <2>4 DEF Clock, CascadeEdge, Driven, When
  <2>5. CASE ~Concluded
    <3>1. ~inspect_done'
      BY <2>5, VerdictStep
    <3>2. ~reset_classifier'
      BY <2>1, <2>5 DEF Clock, CascadeEdge, Driven, When
    <3> QED
      BY <3>1, <3>2
  <2> QED
    BY <2>4, <2>5
<1>8. ASSUME NEW s \in Stages, trees(s)' > 1
      PROVE  /\ reset_database' \/ window' = "IDLE" => stage'[s].index_tree = 0 /\ thr(s)' <= 1
             /\ window' = "REQUEST_RECIEVE" =>
                  thr(s)' = 0 \/ (thr(s)' <= 1 /\ stage'[s].index_tree = 0)
  <2>1. trees(s) > 1 /\ trees(s) \in Nat
    <3>1. build' = build
      BY DEF Clock, nets
    <3> QED
      BY <1>8, <3>1, BuildType DEF trees, StreamInv
  <2>2. reset_database \/ reset_database' => stage'[s].index_tree = 0
    BY InstancesStep DEF StageEdge
  <2>3. stage[s].index_tree = 0 => ~EndTrees(stage[s], trees(s))
    BY <2>1 DEF EndTrees
  <2>4. /\ stage[s].index_tree = 0 /\ thr(s) <= 1 => thr(s)' <= 1
        /\ thr(s) = 0 => thr(s)' <= 1
        /\ reset_classifier => thr(s)' = 0
    <3>1. NextAddress(0, MaxSize + 1) <= 1
      BY ThresholdFields DEF NextAddress
    <3> QED
      BY <2>3, <3>1, ThresholdFields
  <2>5. /\ reset_database \/ window = "IDLE" => stage[s].index_tree = 0 /\ thr(s) <= 1
        /\ window = "REQUEST_RECIEVE" => thr(s) = 0 \/ (thr(s) <= 1 /\ stage[s].index_tree = 0)
        /\ Verdict => reset_classifier \/ reset_database
    BY <2>1 DEF CountInv
  <2>6. window = "IDLE" \/ window = "REQUEST_RECIEVE" =>
          stage'[s].index_tree = 0 /\ thr(s)' <= 1
    <3>1. window = "IDLE" \/ window = "REQUEST_RECIEVE" => ~Inspecting
      BY DEF Inspecting
    <3> QED
      BY <1>5, <2>2, <2>4, <2>5, <3>1
  <2>7. reset_database => stage'[s].index_tree = 0 /\ thr(s)' <= 1
    BY <2>2, <2>4, <2>5
  <2> QED
    BY <1>4, <1>6, <2>4, <2>5, <2>6, <2>7
<1>9. Stages' = Stages
  BY DEF Stages
<1> QED
  BY <1>7, <1>8, <1>9 DEF CountInv, Verdict

\* What the comparison with the threshold relies on: the last tree has one parameter less
\* than a multiple of the counter's values, and the thresholds end before the counter is
\* back at the value at which it takes a word.  19, 3 and MAX_SIZE = 3 in the build.
Sized == Params % (MaxSize + 1) = MaxSize /\ Thresholds \in 3 .. MaxSize + 2

\* The counter in a window: in the last tree it has counted the parameters, after 0 or
\* 1, and past them it says which of the two first thresholds has been taken.
Counted(s) ==
  LET st == stage[s]
      words == trees(s) * Params
      past == st.index_database - words
      r == classifier[s].r_stage_threshold
  IN /\ st.index_tree # trees(s) - 1 => thr(s) <= 1
     /\ st.index_tree = trees(s) - 1 /\ st.index_database < words =>
          \E c \in {0, 1}, q \in Nat : c + st.index_leaf = q * (MaxSize + 1) + thr(s)
     /\ st.index_database >= words =>
          \/ thr(s) = past /\ (past >= 1 => r = build.contents[s][words])
          \/ /\ thr(s) = IF past = 0 THEN MaxSize ELSE past - 1
             /\ past >= 2 => r = build.contents[s][words + 1]

ThresholdInv(s) ==
  /\ trees(s) > 1 /\ Plain(s) /\ fresh[s] /\ stage[s].renable
  /\ ~EndDatabase(stage[s], trees(s)) /\ Asking /\ pass_stage_1
  => Counted(s)

LEMMA Rest ==
  ASSUME NEW m \in Nat, NEW a \in Nat, NEW b \in Nat, NEW i \in 0 .. m, NEW j \in 0 .. m,
         a * (m + 1) + i = b * (m + 1) + j
  PROVE  i = j
<1>1. ASSUME NEW x \in Nat, NEW y \in Nat, x < y PROVE x * (m + 1) + (m + 1) <= y * (m + 1)
  <2>1. y - x - 1 \in Nat /\ y = x + 1 + (y - x - 1)
    BY <1>1
  <2> DEFINE d == y - x - 1
  <2>2. d \in Nat /\ y = x + 1 + d
    BY <2>1
  <2> HIDE DEF d
  <2>3. (x + 1 + d) * (m + 1) = x * (m + 1) + (m + 1) + d * (m + 1) /\ d * (m + 1) \in Nat
    BY <2>2
  <2>4. x * (m + 1) \in Nat
    OBVIOUS
  <2> QED
    BY <2>2, <2>3, <2>4
<1>2. a * (m + 1) \in Nat /\ b * (m + 1) \in Nat
  OBVIOUS
<1>3. ~(a < b)
  <2> SUFFICES ASSUME a < b PROVE FALSE
    OBVIOUS
  <2>1. a * (m + 1) + (m + 1) <= b * (m + 1)
    BY <1>1
  <2> QED
    BY <1>2, <2>1
<1>4. ~(b < a)
  <2> SUFFICES ASSUME b < a PROVE FALSE
    OBVIOUS
  <2>1. b * (m + 1) + (m + 1) <= a * (m + 1)
    BY <1>1
  <2> QED
    BY <1>2, <2>1
<1> QED
  BY <1>2, <1>3, <1>4

\* The counter when the last tree's parameters are counted, after 0 or 1.
LEMMA CountedTree ==
  ASSUME Sized, NEW c \in {0, 1}, NEW q \in Nat, NEW i \in 0 .. MaxSize,
         c + Params = q * (MaxSize + 1) + i
  PROVE  i = IF c = 1 THEN 0 ELSE MaxSize
<1>1. MaxSize \in Nat /\ Params \in Nat
  BY ClassifierAssumption, StageAssumption
<1>2. PICK k \in Nat : Params = k * (MaxSize + 1) + MaxSize
  <2>1. /\ Params = (Params \div (MaxSize + 1)) * (MaxSize + 1) + (Params % (MaxSize + 1))
        /\ Params \div (MaxSize + 1) \in Nat
    BY <1>1
  <2> QED
    BY <2>1 DEF Sized
<1>3. (k + 1) * (MaxSize + 1) = k * (MaxSize + 1) + (MaxSize + 1) /\ k * (MaxSize + 1) \in Nat
  BY <1>1, <1>2
<1>4. CASE c = 1
  <2>1. (k + 1) * (MaxSize + 1) + 0 = q * (MaxSize + 1) + i
    BY <1>1, <1>2, <1>3, <1>4
  <2>2. 0 \in 0 .. MaxSize /\ k + 1 \in Nat
    BY <1>1, <1>2
  <2> QED
    BY <1>1, <1>4, <2>1, <2>2, Rest
<1>5. CASE c = 0
  <2>1. k * (MaxSize + 1) + MaxSize = q * (MaxSize + 1) + i
    BY <1>1, <1>2, <1>3, <1>5
  <2>2. MaxSize \in 0 .. MaxSize
    BY <1>1
  <2> QED
    BY <1>1, <1>2, <1>5, <2>1, <2>2, Rest
<1> QED
  BY <1>4, <1>5

\* The words of the trees, and of the last of them.
LEMMA PlacedWords ==
  ASSUME StreamInv, NEW s \in Stages, Placed(s)
  PROVE  /\ trees(s) * Params \in Nat
         /\ stage[s].index_database < trees(s) * Params =>
              (stage[s].trig_count_tree <=> /\ stage[s].index_leaf = Params - 1
                                            /\ stage[s].index_tree # trees(s) - 1)
         /\ stage[s].index_database >= trees(s) * Params =>
              stage[s].index_tree = trees(s) - 1 /\ ~stage[s].trig_count_tree
         /\ stage[s].index_tree # trees(s) - 1 =>
              stage[s].index_database + 1 < trees(s) * Params
         /\ stage[s].index_tree = trees(s) - 1 /\ stage[s].index_database < trees(s) * Params =>
              stage[s].index_database + Params = trees(s) * Params + stage[s].index_leaf
<1> DEFINE st == stage[s]
           t == trees(s)
           d == t - 1 - st.index_tree
<1>1. /\ st.index_tree \in 0 .. t - 1 /\ st.index_leaf \in 0 .. Params - 1 /\ t \in Nat
      /\ Params \in Nat /\ Params >= 2 /\ st.trig_count_tree \in BOOLEAN
      /\ st.index_database \in Nat
  BY BuildType, StageAssumption, SizeBounds DEF StreamInv, StageType
<1>2. d \in Nat /\ t = (st.index_tree + 1) + d
  BY <1>1
<1>3. /\ \/ /\ st.index_database = st.index_tree * Params + st.index_leaf
            /\ st.trig_count_tree <=> st.index_leaf = Params - 1 /\ st.index_tree # t - 1
         \/ /\ st.index_tree = t - 1 /\ ~st.trig_count_tree
            /\ st.index_database >= t * Params
  BY DEF Placed
<1>4. d = 0 <=> st.index_tree = t - 1
  BY <1>1
<1> HIDE DEF d, t, st
<1> DEFINE a == st.index_tree * Params
           b == d * Params
<1>5. /\ a \in Nat /\ b \in Nat /\ t * Params = (a + Params) + b
      /\ d = 0 => b = 0
      /\ d # 0 => b >= Params
  <2>1. st.index_tree \in Nat
    BY <1>1
  <2>2. ((st.index_tree + 1) + d) * Params = (st.index_tree * Params + Params) + d * Params
    BY <1>1, <1>2, <2>1
  <2>3. st.index_tree * Params \in Nat /\ d * Params \in Nat /\ (d >= 1 => d * Params >= Params)
    BY <1>2, <2>1, TreeAfter
  <2>4. d # 0 => d >= 1
    BY <1>2
  <2>5. 0 * Params = 0
    BY <1>1
  <2> QED
    BY <1>2, <2>2, <2>3, <2>4, <2>5
<1>6. CASE /\ st.index_database = a + st.index_leaf
           /\ st.trig_count_tree <=> st.index_leaf = Params - 1 /\ st.index_tree # t - 1
  <2> HIDE DEF a, b
  <2>1. st.index_database < t * Params
    BY <1>1, <1>5, <1>6
  <2>2. d # 0 => st.index_database + 1 < t * Params
    BY <1>1, <1>5, <1>6
  <2>3. d = 0 => st.index_database + Params = t * Params + st.index_leaf
    BY <1>1, <1>5, <1>6
  <2>4. t * Params \in Nat /\ ~(st.index_database >= t * Params)
    BY <1>1, <1>5, <2>1
  <2> QED
    BY <1>4, <1>6, <2>1, <2>2, <2>3, <2>4 DEF st, t
<1>7. CASE /\ st.index_tree = t - 1 /\ ~st.trig_count_tree
           /\ st.index_database >= t * Params
  <2>1. t * Params \in Nat /\ ~(st.index_database < t * Params)
    BY <1>1, <1>5, <1>7
  <2> QED
    BY <1>7, <2>1 DEF st, t
<1> QED
  BY <1>3, <1>6, <1>7

\* A stage that goes from one word to the next, in a window without a verdict.
LEMMA CountedOn ==
  ASSUME StreamInv, Clock, Sized, NEW s \in Stages, Wired(s), Plain(s), fresh[s], fresh'[s],
         stage[s].renable, ~EndDatabase(stage[s], trees(s)),
         ~EndDatabase(stage'[s], trees(s)), trees(s) > 1,
         ~Loads, ~reset_database, ~reset_database',
         ~reset_classifier, ~reset_classifier', pass_stage_1, Placed(s), Counted(s)
  PROVE  Counted(s)'
<1> DEFINE st == stage[s]
           n == stage'[s]
           t == trees(s)
           words == t * Params
           c1 == thr(s)
           c2 == thr(s)'
           r1 == classifier[s].r_stage_threshold
           r2 == classifier'[s].r_stage_threshold
           contents == build.contents[s]
<1>1. /\ n.index_tree = IF st.trig_count_tree THEN NextAddress(st.index_tree, t)
                        ELSE st.index_tree
      /\ n.index_leaf = IF st.count_leaf THEN NextAddress(st.index_leaf, Params)
                        ELSE st.index_leaf
      /\ st.index_tree \in 0 .. t - 1 /\ st.index_leaf \in 0 .. Params - 1
      /\ st.index_database \in Nat /\ st.trig_count_tree \in BOOLEAN
      /\ t' = t /\ t \in Nat \ {0} /\ build' = build
  BY TreeFields
<1>2. /\ Waits(s) \/ Runs(s)
      /\ Waits(s) => st.index_database = 0 /\ n.index_database = 0
      /\ Runs(s) => n.index_database = st.index_database + 1
  BY ReadsOn DEF First, Second
<1>3. /\ Waits(s) => ~st.count_leaf
      /\ Runs(s) => st.count_leaf /\ st.memory.data = contents[st.index_database]
  BY DEF Waits, Runs
<1>4. /\ c1 \in 0 .. MaxSize /\ c2 \in 0 .. MaxSize /\ MaxSize \in Nat
      /\ c2 = IF st.index_tree = t - 1 THEN NextAddress(c1, MaxSize + 1) ELSE c1
      /\ r2 = IF st.index_tree = t - 1 /\ c1 = 0 THEN st.memory.data ELSE r1
  BY ThresholdFields DEF EndTrees
<1>5. /\ Params \in Nat /\ Params >= 2 /\ Thresholds \in Nat
      /\ Thresholds <= MaxSize + 2
  BY StageAssumption, <1>4 DEF Sized
<1>6. /\ words \in Nat
      /\ st.index_database < words =>
           (st.trig_count_tree <=> st.index_leaf = Params - 1 /\ st.index_tree # t - 1)
      /\ st.index_database >= words => st.index_tree = t - 1 /\ ~st.trig_count_tree
      /\ st.index_tree # t - 1 => st.index_database + 1 < words
      /\ st.index_tree = t - 1 /\ st.index_database < words =>
           st.index_database + Params = words + st.index_leaf
  BY PlacedWords
<1>7. Waits(s) => st.index_tree = 0 /\ ~st.trig_count_tree
  BY <1>2, PlacedFirst
<1>8. words >= Params
  BY <1>1, TreeAfter
<1>9. n.index_database <= words + Thresholds - 2
  <2>1. n.index_database # (words + Thresholds) - 1
    BY DEF EndDatabase, SizeStage
  <2>2. st.index_database <= (words + Thresholds) - 1 /\ st.index_database # (words + Thresholds) - 1
    BY SizeBounds DEF EndDatabase, SizeStage, Size
  <2> QED
    BY <1>1, <1>2, <1>5, <1>6, <1>8, <2>1, <2>2
<1>10. /\ st.index_tree # t - 1 => c1 <= 1
       /\ st.index_tree = t - 1 /\ st.index_database < words =>
            \E c \in {0, 1}, q \in Nat : c + st.index_leaf = q * (MaxSize + 1) + c1
       /\ st.index_database >= words =>
            \/ c1 = st.index_database - words
               /\ (st.index_database - words >= 1 => r1 = contents[words])
            \/ /\ c1 = IF st.index_database - words = 0 THEN MaxSize
                       ELSE (st.index_database - words) - 1
               /\ st.index_database - words >= 2 => r1 = contents[words + 1]
  BY DEF Counted
<1>11. Counted(s)' <=>
       /\ n.index_tree # t - 1 => c2 <= 1
       /\ n.index_tree = t - 1 /\ n.index_database < words =>
            \E c \in {0, 1}, q \in Nat : c + n.index_leaf = q * (MaxSize + 1) + c2
       /\ n.index_database >= words =>
            \/ c2 = n.index_database - words
               /\ (n.index_database - words >= 1 => r2 = contents[words])
            \/ /\ c2 = IF n.index_database - words = 0 THEN MaxSize
                       ELSE (n.index_database - words) - 1
               /\ n.index_database - words >= 2 => r2 = contents[words + 1]
  BY <1>1 DEF Counted
<1>12. t > 1
  OBVIOUS
<1> HIDE DEF n, c1, c2, r1, r2, contents, t, words, st
\* Before the last tree.
<1>13. CASE st.index_tree # t - 1
  <2>1. c2 = c1 /\ c1 <= 1 /\ c2 \in {0, 1}
    BY <1>4, <1>10, <1>13
  <2>2. n.index_database < words
    BY <1>1, <1>2, <1>6, <1>8, <1>13
  <2>3. ASSUME n.index_tree = t - 1
        PROVE  \E c \in {0, 1}, q \in Nat : c + n.index_leaf = q * (MaxSize + 1) + c2
    <3>1. st.trig_count_tree
      BY <1>1, <1>13, <2>3
    <3>2. st.index_leaf = Params - 1 /\ Runs(s)
      <4>1. st.index_database < words
        BY <1>1, <1>6, <1>13
      <4> QED
        BY <1>2, <1>6, <1>7, <3>1, <4>1
    <3>3. n.index_leaf = 0
      BY <1>1, <1>3, <3>2 DEF NextAddress
    <3>4. c2 + n.index_leaf = 0 * (MaxSize + 1) + c2
      BY <1>4, <3>3
    <3> QED
      BY <2>1, <3>4
  <2>4. ~(n.index_database >= words)
    BY <1>1, <1>2, <1>6, <2>2
  <2> QED
    BY <1>11, <2>1, <2>3, <2>4
<1>14. ASSUME st.index_tree = t - 1
       PROVE  /\ Runs(s) /\ c2 = IF c1 = MaxSize THEN 0 ELSE c1 + 1
              /\ n.index_database = st.index_database + 1
  <2>1. Runs(s)
    BY <1>1, <1>2, <1>7, <1>12, <1>14
  <2> QED
    BY <1>2, <1>4, <1>14, <2>1 DEF NextAddress
\* The last tree.
<1>15. CASE st.index_tree = t - 1 /\ st.index_database < words
  <2>1. /\ n.index_tree = t - 1 /\ n.index_database = st.index_database + 1
        /\ st.index_database + Params = words + st.index_leaf
        /\ n.index_leaf = NextAddress(st.index_leaf, Params)
    BY <1>1, <1>3, <1>6, <1>14, <1>15
  <2>2. PICK c \in {0, 1}, q \in Nat :
          c + st.index_leaf + 1 = q * (MaxSize + 1) + c2
    <3>1. PICK c \in {0, 1}, q \in Nat : c + st.index_leaf = q * (MaxSize + 1) + c1
      BY <1>10, <1>15
    <3>2. (q + 1) * (MaxSize + 1) = q * (MaxSize + 1) + (MaxSize + 1) /\ q * (MaxSize + 1) \in Nat
      BY <1>4, <3>1
    <3>3. CASE c1 = MaxSize
      <4>1. c + st.index_leaf + 1 = (q + 1) * (MaxSize + 1) + c2
        BY <1>1, <1>4, <1>14, <1>15, <3>1, <3>2, <3>3
      <4>2. q + 1 \in Nat
        OBVIOUS
      <4> QED
        BY <4>1, <4>2
    <3>4. CASE c1 # MaxSize
      <4>1. c + st.index_leaf + 1 = q * (MaxSize + 1) + c2
        BY <1>1, <1>4, <1>14, <1>15, <3>1, <3>2, <3>4
      <4> QED
        BY <4>1
    <3> QED
      BY <3>3, <3>4
  <2>3. CASE st.index_leaf # Params - 1
    <3>1. n.index_leaf = st.index_leaf + 1 /\ n.index_database < words
      BY <1>1, <1>5, <1>6, <2>1, <2>3 DEF NextAddress
    <3>2. c + n.index_leaf = q * (MaxSize + 1) + c2
      BY <1>1, <2>2, <3>1
    <3>3. ~(n.index_database >= words)
      BY <1>1, <1>6, <2>1, <3>1
    <3> QED
      BY <1>11, <2>1, <3>2, <3>3
  <2>4. CASE st.index_leaf = Params - 1
    <3>1. n.index_database = words
      BY <1>1, <1>5, <1>6, <2>1, <2>4
    <3>2. c + Params = q * (MaxSize + 1) + c2
      BY <1>5, <2>2, <2>4
    <3>3. c2 = IF c = 1 THEN 0 ELSE MaxSize
      BY <1>4, <3>2, CountedTree
    <3>4. n.index_database - words = 0 /\ ~(n.index_database < words)
      BY <1>6, <3>1
    <3> QED
      BY <1>11, <2>1, <3>3, <3>4
  <2> QED
    BY <2>3, <2>4
\* The thresholds.
<1>16. CASE st.index_tree = t - 1 /\ st.index_database >= words
  <2> DEFINE past == st.index_database - words
  <2>1. /\ past \in Nat /\ st.index_database = words + past
        /\ n.index_database - words = past + 1 /\ past + 1 <= MaxSize
        /\ n.index_database = st.index_database + 1
    BY <1>1, <1>4, <1>5, <1>6, <1>9, <1>14, <1>16
  <2>2. n.index_tree = t - 1 /\ ~(n.index_database < words)
    BY <1>1, <1>6, <1>16, <2>1
  <2>3. r2 = IF c1 = 0 THEN contents[words + past] ELSE r1
    BY <1>3, <1>4, <1>14, <1>16, <2>1
  <2>4. \/ c1 = past /\ (past >= 1 => r1 = contents[words])
        \/ c1 = (IF past = 0 THEN MaxSize ELSE past - 1) /\ (past >= 2 => r1 = contents[words + 1])
    BY <1>10, <1>16
  <2>5. words + 0 = words
    BY <1>6
  <2> HIDE DEF past
  <2>6. \/ c2 = past + 1 /\ r2 = contents[words]
        \/ c2 = (past + 1) - 1 /\ (past + 1 >= 2 => r2 = contents[words + 1])
    <3>1. CASE c1 = past /\ (past >= 1 => r1 = contents[words])
      <4>1. c2 = past + 1
        BY <1>4, <1>14, <1>16, <2>1, <3>1
      <4>2. past = 0 \/ (past >= 1 /\ c1 # 0)
        BY <2>1, <3>1
      <4>3. r2 = contents[words]
        BY <2>3, <2>5, <3>1, <4>2
      <4> QED
        BY <4>1, <4>3
    <3>2. CASE /\ c1 = IF past = 0 THEN MaxSize ELSE past - 1
               /\ past >= 2 => r1 = contents[words + 1]
      <4>1. c2 = (past + 1) - 1
        <5>1. c2 = IF c1 = MaxSize THEN 0 ELSE c1 + 1
          BY <1>14, <1>16
        <5>2. CASE past = 0
          BY <3>2, <5>1, <5>2
        <5>3. CASE past # 0
          <6>1. c1 = past - 1 /\ c1 # MaxSize
            BY <1>4, <2>1, <3>2, <5>3
          <6> QED
            BY <2>1, <5>1, <6>1
        <5> QED
          BY <5>2, <5>3
      <4>2. past + 1 >= 2 => (past = 1 /\ c1 = 0) \/ (past >= 2 /\ c1 # 0)
        <5> SUFFICES ASSUME past + 1 >= 2 PROVE (past = 1 /\ c1 = 0) \/ (past >= 2 /\ c1 # 0)
          OBVIOUS
        <5>1. past # 0 /\ past >= 1
          BY <2>1
        <5>2. c1 = past - 1
          BY <3>2, <5>1
        <5> QED
          BY <2>1, <5>1, <5>2
      <4>3. past + 1 >= 2 => r2 = contents[words + 1]
        BY <2>3, <3>2, <4>2
      <4> QED
        BY <4>1, <4>3
    <3> QED
      BY <2>4, <3>1, <3>2
  <2>7. past + 1 # 0
    BY <2>1
  <2> QED
    BY <1>11, <2>1, <2>2, <2>6, <2>7
<1>17. st.index_database < words \/ st.index_database >= words
  BY <1>1, <1>6
<1> QED
  BY <1>13, <1>15, <1>16, <1>17

LEMMA ThresholdStep ==
  ASSUME StreamInv, CleanInv, FoundedInv, CountInv, Sized,
         NEW s \in Stages, TreeInv(s), ThresholdInv(s), Clock
  PROVE  ThresholdInv(s)'
<1> SUFFICES ASSUME trees(s)' > 1, Plain(s)', fresh'[s], stage'[s].renable,
                    ~EndDatabase(stage'[s], trees(s)'), Asking', pass_stage_1'
             PROVE  Counted(s)'
  BY DEF ThresholdInv
<1>1. /\ build' = build /\ trees(s)' = trees(s) /\ trees(s) > 1 /\ pass_stage_1
      /\ ~EndDatabase(stage'[s], trees(s)) /\ clean' /\ trees(s) \in Nat
  BY BuildType DEF Clock, nets, trees, Asking, StreamInv
<1>2. CASE Loads
  <2>1. reset_database /\ \A r \in Stages : Wired(r)
    BY <1>1, <1>2, CleanClock
  <2>2. stage[s].index_tree = 0 /\ thr(s) <= 1 /\ thr(s)' \in {thr(s), 0}
    <3>1. stage[s].index_tree = 0 /\ thr(s) <= 1
      BY <1>1, <2>1 DEF CountInv
    <3>2. ~EndTrees(stage[s], trees(s))
      BY <1>1, <3>1 DEF EndTrees
    <3> QED
      BY <3>1, <3>2, ThresholdFields
  <2>3. stage'[s].index_tree = 0 /\ stage'[s].index_database = 0
    BY <2>1, InstancesStep DEF StageEdge
  <2>4. trees(s) * Params \in Nat /\ trees(s) * Params >= Params /\ Params >= 2 /\ Params \in Nat
    <3>1. trees(s) >= 1 /\ Params >= 2 /\ Params \in Nat
      BY <1>1, StageAssumption
    <3> QED
      BY <1>1, <3>1, TreeAfter
  <2>5. ~(stage'[s].index_database >= trees(s) * Params)
    BY <2>3, <2>4
  <2>6. stage'[s].index_tree # trees(s) - 1
    BY <1>1, <2>3
  <2>7. thr(s)' <= 1
    BY <2>2
  <2> QED
    BY <1>1, <2>5, <2>6, <2>7 DEF Counted
<1>3. CASE ~Loads
  <2>1. /\ Wired(s) /\ Plain(s) /\ fresh[s] /\ stage[s].renable
        /\ ~EndDatabase(stage[s], trees(s))
        /\ ~reset_database /\ ~reset_database' /\ (Waits(s) \/ Runs(s))
    BY <1>3, WasReading
  <2>2. Asking /\ ~reset_classifier /\ ~reset_classifier'
    <3>1. Asking
      BY <1>1, <1>3, CleanClock DEF Asking, Verdict
    <3>2. FoundedInv'
      BY FoundedStep
    <3> QED
      BY <3>1, <3>2 DEF FoundedInv
  <2>3. Placed(s) /\ Counted(s)
    BY <1>1, <2>1, <2>2 DEF TreeInv, ThresholdInv
  <2> QED
    BY <1>1, <1>3, <2>1, <2>2, <2>3, CountedOn
<1> QED
  BY <1>2, <1>3

\* What the sum of a window is compared with, for any number of stages and of trees, when
\* the parameters and thresholds are sized as in the build: the threshold of the stage,
\* or the word after it when one clock has been counted before the window.
THEOREM SumIsComparedWith == Spec /\ Sized => ComparedWith
<1> DEFINE Inv == /\ Sized /\ ClearedInv /\ CountInv
                  /\ \A s \in Stages : TreeInv(s) /\ ThresholdInv(s)
<1>1. CascadeInit /\ Sized => Inv
  <2> SUFFICES ASSUME CascadeInit, Sized PROVE Inv
    OBVIOUS
  <2>1. ClearedInv
    BY DEF CascadeInit, StageInit, ClearedInv
  <2>2. CountInv
    <3>1. /\ ~Inspecting /\ window # "REQUEST_RECIEVE"
          /\ \A s \in Stages : stage[s].index_tree = 0 /\ thr(s) = 0
      BY DEF CascadeInit, I2LBSInit, Inspecting, StageInit, ClassifierInit, thr
    <3> QED
      BY <3>1 DEF CountInv, Verdict
  <2> QED
    BY <2>1, <2>2 DEF CascadeInit, TreeInv, ThresholdInv
<1>2. StreamInv /\ CleanInv /\ FoundedInv /\ Inv /\ [Clock]_vars => Inv'
  <2>1. ASSUME Inv, UNCHANGED vars PROVE Inv'
    <3>1. /\ build' = build /\ stage' = stage /\ classifier' = classifier /\ fresh' = fresh
          /\ pass_stage_1' = pass_stage_1 /\ (Asking' <=> Asking)
          /\ window' = window /\ inspect_done' = inspect_done
          /\ reset_classifier' = reset_classifier /\ (reset_database' <=> reset_database)
      BY <2>1 DEF vars, registers, nets, I2LBSvars, Asking, Inspecting, reset_database
    <3>2. ASSUME NEW s \in Stages
          PROVE  /\ (Waits(s)' <=> Waits(s)) /\ (Runs(s)' <=> Runs(s))
                 /\ (Placed(s)' <=> Placed(s)) /\ (Copies(s)' <=> Copies(s))
                 /\ (Counted(s)' <=> Counted(s)) /\ (Plain(s)' <=> Plain(s))
                 /\ trees(s)' = trees(s) /\ thr(s)' = thr(s) /\ (Wired(s)' <=> Wired(s))
      BY <3>1 DEF Waits, Runs, Next, Placed, Copies, Counted, Plain, trees, thr, Wired
    <3>3. ClearedInv' /\ CountInv'
      BY <2>1, <3>1, <3>2 DEF ClearedInv, CountInv, Verdict, Inspecting
    <3>4. ASSUME NEW s \in Stages PROVE TreeInv(s)' /\ ThresholdInv(s)'
      BY <2>1, <3>1, <3>2 DEF TreeInv, ThresholdInv
    <3>5. Sized'
      BY <2>1 DEF Sized
    <3> QED
      BY <3>3, <3>4, <3>5
  <2>2. ASSUME StreamInv, CleanInv, FoundedInv, Inv, Clock PROVE Inv'
    <3>1. ClearedInv' /\ CountInv' /\ Sized'
      BY <2>2, ClearedStep, CountStep DEF Sized
    <3>2. ASSUME NEW s \in Stages PROVE TreeInv(s)' /\ ThresholdInv(s)'
      BY <2>2, TreeStep, ThresholdStep
    <3> QED
      BY <3>1, <3>2
  <2> QED
    BY <2>1, <2>2
<1>3. ASSUME StreamInv, CleanInv, FoundedInv, Inv, Clock, NEW s \in Stages,
             trees(s) > 1, Plain(s), clean, enable, ~inspect_done, pass_stage_1,
             stage[s].renable, Decides(s)
      PROVE  \E i \in {0, 1} :
               classifier'[s].r_stage_threshold = build.contents[s][trees(s) * Params + i]
  <2> DEFINE st == stage[s]
             words == trees(s) * Params
             past == st.index_database - words
             c1 == thr(s)
             r1 == classifier[s].r_stage_threshold
             r2 == classifier'[s].r_stage_threshold
             contents == build.contents[s]
  <2>1. Asking /\ ~reset_classifier /\ fresh[s]
    BY <1>3 DEF CleanInv, FoundedInv, Asking
  <2>2. /\ ~EndDatabase(st, trees(s)) /\ st.count_leaf
        /\ NextAddress(st.index_database, SizeStage(trees(s))) = SizeStage(trees(s)) - 1
    <3>1. SizeStage(trees(s)) - 1 # 0
      BY <1>3, BuildType DEF StreamInv
    <3> QED
      BY <1>3, <3>1 DEF Decides, EndsDatabase, WordReached, Counter, EndDatabase
  <2>3. Runs(s)
    BY <1>3, <2>1, <2>2 DEF StreamInv, AlignedInv, Waits, Stops
  <2>4. Placed(s) /\ Counted(s)
    BY <1>3, <2>1, <2>2, <2>3 DEF TreeInv, ThresholdInv
  <2>5. /\ words \in Nat /\ Thresholds \in Nat /\ Thresholds >= 3 /\ st.index_database \in Nat
        /\ Thresholds <= MaxSize + 2 /\ MaxSize \in Nat
    BY <1>3, <2>4, StageAssumption, PlacedWords, SizeBounds, ClassifierAssumption DEF Sized
  <2>6. st.index_database + 1 = (words + Thresholds) - 1
    <3>1. st.index_database # (words + Thresholds) - 1
      BY <2>2 DEF EndDatabase, SizeStage
    <3>2. (words + Thresholds) - 1 # 0
      BY <2>5
    <3> QED
      BY <2>2, <3>1, <3>2 DEF NextAddress, SizeStage
  <2>7. past \in Nat /\ past >= 1 /\ st.index_database = words + past /\ past <= MaxSize
    BY <2>5, <2>6
  <2>8. st.index_tree = trees(s) - 1
    BY <1>3, <2>4, <2>5, <2>7, PlacedWords
  <2>9. r2 = IF c1 = 0 THEN contents[words + past] ELSE r1
    BY <1>3, <2>1, <2>3, <2>7, <2>8, ThresholdFields DEF EndTrees, Runs
  <2>10. \/ c1 = past /\ r1 = contents[words]
         \/ c1 = past - 1 /\ (past >= 2 => r1 = contents[words + 1])
    <3>1. st.index_database >= words /\ past # 0
      BY <2>5, <2>7
    <3> QED
      BY <2>4, <2>7, <3>1 DEF Counted
  <2> HIDE DEF past, words, st, c1, r1, contents, r2
  <2>11. CASE c1 = past /\ r1 = contents[words]
    <3>1. words + 0 = words /\ c1 # 0
      BY <2>5, <2>7, <2>11
    <3>2. r2 = contents[words + 0]
      BY <2>9, <2>11, <3>1
    <3> QED
      BY <3>2 DEF r2, contents, words
  <2>12. CASE c1 = past - 1 /\ (past >= 2 => r1 = contents[words + 1])
    <3>1. (past = 1 /\ c1 = 0) \/ (c1 # 0 /\ past >= 2)
      BY <2>7, <2>12
    <3>2. r2 = contents[words + 1]
      BY <2>9, <2>12, <3>1
    <3> QED
      BY <3>2 DEF r2, contents, words
  <2> QED
    BY <2>10, <2>11, <2>12
<1>4. StreamInv /\ CleanInv /\ FoundedInv /\ Inv /\ [Clock]_vars =>
        [\A s \in Stages :
           /\ trees(s) > 1 /\ Plain(s) /\ clean /\ enable /\ ~inspect_done /\ pass_stage_1
           /\ stage[s].renable /\ Decides(s)
           => \E i \in {0, 1} :
                classifier'[s].r_stage_threshold
                  = build.contents[s][trees(s) * Params + i]]_vars
  <2> HIDE DEF Inv
  <2> QED
    BY <1>3
<1> HIDE DEF Inv
<1> QED
  BY <1>1, <1>2, <1>4, StreamInvHolds, FoundedInvHolds, PTL DEF Spec, ComparedWith

=============================================================================
