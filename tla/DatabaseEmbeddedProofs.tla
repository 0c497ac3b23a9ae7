----------------------- MODULE DatabaseEmbeddedProofs -----------------------
(***************************************************************************)
(* Proofs about DatabaseEmbedded, for any stages, sizes and memories: the  *)
(* types, that it is the loader the frame controller assumes, and what it  *)
(* loads: the changes of the memory's output, and so a memory without      *)
(* equal neighbours word by word.                                          *)
(***************************************************************************)
EXTENDS DatabaseEmbedded, TLAPS, WellFoundedInduction

\* What an edge does to the memory of one stage.
MemoryStep(s) ==
  /\ memory'[s].data = memory[s].word
  /\ load_data[s] => memory'[s].word = contents[s][memory[s].address]
  /\ ~load_data[s] /\ ~reset => memory'[s].word = memory[s].word
  /\ memory'[s].word \in {memory[s].word, contents[s][memory[s].address]}
  /\ memory'[s].address =
       IF reset \/ reset' THEN 0
       ELSE IF load_data[s] THEN NextAddress(memory[s].address, Size[s]) ELSE memory[s].address
  /\ memory'[s] \in MemoryType(Size[s], Words)

LEMMA MemorySteps ==
  ASSUME LoadTypeOK, MemoryEdge, reset' \in BOOLEAN, NEW s \in Stages
  PROVE  MemoryStep(s)
<1> DEFINE m == memory[s]
<1>1. PICK ren \in BOOLEAN :
        /\ memory'[s] = Read(m, contents[s], Size[s], ren, reset \/ reset')
        /\ (ren <=> load_data[s]) \/ (reset /\ ren)
  BY DEF MemoryEdge, LoadTypeOK
<1>2. /\ m \in MemoryType(Size[s], Words)
      /\ contents[s] \in [0 .. Size[s] - 1 -> Words]
      /\ Size[s] \in Nat \ {0, 1}
      /\ reset \in BOOLEAN /\ load_data[s] \in BOOLEAN
  BY LoadAssumption DEF LoadTypeOK
<1>3. /\ m.address \in 0 .. Size[s] - 1 /\ m.word \in Words /\ m.data \in Words
      /\ contents[s][m.address] \in Words
  BY <1>2 DEF MemoryType
<1>4. /\ memory'[s].data = m.word
      /\ memory'[s].word = IF ren THEN contents[s][m.address] ELSE m.word
      /\ memory'[s].address = IF reset \/ reset' THEN 0
                              ELSE IF ren THEN NextAddress(m.address, Size[s]) ELSE m.address
  BY <1>1 DEF Read, Counter
<1>5. NextAddress(m.address, Size[s]) \in 0 .. Size[s] - 1 /\ 0 \in 0 .. Size[s] - 1
  BY <1>2, <1>3 DEF NextAddress
<1>6. memory'[s] \in MemoryType(Size[s], Words)
  <2>1. memory'[s] = [address |-> memory'[s].address, word |-> memory'[s].word,
                      data |-> memory'[s].data]
    BY <1>1 DEF Read, Counter
  <2>2. memory'[s].address \in 0 .. Size[s] - 1
    BY <1>3, <1>4, <1>5
  <2>3. memory'[s].word \in Words /\ memory'[s].data \in Words
    BY <1>3, <1>4
  <2> QED
    BY <2>1, <2>2, <2>3 DEF MemoryType
<1> QED
  BY <1>1, <1>2, <1>4, <1>6 DEF MemoryStep

----------------------------------------------------------------------------
\* The types.  Past its last word a stage counts one more at most: when its load
\* has ended with a word on the way, that word is the last change of the output.
CountInv(s) ==
  /\ load_data[s] => load_count[s] < Size[s]
  /\ ~load_data[s] /\ load_count[s] # Size[s] => memory[s].word = memory[s].data

LoadInv == LoadTypeOK /\ \A s \in Stages : CountInv(s)

LEMMA LoadInvInit == Init => LoadInv
<1> SUFFICES ASSUME Init PROVE LoadInv
  OBVIOUS
<1> USE LoadAssumption DEF Init, PoweredUp
<1>1. ASSUME NEW s \in Stages
      PROVE  /\ memory[s] \in MemoryType(Size[s], Words)
             /\ load_count[s] \in 0 .. Size[s] + 1
             /\ database[s] \in [Index(s) -> Words]
             /\ CountInv(s)
  <2>1. Size[s] \in Nat \ {0, 1}
    OBVIOUS
  <2>2. memory[s] = [address |-> 0, word |-> 0, data |-> 0] /\ load_count[s] = 0
    OBVIOUS
  <2>3. 0 \in 0 .. Size[s] - 1
    BY <2>1
  <2>4. memory[s] \in MemoryType(Size[s], Words)
    BY <2>2, <2>3 DEF MemoryType
  <2>5. database[s] \in [Index(s) -> Words]
    OBVIOUS
  <2> QED
    BY <2>1, <2>2, <2>4, <2>5 DEF CountInv
<1> QED
  BY <1>1 DEF LoadInv, LoadTypeOK

LEMMA LoadInvStep ==
  ASSUME LoadInv, Clock
  PROVE  LoadInv'
<1> USE DEF LoadInv
<1>1. reset \in BOOLEAN /\ reset' \in BOOLEAN /\ contents' \in Contents
  BY DEF Clock, LoadTypeOK
<1>2. ASSUME NEW s \in Stages
      PROVE  /\ memory'[s] \in MemoryType(Size[s], Words)
             /\ load_count'[s] \in 0 .. Size[s] + 1
             /\ load_data'[s] \in BOOLEAN
             /\ database'[s] \in [Index(s) -> Words]
             /\ whole'[s] \in BOOLEAN
             /\ held'[s] \in Words
             /\ CountInv(s)'
  <2> DEFINE old == memory[s]
             new == memory'[s]
  <2>1. MemoryStep(s)
    BY <1>1, MemorySteps DEF Clock
  <2>2. /\ Size[s] \in Nat \ {0, 1}
        /\ old.word \in Words /\ old.data \in Words /\ new.data \in Words
        /\ load_count[s] \in Nat /\ load_count[s] <= Size[s] + 1
        /\ load_data[s] \in BOOLEAN
    BY <2>1, LoadAssumption DEF LoadTypeOK, MemoryType, MemoryStep
  <2>3. /\ load_count'[s] = Count(s) + (IF Arrives(s) THEN 1 ELSE 0)
        /\ load_data'[s] = ((reset \/ load_data[s]) /\ ~LastWord(s))
    BY DEF Clock, StoreWords, LoadFlags
  <2>4. load_data'[s] \in BOOLEAN
    BY <2>3
  <2>5. whole'[s] \in BOOLEAN
    BY <1>1, <2>2, <2>4 DEF Clock, Observe, AtRest, LoadTypeOK
  <2>6. held'[s] \in Words
    BY <2>2 DEF Clock, Observe, LoadTypeOK
  <2>7. database'[s] \in [Index(s) -> Words]
    <3>1. ASSUME NEW i \in Index(s) PROVE database[s][i] \in Words
      BY DEF LoadTypeOK
    <3>2. database'[s] = [i \in Index(s) |->
            IF Arrives(s) /\ i = Count(s) THEN new.data
            ELSE IF reset THEN 0 ELSE database[s][i]]
      BY DEF Clock, StoreWords
    <3> QED
      BY <3>1, <3>2, <2>2, LoadAssumption
  <2>8. load_count'[s] \in 0 .. Size[s] + 1 /\ CountInv(s)'
    <3>1. CASE load_data'[s]
      <4>1. Count(s) \in Nat /\ Count(s) < Size[s]
        BY <2>2, <2>3, <3>1 DEF Count, CountInv
      <4>2. Arrives(s) => Count(s) + 1 # Size[s]
        BY <2>3, <3>1 DEF LastWord
      <4> QED
        BY <2>2, <2>3, <3>1, <4>1, <4>2 DEF CountInv
    <3>2. CASE LastWord(s)
      <4>1. load_count'[s] = Size[s]
        BY <2>2, <2>3, <3>2 DEF LastWord
      <4>2. ~load_data'[s]
        BY <2>3, <3>2
      <4> QED
        BY <2>2, <4>1, <4>2 DEF CountInv
    <3>3. CASE ~reset /\ ~load_data[s] /\ ~LastWord(s)
      <4>1. new.data = old.word /\ new.word = old.word /\ Count(s) = load_count[s]
        BY <2>1, <3>3 DEF MemoryStep, Count
      <4>2. Arrives(s) => load_count[s] = Size[s]
        BY <4>1, <3>3 DEF Arrives, CountInv
      <4>3. ~Arrives(s) => load_count'[s] = load_count[s]
        BY <2>2, <2>3, <4>1
      <4> QED
        BY <2>2, <2>3, <3>3, <4>1, <4>2, <4>3 DEF CountInv
    <3> QED
      BY <1>1, <2>2, <2>3, <3>1, <3>2, <3>3
  <2> QED
    BY <2>1, <2>4, <2>5, <2>6, <2>7, <2>8 DEF MemoryStep
<1> QED
  BY <1>1, <1>2 DEF LoadTypeOK, Index

\* Every register keeps its range: the counter of a stage, which nothing stops at its
\* last word, passes it by one word at most.
THEOREM LoadTypeCorrect == Spec => []LoadTypeOK
<1>1. LoadInv /\ [Clock]_vars => LoadInv'
  <2>1. CASE Clock
    BY <2>1, LoadInvStep
  <2>2. CASE UNCHANGED vars
    BY <2>2 DEF vars, LoadInv, LoadTypeOK, CountInv, Index
  <2> QED
    BY <2>1, <2>2
<1>2. LoadInv => LoadTypeOK
  BY DEF LoadInv
<1> QED
  BY <1>1, <1>2, LoadInvInit, PTL DEF Spec

\* An edge withdraws the database when it sees a reset, and only then.
LEMMA LoadEdgeStep ==
  ASSUME LoadTypeOK, Clock
  PROVE  Frame!LoadEdge(reset)
<1>1. PICK s \in Stages : Size[s] \in Nat \ {0, 1}
  BY LoadAssumption
<1>2. \A t \in Stages : load_data'[t] = ((reset \/ load_data[t]) /\ ~LastWord(t))
  BY DEF Clock, LoadFlags
<1>3. CASE reset
  <2>1. ~LastWord(s)
    BY <1>1, <1>3 DEF LastWord, Count
  <2> QED
    BY <1>1, <1>2, <1>3, <2>1 DEF Frame!LoadEdge, load_done
<1>4. CASE ~reset
  <2>1. load_done => load_done'
    BY <1>2, <1>4 DEF load_done
  <2> QED
    BY <1>4, <2>1 DEF Frame!LoadEdge, load_done
<1> QED
  BY <1>3, <1>4

\* The loader implements what FaceDetection assumes of the database: o_load_done falls
\* with a reset and with nothing else.
THEOREM LoaderImplementsLoading == Spec => LoadsAsSpecified
<1>1. Init => Frame!LoadInit
  BY DEF Init, Frame!LoadInit, load_done
<1>2. LoadTypeOK /\ [Clock]_vars => [Frame!LoadEdge(reset)]_vars
  BY LoadEdgeStep
<1> QED
  BY <1>1, <1>2, LoadTypeCorrect, PTL DEF Spec, LoadsAsSpecified

----------------------------------------------------------------------------
\* Induction over the naturals, for a set.
LEMMA SetInduction ==
  ASSUME NEW T, 0 \in T, \A n \in Nat : n \in T => n + 1 \in T
  PROVE  Nat \subseteq T
<1> DEFINE R == OpToRel(<, Nat)
           B == Nat \ T
<1>1. IsWellFoundedOn(R, Nat)
  BY NatLessThanWellFounded
<1>2. \A x, y \in Nat : x < y => <<x, y>> \in R
  BY DEF OpToRel
<1> HIDE DEF R
<1>3. SUFFICES ASSUME B # {} PROVE FALSE
  OBVIOUS
<1>4. PICK x \in B : \A y \in B : ~(<<y, x>> \in R)
  <2>1. B \subseteq Nat
    OBVIOUS
  <2> HIDE DEF B
  <2> QED
    BY <1>1, <1>3, <2>1, WFMin
<1>5. x \in Nat /\ x # 0
  OBVIOUS
<1>6. x - 1 \in Nat /\ x - 1 < x /\ (x - 1) + 1 = x
  BY <1>5
<1>7. x - 1 \in B
  BY <1>6
<1> QED
  BY <1>2, <1>4, <1>5, <1>6, <1>7

----------------------------------------------------------------------------
\* Places of the stream, which runs around the end of the memory.
LEMMA Remainder ==
  ASSUME NEW n \in Nat \ {0}, NEW q \in Nat, NEW k \in Int, NEW a \in 0 .. n - 1, q = k * n + a
  PROVE  q % n = a
<1>1. q % n \in 0 .. n - 1 /\ q \div n \in Int /\ q = n * (q \div n) + (q % n)
  OBVIOUS
<1> DEFINE r == q % n
           d == q \div n - k
<1>2. r \in 0 .. n - 1 /\ d \in Int
  BY <1>1
<1>3. a - r = d * n
  BY <1>1
<1> HIDE DEF r, d
<1>4. ~(d >= 1)
  <2> SUFFICES ASSUME d >= 1 PROVE FALSE
    OBVIOUS
  <2>1. d * n >= n
    BY <1>2
  <2> QED
    BY <1>2, <1>3, <2>1
<1>5. ~(d <= 0 - 1)
  <2> SUFFICES ASSUME d <= 0 - 1 PROVE FALSE
    OBVIOUS
  <2>1. d * n <= 0 - n
    BY <1>2
  <2> QED
    BY <1>2, <1>3, <2>1
<1>6. d = 0
  BY <1>2, <1>4, <1>5
<1>7. a = r
  BY <1>2, <1>3, <1>6
<1> QED
  BY <1>7 DEF r

LEMMA StreamPlaces ==
  ASSUME NEW s \in Stages, NEW q \in Nat
  PROVE  /\ Size[s] \in Nat /\ Size[s] >= 2 /\ q % Size[s] \in Index(s)
         /\ (q + Size[s]) % Size[s] = q % Size[s]
         /\ (q + 1) % Size[s] = NextAddress(q % Size[s], Size[s])
         /\ q < Size[s] => q % Size[s] = q
<1>1. Size[s] \in Nat /\ Size[s] >= 2
  BY LoadAssumption
<1>2. PICK n \in Nat \ {0} : n = Size[s]
  BY <1>1
<1>3. PICK k \in Int, a \in 0 .. n - 1 : k = q \div n /\ a = q % n /\ q = n * k + a
  OBVIOUS
<1>4. (q + n) % n = a
  <2>1. q + n = (k + 1) * n + a /\ q + n \in Nat /\ k + 1 \in Int
    BY <1>3
  <2> QED
    BY <2>1, Remainder
<1>5. (q + 1) % n = NextAddress(a, n)
  <2>1. CASE a = n - 1
    <3>1. q + 1 = (k + 1) * n + 0 /\ q + 1 \in Nat /\ k + 1 \in Int /\ 0 \in 0 .. n - 1
      BY <1>3, <2>1
    <3>2. (q + 1) % n = 0
      BY <3>1, Remainder
    <3> QED
      BY <2>1, <3>2 DEF NextAddress
  <2>2. CASE a # n - 1
    <3>1. q + 1 = k * n + (a + 1) /\ q + 1 \in Nat /\ a + 1 \in 0 .. n - 1
      BY <1>3, <2>2
    <3>2. (q + 1) % n = a + 1
      BY <3>1, Remainder
    <3> QED
      BY <2>2, <3>2 DEF NextAddress
  <2> QED
    BY <2>1, <2>2
<1>6. q < n => q % n = q
  <2> SUFFICES ASSUME q < n PROVE q % n = q
    OBVIOUS
  <2>1. q = 0 * n + q /\ 0 \in Int /\ q \in 0 .. n - 1
    OBVIOUS
  <2> QED
    BY <2>1, Remainder
<1> QED
  BY <1>1, <1>2, <1>3, <1>4, <1>5, <1>6 DEF Index

----------------------------------------------------------------------------
\* The stream of a memory.
StreamOf(s) == [q \in Nat |-> Stream(s, q)]

\* From place p on, place n is the first of the stream that does not hold the word.
FirstChange(stream, word, p, n) ==
  /\ p <= n /\ stream[n] # word
  /\ \A q \in Nat : p <= q /\ q < n => stream[q] = word

\* The word and the place before the k-th change, when f gives the places of the
\* changes and the output held the word before the first.
WordBefore(stream, word, f, k) == IF k = 0 THEN word ELSE stream[f[k - 1]]
PlaceBefore(f, k) == IF k = 0 THEN 0 ELSE f[k - 1]

\* The registers counted hold the words at the changes.
Stored(stream, word, registers, count, size, f) ==
  \A k \in 0 .. size - 1 : k < count =>
    /\ FirstChange(stream, WordBefore(stream, word, f, k), PlaceBefore(f, k), f[k])
    /\ registers[k] = stream[f[k]]

\* The output has given the first n words of the stream, and no change of them is
\* left to be counted.
Passed(stream, word, output, count, f, n) ==
  /\ count # 0 => f[count - 1] < n
  /\ \A q \in Nat : PlaceBefore(f, count) <= q /\ q < n => stream[q] = WordBefore(stream, word, f, count)
  /\ output = WordBefore(stream, word, f, count)

\* Word n is stored and counted if it differs from the output.
Stores(stream, n, output, count, size, registers, count2, registers2) ==
  /\ count2 = count + (IF stream[n] # output THEN 1 ELSE 0)
  /\ \A i \in 0 .. size - 1 : registers2[i] =
       IF stream[n] # output /\ i = count THEN stream[n] ELSE registers[i]

\* The next word of the stream is given.
LEMMA Advance ==
  ASSUME NEW stream, NEW word, NEW size \in Nat, NEW f \in [0 .. size - 1 -> Nat],
         NEW registers, NEW output, NEW count \in Nat, count < size, NEW n \in Nat,
         Stored(stream, word, registers, count, size, f),
         Passed(stream, word, output, count, f, n),
         NEW registers2, NEW count2,
         Stores(stream, n, output, count, size, registers, count2, registers2)
  PROVE  \E g \in [0 .. size - 1 -> Nat] :
           /\ Stored(stream, word, registers2, count2, size, g)
           /\ Passed(stream, word, stream[n], count2, g, n + 1)
<1> DEFINE before == WordBefore(stream, word, f, count)
           place == PlaceBefore(f, count)
<1> USE DEF Stores
<1>1. count \in 0 .. size - 1 /\ (count # 0 => count - 1 \in 0 .. size - 1)
  OBVIOUS
<1>2. /\ place \in Nat /\ place <= n /\ output = before
      /\ count # 0 => f[count - 1] < n
      /\ \A q \in Nat : place <= q /\ q < n => stream[q] = before
  BY <1>1 DEF Passed, PlaceBefore
<1>3. CASE stream[n] = output
  <2>1. count2 = count /\ \A i \in 0 .. size - 1 : registers2[i] = registers[i]
    BY <1>3
  <2>2. Stored(stream, word, registers2, count2, size, f)
    BY <2>1 DEF Stored
  <2>3. \A q \in Nat : place <= q /\ q < n + 1 => stream[q] = before
    <3> SUFFICES ASSUME NEW q \in Nat, place <= q, q < n + 1 PROVE stream[q] = before
      OBVIOUS
    <3> HIDE DEF before, place
    <3>1. q < n \/ q = n
      OBVIOUS
    <3> QED
      BY <1>2, <1>3, <3>1
  <2>4. count # 0 => f[count - 1] < n + 1
    BY <1>1, <1>2
  <2>5. Passed(stream, word, stream[n], count2, f, n + 1)
    BY <1>2, <1>3, <2>1, <2>3, <2>4 DEF Passed
  <2> QED
    BY <2>2, <2>5
<1>4. CASE stream[n] # output
  <2> DEFINE g == [f EXCEPT ![count] = n]
  <2>1. g \in [0 .. size - 1 -> Nat]
    OBVIOUS
  <2>2. g[count] = n /\ \A k \in 0 .. size - 1 : k # count => g[k] = f[k]
    BY <1>1
  <2> HIDE DEF g
  <2>3. count2 = count + 1 /\ registers2[count] = stream[n]
        /\ \A i \in 0 .. size - 1 : i # count => registers2[i] = registers[i]
    BY <1>1, <1>4
  <2>4. ASSUME NEW k \in 0 .. size - 1, k < count2
        PROVE  /\ FirstChange(stream, WordBefore(stream, word, g, k), PlaceBefore(g, k), g[k])
               /\ registers2[k] = stream[g[k]]
    <3>1. k # 0 => k - 1 \in 0 .. size - 1 /\ k - 1 # count
      BY <2>3, <2>4
    <3>2. WordBefore(stream, word, g, k) = WordBefore(stream, word, f, k)
          /\ PlaceBefore(g, k) = PlaceBefore(f, k)
      BY <2>2, <3>1 DEF WordBefore, PlaceBefore
    <3>3. CASE k = count
      <4>1. FirstChange(stream, before, place, n)
        BY <1>2, <1>4 DEF FirstChange
      <4> QED
        BY <2>2, <2>3, <3>2, <3>3, <4>1
    <3>4. CASE k # count
      <4>1. k < count
        BY <2>3, <2>4, <3>4
      <4> QED
        BY <2>2, <2>3, <3>2, <3>4, <4>1 DEF Stored
    <3> QED
      BY <3>3, <3>4
  <2>5. Stored(stream, word, registers2, count2, size, g)
    BY <2>4 DEF Stored
  <2>6. count2 # 0 /\ count2 - 1 = count
    BY <2>3
  <2>7. WordBefore(stream, word, g, count2) = stream[n] /\ PlaceBefore(g, count2) = n
    BY <2>2, <2>6 DEF WordBefore, PlaceBefore
  <2>8. \A q \in Nat : n <= q /\ q < n + 1 => stream[q] = stream[n]
    <3> SUFFICES ASSUME NEW q \in Nat, n <= q, q < n + 1 PROVE q = n
      OBVIOUS
    <3> QED
      OBVIOUS
  <2>9. Passed(stream, word, stream[n], count2, g, n + 1)
    BY <2>2, <2>6, <2>7, <2>8 DEF Passed
  <2> QED
    BY <2>1, <2>5, <2>9
<1> QED
  BY <1>3, <1>4

----------------------------------------------------------------------------
Counted(s, f) == Stored(StreamOf(s), held[s], database[s], load_count[s], Size[s], f)
Given(s, f, n) == Passed(StreamOf(s), held[s], memory[s].data, load_count[s], f, n)

\* Where the memory is when its output has given the first n words.  The reset holds
\* the counter, so that the first word may be read twice.
Begins(s, f) ==
  Given(s, f, 0) /\ memory[s].address = 0 /\ memory[s].word \in {held[s], contents[s][0]}

Repeats(s, f) ==
  Given(s, f, 1) /\ memory[s].address \in {0, 1} /\ memory[s].word = contents[s][0]

Streams(s, f) ==
  \E n \in Nat :
    /\ Given(s, f, n)
    /\ memory[s].word = Stream(s, n)
    /\ memory[s].address = (n + 1) % Size[s]

\* A load that was not cut short has counted the changes of what the output gave.
Loads(s) ==
  \E f \in [Index(s) -> Nat] :
    /\ Counted(s, f)
    /\ load_data[s] => Begins(s, f) \/ Repeats(s, f) \/ (~reset /\ Streams(s, f))

WholeInv(s) ==
  /\ reset => memory[s].address = 0
  /\ whole[s] =>
       /\ reset /\ ~load_data[s] => memory[s].word = memory[s].data
       /\ load_data[s] \/ ~reset => Loads(s)
       /\ ~load_data[s] /\ ~reset => load_count[s] >= Size[s]

\* What an edge does to the registers of one stage.
LEMMA StageStep ==
  ASSUME LoadInv, Clock, NEW s \in Stages
  PROVE  /\ MemoryStep(s)
         /\ Size[s] \in Nat /\ Size[s] >= 2 /\ load_count[s] \in Nat
         /\ load_data[s] \in BOOLEAN /\ reset \in BOOLEAN /\ reset' \in BOOLEAN
         /\ memory[s].address \in 0 .. Size[s] - 1
         /\ load_count'[s] = Count(s) + (IF Arrives(s) THEN 1 ELSE 0)
         /\ load_data'[s] = ((reset \/ load_data[s]) /\ ~LastWord(s))
         /\ \A i \in Index(s) : database'[s][i] =
              IF Arrives(s) /\ i = Count(s) THEN memory'[s].data
              ELSE IF reset THEN 0 ELSE database[s][i]
         /\ whole'[s] = IF ~reset /\ reset' THEN AtRest(s)' ELSE whole[s]
         /\ held'[s] =
              IF reset THEN IF Arrives(s) THEN memory[s].data ELSE memory'[s].data
              ELSE held[s]
         /\ contents' = contents
<1>1. reset \in BOOLEAN /\ reset' \in BOOLEAN /\ contents' = contents
  BY DEF Clock, LoadInv, LoadTypeOK
<1>2. MemoryStep(s)
  BY <1>1, MemorySteps DEF Clock, LoadInv
<1>3. Size[s] \in Nat /\ Size[s] >= 2
  BY LoadAssumption
<1>4. /\ load_count[s] \in Nat /\ load_data[s] \in BOOLEAN
      /\ memory[s].address \in 0 .. Size[s] - 1
  BY <1>3 DEF LoadInv, LoadTypeOK, MemoryType
<1>5. /\ load_count'[s] = Count(s) + (IF Arrives(s) THEN 1 ELSE 0)
      /\ load_data'[s] = ((reset \/ load_data[s]) /\ ~LastWord(s))
      /\ \A i \in Index(s) : database'[s][i] =
           IF Arrives(s) /\ i = Count(s) THEN memory'[s].data
           ELSE IF reset THEN 0 ELSE database[s][i]
  BY DEF Clock, StoreWords, LoadFlags
<1>6. /\ whole'[s] = IF ~reset /\ reset' THEN AtRest(s)' ELSE whole[s]
      /\ held'[s] =
           IF reset THEN IF Arrives(s) THEN memory[s].data ELSE memory'[s].data
           ELSE held[s]
  BY DEF Clock, Observe
<1> QED
  BY <1>1, <1>2, <1>3, <1>4, <1>5, <1>6

LEMMA StreamStays ==
  ASSUME contents' = contents, NEW s
  PROVE  /\ \A q \in Nat : Stream(s, q)' = Stream(s, q) /\ StreamOf(s)[q] = Stream(s, q)
         /\ StreamOf(s)' = StreamOf(s)
  BY DEF Stream, StreamOf

LEMMA StreamStart ==
  ASSUME NEW s \in Stages
  PROVE  /\ StreamOf(s)[0] = contents[s][0] /\ StreamOf(s)[1] = contents[s][1]
         /\ 1 % Size[s] = 1
<1>1. Size[s] \in Nat /\ Size[s] >= 2 /\ 0 \in Nat /\ 1 \in Nat
  BY LoadAssumption
<1>2. 0 % Size[s] = 0 /\ 1 % Size[s] = 1
  BY <1>1, StreamPlaces
<1> QED
  BY <1>1, <1>2 DEF StreamOf, Stream

\* Before the first word the output is what it was.
LEMMA GivenNone ==
  ASSUME NEW s \in Stages, load_count[s] \in Nat, load_count[s] <= Size[s],
         NEW f \in [Index(s) -> Nat], Given(s, f, 0)
  PROVE  load_count[s] = 0 /\ memory[s].data = held[s]
<1>1. load_count[s] = 0
  <2> SUFFICES ASSUME load_count[s] # 0 PROVE FALSE
    OBVIOUS
  <2>0. Size[s] \in Nat
    BY LoadAssumption
  <2>1. load_count[s] - 1 \in Index(s) /\ f[load_count[s] - 1] < 0
    BY <2>0 DEF Given, Passed, Index
  <2>2. f[load_count[s] - 1] \in Nat
    BY <2>1
  <2> QED
    BY <2>1, <2>2
<1> QED
  BY <1>1 DEF Given, Passed, WordBefore

\* When the output has given the first word, it is that word.
LEMMA GivenFirst ==
  ASSUME NEW s \in Stages, load_count[s] \in Nat, load_count[s] <= Size[s],
         NEW f \in [Index(s) -> Nat], Given(s, f, 1)
  PROVE  memory[s].data = contents[s][0]
<1> DEFINE c == load_count[s]
<1>1. StreamOf(s)[0] = contents[s][0] /\ Size[s] \in Nat
  BY StreamStart, StreamPlaces
<1>2. CASE c = 0
  <2>1. 0 \in Nat /\ PlaceBefore(f, c) <= 0 /\ 0 < 1
    BY <1>2 DEF PlaceBefore
  <2> QED
    BY <1>1, <2>1 DEF Given, Passed
<1>3. CASE c # 0
  <2>1. c - 1 \in Index(s) /\ f[c - 1] \in Nat /\ f[c - 1] < 1
    BY <1>1, <1>3 DEF Given, Passed, Index
  <2>2. f[c - 1] = 0
    BY <2>1
  <2> QED
    BY <1>1, <1>3, <2>2 DEF Given, Passed, WordBefore
<1> QED
  BY <1>2, <1>3

\* An edge at which the reset is up, of a load that was not cut short.
LEMMA ResetStep ==
  ASSUME LoadInv, Clock, NEW s \in Stages, WholeInv(s), whole[s], reset
  PROVE  load_data'[s] /\ Loads(s)'
<1> DEFINE first == contents[s][0]
           stream == StreamOf(s)
           f == [k \in Index(s) |-> 0]
<1> USE StageStep
<1>1. memory[s].address = 0 /\ Count(s) = 0 /\ memory'[s].data = memory[s].word
  BY DEF WholeInv, Count, MemoryStep
<1>2. load_data'[s]
  <2>1. ~LastWord(s)
    BY <1>1 DEF LastWord
  <2> QED
    BY <2>1
<1>3. /\ memory'[s].address = 0 /\ memory'[s].word \in {memory[s].word, first}
      /\ load_data[s] => memory'[s].word = first
  BY <1>1 DEF MemoryStep
<1>4. stream[0] = first /\ stream' = stream /\ contents' = contents
  BY StreamStart, StreamStays
<1>5. f \in [Index(s) -> Nat] /\ 0 \in Index(s) /\ f[0] = 0 /\ Index(s) = 0 .. Size[s] - 1
  BY DEF Index
<1> HIDE DEF stream, f
<1>6. CASE ~Arrives(s)
  <2>1. load_count'[s] = 0 /\ held'[s] = memory'[s].data
    BY <1>1, <1>6
  <2>2. Stored(stream, held'[s], database'[s], load_count'[s], Size[s], f)
    BY <2>1 DEF Stored
  <2>3. memory[s].word = memory[s].data
    BY <1>1, <1>6 DEF Arrives
  <2>4. Passed(stream, held'[s], memory'[s].data, load_count'[s], f, 0)
    BY <2>1 DEF Passed, WordBefore, PlaceBefore
  <2>5. memory'[s].word \in {held'[s], first}
    BY <1>1, <1>3, <2>1
  <2>6. Counted(s, f)' /\ Begins(s, f)'
    BY <1>3, <1>4, <2>2, <2>4, <2>5 DEF Counted, Begins, Given, stream
  <2> QED
    BY <1>2, <1>5, <2>6 DEF Loads, Index
<1>7. CASE Arrives(s)
  <2>1. memory[s].word # memory[s].data
    BY <1>1, <1>7 DEF Arrives
  <2>2. load_data[s] /\ Loads(s)
    BY <2>1 DEF WholeInv
  <2>3. memory[s].word = first /\ memory[s].data # first
    <3>1. PICK g \in [Index(s) -> Nat] : Begins(s, g) \/ Repeats(s, g)
      BY <2>2 DEF Loads
    <3>2. CASE Begins(s, g)
      <4>1. memory[s].data = held[s]
        BY <2>2, <3>2, GivenNone DEF Begins, LoadInv, CountInv
      <4> QED
        BY <2>1, <3>2, <4>1 DEF Begins
    <3>3. CASE Repeats(s, g)
      <4>1. memory[s].data = first
        BY <2>2, <3>3, GivenFirst DEF Repeats, LoadInv, CountInv
      <4> QED
        BY <2>1, <3>3, <4>1 DEF Repeats
    <3> QED
      BY <3>1, <3>2, <3>3
  <2>4. load_count'[s] = 1 /\ held'[s] = memory[s].data /\ database'[s][0] = first
    BY <1>1, <1>5, <1>7, <2>3
  <2>5. Stored(stream, held'[s], database'[s], load_count'[s], Size[s], f)
    <3> SUFFICES ASSUME NEW k \in 0 .. Size[s] - 1, k < 1
                 PROVE  /\ FirstChange(stream, WordBefore(stream, held'[s], f, k), PlaceBefore(f, k), f[k])
                        /\ database'[s][k] = stream[f[k]]
      BY <2>4 DEF Stored
    <3>1. k = 0
      OBVIOUS
    <3> QED
      BY <1>4, <1>5, <2>3, <2>4, <3>1 DEF FirstChange, WordBefore, PlaceBefore
  <2>6. Passed(stream, held'[s], memory'[s].data, load_count'[s], f, 1)
    <3>1. \A q \in Nat : 0 <= q /\ q < 1 => q = 0
      OBVIOUS
    <3> QED
      BY <1>1, <1>4, <1>5, <2>3, <2>4, <3>1 DEF Passed, WordBefore, PlaceBefore
  <2>7. Counted(s, f)' /\ Repeats(s, f)'
    BY <1>3, <1>4, <2>2, <2>5, <2>6 DEF Counted, Repeats, Given, stream
  <2> QED
    BY <1>2, <1>5, <2>7 DEF Loads, Index
<1> QED
  BY <1>6, <1>7

\* The word at n is on its way to the output.
LEMMA GivesNext ==
  ASSUME LoadInv, Clock, NEW s \in Stages, ~reset, load_data[s],
         NEW f \in [Index(s) -> Nat], Counted(s, f), NEW n \in Nat, Given(s, f, n),
         memory[s].word = Stream(s, n)
  PROVE  \E g \in [Index(s) -> Nat] : Counted(s, g)' /\ Given(s, g, n + 1)'
<1> DEFINE stream == StreamOf(s)
<1> USE StageStep
<1>1. /\ Count(s) = load_count[s] /\ held'[s] = held[s] /\ load_count[s] < Size[s]
      /\ memory'[s].data = stream[n] /\ contents' = contents
      /\ Index(s) = 0 .. Size[s] - 1
  BY StreamStays DEF Count, LoadInv, CountInv, MemoryStep, Index
<1>2. Arrives(s) <=> stream[n] # memory[s].data
  BY <1>1 DEF Arrives
<1>3. load_count'[s] = load_count[s] + (IF stream[n] # memory[s].data THEN 1 ELSE 0)
  <2>1. load_count'[s] = load_count[s] + (IF Arrives(s) THEN 1 ELSE 0)
    BY <1>1
  <2> QED
    BY <1>2, <2>1, Zenon
<1>4. \A i \in 0 .. Size[s] - 1 : database'[s][i] =
        IF stream[n] # memory[s].data /\ i = load_count[s] THEN stream[n] ELSE database[s][i]
  BY <1>1, <1>2
<1>5. stream' = stream
  BY <1>1, StreamStays
<1> HIDE DEF stream
<1>6. \E g \in [0 .. Size[s] - 1 -> Nat] :
        /\ Stored(stream, held[s], database'[s], load_count'[s], Size[s], g)
        /\ Passed(stream, held[s], stream[n], load_count'[s], g, n + 1)
  <2>1. PICK size \in Nat, count \in Nat :
          /\ size = Size[s] /\ count = load_count[s] /\ count < size
    BY <1>1
  <2>2. PICK registers, output, count2, registers2, word :
          /\ registers = database[s] /\ output = memory[s].data /\ word = held[s]
          /\ count2 = load_count'[s] /\ registers2 = database'[s]
    OBVIOUS
  <2>3. /\ Stored(stream, word, registers, count, size, f)
        /\ Passed(stream, word, output, count, f, n)
    BY <2>1, <2>2 DEF Counted, Given, stream
  <2>4. Stores(stream, n, output, count, size, registers, count2, registers2)
    BY <1>3, <1>4, <2>1, <2>2 DEF Stores
  <2>a. f \in [0 .. size - 1 -> Nat]
    BY <1>1, <2>1
  <2>5. \E g \in [0 .. size - 1 -> Nat] :
          /\ Stored(stream, word, registers2, count2, size, g)
          /\ Passed(stream, word, stream[n], count2, g, n + 1)
    BY <2>1, <2>3, <2>4, <2>a, Advance
  <2> QED
    BY <2>1, <2>2, <2>5
<1>7. PICK g \in [Index(s) -> Nat] :
        /\ Stored(stream, held'[s], database'[s], load_count'[s], Size[s], g)
        /\ Passed(stream, held'[s], memory'[s].data, load_count'[s], g, n + 1)
  BY <1>1, <1>6
<1>8. Counted(s, g)' /\ Given(s, g, n + 1)'
  BY <1>5, <1>7 DEF Counted, Given, stream
<1> QED
  BY <1>7, <1>8

\* A word that is no change leaves the load where it is.
LEMMA GivesAgain ==
  ASSUME LoadInv, Clock, NEW s \in Stages, ~reset, ~Arrives(s),
         NEW f \in [Index(s) -> Nat], Counted(s, f), NEW n \in Nat, Given(s, f, n)
  PROVE  Counted(s, f)' /\ Given(s, f, n)'
<1> USE StageStep
<1>1. /\ load_count'[s] = load_count[s] /\ held'[s] = held[s]
      /\ memory'[s].data = memory[s].data /\ StreamOf(s)' = StreamOf(s)
  BY StreamStays DEF Count, Arrives
<1>2. \A i \in 0 .. Size[s] - 1 : database'[s][i] = database[s][i]
  BY DEF Index
<1>3. Counted(s, f)'
  BY <1>1, <1>2 DEF Counted, Stored
<1> QED
  BY <1>1, <1>3 DEF Given

\* An edge of a load with no reset before or after it.
LEMMA LoadingStep ==
  ASSUME LoadInv, Clock, NEW s \in Stages, WholeInv(s), whole[s], ~reset, ~reset', load_data[s]
  PROVE  Loads(s)' /\ (~load_data'[s] => load_count'[s] >= Size[s])
<1> DEFINE first == contents[s][0]
<1> USE StageStep
<1>1. ~load_data'[s] => load_count'[s] >= Size[s]
  <2>1. Count(s) = load_count[s]
    BY DEF Count
  <2> QED
    BY <2>1 DEF LastWord
<1>2. /\ memory'[s].data = memory[s].word
      /\ memory'[s].word = contents[s][memory[s].address]
      /\ memory'[s].address = NextAddress(memory[s].address, Size[s])
      /\ contents' = contents /\ held'[s] = held[s]
  BY DEF MemoryStep
<1>3. PICK f \in [Index(s) -> Nat] :
        Counted(s, f) /\ (Begins(s, f) \/ Repeats(s, f) \/ Streams(s, f))
  BY DEF WholeInv, Loads
<1>4. /\ Stream(s, 0) = first /\ Stream(s, 1) = contents[s][1] /\ 1 % Size[s] = 1
      /\ \A q \in Nat : Stream(s, q)' = Stream(s, q)
      /\ \A q \in Nat : Stream(s, q) = contents[s][q % Size[s]]
  <2>1. \A q \in Nat : Stream(s, q)' = Stream(s, q) /\ StreamOf(s)[q] = Stream(s, q)
    BY <1>2, StreamStays
  <2>2. StreamOf(s)[0] = first /\ StreamOf(s)[1] = contents[s][1] /\ 1 % Size[s] = 1
    BY StreamStart
  <2> QED
    BY <2>1, <2>2 DEF Stream
<1>5. \A q \in Nat : NextAddress(q % Size[s], Size[s]) = (q + 1) % Size[s]
  BY StreamPlaces
<1>6. NextAddress(0, Size[s]) = 1 /\ load_count[s] <= Size[s]
  BY DEF NextAddress, LoadInv, CountInv
<1>7. SUFFICES ASSUME NEW g \in [Index(s) -> Nat], Counted(s, g)',
                      (Repeats(s, g) \/ Streams(s, g))'
               PROVE  Loads(s)'
  <2>1. \E g \in [Index(s) -> Nat] : Counted(s, g)' /\ (Repeats(s, g) \/ Streams(s, g))'
    <3>1. CASE Begins(s, f)
      <4>1. memory[s].data = held[s] /\ memory[s].address = 0 /\ memory[s].word \in {held[s], first}
        BY <1>6, <3>1, GivenNone DEF Begins
      <4>2. memory'[s].address = 1 /\ memory'[s].word = first
        BY <1>2, <1>6, <4>1
      <4>3. CASE Arrives(s)
        <5>1. memory[s].word = Stream(s, 0)
          BY <1>2, <1>4, <4>1, <4>3 DEF Arrives
        <5>2. PICK g \in [Index(s) -> Nat] : Counted(s, g)' /\ Given(s, g, 0 + 1)'
          BY <1>3, <3>1, <5>1, GivesNext DEF Begins
        <5>3. Given(s, g, 1)'
          BY <5>2
        <5>4. Repeats(s, g)'
          BY <1>2, <4>2, <5>3 DEF Repeats
        <5> QED
          BY <5>2, <5>4
      <4>4. CASE ~Arrives(s)
        <5>1. Counted(s, f)' /\ Given(s, f, 0)'
          BY <1>3, <3>1, <4>4, GivesAgain DEF Begins
        <5>2. memory'[s].word = Stream(s, 0)' /\ memory'[s].address = (0 + 1) % Size[s]
          BY <1>4, <4>2
        <5>3. Streams(s, f)'
          BY <5>1, <5>2 DEF Streams
        <5> QED
          BY <5>1, <5>3
      <4> QED
        BY <4>3, <4>4
    <3>2. CASE Repeats(s, f)
      <4>1. memory[s].data = first /\ memory[s].word = first /\ memory[s].address \in {0, 1}
        BY <1>6, <3>2, GivenFirst DEF Repeats
      <4>2. Counted(s, f)' /\ Given(s, f, 1)'
        BY <1>2, <1>3, <3>2, <4>1, GivesAgain DEF Arrives, Repeats
      <4>3. CASE memory[s].address = 0
        <5>1. memory'[s].address = 1 /\ memory'[s].word = first
          BY <1>2, <1>6, <4>3
        <5>2. Repeats(s, f)'
          BY <1>2, <4>2, <5>1 DEF Repeats
        <5> QED
          BY <4>2, <5>2
      <4>4. CASE memory[s].address = 1
        <5>1. memory'[s].word = Stream(s, 1)' /\ memory'[s].address = (1 + 1) % Size[s]
          BY <1>2, <1>4, <1>5, <4>4
        <5>2. Streams(s, f)'
          BY <4>2, <5>1 DEF Streams
        <5> QED
          BY <4>2, <5>2
      <4> QED
        BY <4>1, <4>3, <4>4
    <3>3. CASE Streams(s, f)
      <4>1. PICK n \in Nat :
              Given(s, f, n) /\ memory[s].word = Stream(s, n) /\ memory[s].address = (n + 1) % Size[s]
        BY <3>3 DEF Streams
      <4>2. PICK g \in [Index(s) -> Nat] : Counted(s, g)' /\ Given(s, g, n + 1)'
        BY <1>3, <4>1, GivesNext
      <4>3. n + 1 \in Nat
        OBVIOUS
      <4>4. memory'[s].word = Stream(s, n + 1)' /\ memory'[s].address = ((n + 1) + 1) % Size[s]
        BY <1>2, <1>4, <1>5, <4>1, <4>3
      <4>5. Streams(s, g)'
        BY <4>2, <4>3, <4>4 DEF Streams
      <4> QED
        BY <4>2, <4>5
    <3> QED
      BY <1>3, <3>1, <3>2, <3>3
  <2> QED
    BY <1>1, <2>1
<1>8. Repeats(s, g)' \/ (~reset /\ Streams(s, g))'
  BY <1>7
<1> QED
  BY <1>7, <1>8 DEF Loads, Index

\* When the load has ended nothing is stored any more.
LEMMA LoadedStep ==
  ASSUME LoadInv, Clock, NEW s \in Stages, WholeInv(s), whole[s], ~reset, ~load_data[s]
  PROVE  ~load_data'[s] /\ load_count'[s] >= Size[s] /\ Loads(s)'
<1> USE StageStep
<1>1. Count(s) = load_count[s] /\ load_count[s] >= Size[s] /\ held'[s] = held[s]
  BY DEF WholeInv, Count
<1>2. ~load_data'[s] /\ load_count'[s] >= Size[s]
  BY <1>1
<1>3. PICK f \in [Index(s) -> Nat] : Counted(s, f)
  BY DEF WholeInv, Loads
<1>4. \A i \in Index(s) : i # Count(s) /\ database'[s][i] = database[s][i]
  <2> SUFFICES ASSUME NEW i \in Index(s) PROVE i # Count(s) /\ database'[s][i] = database[s][i]
    OBVIOUS
  <2>1. i # Count(s)
    BY <1>1 DEF Index
  <2> QED
    BY <2>1
<1>5. StreamOf(s)' = StreamOf(s)
  BY StreamStays
<1>6. Counted(s, f)'
  <2>1. \A k \in 0 .. Size[s] - 1 : k < load_count[s] /\ database'[s][k] = database[s][k]
    BY <1>1, <1>4 DEF Index
  <2> QED
    BY <1>1, <1>3, <1>5, <2>1 DEF Counted, Stored
<1> QED
  BY <1>2, <1>3, <1>6 DEF Loads, Index

LEMMA WholeStep ==
  ASSUME LoadInv, Clock, NEW s \in Stages, WholeInv(s)
  PROVE  WholeInv(s)'
<1>1. reset' => memory'[s].address = 0
  BY StageStep DEF MemoryStep
<1>2. CASE ~reset /\ reset'
  <2>1. whole'[s] => AtRest(s)'
    BY <1>2, StageStep
  <2> QED
    BY <1>1, <1>2, <2>1 DEF AtRest, WholeInv
<1>3. CASE reset \/ ~reset'
  <2>1. whole'[s] = whole[s]
    BY <1>3, StageStep
  <2> SUFFICES ASSUME whole[s]
               PROVE  /\ reset' /\ ~load_data'[s] => memory'[s].word = memory'[s].data
                      /\ load_data'[s] \/ ~reset' => Loads(s)'
                      /\ ~load_data'[s] /\ ~reset' => load_count'[s] >= Size[s]
    BY <1>1, <2>1 DEF WholeInv
  <2>2. CASE reset
    BY <2>2, ResetStep
  <2>3. CASE ~reset /\ load_data[s]
    BY <1>3, <2>3, LoadingStep
  <2>4. CASE ~reset /\ ~load_data[s]
    BY <1>3, <2>4, LoadedStep
  <2> QED
    BY <2>2, <2>3, <2>4, StageStep
<1> QED
  BY <1>2, <1>3, StageStep

----------------------------------------------------------------------------
\* The places found are those of LoadsChanges: a change comes within one round.
LEMMA ChangeIs ==
  ASSUME NEW s \in Stages, NEW word, NEW p \in Nat, NEW n \in Nat,
         FirstChange(StreamOf(s), word, p, n)
  PROVE  ChangeAfter(s, word, p) = n
<1>1. /\ p <= n /\ Stream(s, n) # word
      /\ \A q \in Nat : p <= q /\ q < n => Stream(s, q) = word
  BY DEF FirstChange, StreamOf
<1>2. PICK size \in Nat : size = Size[s] /\ size >= 2
  BY LoadAssumption
<1>3. n <= p + size
  <2> SUFFICES ASSUME n > p + size PROVE FALSE
    OBVIOUS
  <2>1. PICK q \in Nat : n = q + size /\ p <= q /\ q < n
    <3>1. n - size \in Nat /\ n = (n - size) + size /\ p <= n - size /\ n - size < n
      BY <1>2
    <3> QED
      BY <3>1
  <2>2. n % Size[s] = q % Size[s]
    BY <1>2, <2>1, StreamPlaces
  <2>3. Stream(s, n) = Stream(s, q)
    BY <2>2 DEF Stream
  <2> QED
    BY <1>1, <2>1, <2>3
<1> DEFINE T == {q \in p .. p + Size[s] : Stream(s, q) # word}
<1>4. n \in T /\ \A q \in T : n <= q /\ q \in Int
  BY <1>1, <1>2, <1>3
<1>5. ChangeAfter(s, word, p) = Min(T)
  BY DEF ChangeAfter
<1> HIDE DEF T
<1>6. Min(T) \in T /\ \A y \in T : Min(T) <= y
  BY <1>4 DEF Min
<1>7. PICK m : m = Min(T)
  OBVIOUS
<1>8. m \in Int /\ n <= m /\ m <= n
  BY <1>4, <1>6, <1>7
<1>9. m = n
  BY <1>8
<1> QED
  BY <1>5, <1>7, <1>9

LEMMA ChangesAre ==
  ASSUME NEW s \in Stages, load_count[s] \in Nat, load_count[s] >= Size[s],
         NEW f \in [Index(s) -> Nat], Counted(s, f)
  PROVE  \A k \in Index(s) : Change(s)[k] = f[k] /\ database[s][k] = Stream(s, f[k])
<1> DEFINE Body(g, k) == IF k = 0 THEN ChangeAfter(s, held[s], 0)
                         ELSE ChangeAfter(s, Stream(s, g[k - 1]), g[k - 1])
           K == Change(s)
<1>1. Size[s] \in Nat /\ Index(s) = 0 .. Size[s] - 1
  BY LoadAssumption DEF Index
<1>2. ASSUME NEW k \in Index(s)
      PROVE  f[k] = Body(f, k) /\ database[s][k] = Stream(s, f[k])
  <2>1. /\ FirstChange(StreamOf(s), WordBefore(StreamOf(s), held[s], f, k), PlaceBefore(f, k), f[k])
        /\ database[s][k] = StreamOf(s)[f[k]]
    BY <1>1 DEF Counted, Stored
  <2>2. f[k] \in Nat /\ (k # 0 => f[k - 1] \in Nat)
    BY <1>1
  <2>3. /\ PlaceBefore(f, k) \in Nat
        /\ k = 0 => PlaceBefore(f, k) = 0 /\ WordBefore(StreamOf(s), held[s], f, k) = held[s]
        /\ k # 0 => /\ PlaceBefore(f, k) = f[k - 1]
                     /\ WordBefore(StreamOf(s), held[s], f, k) = Stream(s, f[k - 1])
    BY <2>2 DEF PlaceBefore, WordBefore, StreamOf
  <2>4. ChangeAfter(s, WordBefore(StreamOf(s), held[s], f, k), PlaceBefore(f, k)) = f[k]
    BY <2>1, <2>2, <2>3, ChangeIs
  <2>5. f[k] = Body(f, k)
    BY <2>3, <2>4
  <2> QED
    BY <2>1, <2>2, <2>5 DEF StreamOf
<1>3. K = CHOOSE g : g = [k \in Index(s) |-> Body(g, k)]
  BY DEF Change
<1>4. f = [k \in Index(s) |-> Body(f, k)]
  <2> HIDE DEF Body
  <2> QED
    BY <1>2
<1>5. K = [k \in Index(s) |-> Body(K, k)]
  <2> HIDE DEF Body, K
  <2> QED
    BY <1>3, <1>4
<1> HIDE DEF K
<1>6. \A k \in Index(s) : K[k] = Body(K, k)
  <2> HIDE DEF Body
  <2> QED
    BY <1>5
<1> DEFINE T == {n \in Nat : n \in Index(s) => K[n] = f[n]}
<1>7. 0 \in T
  BY <1>2, <1>6
<1>8. ASSUME NEW n \in Nat, n \in T PROVE n + 1 \in T
  <2> SUFFICES ASSUME n + 1 \in Index(s) PROVE K[n + 1] = f[n + 1]
    OBVIOUS
  <2>1. n \in Index(s) /\ (n + 1) - 1 = n /\ n + 1 # 0
    BY <1>1
  <2>2. K[n] = f[n]
    BY <1>8, <2>1
  <2>3. Body(K, n + 1) = Body(f, n + 1)
    BY <2>1, <2>2
  <2> QED
    BY <1>2, <1>6, <2>3
<1>9. Nat \subseteq T
  <2> HIDE DEF T
  <2> QED
    BY <1>7, <1>8, SetInduction
<1>10. \A k \in Index(s) : K[k] = f[k]
  BY <1>1, <1>9
<1> QED
  BY <1>2, <1>10 DEF K

\* In a stream without equal neighbours the changes are its words, from the first that
\* the output does not hold already.
LEMMA AlternatesAll ==
  ASSUME NEW s \in Stages, Alternates(s), NEW q \in Nat
  PROVE  Stream(s, q) # Stream(s, q + 1)
<1> DEFINE i == q % Size[s]
<1>1. i \in Index(s) /\ i \in Nat /\ i < Size[s]
  BY StreamPlaces DEF Index
<1>2. (q + 1) % Size[s] = NextAddress(i, Size[s]) /\ q + 1 \in Nat
  BY StreamPlaces
<1> HIDE DEF i
<1>3. i % Size[s] = i /\ (i + 1) % Size[s] = NextAddress(i % Size[s], Size[s])
  BY <1>1, StreamPlaces
<1>4. Stream(s, q) = Stream(s, i) /\ Stream(s, q + 1) = Stream(s, i + 1)
  BY <1>2, <1>3 DEF Stream, i
<1> QED
  BY <1>1, <1>4 DEF Alternates

LEMMA NextChange ==
  ASSUME NEW s \in Stages, Alternates(s), NEW p \in Nat, NEW n \in Nat,
         FirstChange(StreamOf(s), Stream(s, p), p, n)
  PROVE  n = p + 1
<1>1. /\ p <= n /\ Stream(s, n) # Stream(s, p)
      /\ \A q \in Nat : p <= q /\ q < n => Stream(s, q) = Stream(s, p)
  BY DEF FirstChange, StreamOf
<1>2. Stream(s, p) # Stream(s, p + 1)
  BY AlternatesAll
<1>3. n # p
  BY <1>1
<1>4. ~(p + 1 < n)
  BY <1>1, <1>2
<1> QED
  BY <1>1, <1>3, <1>4

LEMMA AlternateChanges ==
  ASSUME NEW s \in Stages, Alternates(s), load_count[s] \in Nat, load_count[s] >= Size[s],
         NEW f \in [Index(s) -> Nat], Counted(s, f), NEW k \in Index(s)
  PROVE  f[k] = IF held[s] = contents[s][0] THEN k + 1 ELSE k
<1> DEFINE d == IF held[s] = contents[s][0] THEN 1 ELSE 0
           T == {n \in Nat : n \in Index(s) => f[n] = n + d}
<1>1. Size[s] \in Nat /\ Index(s) = 0 .. Size[s] - 1 /\ d \in Nat
  BY LoadAssumption DEF Index
<1>2. \A n \in Index(s) :
        FirstChange(StreamOf(s), WordBefore(StreamOf(s), held[s], f, n), PlaceBefore(f, n), f[n])
  BY <1>1 DEF Counted, Stored
<1>3. StreamOf(s)[0] = contents[s][0] /\ Stream(s, 0) = contents[s][0] /\ 0 \in Nat
  BY StreamStart DEF StreamOf
<1>4. 0 \in T
  <2> SUFFICES ASSUME 0 \in Index(s) PROVE f[0] = 0 + d
    OBVIOUS
  <2>1. FirstChange(StreamOf(s), held[s], 0, f[0]) /\ f[0] \in Nat
    BY <1>2 DEF WordBefore, PlaceBefore
  <2>2. CASE held[s] = contents[s][0]
    <3>1. f[0] = 0 + 1
      BY <1>3, <2>1, <2>2, NextChange
    <3> QED
      BY <2>2, <3>1
  <2>3. CASE held[s] # contents[s][0]
    <3>1. ~(0 < f[0])
      BY <1>3, <2>1, <2>3 DEF FirstChange
    <3> QED
      BY <2>1, <2>3, <3>1
  <2> QED
    BY <2>2, <2>3
<1> HIDE DEF d
<1>5. ASSUME NEW n \in Nat, n \in T PROVE n + 1 \in T
  <2> SUFFICES ASSUME n + 1 \in Index(s) PROVE f[n + 1] = (n + 1) + d
    OBVIOUS
  <2>1. n \in Index(s) /\ (n + 1) - 1 = n /\ n + 1 # 0 /\ f[n] \in Nat /\ f[n + 1] \in Nat
    BY <1>1
  <2>2. f[n] = n + d
    BY <1>5, <2>1
  <2>3. FirstChange(StreamOf(s), Stream(s, f[n]), f[n], f[n + 1])
    <3>1. FirstChange(StreamOf(s), WordBefore(StreamOf(s), held[s], f, n + 1), PlaceBefore(f, n + 1), f[n + 1])
      BY <1>2
    <3>2. /\ PlaceBefore(f, n + 1) = f[n]
          /\ WordBefore(StreamOf(s), held[s], f, n + 1) = Stream(s, f[n])
      BY <2>1 DEF PlaceBefore, WordBefore, StreamOf
    <3> QED
      BY <3>1, <3>2
  <2>4. f[n + 1] = f[n] + 1
    BY <2>1, <2>3, NextChange
  <2> QED
    BY <1>1, <2>2, <2>4
<1>6. Nat \subseteq T
  <2> HIDE DEF T
  <2> QED
    BY <1>4, <1>5, SetInduction
<1>7. k \in Nat /\ f[k] = k + d
  BY <1>1, <1>6
<1>8. CASE held[s] = contents[s][0]
  BY <1>7, <1>8 DEF d
<1>9. CASE held[s] # contents[s][0]
  BY <1>7, <1>9 DEF d
<1> QED
  BY <1>8, <1>9

----------------------------------------------------------------------------
\* The loads that were not cut short are followed from the reset that starts them.
LEMMA WholeInductive == Spec => [](LoadInv /\ \A s \in Stages : WholeInv(s))
<1> DEFINE WInv == LoadInv /\ \A s \in Stages : WholeInv(s)
<1>1. Init => WInv
  BY LoadInvInit DEF Init, WholeInv
<1>2. WInv /\ [Clock]_vars => WInv'
  <2>1. CASE Clock
    BY <2>1, LoadInvStep, WholeStep
  <2>2. CASE UNCHANGED vars
    <3> SUFFICES ASSUME WInv, UNCHANGED vars PROVE WInv'
      BY <2>2
    <3>1. LoadInv'
      BY DEF vars, LoadInv, LoadTypeOK, CountInv, Index
    <3>2. ASSUME NEW s \in Stages PROVE WholeInv(s)'
      <4>1. /\ UNCHANGED <<reset, memory, load_count, load_data, database, whole, held, contents>>
            /\ StreamOf(s)' = StreamOf(s)
            /\ \A q \in Nat : Stream(s, q)' = Stream(s, q)
        BY StreamStays DEF vars
      <4>2. \A f : Counted(s, f)' = Counted(s, f) /\ Begins(s, f)' = Begins(s, f)
                   /\ Repeats(s, f)' = Repeats(s, f)
        BY <4>1 DEF Counted, Begins, Repeats, Given
      <4>3. \A f : Streams(s, f)' <=> Streams(s, f)
        BY <4>1 DEF Streams, Given
      <4>4. Loads(s)' <=> Loads(s)
        BY <4>1, <4>2, <4>3 DEF Loads, Index
      <4> QED
        BY <4>1, <4>4 DEF WholeInv
    <3> QED
      BY <3>1, <3>2
  <2> QED
    BY <2>1, <2>2
<1> QED
  BY <1>1, <1>2, PTL DEF Spec

LEMMA WholeLoads ==
  ASSUME LoadInv, NEW s \in Stages, WholeInv(s), ~reset, whole[s], ~load_data[s]
  PROVE  /\ load_count[s] \in Nat /\ load_count[s] >= Size[s]
         /\ \E f \in [Index(s) -> Nat] : Counted(s, f)
<1>1. load_count[s] \in Nat
  BY LoadAssumption DEF LoadInv, LoadTypeOK
<1> QED
  BY <1>1 DEF WholeInv, Loads

\* A load that was not cut short by a reset gives exactly the changes of the memory's
\* output, for every size, every memory, whatever words are equal in it, and however
\* long the reset lasts (database_embedded.v).
THEOREM LoadsChangesCorrect == Spec => []LoadsChanges
<1>1. LoadInv /\ (\A s \in Stages : WholeInv(s)) => LoadsChanges
  BY WholeLoads, ChangesAre DEF LoadsChanges
<1> QED
  BY <1>1, WholeInductive, PTL

\* A memory without equal neighbours is loaded word by word, one word off when the
\* output held its first word already: for every size, every memory and however long
\* the reset lasts, as long as it finds the memory at rest.
THEOREM LoadsMemoryCorrect == Spec => []LoadsMemory
<1>1. LoadInv /\ (\A s \in Stages : WholeInv(s)) => LoadsMemory
  <2> SUFFICES ASSUME LoadInv, \A s \in Stages : WholeInv(s), NEW s \in Stages,
                      ~reset, whole[s], ~load_data[s], Alternates(s), NEW k \in Index(s)
               PROVE  database[s][k] =
                        Stream(s, IF held[s] = contents[s][0] THEN k + 1 ELSE k)
    BY DEF LoadsMemory
  <2>1. PICK f \in [Index(s) -> Nat] :
          load_count[s] \in Nat /\ load_count[s] >= Size[s] /\ Counted(s, f)
    BY WholeLoads
  <2>2. database[s][k] = Stream(s, f[k])
    BY <2>1, ChangesAre
  <2>3. f[k] = IF held[s] = contents[s][0] THEN k + 1 ELSE k
    BY <2>1, AlternateChanges
  <2> QED
    BY <2>2, <2>3
<1> QED
  BY <1>1, WholeInductive, PTL

=============================================================================
