---------------------------- MODULE ResizeProofs ----------------------------
(***************************************************************************)
(* Proofs about the resizer, for frames of any size that are resized to    *)
(* any smaller one: the counters keep their ranges, and above the last     *)
(* line just the columns and rows of the grid are kept, wherever sixteen   *)
(* fractional bits are enough for it.                                      *)
(***************************************************************************)
EXTENDS Resize, TLAPS

\* An axis, and the axis it is resized to.
Resizes(n, m) == n \in 2 .. 4096 /\ m \in 1 .. n

\* The k-th coordinate that an axis of size n keeps, to have m of them.
Kept(n, m, k) == (k * Ratio(n, m)) \div 65536

\* The fixed-point ratio is more than the ratio of the sizes, by a fraction of a bit.
LEMMA RatioBounds ==
  ASSUME NEW n, NEW m, Resizes(n, m)
  PROVE  /\ Ratio(n, m) \in Nat
         /\ Ratio(n, m) > 65536
         /\ n * 65536 < m * Ratio(n, m)
         /\ m * Ratio(n, m) <= n * 65536 + m
<1> DEFINE N == n * 65536
           q == N \div m
<1>1. n \in Nat /\ m \in Nat /\ m <= n /\ m >= 1 /\ N \in Nat
  BY DEF Resizes
<1>2. N = q * m + (N % m) /\ q \in Nat /\ N % m \in 0 .. m - 1
  <2> HIDE DEF N
  <2> QED
    BY <1>1 DEF q
<1>3. Ratio(n, m) = q + 1
  BY DEF Ratio
<1> HIDE DEF q, N
<1>4. m * (q + 1) = q * m + m
  BY <1>1, <1>2
<1>5. q * m <= N /\ N < q * m + m
  BY <1>1, <1>2
<1>6. q >= 65536
  <2> SUFFICES ASSUME q <= 65535 PROVE FALSE
    BY <1>2
  <2>1. q * m <= 65535 * m
    BY <1>1, <1>2
  <2>2. N < 65536 * m
    BY <1>1, <1>2, <1>5, <2>1
  <2>3. N >= 65536 * m
    BY <1>1 DEF N
  <2> QED
    BY <1>1, <2>2, <2>3
<1>7. N = n * 65536
  BY DEF N
<1> QED
  BY <1>1, <1>2, <1>3, <1>4, <1>5, <1>6, <1>7

\* The kept coordinates are apart, the first is 0, and the one after the last is
\* outside the axis; no product is wider than 32 bits.
LEMMA KeptOrder ==
  ASSUME NEW n, NEW m, Resizes(n, m), NEW k \in Nat, k <= m
  PROVE  /\ Kept(n, m, k) \in 0 .. n
         /\ Kept(n, m, 0) = 0
         /\ Kept(n, m, m) = n
         /\ k > 0 => Kept(n, m, k - 1) \in Nat /\ Kept(n, m, k - 1) < Kept(n, m, k)
         /\ k < m => Kept(n, m, k) < Kept(n, m, k + 1) /\ Kept(n, m, k) < n
         /\ k * Ratio(n, m) < 2 ^ 32
<1> DEFINE r == Ratio(n, m)
<1>1. r \in Nat /\ r > 65536 /\ n * 65536 < m * r /\ m * r <= n * 65536 + m
  BY RatioBounds
<1>2. n \in Nat /\ m \in Nat /\ m <= n /\ m >= 1 /\ n <= 4096 /\ k \in Nat /\ k <= m
  BY DEF Resizes
<1>3. k * r \in Nat /\ k * r <= m * r
  <2> HIDE DEF r
  <2>1. (m - k) * r >= 0 /\ m * r = k * r + (m - k) * r
    BY <1>1, <1>2
  <2> QED
    BY <1>1, <1>2, <2>1
<1>4. (k + 1) * r = k * r + r /\ (k - 1) * r = k * r - r
  BY <1>1, <1>2
<1>5. k < m => (k + 1) * r <= m * r
  <2> HIDE DEF r
  <2>1. k < m => (m - (k + 1)) * r >= 0 /\ m * r = (k + 1) * r + (m - (k + 1)) * r
    BY <1>1, <1>2
  <2> QED
    BY <1>1, <1>2, <2>1
<1>6. k > 0 => (k - 1) * r \in Nat
  <2> HIDE DEF r
  <2> QED
    BY <1>1, <1>2
<1> DEFINE a == k * r
           b == m * r
           c == (k + 1) * r
           d == (k - 1) * r
<1> HIDE DEF a, b, c, d, r
<1>7. /\ Kept(n, m, k) = a \div 65536
      /\ Kept(n, m, 0) = (0 * r) \div 65536
      /\ Kept(n, m, m) = b \div 65536
      /\ Kept(n, m, k + 1) = c \div 65536
      /\ Kept(n, m, k - 1) = d \div 65536
  BY DEF Kept, a, b, c, d, r
<1>8. /\ a \in Nat /\ a <= b /\ n * 65536 < b /\ b <= n * 65536 + m /\ b \in Nat
      /\ c = a + r /\ d = a - r
      /\ k < m => c <= b
      /\ k > 0 => d \in Nat
  BY <1>1, <1>2, <1>3, <1>4, <1>5, <1>6 DEF a, b, c, d
<1>9. b \div 65536 = n
  BY <1>2, <1>8
<1>10. a \div 65536 \in 0 .. n
  BY <1>2, <1>8, <1>9
<1>11. k > 0 => d \div 65536 \in Nat /\ d \div 65536 < a \div 65536
  BY <1>1, <1>2, <1>8
<1>12. k < m => a \div 65536 < c \div 65536 /\ c \div 65536 <= n
  BY <1>1, <1>2, <1>8, <1>9
<1>13. 0 * r = 0 /\ 0 \div 65536 = 0
  BY <1>1
<1>14. a < 2 ^ 32
  <2>1. a <= 4097 * 65536
    BY <1>2, <1>8
  <2> QED
    BY <1>8, <2>1
<1> QED
  BY <1>2, <1>7, <1>8, <1>9, <1>10, <1>11, <1>12, <1>13, <1>14 DEF a, r

\* Later coordinates are kept later.
LEMMA KeptRises ==
  ASSUME NEW n, NEW m, Resizes(n, m), NEW j \in Nat, NEW k \in Nat, j <= k, k <= m
  PROVE  Kept(n, m, j) <= Kept(n, m, k)
<1> DEFINE r == Ratio(n, m)
<1> HIDE DEF r
<1>1. r \in Nat
  BY RatioBounds DEF r
<1>2. (k - j) * r \in Nat /\ k * r = j * r + (k - j) * r /\ j * r \in Nat /\ k * r \in Nat
  BY <1>1
<1>3. ASSUME NEW a \in Nat, NEW b \in Nat, a <= b
      PROVE  a \div 65536 <= b \div 65536
  BY <1>3
<1>4. (j * r) \div 65536 <= (k * r) \div 65536
  BY <1>2, <1>3
<1> QED
  BY <1>4 DEF Kept, r

----------------------------------------------------------------------------
\* An axis waits for the first coordinate to keep that is not before c.
Waits(axis, c, n, m) ==
  /\ axis \in Axis(n, m)
  /\ axis.coord = Kept(n, m, axis.temp)
  /\ c <= axis.coord
  /\ axis.temp > 0 => Kept(n, m, axis.temp - 1) < c

\* What an axis is like at coordinate c; at the last it has been started again.
AxisInv(axis, c, n, m) ==
  IF c = n - 1 THEN axis = Origin ELSE Waits(axis, c, n, m)

LEMMA OriginWaits ==
  ASSUME NEW n, NEW m, Resizes(n, m)
  PROVE  Origin \in Axis(n, m) /\ AxisInv(Origin, 0, n, m) /\ Waits(Origin, 0, n, m)
<1>1. n \in Nat /\ m \in Nat /\ n >= 2 /\ m >= 1
  BY DEF Resizes
<1>2. Kept(n, m, 0) = 0
  BY <1>1, KeptOrder
<1>3. Origin \in Axis(n, m) /\ Origin.temp = 0 /\ Origin.coord = 0
  BY <1>1 DEF Origin, Axis
<1> QED
  BY <1>1, <1>2, <1>3 DEF AxisInv, Waits

LEMMA AxisInvType ==
  ASSUME NEW n, NEW m, Resizes(n, m), NEW axis, NEW c, AxisInv(axis, c, n, m)
  PROVE  axis \in Axis(n, m)
  BY OriginWaits DEF AxisInv, Waits

\* The coordinate after c.
After(c, n) == IF c = n - 1 THEN 0 ELSE c + 1

\* One run of the block on one axis: the coordinate may be seen again or have moved on.
LEMMA AxisRuns ==
  ASSUME NEW n, NEW m, Resizes(n, m), NEW axis, NEW c \in 0 .. n - 1,
         AxisInv(axis, c, n, m), NEW d \in {c, After(c, n)}
  PROVE  LET s == AxisStep(axis, d, Ratio(n, m)) IN
         /\ d \in 0 .. n - 1
         /\ s \in Axis(n, m)
         /\ AxisInv(AxisEnd(s, d, n), d, n, m)
         /\ c < n - 1 \/ d # c => Waits(s, d, n, m)
<1> DEFINE s == AxisStep(axis, d, Ratio(n, m))
<1>1. n \in Nat /\ m \in Nat /\ n >= 2 /\ m >= 1 /\ c \in Nat /\ c < n
  BY DEF Resizes
<1>2. d \in Nat /\ d < n
  BY <1>1 DEF After
<1>3. axis \in Axis(n, m)
  BY AxisInvType
<1>4. axis.temp \in 0 .. m /\ axis.coord \in 0 .. n
  BY <1>3 DEF Axis
<1>5. axis.coord = Kept(n, m, axis.temp)
  BY <1>1, KeptOrder DEF AxisInv, Waits, Origin
<1>6. ASSUME d > axis.coord
      PROVE  /\ axis.temp < m
             /\ s = [temp |-> axis.temp + 1, coord |-> Kept(n, m, axis.temp + 1)]
             /\ s \in Axis(n, m)
             /\ Kept(n, m, axis.temp) < Kept(n, m, axis.temp + 1)
  <2>1. axis.temp < m
    <3>1. Kept(n, m, m) = n
      BY <1>1, KeptOrder
    <3>2. axis.temp # m
      BY <1>1, <1>2, <1>4, <1>5, <1>6, <3>1
    <3> QED
      BY <1>1, <1>4, <3>2
  <2>2. s = [temp |-> axis.temp + 1, coord |-> Kept(n, m, axis.temp + 1)]
    BY <1>6 DEF AxisStep, Kept
  <2>3. axis.temp + 1 \in Nat /\ axis.temp + 1 <= m /\ axis.temp \in Nat /\ axis.temp <= m
    BY <1>1, <1>4, <2>1
  <2>4. Kept(n, m, axis.temp + 1) \in 0 .. n
    BY <2>3, KeptOrder
  <2>5. Kept(n, m, axis.temp) < Kept(n, m, axis.temp + 1)
    BY <2>1, <2>3, KeptOrder
  <2>6. axis.temp + 1 \in 0 .. m
    BY <1>1, <2>3
  <2> HIDE DEF s
  <2> QED
    BY <2>1, <2>2, <2>4, <2>5, <2>6 DEF Axis
<1>7. ~(d > axis.coord) => s = axis
  BY DEF AxisStep
<1> HIDE DEF s
<1>8. s \in Axis(n, m)
  BY <1>3, <1>6, <1>7
<1>9. ASSUME c < n - 1 \/ d # c
      PROVE  Waits(s, d, n, m)
  <2>1. CASE c = n - 1
    <3>1. axis = Origin /\ d = 0
      BY <1>1, <1>9, <2>1 DEF AxisInv, After
    <3>2. s = Origin
      BY <1>7, <3>1 DEF Origin
    <3> QED
      BY <3>1, <3>2, OriginWaits
  <2>2. CASE c # n - 1
    <3>1. Waits(axis, c, n, m) /\ c <= d /\ d <= c + 1
      BY <1>1, <2>2 DEF AxisInv, After
    <3>2. CASE d > axis.coord
      <4>1. s.temp = axis.temp + 1 /\ s.coord = Kept(n, m, s.temp) /\ s.temp - 1 = axis.temp
        BY <1>4, <1>6, <3>2
      <4>2. Kept(n, m, axis.temp) < d
        BY <1>5, <3>2
      <4>3. d <= axis.coord + 1
        BY <1>1, <1>2, <1>4, <3>1 DEF Waits
      <4>4. s.coord \in Nat
        BY <1>8 DEF Axis
      <4>5. d <= s.coord
        BY <1>2, <1>4, <1>5, <1>6, <3>2, <4>1, <4>3, <4>4
      <4> QED
        BY <1>8, <4>1, <4>2, <4>5 DEF Waits
    <3>3. CASE ~(d > axis.coord)
      <4>1. s = axis /\ d <= axis.coord
        BY <1>2, <1>4, <1>7, <3>3
      <4>2. axis.temp > 0 => Kept(n, m, axis.temp - 1) < d
        <5>1. axis.temp > 0 => Kept(n, m, axis.temp - 1) < c
          BY <3>1 DEF Waits
        <5>2. axis.temp > 0 => Kept(n, m, axis.temp - 1) \in Nat
          BY <1>1, <1>4, KeptOrder
        <5> QED
          BY <1>1, <1>2, <3>1, <5>1, <5>2
      <4> QED
        BY <1>3, <1>5, <4>1, <4>2 DEF Waits
    <3> QED
      BY <3>2, <3>3
  <2> QED
    BY <2>1, <2>2
<1>10. AxisInv(AxisEnd(s, d, n), d, n, m)
  <2>1. CASE d = n - 1
    BY <2>1 DEF AxisEnd, AxisInv
  <2>2. CASE d # n - 1
    BY <1>1, <1>9, <2>2 DEF AxisEnd, AxisInv, After
  <2> QED
    BY <2>1, <2>2
<1>11. d \in 0 .. n - 1
  BY <1>1, <1>2
<1> QED
  BY <1>8, <1>9, <1>10, <1>11 DEF s

\* The coordinates an axis keeps.
KeptBy(n, m) == {Kept(n, m, k) : k \in 0 .. m - 1}

\* An axis that waits meets its coordinate just when that is to be kept.
LEMMA WaitsKeeps ==
  ASSUME NEW n, NEW m, Resizes(n, m), NEW s, NEW d \in 0 .. n - 1, Waits(s, d, n, m)
  PROVE  s.coord = d <=> d \in KeptBy(n, m)
<1>1. n \in Nat /\ m \in Nat /\ n >= 2 /\ m >= 1 /\ d \in Nat /\ d < n
  BY DEF Resizes
<1>2. s.temp \in Nat /\ s.temp <= m /\ s.coord \in Nat /\ s.coord = Kept(n, m, s.temp) /\ d <= s.coord
  BY <1>1 DEF Waits, Axis
<1>3. ASSUME s.coord = d
      PROVE  d \in KeptBy(n, m)
  <2>1. s.temp # m
    <3>1. Kept(n, m, m) = n
      BY <1>1, KeptOrder
    <3>2. ASSUME s.temp = m PROVE FALSE
      <4>1. s.coord = n
        BY <1>2, <3>1, <3>2
      <4> QED
        BY <1>1, <1>3, <4>1
    <3> QED
      BY <3>2
  <2>2. s.temp \in 0 .. m - 1
    BY <1>1, <1>2, <2>1
  <2> QED
    BY <1>2, <1>3, <2>2 DEF KeptBy
<1>4. ASSUME d \in KeptBy(n, m)
      PROVE  s.coord = d
  <2>1. PICK k \in 0 .. m - 1 : Kept(n, m, k) = d
    BY <1>4 DEF KeptBy
  <2>2. k \in Nat /\ k < m
    BY <1>1
  <2>3. ~(k < s.temp)
    <3> SUFFICES ASSUME k < s.temp PROVE FALSE
      OBVIOUS
    <3>1. s.temp - 1 \in Nat /\ k <= s.temp - 1 /\ s.temp - 1 <= m /\ s.temp > 0
      BY <1>1, <1>2, <2>2
    <3>2. Kept(n, m, k) <= Kept(n, m, s.temp - 1)
      BY <2>2, <3>1, KeptRises
    <3>3. Kept(n, m, s.temp - 1) < d
      BY <3>1 DEF Waits
    <3>4. Kept(n, m, s.temp - 1) \in Nat
      BY <1>2, <3>1, KeptOrder
    <3> QED
      BY <1>1, <2>1, <3>2, <3>3, <3>4
  <2>4. ~(s.temp < k)
    <3> SUFFICES ASSUME s.temp < k PROVE FALSE
      OBVIOUS
    <3>1. s.temp + 1 \in Nat /\ s.temp + 1 <= k /\ k <= m /\ s.temp < m /\ s.temp + 1 <= m
      BY <1>1, <1>2, <2>2
    <3>2. Kept(n, m, s.temp + 1) <= Kept(n, m, k)
      BY <2>2, <3>1, KeptRises
    <3>3. Kept(n, m, s.temp) < Kept(n, m, s.temp + 1)
      BY <1>2, <3>1, KeptOrder
    <3>4. Kept(n, m, s.temp + 1) \in 0 .. n
      BY <3>1, KeptOrder
    <3>5. Kept(n, m, s.temp + 1) \in Nat
      BY <1>1, <3>4
    <3> QED
      BY <1>1, <1>2, <2>1, <3>2, <3>3, <3>5
  <2>5. k = s.temp
    BY <1>2, <2>2, <2>3, <2>4
  <2> QED
    BY <1>2, <2>1, <2>5
<1> QED
  BY <1>3, <1>4

----------------------------------------------------------------------------
SizesOK == resize_width \in 1 .. Width /\ resize_height \in 1 .. Height

LEMMA SizesResize ==
  ASSUME SizesOK
  PROVE  Resizes(Width, resize_width) /\ Resizes(Height, resize_height)
  BY FrameAssumption DEF SizesOK, Resizes

\* The registers s of both axes at a coordinate.
At(s, x, y) ==
  /\ AxisInv(s.x, x, Width, resize_width)
  /\ AxisInv(s.y, y, Height, resize_height)

\* One run of the block: above the last line, and at a column that is new or not the
\* last, it says whether the coordinate is kept.
LEMMA BlockRuns ==
  ASSUME SizesOK, NEW s, NEW x \in 0 .. Width - 1, NEW y \in 0 .. Height - 1, At(s, x, y),
         NEW u \in {x, After(x, Width)}, NEW v \in {y, After(y, Height)}
  PROVE  LET t == Evaluated(s, u, v) IN
         /\ u \in 0 .. Width - 1 /\ v \in 0 .. Height - 1
         /\ At(t, u, v)
         /\ t.x \in Axis(Width, resize_width) /\ t.y \in Axis(Height, resize_height)
         /\ t.reach \in BOOLEAN
         /\ (x < Width - 1 \/ u # x) /\ v < Height - 1
            => (t.reach <=> u \in KeptBy(Width, resize_width) /\ v \in KeptBy(Height, resize_height))
<1> DEFINE xs == AxisStep(s.x, u, Ratio(Width, resize_width))
           ys == AxisStep(s.y, v, Ratio(Height, resize_height))
           t == Evaluated(s, u, v)
<1>1. Resizes(Width, resize_width) /\ Resizes(Height, resize_height)
  BY SizesResize
<1>2. /\ u \in 0 .. Width - 1
      /\ AxisInv(AxisEnd(xs, u, Width), u, Width, resize_width)
      /\ x < Width - 1 \/ u # x => Waits(xs, u, Width, resize_width)
  <2>1. AxisInv(s.x, x, Width, resize_width)
    BY DEF At
  <2> QED
    BY <1>1, <2>1, AxisRuns
<1>3. /\ v \in 0 .. Height - 1
      /\ AxisInv(AxisEnd(ys, v, Height), v, Height, resize_height)
      /\ y < Height - 1 \/ v # y => Waits(ys, v, Height, resize_height)
  <2>1. AxisInv(s.y, y, Height, resize_height)
    BY DEF At
  <2> QED
    BY <1>1, <2>1, AxisRuns
<1>4. /\ t.x = AxisEnd(xs, u, Width)
      /\ t.y = AxisEnd(ys, v, Height)
      /\ t.reach = (xs.coord = u /\ ys.coord = v)
  BY DEF Evaluated
<1> HIDE DEF t, xs, ys
<1>5. At(t, u, v)
  BY <1>2, <1>3, <1>4 DEF At
<1>6. t.x \in Axis(Width, resize_width) /\ t.y \in Axis(Height, resize_height)
  BY <1>1, <1>5, AxisInvType DEF At
<1>7. ASSUME x < Width - 1 \/ u # x, v < Height - 1
      PROVE  t.reach <=> u \in KeptBy(Width, resize_width) /\ v \in KeptBy(Height, resize_height)
  <2>1. y < Height - 1 \/ v # y
    BY <1>7
  <2>2. xs.coord = u <=> u \in KeptBy(Width, resize_width)
    BY <1>1, <1>2, <1>7, WaitsKeeps
  <2>3. ys.coord = v <=> v \in KeptBy(Height, resize_height)
    BY <1>1, <1>3, <2>1, WaitsKeeps
  <2> QED
    BY <1>4, <2>2, <2>3
<1>8. t.reach \in BOOLEAN
  BY <1>4
<1> QED
  BY <1>2, <1>3, <1>5, <1>6, <1>7, <1>8 DEF t

ResizeInv ==
  /\ SizesOK
  /\ ori_x \in 0 .. Width - 1 /\ ori_y \in 0 .. Height - 1
  /\ At(Registers, ori_x, ori_y)
  /\ reach \in BOOLEAN

LEMMA InitInv == Init => ResizeInv
<1> SUFFICES ASSUME Init PROVE ResizeInv
  OBVIOUS
<1>1. SizesOK
  BY DEF Init, SizesOK
<1>2. Resizes(Width, resize_width) /\ Resizes(Height, resize_height)
  BY <1>1, SizesResize
<1>3. Width \in Nat /\ Width >= 2 /\ Height \in Nat /\ Height >= 2
  BY FrameAssumption
<1>4. ori_x \in 0 .. Width - 1 /\ ori_y \in 0 .. Height - 1
  BY <1>3 DEF Init
<1>5. Registers.x = Origin /\ Registers.y = Origin /\ ori_x = 0 /\ ori_y = 0
  BY DEF Init, Registers
<1>6. At(Registers, ori_x, ori_y)
  BY <1>2, <1>5, OriginWaits DEF At
<1> QED
  BY <1>1, <1>4, <1>6 DEF Init, ResizeInv

LEMMA InvType == ResizeInv => ResizeTypeOK
<1> SUFFICES ASSUME ResizeInv PROVE ResizeTypeOK
  OBVIOUS
<1>1. Resizes(Width, resize_width) /\ Resizes(Height, resize_height)
  BY SizesResize DEF ResizeInv
<1>2. Registers.x = x_axis /\ Registers.y = y_axis
  BY DEF Registers
<1>3. x_axis \in Axis(Width, resize_width) /\ y_axis \in Axis(Height, resize_height)
  BY <1>1, <1>2, AxisInvType DEF ResizeInv, At
<1> QED
  BY <1>3 DEF ResizeTypeOK, ResizeInv, SizesOK

\* Whichever way the block runs, it ends at the next coordinate, which is kept or not.
LEMMA MoveRuns ==
  ASSUME ResizeInv, NEW s \in Runs
  PROVE  /\ NextX \in 0 .. Width - 1 /\ NextY \in 0 .. Height - 1
         /\ At(s, NextX, NextY)
         /\ s.reach \in BOOLEAN
         /\ NextY < Height - 1 =>
              (s.reach <=> NextX \in KeptBy(Width, resize_width) /\ NextY \in KeptBy(Height, resize_height))
<1>1. Width \in Nat /\ Width >= 2 /\ Height \in Nat /\ Height >= 2
  BY FrameAssumption
<1>2. SizesOK /\ ori_x \in 0 .. Width - 1 /\ ori_y \in 0 .. Height - 1 /\ At(Registers, ori_x, ori_y)
  BY DEF ResizeInv
<1>3. ori_x \in Nat /\ ori_x < Width /\ ori_y \in Nat /\ ori_y < Height
  BY <1>1, <1>2
<1>4. NextX \in {ori_x, After(ori_x, Width)} /\ NextX # ori_x
  BY <1>1, <1>3 DEF NextX, After
<1>5. NextY \in {ori_y, After(ori_y, Height)}
  BY <1>1, <1>3 DEF NextY, After
<1>6. NextY # ori_y => NextX = 0
  BY <1>1, <1>3 DEF NextY, NextX
<1>7. CASE s = Evaluated(Registers, NextX, NextY)
  BY <1>2, <1>4, <1>5, <1>7, BlockRuns
<1>8. CASE NextY # ori_y /\ s = Evaluated(Evaluated(Registers, NextX, ori_y), NextX, NextY)
  <2> DEFINE t == Evaluated(Registers, NextX, ori_y)
  <2>1. NextX \in 0 .. Width - 1 /\ At(t, NextX, ori_y)
    BY <1>2, <1>4, BlockRuns
  <2>2. NextX < Width - 1
    BY <1>1, <1>6, <1>8
  <2> HIDE DEF t
  <2>3. s = Evaluated(t, NextX, NextY)
    BY <1>8 DEF t
  <2> QED
    BY <1>2, <1>5, <2>1, <2>2, <2>3, BlockRuns
<1>9. CASE NextY # ori_y /\ s = Evaluated(Evaluated(Registers, ori_x, NextY), NextX, NextY)
  <2> DEFINE t == Evaluated(Registers, ori_x, NextY)
  <2>1. NextY \in 0 .. Height - 1 /\ At(t, ori_x, NextY)
    BY <1>2, <1>5, BlockRuns
  <2> HIDE DEF t
  <2>2. s = Evaluated(t, NextX, NextY)
    BY <1>9 DEF t
  <2> QED
    BY <1>2, <1>4, <2>1, <2>2, BlockRuns
<1> QED
  BY <1>7, <1>8, <1>9 DEF Runs

LEMMA NextInv == ResizeInv /\ [Move]_vars => ResizeInv'
<1> SUFFICES ASSUME ResizeInv, [Move]_vars PROVE ResizeInv'
  OBVIOUS
<1>1. CASE Move
  <2>1. PICK s \in Runs : x_axis' = s.x /\ y_axis' = s.y /\ reach' = s.reach
    BY <1>1 DEF Move
  <2>2. ori_x' = NextX /\ ori_y' = NextY /\ resize_width' = resize_width /\ resize_height' = resize_height
    BY <1>1 DEF Move
  <2>3. NextX \in 0 .. Width - 1 /\ NextY \in 0 .. Height - 1 /\ At(s, NextX, NextY) /\ s.reach \in BOOLEAN
    BY MoveRuns
  <2>4. SizesOK'
    BY <2>2 DEF ResizeInv, SizesOK
  <2>5. Registers'.x = s.x /\ Registers'.y = s.y
    BY <2>1 DEF Registers
  <2>6. At(Registers, ori_x, ori_y)'
    BY <2>2, <2>3, <2>5 DEF At
  <2> QED
    BY <2>1, <2>2, <2>3, <2>4, <2>6 DEF ResizeInv
<1>2. CASE UNCHANGED vars
  BY <1>2 DEF vars, ResizeInv, SizesOK, At, Registers
<1> QED
  BY <1>1, <1>2

LEMMA SpecInv == Spec => []ResizeInv
  BY InitInv, NextInv, PTL DEF Spec

\* Every register keeps its range: a counter never passes the number of coordinates it
\* keeps, and the coordinate to keep is at most the first one outside (resize.v).
THEOREM ResizeTypeCorrect == Spec => []ResizeTypeOK
  BY SpecInv, InvType, PTL

----------------------------------------------------------------------------
\* Sixteen fractional bits are enough for an axis: as a fraction, the ratio of its
\* sizes has a small denominator.
Fine(n, m) == \E a, d \in Nat \ {0} : n * d = m * a /\ (m - 1) * d < 65536

\* What the build's frames need: one of five sizes in even steps.
LEMMA FifthsFine ==
  ASSUME NEW n, NEW m, Resizes(n, m), NEW j \in 1 .. 5, NEW b \in Nat, n = 5 * b, m = j * b
  PROVE  Fine(n, m)
<1>1. n \in Nat /\ m \in Nat /\ m >= 1 /\ m <= 4096 /\ j \in Nat \ {0} /\ 5 \in Nat \ {0}
  BY DEF Resizes
<1>2. n * j = m * 5
  BY <1>1
<1>3. (m - 1) * j < 65536
  <2>1. j \in {1, 2, 3, 4, 5}
    BY <1>1
  <2> QED
    BY <1>1, <2>1
<1> QED
  BY <1>1, <1>2, <1>3 DEF Fine

\* What small frames need: nothing.
LEMMA SmallFine ==
  ASSUME NEW n, NEW m, Resizes(n, m), m <= 256
  PROVE  Fine(n, m)
<1>1. n \in Nat \ {0} /\ m \in Nat \ {0}
  BY DEF Resizes
<1>2. n * m = m * n
  BY <1>1
<1>3. (m - 1) * m < 65536
  <2>1. (m - 1) * m <= 255 * m
    <3>1. (256 - m) * m >= 0 /\ 255 * m = (m - 1) * m + (256 - m) * m
      BY <1>1
    <3> QED
      BY <1>1, <3>1
  <2> QED
    BY <1>1, <2>1
<1> QED
  BY <1>1, <1>2, <1>3 DEF Fine

LEMMA Cancel ==
  ASSUME NEW m \in Nat \ {0}, NEW x \in Nat, NEW y \in Nat
  PROVE  /\ m * x < m * y => x < y
         /\ m * x <= m * y => x <= y
<1>1. ASSUME x >= y PROVE m * x >= m * y
  <2>1. m * (x - y) >= 0 /\ m * x = m * y + m * (x - y)
    BY <1>1
  <2> QED
    BY <2>1
<1>2. ASSUME x > y PROVE m * x > m * y
  <2>1. m * (x - y) > 0 /\ m * x = m * y + m * (x - y)
    BY <1>2
  <2> QED
    BY <2>1
<1> QED
  BY <1>1, <1>2

\* With a fine ratio the k-th coordinate that an axis keeps is the k-th of the grid:
\* what the ratio is too large by has not added up to one denominator-th.
LEMMA KeptExact ==
  ASSUME NEW n, NEW m, Resizes(n, m), Fine(n, m), NEW k \in 0 .. m - 1
  PROVE  Kept(n, m, k) = (k * n) \div m
<1> DEFINE r == Ratio(n, m)
           K == k * n
           q == K \div m
<1>1. n \in Nat /\ m \in Nat \ {0} /\ k \in Nat /\ k <= m - 1
  BY DEF Resizes
<1>2. r \in Nat /\ n * 65536 < m * r /\ m * r <= n * 65536 + m
  BY RatioBounds
<1>3. PICK a \in Nat \ {0}, d \in Nat \ {0} : n * d = m * a /\ (m - 1) * d < 65536
  BY DEF Fine
<1>4. K \in Nat
  BY <1>1
<1>5. K = q * m + (K % m) /\ q \in Nat /\ K % m \in 0 .. m - 1
  <2> HIDE DEF K
  <2> QED
    BY <1>1, <1>4
<1> HIDE DEF r, q
<1>6. q * 65536 <= k * r
  <2>1. k * (n * 65536) <= k * (m * r)
    <3>1. k * (m * r - n * 65536) >= 0
      BY <1>1, <1>2
    <3>2. k * (m * r) = k * (n * 65536) + k * (m * r - n * 65536)
      BY <1>1, <1>2
    <3> QED
      BY <1>1, <1>2, <3>1, <3>2
  <2>2. q * m <= K
    BY <1>1, <1>4, <1>5
  <2>3. k * (n * 65536) = K * 65536 /\ k * (m * r) = m * (k * r) /\ (q * m) * 65536 = m * (q * 65536)
    BY <1>1, <1>2, <1>5
  <2>4. m * (q * 65536) <= m * (k * r)
    <3> HIDE DEF K
    <3> QED
      BY <1>1, <1>2, <1>4, <1>5, <2>1, <2>2, <2>3
  <2> QED
    BY <1>1, <1>2, <1>5, <2>4, Cancel
<1>7. k * r < (q + 1) * 65536
  <2>1. k * a < (q + 1) * d
    <3>1. K < m * (q + 1)
      <4>1. m * (q + 1) = q * m + m
        BY <1>1, <1>5
      <4> HIDE DEF K
      <4> QED
        BY <1>1, <1>4, <1>5, <4>1
    <3>2. K * d < (m * (q + 1)) * d
      <4> DEFINE z == m * (q + 1)
      <4> HIDE DEF K, z
      <4>1. z \in Nat
        BY <1>1, <1>5 DEF z
      <4>2. K < z
        BY <3>1 DEF z
      <4>3. (z - K) * d > 0 /\ z * d = K * d + (z - K) * d
        BY <1>3, <1>4, <4>1, <4>2
      <4>4. z * d \in Nat /\ K * d \in Nat
        BY <1>3, <1>4, <4>1
      <4>5. K * d < z * d
        BY <1>3, <1>4, <4>1, <4>2, <4>3, <4>4
      <4> QED
        BY <4>5 DEF z
    <3>3. K * d = m * (k * a)
      <4>1. K * d = k * (n * d)
        BY <1>1, <1>3
      <4>2. k * (m * a) = m * (k * a)
        BY <1>1, <1>3
      <4> QED
        BY <1>3, <4>1, <4>2
    <3>4. (m * (q + 1)) * d = m * ((q + 1) * d)
      BY <1>1, <1>3, <1>5
    <3>5. m * (k * a) < m * ((q + 1) * d)
      <4> HIDE DEF K
      <4> QED
        BY <3>2, <3>3, <3>4
    <3> QED
      BY <1>1, <1>3, <1>5, <3>5, Cancel
  <2>2. k * d < 65536
    <3>1. (m - 1 - k) * d >= 0 /\ (m - 1) * d = k * d + (m - 1 - k) * d
      BY <1>1, <1>3
    <3> QED
      BY <1>1, <1>3, <3>1
  <2>3. (k * r) * d <= (k * a) * 65536 + k * d
    <3>1. k * d \in Nat
      BY <1>1, <1>3
    <3>2. (k * d) * (m * r) <= (k * d) * (n * 65536 + m)
      <4> DEFINE e == k * d
                 u == m * r
                 w == n * 65536 + m
      <4>1. e \in Nat /\ u \in Nat /\ w \in Nat /\ u <= w
        BY <1>1, <1>2, <3>1
      <4> HIDE DEF e, u, w
      <4>2. e * (w - u) >= 0 /\ e * w = e * u + e * (w - u)
        BY <4>1
      <4>3. e * w \in Nat /\ e * u \in Nat
        BY <4>1
      <4>4. e * u <= e * w
        BY <4>1, <4>2, <4>3
      <4> QED
        BY <4>4 DEF e, u, w
    <3>3. (k * d) * (m * r) = m * ((k * r) * d)
      BY <1>1, <1>2, <1>3
    <3>4. (k * d) * (n * 65536 + m) = m * ((k * a) * 65536 + k * d)
      <4>1. (k * d) * (n * 65536 + m) = (k * (n * d)) * 65536 + (k * d) * m
        BY <1>1, <1>3
      <4>2. (k * (m * a)) * 65536 + (k * d) * m = m * ((k * a) * 65536 + k * d)
        BY <1>1, <1>3
      <4> QED
        BY <1>3, <4>1, <4>2
    <3>5. m * ((k * r) * d) <= m * ((k * a) * 65536 + k * d)
      BY <3>2, <3>3, <3>4
    <3>6. (k * r) * d \in Nat /\ (k * a) * 65536 + k * d \in Nat
      BY <1>1, <1>2, <1>3
    <3> QED
      BY <1>1, <3>5, <3>6, Cancel
  <2>4. d * (k * r) < d * ((q + 1) * 65536)
    <3> DEFINE x == k * a
               y == (q + 1) * d
               e == k * d
    <3>1. x \in Nat /\ y \in Nat /\ e \in Nat
      BY <1>1, <1>3, <1>5
    <3>2. (k * r) * d = d * (k * r) /\ y * 65536 = d * ((q + 1) * 65536)
      BY <1>1, <1>2, <1>3, <1>5
    <3> HIDE DEF x, y, e
    <3>3. x < y /\ e < 65536 /\ (k * r) * d <= x * 65536 + e
      BY <2>1, <2>2, <2>3 DEF x, y, e
    <3>4. x * 65536 + e < y * 65536
      BY <3>1, <3>3
    <3>5. (k * r) * d \in Nat
      BY <1>1, <1>2, <1>3
    <3> QED
      BY <3>1, <3>2, <3>3, <3>4, <3>5
  <2> QED
    BY <1>1, <1>2, <1>3, <1>5, <2>4, Cancel
<1>8. ASSUME NEW p \in Nat, q * 65536 <= p, p < (q + 1) * 65536
      PROVE  p \div 65536 = q
  BY <1>5, <1>8
<1>9. k * r \in Nat
  BY <1>1, <1>2
<1>10. (k * r) \div 65536 = q
  BY <1>6, <1>7, <1>8, <1>9
<1> QED
  BY <1>10 DEF Kept, q, r

LEMMA KeptGrid ==
  ASSUME NEW n, NEW m, Resizes(n, m), Fine(n, m)
  PROVE  KeptBy(n, m) = Grid(n, m)
  BY KeptExact DEF KeptBy, Grid

\* The sizes of a build do not change.
FineInv == ResizeInv /\ Fine(Width, resize_width) /\ Fine(Height, resize_height)

LEMMA FineNext ==
  ASSUME FineInv, [Move]_vars
  PROVE  /\ FineInv'
         /\ [ori_y' < Height - 1 =>
              (reach' <=> ori_x' \in Grid(Width, resize_width) /\ ori_y' \in Grid(Height, resize_height))]_vars
<1>1. FineInv'
  <2>1. ResizeInv'
    BY NextInv DEF FineInv
  <2>2. resize_width' = resize_width /\ resize_height' = resize_height
    BY DEF Move, vars
  <2> QED
    BY <2>1, <2>2 DEF FineInv
<1>2. ASSUME Move, ori_y' < Height - 1
      PROVE  reach' <=> ori_x' \in Grid(Width, resize_width) /\ ori_y' \in Grid(Height, resize_height)
  <2>1. PICK s \in Runs : reach' = s.reach
    BY <1>2 DEF Move
  <2>2. ori_x' = NextX /\ ori_y' = NextY
    BY <1>2 DEF Move
  <2>3. Resizes(Width, resize_width) /\ Resizes(Height, resize_height)
    BY SizesResize DEF FineInv, ResizeInv
  <2>4. KeptBy(Width, resize_width) = Grid(Width, resize_width)
        /\ KeptBy(Height, resize_height) = Grid(Height, resize_height)
    BY <2>3, KeptGrid DEF FineInv
  <2>5. s.reach <=> NextX \in KeptBy(Width, resize_width) /\ NextY \in KeptBy(Height, resize_height)
    BY <1>2, <2>2, MoveRuns DEF FineInv
  <2> QED
    BY <2>1, <2>2, <2>4, <2>5
<1> QED
  BY <1>1, <1>2

\* For every frame and every size for which sixteen fractional bits are enough, just
\* the coordinates of the grid are kept above the last line, in every frame and in
\* whatever order the changes of a coordinate are seen (resize.v).
THEOREM GridIsKept ==
  Spec /\ Fine(Width, resize_width) /\ Fine(Height, resize_height) => KeepsGrid
<1>1. Init /\ Fine(Width, resize_width) /\ Fine(Height, resize_height) => FineInv
  BY InitInv DEF FineInv
<1>2. FineInv /\ [Move]_vars => FineInv'
  BY FineNext
<1>3. FineInv /\ [Move]_vars =>
        [ori_y' < Height - 1 =>
          (reach' <=> ori_x' \in Grid(Width, resize_width) /\ ori_y' \in Grid(Height, resize_height))]_vars
  BY FineNext
<1> QED
  BY <1>1, <1>2, <1>3, PTL DEF Spec, KeepsGrid
=============================================================================
