------------------------------- MODULE Resize -------------------------------
(***************************************************************************)
(* The resizer of resize.v, which picks the coordinates of a frame that a  *)
(* smaller frame keeps: on each axis a counter of kept coordinates, and    *)
(* the next one to keep.  Its block runs when a coordinate changes; when   *)
(* both change it may run for both at once, or for one and then the other. *)
(***************************************************************************)
EXTENDS Naturals

CONSTANTS
  Width,    \* FRAME_ORIGINAL_CAMERA_WIDTH
  Height    \* FRAME_ORIGINAL_CAMERA_HEIGHT

\* Coordinates have DATA_WIDTH_12 bits.
ASSUME FrameAssumption == Width \in 2 .. 4096 /\ Height \in 2 .. 4096

VARIABLES
  resize_width,    \* FRAME_RESIZE_CAMERA_WIDTH and _HEIGHT of the build
  resize_height,
  ori_x, ori_y,    \* the coordinate of the frame controller
  x_axis, y_axis,  \* temp: tempxcoord, coord: oxcoord; and those of y
  reach

vars == <<resize_width, resize_height, ori_x, ori_y, x_axis, y_axis, reach>>

\* The registers of an axis of size n that keeps m coordinates.
Axis(n, m) == [temp : 0 .. m, coord : 0 .. n]

ResizeTypeOK ==
  /\ resize_width \in 1 .. Width
  /\ resize_height \in 1 .. Height
  /\ ori_x \in 0 .. Width - 1
  /\ ori_y \in 0 .. Height - 1
  /\ x_axis \in Axis(Width, resize_width)
  /\ y_axis \in Axis(Height, resize_height)
  /\ reach \in BOOLEAN

Origin == [temp |-> 0, coord |-> 0]

Init ==
  /\ resize_width \in 1 .. Width
  /\ resize_height \in 1 .. Height
  /\ ori_x = 0 /\ ori_y = 0
  /\ x_axis = Origin /\ y_axis = Origin
  /\ reach \in BOOLEAN

----------------------------------------------------------------------------
\* x_ratio and y_ratio: fixed point with 16 fractional bits, rounded up.
Ratio(n, m) == (n * 65536) \div m + 1

\* A fault for ResizeTypeOK: the next coordinate to keep is computed at once.
AxisStepAlways(axis, c, ratio) ==
  [temp |-> axis.temp + 1, coord |-> ((axis.temp + 1) * ratio) \div 65536]

\* Past the coordinate to keep, the next one is computed.
AxisStep(axis, c, ratio) ==
  IF c > axis.coord
  THEN [temp |-> axis.temp + 1, coord |-> ((axis.temp + 1) * ratio) \div 65536]
  ELSE axis

\* A fault for KeepsGrid: a line goes on counting where the last one ended.
AxisEndNever(axis, c, n) == axis

\* The last coordinate starts the axis again.
AxisEnd(axis, c, n) == IF c = n - 1 THEN Origin ELSE axis

\* One run of the block, at coordinate <<x, y>>, from the registers of s.
Evaluated(s, x, y) ==
  LET xs == AxisStep(s.x, x, Ratio(Width, resize_width))
      ys == AxisStep(s.y, y, Ratio(Height, resize_height))
  IN [x |-> AxisEnd(xs, x, Width), y |-> AxisEnd(ys, y, Height),
      reach |-> xs.coord = x /\ ys.coord = y]

Registers == [x |-> x_axis, y |-> y_axis]

\* The coordinate moves on in its line, or to the first of the next line.
NextX == IF ori_x = Width - 1 THEN 0 ELSE ori_x + 1
NextY ==
  IF ori_x < Width - 1 THEN ori_y ELSE IF ori_y = Height - 1 THEN 0 ELSE ori_y + 1

\* The runs of the block that a move of the coordinate may cause.
Runs ==
  LET both == Evaluated(Registers, NextX, NextY) IN
  IF NextY = ori_y THEN {both}
  ELSE {both,
        Evaluated(Evaluated(Registers, NextX, ori_y), NextX, NextY),
        Evaluated(Evaluated(Registers, ori_x, NextY), NextX, NextY)}

Move ==
  /\ ori_x' = NextX /\ ori_y' = NextY
  /\ \E s \in Runs : x_axis' = s.x /\ y_axis' = s.y /\ reach' = s.reach
  /\ UNCHANGED <<resize_width, resize_height>>

Spec == Init /\ [][Move]_vars

----------------------------------------------------------------------------
\* The coordinates an axis of size n keeps to have m of them, evenly spread.
Grid(n, m) == {(k * n) \div m : k \in 0 .. m - 1}

\* Above the last line of a frame, just the coordinates of the grid are kept, in
\* every frame and in whatever order the changes of a coordinate are seen: each
\* kept line gives the window memory as many pixels as its rows hold (resize.v; where
\* sixteen fractional bits are enough: of 800 columns 313 are not quite the grid's).
KeepsGrid ==
  [][ori_y' < Height - 1 =>
       (reach' <=> ori_x' \in Grid(Width, resize_width) /\ ori_y' \in Grid(Height, resize_height))]_vars

=============================================================================
