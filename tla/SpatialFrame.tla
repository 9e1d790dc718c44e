---------------------------- MODULE SpatialFrame ----------------------------
(***************************************************************************)
(* The geometry of a spatial PNG (zdx_spatial_frame.py): layouts and their  *)
(* regions, addressing, writes of cells and bytes, the list of dirty        *)
(* rectangles, and the roles an agent ABI binds to regions                  *)
(* (zdx_agent_abi.py).                                                      *)
(*                                                                          *)
(* A layout is [width, height, execution_rows, regions], regions a set of   *)
(* [name, x, y, width, height].  The content of a pixel is abstracted to    *)
(* the name of the region it was last written through.                      *)
(***************************************************************************)
EXTENDS Integers, Sequences, FiniteSets

CONSTANTS Layouts,          \* layouts callers ask for, valid or not
          MinMailboxBytes,  \* _MIN_ROLE_CAPACITY of a mailbox
          Lengths, Offsets, \* payload lengths and offsets of byte writes
          MaxFrameWrites    \* bound: writes

VARIABLES layout,   \* the layout of the frame
          image,    \* image[x, y]: who wrote the pixel last
          dirty,    \* _dirty_rectangles, in order: <<x0, y0, x1, y1>>, half open
          touched,  \* pixels written since the rectangles were cleared
          frameWrites

frameVars == <<layout, image, dirty, touched, frameWrites>>

Region(name, x, y, w, h) == [name |-> name, x |-> x, y |-> y, width |-> w, height |-> h]

CapacityBytes(r) == r.width * r.height * 3

\* Mutant: regions that share a row or a column are taken to be apart
ApartByCorner(a, b) ==
  ~ (a.x + a.width <= b.x + 1 \/ b.x + b.width <= a.x + 1
     \/ a.y + a.height <= b.y \/ b.y + b.height <= a.y)

RegionsOverlap(a, b) ==
  ~ (a.x + a.width <= b.x \/ b.x + b.width <= a.x
     \/ a.y + a.height <= b.y \/ b.y + b.height <= a.y)

\* SpatialLayout.__post_init__
ValidLayout(l) ==
  /\ l.width >= 1 /\ l.height >= 1
  /\ l.execution_rows \in 0..l.height
  /\ \A r \in l.regions :
       /\ r.width >= 1 /\ r.height >= 1 /\ r.x >= 0 /\ r.y >= 0
       /\ r.x + r.width <= l.width /\ r.y + r.height <= l.height
       /\ r.y >= l.execution_rows
  /\ \A r, s \in l.regions :
       r # s => r.name # s.name /\ ~RegionsOverlap(r, s)

ExecutionRegion(l) == Region("execution", 0, 0, l.width, l.execution_rows)

StorageRegion(l) ==
  Region("storage", 0, l.execution_rows, l.width, l.height - l.execution_rows)

\* the regions region() finds by name
Addressable(l) ==
  {r \in l.regions : r.name \notin {"storage", "execution"}}
    \cup {ExecutionRegion(l)}
    \cup (IF l.execution_rows < l.height THEN {StorageRegion(l)} ELSE {})

(* SpatialAgentABI.infer: every role takes the first of its conventional    *)
(* names that the layout has and no role before it took; validate() then    *)
(* refuses a mailbox that is too small.                                     *)
Conventions == <<<<"working_memory", "working">>, <<"mailbox_in", "inbox">>,
                 <<"mailbox_out", "outbox">>, <<"capabilities">>, <<"provenance", "audit">>>>

Roles == <<"working_memory", "mailbox_in", "mailbox_out", "capabilities", "provenance">>

Inferred(l, persistent) ==
  LET names == {r.name : r \in l.regions}
      bound[i \in 0..Len(Roles)] ==
        IF i = 0 THEN {<<"persistent_memory", persistent>>}
        ELSE LET free == {k \in DOMAIN Conventions[i] :
                            /\ Conventions[i][k] \in names
                            /\ \A b \in bound[i - 1] : b[2] # Conventions[i][k]}
             IN IF free = {} THEN bound[i - 1]
                ELSE bound[i - 1] \cup
                       {<<Roles[i], Conventions[i][CHOOSE k \in free : \A j \in free : k <= j]>>}
  IN bound[Len(Roles)]

ValidABI(l, bindings) ==
  /\ \A b, c \in bindings : (b[1] = c[1] \/ b[2] = c[2]) => b = c
  /\ \A b \in bindings : \E r \in Addressable(l) :
       /\ r.name = b[2] /\ r.y >= l.execution_rows
       /\ b[1] \in {"mailbox_in", "mailbox_out"} => CapacityBytes(r) >= MinMailboxBytes

FrameStart(l) ==
  /\ layout = l
  /\ image = [c \in (0..layout.width - 1) \X (0..layout.height - 1) |-> "blank"]
  /\ dirty = <<>>
  /\ touched = {}
  /\ frameWrites = 0

FrameInit == \E l \in Layouts : ValidLayout(l) /\ FrameStart(l)

-----------------------------------------------------------------------------
(* Dirty rectangles.                                                        *)

Separated(p, c) == p[3] < c[1] \/ c[3] < p[1] \/ p[4] < c[2] \/ c[4] < p[2]

Least(a, b) == IF a <= b THEN a ELSE b

Greatest(a, b) == IF a >= b THEN a ELSE b

Joined(p, c) == <<Least(p[1], c[1]), Least(p[2], c[2]),
                  Greatest(p[3], c[3]), Greatest(p[4], c[4])>>

(* One pass of the loop of _mark_dirty_rectangle: the pending rectangle     *)
(* grows as it meets rectangles it is not separated from.                   *)
RECURSIVE Absorb(_, _, _)
Absorb(pending, remaining, apart) ==
  IF remaining = <<>> THEN [pending |-> pending, apart |-> apart]
  ELSE IF Separated(pending, Head(remaining))
       THEN Absorb(pending, Tail(remaining), Append(apart, Head(remaining)))
       ELSE Absorb(Joined(pending, Head(remaining)), Tail(remaining), apart)

\* Mutant: one pass is enough
MarkedOnce(pending, remaining) ==
  LET pass == Absorb(pending, remaining, <<>>) IN Append(pass.apart, pass.pending)

\* passes are made until one of them joins nothing
RECURSIVE Marked(_, _)
Marked(pending, remaining) ==
  LET pass == Absorb(pending, remaining, <<>>)
  IN IF Len(pass.apart) = Len(remaining) THEN Append(pass.apart, pass.pending)
     ELSE Marked(pass.pending, pass.apart)

-----------------------------------------------------------------------------
(* Operations.                                                              *)

Write(cells, rectangle, who) ==
  /\ frameWrites < MaxFrameWrites
  /\ frameWrites' = frameWrites + 1
  /\ image' = [c \in DOMAIN image |-> IF c \in cells THEN who ELSE image[c]]
  /\ touched' = touched \cup cells
  /\ dirty' = Marked(rectangle, dirty)
  /\ UNCHANGED layout

\* write_cell, write_u24: any coordinate of the frame
WriteCell(x, y) == Write({<<x, y>>}, <<x, y, x + 1, y + 1>>, "cell")

\* the coordinate of pixel k of a region, in row-major order
Pixel(r, k) == <<r.x + (k % r.width), r.y + (k \div r.width)>>

\* one row is marked exactly, a span over several rows as full rows
SpanRectangle(r, first, last) ==
  IF first \div r.width = last \div r.width
  THEN <<Pixel(r, first)[1], Pixel(r, first)[2], Pixel(r, last)[1] + 1, Pixel(r, last)[2] + 1>>
  ELSE <<r.x, r.y + (first \div r.width), r.x + r.width, r.y + (last \div r.width) + 1>>

\* write_bytes, and write_json at offset 0 with its 4-byte length
WriteBytes(r, offset, length) ==
  LET first == offset \div 3
      last == (offset + length - 1) \div 3
  IN /\ length > 0 /\ offset + length <= CapacityBytes(r)
     /\ Write({Pixel(r, k) : k \in first..last}, SpanRectangle(r, first, last), r.name)

ClearDirtyRectangles ==
  /\ dirty # <<>>
  /\ dirty' = <<>> /\ touched' = {}
  /\ UNCHANGED <<layout, image, frameWrites>>

FrameNext ==
  \/ \E c \in DOMAIN image : WriteCell(c[1], c[2])
  \/ \E r \in Addressable(layout), length \in Lengths :
       \E offset \in Offsets : WriteBytes(r, offset, length)
  \/ ClearDirtyRectangles

-----------------------------------------------------------------------------
(* Properties.                                                              *)

CellsOf(r) == (r.x .. r.x + r.width - 1) \X (r.y .. r.y + r.height - 1)

(* The dirty rectangles cover every pixel written since they were cleared,  *)
(* stay inside the frame, and no two of them touch: what a checkpoint that  *)
(* writes only them relies on (_mark_dirty_rectangle, write_bytes).         *)
DirtyCoversWrites ==
  /\ \A c \in touched : \E i \in DOMAIN dirty :
       /\ dirty[i][1] <= c[1] /\ c[1] < dirty[i][3]
       /\ dirty[i][2] <= c[2] /\ c[2] < dirty[i][4]
  /\ \A i \in DOMAIN dirty : dirty[i][3] <= layout.width /\ dirty[i][4] <= layout.height
  /\ \A i, j \in DOMAIN dirty : i # j => Separated(dirty[i], dirty[j])

(* A pixel of the executable rows, or of a named region, is only ever       *)
(* written through that region, the storage plane around it or as a single  *)
(* cell: no accepted layout, and no byte offset, lets a region leak into    *)
(* another (__post_init__, _regions_overlap, write_bytes).  The regions the *)
(* inferred ABI gives to two roles never share a pixel.                     *)
RegionsDoNotLeak ==
  /\ \A c \in DOMAIN image : \A r \in layout.regions \cup {ExecutionRegion(layout)} :
       c \in CellsOf(r) =>
         image[c] \in {"blank", "cell", r.name}
                       \cup (IF r.name = "execution" THEN {} ELSE {"storage"})
  /\ \A p \in layout.regions :
       LET abi == Inferred(layout, p.name)
       IN ValidABI(layout, abi) =>
            \A b, c \in abi : \A r, s \in layout.regions :
              b # c /\ r.name = b[2] /\ s.name = c[2] => CellsOf(r) \cap CellsOf(s) = {}
=============================================================================
