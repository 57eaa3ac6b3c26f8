------------------------------- MODULE Polygon -------------------------------
(***************************************************************************)
(* polygon.util.ts on a grid of integers, where its tolerance of 1e-10     *)
(* plays no part: rings of vertices, the first of them repeated at the end.*)
(* A point is <<x, y, w>>, which stands for (x/w, y/w): the midpoints that *)
(* deliveryPolygonsOverlap() tries are not on the grid.                    *)
(***************************************************************************)
EXTENDS Integers, FiniteSets, Sequences

CONSTANTS
  Grid,        \* coordinates of the vertices
  Corners      \* how many vertices a ring may have

(* Triangles() below cuts rings of four vertices, and none of more.        *)
ASSUME DrawingsAssumption == Grid \subseteq Int /\ Corners \subseteq {3, 4}

VARIABLES
  rings,       \* polygons that have been drawn, one after the other
  overlap      \* what deliveryPolygonsOverlap() says of two of them

polygonVars == <<rings, overlap>>

At2(x, y) == <<x, y, 1>>
Abs(n) == IF n < 0 THEN -n ELSE n
Sign(n) == IF n > 0 THEN 1 ELSE IF n < 0 THEN -1 ELSE 0
Lesser(m, n) == IF m <= n THEN m ELSE n
Greater(m, n) == IF m <= n THEN n ELSE m

(* cross() of two vertices and a point, times the w of the point.          *)
Cross(a, b, p) ==
  (b[1] - a[1]) * (p[2] - a[2] * p[3]) - (b[2] - a[2]) * (p[1] - a[1] * p[3])

Side(a, b, p) == Sign(Cross(a, b, p))

OnSegment(p, a, b) ==
  /\ Side(a, b, p) = 0
  /\ \A i \in 1..2 : /\ p[i] >= Lesser(a[i], b[i]) * p[3]
                     /\ p[i] <= Greater(a[i], b[i]) * p[3]

SegmentsIntersect(a, b, c, d) ==
  \/ /\ Side(a, b, c) * Side(a, b, d) < 0
     /\ Side(c, d, a) * Side(c, d, b) < 0
  \/ OnSegment(c, a, b) \/ OnSegment(d, a, b)
  \/ OnSegment(a, c, d) \/ OnSegment(b, c, d)

(* Edges of a ring that is closed.                                         *)
Count(ring) == Len(ring) - 1
Edges(ring) == {<<ring[i], ring[i + 1]>> : i \in 1..Count(ring)}

(* Twice the area, positive counterclockwise.                              *)
SignedArea(ring) ==
  LET area[i \in 1..Count(ring)] ==
        IF i = 1 THEN 0 ELSE area[i - 1] + Cross(ring[1], ring[i], ring[i + 1])
  IN area[Count(ring)]

(* deliveryPolygonError() is null, for a ring of points that are in range. *)
ValidRing(ring) ==
  LET n == Count(ring)
      after(i) == ring[((i + 1) % n) + 1] IN
  /\ Len(ring) >= 4
  /\ ring[1] = ring[Len(ring)]
  /\ \A i \in 1..n :
       LET a == ring[i]  b == ring[i + 1]  c == after(i) IN
       /\ a # b
       /\ ~ /\ Side(a, b, c) = 0
            /\ (b[1] - a[1]) * (c[1] - b[1]) + (b[2] - a[2]) * (c[2] - b[2]) < 0
       /\ \A j \in (i + 2)..n :
            ~(i = 1 /\ j = n) => ~SegmentsIntersect(a, b, ring[j], ring[j + 1])
  /\ SignedArea(ring) # 0

(* Mutant: an edge is crossed at the height of both of its ends.           *)
CrossesBothEnds(p, a, b) ==
  /\ Lesser(a[2], b[2]) * p[3] <= p[2] /\ p[2] <= Greater(a[2], b[2]) * p[3]
  /\ IF b[2] > a[2] THEN Cross(a, b, p) > 0 ELSE Cross(a, b, p) < 0

(* Ray casting: edges that the ray to the right of p crosses.              *)
Crosses(p, a, b) ==
  /\ (a[2] * p[3] > p[2]) # (b[2] * p[3] > p[2])
  /\ IF b[2] > a[2] THEN Cross(a, b, p) > 0 ELSE Cross(a, b, p) < 0

PointInPolygon(p, ring, includeBoundary) ==
  IF \E e \in Edges(ring) : OnSegment(p, e[1], e[2]) THEN includeBoundary
  ELSE Cardinality({e \in Edges(ring) : Crosses(p, e[1], e[2])}) % 2 = 1

(***************************************************************************)
(* deliveryPolygonsOverlap().  A cut of the edge a, b is <<t, w>>: t/w of  *)
(* the way from a to b, with w > 0.                                        *)
(***************************************************************************)
Cut(t, w) == IF w < 0 THEN <<-t, -w>> ELSE <<t, w>>
Before(s, t) == s[1] * t[2] < t[1] * s[2]
Clamp(t) == IF t[1] < 0 THEN <<0, 1>> ELSE IF t[1] > t[2] THEN <<1, 1>> ELSE t

(* Where along a, b the vertex p is, by the longer coordinate.             *)
Parameter(p, a, b) ==
  LET i == IF Abs(b[1] - a[1]) >= Abs(b[2] - a[2]) THEN 1 ELSE 2
  IN Cut(p[i] - a[i], b[i] - a[i])

Collinear(a, b, c, d) == Side(a, b, c) = 0 /\ Side(a, b, d) = 0

Shared(a, b, c, d) ==
  LET tc == Parameter(c, a, b)  td == Parameter(d, a, b)
  IN IF Before(td, tc) THEN <<Clamp(td), Clamp(tc)>> ELSE <<Clamp(tc), Clamp(td)>>

(* Mutant: shared edges never overlap, whatever side the interiors are on. *)
NeverCoincident(a, b, c, d, sides) == FALSE

(* Mutant: shared edges overlap, whatever side the interiors are on.       *)
SharedOverlap(a, b, c, d, sides) ==
  Collinear(a, b, c, d) /\ LET s == Shared(a, b, c, d) IN Before(s[1], s[2])

(* Coincident edges with the interiors on the same side.                   *)
CoincidentOverlap(a, b, c, d, sides) ==
  /\ Collinear(a, b, c, d)
  /\ LET s == Shared(a, b, c, d) IN Before(s[1], s[2])
  /\ sides * Sign((b[1] - a[1]) * (d[1] - c[1]) + (b[2] - a[2]) * (d[2] - c[2])) > 0

CutsOf(a, b, c, d) ==
  LET denominator == (b[1] - a[1]) * (d[2] - c[2]) - (b[2] - a[2]) * (d[1] - c[1])
      t == (c[1] - a[1]) * (d[2] - c[2]) - (c[2] - a[2]) * (d[1] - c[1])
  IN IF Collinear(a, b, c, d) THEN {Shared(a, b, c, d)[1], Shared(a, b, c, d)[2]}
     ELSE IF denominator # 0 THEN {Clamp(Cut(t, denominator))} ELSE {}

Cuts(a, b, ring) ==
  {<<0, 1>>, <<1, 1>>} \cup
    UNION {CutsOf(a, b, e[1], e[2]) :
             e \in {f \in Edges(ring) : SegmentsIntersect(a, b, f[1], f[2])}}

(* Midpoints of neighbouring cuts, and the points of a, b that they are.   *)
Midpoints(a, b, cuts) ==
  {LET t == pair[1][1] * pair[2][2] + pair[2][1] * pair[1][2]
       w == 2 * pair[1][2] * pair[2][2]
   IN <<a[1] * w + t * (b[1] - a[1]), a[2] * w + t * (b[2] - a[2]), w>> :
     pair \in {q \in cuts \X cuts : /\ Before(q[1], q[2])
                                    /\ ~\E c \in cuts : Before(q[1], c) /\ Before(c, q[2])}}

PolygonsOverlap(first, second) ==
  LET sides == Sign(SignedArea(first)) * Sign(SignedArea(second)) IN
  \/ \E e \in Edges(first) :
       \/ PointInPolygon(e[1], second, FALSE)
       \/ \E f \in Edges(second) :
            /\ SegmentsIntersect(e[1], e[2], f[1], f[2])
            /\ CoincidentOverlap(e[1], e[2], f[1], f[2], sides)
       \/ \E p \in Midpoints(e[1], e[2], Cuts(e[1], e[2], second)) :
            PointInPolygon(p, second, FALSE)
  \/ \E i \in 1..Count(second) : PointInPolygon(second[i], first, FALSE)

(***************************************************************************)
(* Two polygons are drawn and compared.                                    *)
(***************************************************************************)
Vertices == {At2(x, y) : x, y \in Grid}
Rings(n) == {[i \in 1..(n + 1) |-> IF i > n THEN r[1] ELSE r[i]] : r \in [1..n -> Vertices]}

(* The order of the vertices counts, the one it begins with does not.      *)
Canonical(ring) ==
  \A i \in 2..Count(ring) :
    \/ ring[1][1] < ring[i][1]
    \/ ring[1][1] = ring[i][1] /\ ring[1][2] < ring[i][2]

(* The rings that deliveryPolygonError() lets pass.                        *)
ValidRings ==
  {ring \in UNION {Rings(n) : n \in Corners} : Canonical(ring) /\ ValidRing(ring)}

PolygonInit == rings = <<>> /\ overlap = FALSE

Draw(ring) ==
  /\ Len(rings) = 0
  /\ rings' = <<ring>>
  /\ UNCHANGED overlap

(* The second one is a triangle.                                           *)
Compare(ring) ==
  /\ Len(rings) = 1
  /\ Count(ring) = 3
  /\ rings' = Append(rings, ring)
  /\ overlap' = PolygonsOverlap(rings[1], ring)

PolygonNext ==
  \/ \E ring \in ValidRings : Draw(ring) \/ Compare(ring)
  \/ Len(rings) = 2 /\ UNCHANGED polygonVars

PolygonSpec == PolygonInit /\ [][PolygonNext]_polygonVars

(***************************************************************************)
(* Reference: triangles, and the line that separates two of them.          *)
(***************************************************************************)
Inward(t, i) == Side(t[i], t[(i % 3) + 1], t[((i + 1) % 3) + 1])

InTriangle(t, p) == \A i \in 1..3 : Side(t[i], t[(i % 3) + 1], p) * Inward(t, i) >= 0

Separates(t, i, u) ==
  \A j \in 1..3 : Side(t[i], t[(i % 3) + 1], u[j]) * Inward(t, i) <= 0

Apart(t, u) == \E i \in 1..3 : Separates(t, i, u) \/ Separates(u, i, t)

(* A quadrilateral is cut along a diagonal with a vertex on each side.     *)
Triangles(ring) ==
  LET a == ring[1]  b == ring[2]  c == ring[3]  d == ring[4] IN
  IF Count(ring) = 3 THEN {<<a, b, c>>}
  ELSE IF Side(a, c, b) * Side(a, c, d) < 0 THEN {<<a, b, c>>, <<a, c, d>>}
  ELSE {<<a, b, d>>, <<b, c, d>>}

(***************************************************************************)
(* Properties.                                                             *)
(***************************************************************************)
SharedInterior ==
  \E t \in Triangles(rings[1]), u \in Triangles(rings[2]) : ~Apart(t, u)

(* polygon.util.ts:172: polygons that only touch, along an edge, a part of *)
(* one or at a vertex, do not overlap, in whichever direction they are     *)
(* drawn: what overlaps has a point of both in common.                     *)
SharedBordersAreAllowed == Len(rings) = 2 => (overlap => SharedInterior)

(* polygon.util.ts:172: polygons with a common interior are found to       *)
(* overlap when they are compared in one order or in the other.            *)
CommonInteriorsAreFound ==
  Len(rings) = 2 => (SharedInterior => overlap \/ PolygonsOverlap(rings[2], rings[1]))

(* polygon.util.ts:172 "Detect interior intersections, containment and     *)
(* coincident boundaries": polygons with a common interior overlap.        *)
ContainmentIsDetected == Len(rings) = 2 => (SharedInterior => overlap)

(* polygon.util.ts:144: a vertex or the middle of two of them is inside a  *)
(* polygon if it is in one of its triangles, and on its border included.   *)
InsideIsInATriangle ==
  Len(rings) = 1 =>
    \A v, w \in Vertices :
      LET p == <<v[1] + w[1], v[2] + w[2], 2>> IN
      PointInPolygon(p, rings[1], TRUE) <=> \E t \in Triangles(rings[1]) : InTriangle(t, p)

(* Both: what the code answers about a point and about two polygons is so  *)
(* of the regions that they enclose.                                       *)
PolygonsAreRegions == InsideIsInATriangle /\ SharedBordersAreAllowed

=============================================================================
