--------------------------- MODULE Polygon_proofs --------------------------
(***************************************************************************)
(* polygon.util.ts over any grid of integers: ray casting finds the points *)
(* of a polygon, and what deliveryPolygonsOverlap() finds to overlap does. *)
(* The answers are those of arithmetic, of signs of cross products; the    *)
(* invariant that is inductive only says which rings have been drawn.      *)
(***************************************************************************)
EXTENDS BackOffice, FiniteSetTheorems, TLAPS

(***************************************************************************)
(* Signs.  The solver is weak at products: their signs are stated once, of *)
(* numbers that have names.                                                *)
(***************************************************************************)
(* The sign of m, a product of u and v.                                    *)
Signs(u, v, m) ==
  /\ u > 0 /\ v > 0 => m > 0
  /\ u > 0 /\ v < 0 => m < 0
  /\ u < 0 /\ v > 0 => m < 0
  /\ u < 0 /\ v < 0 => m > 0
  /\ u = 0 \/ v = 0 => m = 0

LEMMA SignOfProduct == \A u, v \in Int : Signs(u, v, u * v)
  BY DEF Signs

(***************************************************************************)
(* The plane seen from a point: Det is twice the area of the triangle that *)
(* the point makes with a and b, Turn that of the triangle a, b, c.        *)
(***************************************************************************)
Plane == Int \X Int

Det(a, b) == a[1] * b[2] - a[2] * b[1]
Turn(a, b, c) == Det(a, b) + Det(b, c) + Det(c, a)

(* Det is a number, which changes its sign with the order.                 *)
LEMMA DetType == \A a, b \in Plane : Det(a, b) \in Int /\ Det(b, a) = -Det(a, b)
  BY DEF Plane, Det

LEMMA TurnType == \A a, b, c \in Plane : Turn(a, b, c) \in Int
  BY DetType DEF Turn

LEMMA PairsOfInts ==
  ASSUME NEW a \in Plane
  PROVE  \E x, y \in Int : a = <<x, y>>
  BY DEF Plane

(***************************************************************************)
(* Parity.  What pointInDeliveryPolygon() asks of the edges, of vectors    *)
(* from the point: crossed by the ray, touched by the point; and within a  *)
(* triangle.                                                               *)
(***************************************************************************)
(* 0 is between m and n.                                                   *)
Around(m, n) == (m <= 0 /\ 0 <= n) \/ (n <= 0 /\ 0 <= m)

(* The edge between heights m and n is crossed to the right of the point;  *)
(* d is the Det of its ends.                                               *)
CrossedAt(m, n, d) == (m <= 0 /\ n > 0 /\ d > 0) \/ (n <= 0 /\ m > 0 /\ d < 0)

(* The point is on the edge.                                               *)
TouchedAt(ax, ay, bx, by, d) == d = 0 /\ Around(ax, bx) /\ Around(ay, by)

(* The sides of a triangle are seen in one direction.                      *)
WithinAt(d, e, f) == (d >= 0 /\ e >= 0 /\ f >= 0) \/ (d <= 0 /\ e <= 0 /\ f <= 0)

(* An odd number of them.                                                  *)
Odd3(A, B, C) == (A /\ (B <=> C)) \/ (~A /\ ~(B <=> C))
Odd4(A, B, C, E) == ~((A <=> B) <=> (C <=> E))
Crossed(a, b) == CrossedAt(a[2], b[2], Det(a, b))
Touched(a, b) == TouchedAt(a[1], a[2], b[1], b[2], Det(a, b))
Within(a, b, c) == WithinAt(Det(a, b), Det(b, c), Det(c, a))

(* d is s - t, products of the coordinates of the two vectors.             *)
Coordinates(ax, ay, bx, by, d, s, t) ==
  d = s - t /\ Signs(ax, by, s) /\ Signs(ay, bx, t)

LEMMA SignsOfDet ==
  ASSUME NEW ax \in Int, NEW ay \in Int, NEW bx \in Int, NEW by \in Int
  PROVE  \E s, t \in Int : Coordinates(ax, ay, bx, by, ax * by - ay * bx, s, t)
<1>1. Coordinates(ax, ay, bx, by, ax * by - ay * bx, ax * by, ay * bx)
  BY SignOfProduct DEF Coordinates
<1> QED BY <1>1

(* The vectors of a triangle, weighted with the Det of the other two, add  *)
(* up to 0: in one coordinate u, v, w.                                     *)
Balanced(u, v, w, d, e, f, k, m, n) ==
  k + m + n = 0 /\ Signs(u, e, k) /\ Signs(v, f, m) /\ Signs(w, d, n)

(* No area without a height, or without a vector.                          *)
Flat(ax, ay, bx, by, d) ==
  /\ ay = 0 /\ by = 0 => d = 0
  /\ ax = 0 /\ ay = 0 => d = 0
  /\ bx = 0 /\ by = 0 => d = 0

LEMMA FlatDet ==
  ASSUME NEW ax \in Int, NEW ay \in Int, NEW bx \in Int, NEW by \in Int
  PROVE  Flat(ax, ay, bx, by, ax * by - ay * bx)
<1>1. ASSUME ay = 0, by = 0 PROVE ax * by - ay * bx = 0
  BY <1>1
<1>2. ASSUME ay = 0, ax = 0 PROVE ax * by - ay * bx = 0
  BY <1>2
<1>3. ASSUME bx = 0, by = 0 PROVE ax * by - ay * bx = 0
  BY <1>3
<1> QED BY <1>1, <1>2, <1>3 DEF Flat

(* All of it, for a triangle seen from the point.                          *)
Facts(ax, ay, bx, by, cx, cy, d, e, f, k, m, n, q, r, s) ==
  /\ Balanced(ay, by, cy, d, e, f, k, m, n)
  /\ Balanced(ax, bx, cx, d, e, f, q, r, s)
  /\ Flat(ax, ay, bx, by, d) /\ Flat(bx, by, cx, cy, e) /\ Flat(cx, cy, ax, ay, f)

LEMMA FactsOfTriangles ==
  ASSUME NEW ax \in Int, NEW ay \in Int, NEW bx \in Int, NEW by \in Int, NEW cx \in Int,
         NEW cy \in Int,
         NEW d \in Int, NEW e \in Int, NEW f \in Int,
         d = ax * by - ay * bx, e = bx * cy - by * cx, f = cx * ay - cy * ax
  PROVE  \E k, m, n, q, r, s \in Int : Facts(ax, ay, bx, by, cx, cy, d, e, f, k, m, n, q, r, s)
<1>1. PICK k \in Int, m \in Int, n \in Int :
        k = ay * e /\ m = by * f /\ n = cy * d
  OBVIOUS
<1>2. PICK q \in Int, r \in Int, s \in Int :
        q = ax * e /\ r = bx * f /\ s = cx * d
  OBVIOUS
<1>3. k + m + n = 0
  BY <1>1
<1>4. q + r + s = 0
  BY <1>2
<1>5. Balanced(ay, by, cy, d, e, f, k, m, n)
  BY <1>1, <1>3, SignOfProduct DEF Balanced
<1>6. Balanced(ax, bx, cx, d, e, f, q, r, s)
  BY <1>2, <1>4, SignOfProduct DEF Balanced
<1>7. Flat(ax, ay, bx, by, d) /\ Flat(bx, by, cx, cy, e) /\ Flat(cx, cy, ax, ay, f)
  BY FlatDet
<1> QED BY <1>5, <1>6, <1>7 DEF Facts

(* A point is on the border of a triangle, or its ray crosses an odd       *)
(* number of edges, exactly if it is within the triangle.                  *)
LEMMA TriangleParity ==
  ASSUME NEW a \in Plane, NEW b \in Plane, NEW c \in Plane, Turn(a, b, c) # 0
  PROVE  (\/ Touched(a, b) \/ Touched(b, c) \/ Touched(c, a)
          \/ Odd3(Crossed(a, b), Crossed(b, c), Crossed(c, a)))
         <=> Within(a, b, c)
<1>1. PICK ax \in Int, ay \in Int, bx \in Int, by \in Int, cx \in Int, cy \in Int :
        a = <<ax, ay>> /\ b = <<bx, by>> /\ c = <<cx, cy>>
  BY DEF Plane
<1>2. PICK d \in Int, e \in Int, f \in Int : d = Det(a, b) /\ e = Det(b, c) /\ f = Det(c, a)
  BY DetType
<1>3. d = ax * by - ay * bx /\ e = bx * cy - by * cx /\ f = cx * ay - cy * ax
  BY <1>1, <1>2 DEF Det
<1>4. \E k, m, n, q, r, s \in Int : Facts(ax, ay, bx, by, cx, cy, d, e, f, k, m, n, q, r, s)
  BY <1>3, FactsOfTriangles
<1>5. PICK k \in Int, m \in Int, n \in Int, q \in Int, r \in Int, s \in Int :
        Facts(ax, ay, bx, by, cx, cy, d, e, f, k, m, n, q, r, s)
  BY <1>4
<1>6. d + e + f # 0
  BY <1>2 DEF Turn
<1>7. /\ Touched(a, b) <=> TouchedAt(ax, ay, bx, by, d)
      /\ Touched(b, c) <=> TouchedAt(bx, by, cx, cy, e)
      /\ Touched(c, a) <=> TouchedAt(cx, cy, ax, ay, f)
      /\ Crossed(a, b) <=> CrossedAt(ay, by, d)
      /\ Crossed(b, c) <=> CrossedAt(by, cy, e)
      /\ Crossed(c, a) <=> CrossedAt(cy, ay, f)
      /\ Within(a, b, c) <=> WithinAt(d, e, f)
  BY <1>1, <1>2 DEF Touched, TouchedAt, Crossed, CrossedAt, Within, WithinAt
<1>8. ASSUME WithinAt(d, e, f), d = 0
      PROVE  TouchedAt(ax, ay, bx, by, d) \/ TouchedAt(bx, by, cx, cy, e)
             \/ TouchedAt(cx, cy, ax, ay, f)
  BY <1>8, <1>5, <1>6 DEF Facts, Balanced, Flat, Signs, Around, TouchedAt, WithinAt
<1>9. ASSUME WithinAt(d, e, f), e = 0
      PROVE  TouchedAt(ax, ay, bx, by, d) \/ TouchedAt(bx, by, cx, cy, e)
             \/ TouchedAt(cx, cy, ax, ay, f)
  BY <1>9, <1>5, <1>6 DEF Facts, Balanced, Flat, Signs, Around, TouchedAt, WithinAt
<1>10. ASSUME WithinAt(d, e, f), f = 0
      PROVE  TouchedAt(ax, ay, bx, by, d) \/ TouchedAt(bx, by, cx, cy, e)
             \/ TouchedAt(cx, cy, ax, ay, f)
  BY <1>10, <1>5, <1>6 DEF Facts, Balanced, Flat, Signs, Around, TouchedAt, WithinAt
<1>11. ASSUME d > 0, e > 0, f > 0
      PROVE  Odd3(CrossedAt(ay, by, d), CrossedAt(by, cy, e), CrossedAt(cy, ay, f))
  <2>1. ~(ay > 0 /\ by > 0 /\ cy > 0)
    BY <1>11, <1>5, <1>6 DEF Facts, Balanced, Signs
  <2>2. ~(ay <= 0 /\ by <= 0 /\ cy <= 0)
    BY <1>11, <1>5, <1>6 DEF Facts, Balanced, Flat, Signs
  <2> QED BY <1>11, <2>1, <2>2 DEF CrossedAt, Odd3
<1>12. ASSUME d < 0, e < 0, f < 0
      PROVE  Odd3(CrossedAt(ay, by, d), CrossedAt(by, cy, e), CrossedAt(cy, ay, f))
  <2>1. ~(ay > 0 /\ by > 0 /\ cy > 0)
    BY <1>12, <1>5, <1>6 DEF Facts, Balanced, Signs
  <2>2. ~(ay <= 0 /\ by <= 0 /\ cy <= 0)
    BY <1>12, <1>5, <1>6 DEF Facts, Balanced, Flat, Signs
  <2> QED BY <1>12, <2>1, <2>2 DEF CrossedAt, Odd3
<1>13. WithinAt(d, e, f) =>
   (\/ TouchedAt(ax, ay, bx, by, d) \/ TouchedAt(bx, by, cx, cy, e)
     \/ TouchedAt(cx, cy, ax, ay, f)
          \/ Odd3(CrossedAt(ay, by, d), CrossedAt(by, cy, e), CrossedAt(cy, ay, f)))
  BY <1>8, <1>9, <1>10, <1>11, <1>12 DEF WithinAt
<1>14. Odd3(CrossedAt(ay, by, d), CrossedAt(by, cy, e), CrossedAt(cy, ay, f)) => WithinAt(d, e, f)
  BY <1>5, <1>6 DEF Facts, Balanced, Flat, Signs, Around, CrossedAt, TouchedAt, Odd3, WithinAt
<1>15. TouchedAt(ax, ay, bx, by, d) => WithinAt(d, e, f)
  BY <1>5, <1>6 DEF Facts, Balanced, Flat, Signs, Around, CrossedAt, TouchedAt, Odd3, WithinAt
<1>16. TouchedAt(bx, by, cx, cy, e) => WithinAt(d, e, f)
  BY <1>5, <1>6 DEF Facts, Balanced, Flat, Signs, Around, CrossedAt, TouchedAt, Odd3, WithinAt
<1>17. TouchedAt(cx, cy, ax, ay, f) => WithinAt(d, e, f)
  BY <1>5, <1>6 DEF Facts, Balanced, Flat, Signs, Around, CrossedAt, TouchedAt, Odd3, WithinAt
<1> QED BY <1>13, <1>14, <1>15, <1>16, <1>17, <1>7 DEF Odd3

(* A point on the line through a and c, and on no other edge of a, b, c,   *)
(* is in the triangle exactly if it is between a and c.                    *)
LEMMA DiagonalTouched ==
  ASSUME NEW a \in Plane, NEW b \in Plane, NEW c \in Plane, Turn(a, b, c) # 0, Det(c, a) = 0,
         ~Touched(a, b), ~Touched(b, c)
  PROVE  /\ Within(a, b, c) => Touched(c, a)
         /\ Touched(c, a) => (IF Turn(a, b, c) > 0 THEN Det(a, b) > 0 /\ Det(b, c) > 0
                              ELSE Det(a, b) < 0 /\ Det(b, c) < 0)
         /\ Touched(c, a) => (a[1] # 0 \/ a[2] # 0) /\ (c[1] # 0 \/ c[2] # 0)
<1>1. PICK ax \in Int, ay \in Int, bx \in Int, by \in Int, cx \in Int, cy \in Int :
        a = <<ax, ay>> /\ b = <<bx, by>> /\ c = <<cx, cy>>
  BY DEF Plane
<1>2. PICK d \in Int, e \in Int, f \in Int : d = Det(a, b) /\ e = Det(b, c) /\ f = Det(c, a)
  BY DetType
<1>3. d = ax * by - ay * bx /\ e = bx * cy - by * cx /\ f = cx * ay - cy * ax
  BY <1>1, <1>2 DEF Det
<1>4. \E k, m, n, q, r, s \in Int : Facts(ax, ay, bx, by, cx, cy, d, e, f, k, m, n, q, r, s)
  BY <1>3, FactsOfTriangles
<1>5. PICK k \in Int, m \in Int, n \in Int, q \in Int, r \in Int, s \in Int :
        Facts(ax, ay, bx, by, cx, cy, d, e, f, k, m, n, q, r, s)
  BY <1>4
<1>6. d + e + f # 0
  BY <1>2 DEF Turn
<1>7. /\ Touched(a, b) <=> TouchedAt(ax, ay, bx, by, d)
      /\ Touched(b, c) <=> TouchedAt(bx, by, cx, cy, e)
      /\ Touched(c, a) <=> TouchedAt(cx, cy, ax, ay, f)
      /\ Crossed(a, b) <=> CrossedAt(ay, by, d)
      /\ Crossed(b, c) <=> CrossedAt(by, cy, e)
      /\ Crossed(c, a) <=> CrossedAt(cy, ay, f)
      /\ Within(a, b, c) <=> WithinAt(d, e, f)
  BY <1>1, <1>2 DEF Touched, TouchedAt, Crossed, CrossedAt, Within, WithinAt
<1>8. f = 0 /\ ~TouchedAt(ax, ay, bx, by, d) /\ ~TouchedAt(bx, by, cx, cy, e)
  BY <1>2, <1>7
<1>9. TouchedAt(cx, cy, ax, ay, f) => (ax # 0 \/ ay # 0) /\ (cx # 0 \/ cy # 0)
  BY <1>5, <1>6, <1>8 DEF TouchedAt, Facts, Flat, Around
<1>10. WithinAt(d, e, f) => TouchedAt(cx, cy, ax, ay, f)
  BY <1>5, <1>6, <1>8 DEF Facts, Balanced, Flat, Signs, Around, TouchedAt, WithinAt
<1>11. ASSUME TouchedAt(cx, cy, ax, ay, f)
       PROVE IF d + e + f > 0 THEN d > 0 /\ e > 0 ELSE d < 0 /\ e < 0
  <2>1. d # 0 /\ e # 0
    BY <1>9, <1>11, <1>5, <1>6, <1>8 DEF Facts, Balanced, Flat, Signs, Around, TouchedAt
  <2>2. WithinAt(d, e, f)
    BY <1>11, <1>5, <1>6, <1>8 DEF Facts, Balanced, Flat, Signs, Around, TouchedAt, WithinAt
  <2> QED BY <2>1, <2>2 DEF WithinAt
<1>12. d + e + f = Turn(a, b, c)
  BY <1>2 DEF Turn
<1>13. ax = a[1] /\ ay = a[2] /\ cx = c[1] /\ cy = c[2]
  BY <1>1
<1> QED BY <1>9, <1>10, <1>11, <1>12, <1>13, <1>2, <1>7

(* The edges of a quadrilateral that goes round the point, between         *)
(* opposite vertices, are crossed an odd number of times.                  *)
LEMMA RoundTheOrigin ==
  ASSUME NEW a \in Plane, NEW b \in Plane, NEW c \in Plane, NEW z \in Plane,
         Around(a[1], c[1]), Around(a[2], c[2]), a[2] = 0 <=> c[2] = 0,
         \/ Det(a, b) > 0 /\ Det(b, c) > 0 /\ Det(c, z) > 0 /\ Det(z, a) > 0
         \/ Det(a, b) < 0 /\ Det(b, c) < 0 /\ Det(c, z) < 0 /\ Det(z, a) < 0
  PROVE  Odd4(Crossed(a, b), Crossed(b, c), Crossed(c, z), Crossed(z, a))
<1>1. PICK ax \in Int, ay \in Int, bx \in Int, by \in Int :
        a = <<ax, ay>> /\ b = <<bx, by>>
  BY DEF Plane
<1>2. PICK cx \in Int, cy \in Int, zx \in Int, zy \in Int :
        c = <<cx, cy>> /\ z = <<zx, zy>>
  BY DEF Plane
<1>3. a = <<ax, ay>> /\ b = <<bx, by>> /\ c = <<cx, cy>> /\ z = <<zx, zy>>
  BY <1>1, <1>2
<1>4. PICK ab \in Int, bc \in Int, cz \in Int, za \in Int :
         ab = Det(a, b) /\ bc = Det(b, c) /\ cz = Det(c, z) /\ za = Det(z, a)
  BY DetType
<1>5. ab = ax * by - ay * bx /\ bc = bx * cy - by * cx /\ cz = cx * zy - cy * zx
        /\ za = zx * ay - zy * ax
  BY <1>3, <1>4 DEF Det
<1>6. PICK s1 \in Int, t1 \in Int, s2 \in Int, t2 \in Int :
         Coordinates(ax, ay, bx, by, ab, s1, t1) /\ Coordinates(bx, by, cx, cy, bc, s2, t2)
  BY <1>5, SignsOfDet
<1>7. PICK s3 \in Int, t3 \in Int, s4 \in Int, t4 \in Int :
         Coordinates(cx, cy, zx, zy, cz, s3, t3) /\ Coordinates(zx, zy, ax, ay, za, s4, t4)
  BY <1>5, SignsOfDet
<1>8. /\ Coordinates(ax, ay, bx, by, ab, s1, t1) /\ Coordinates(bx, by, cx, cy, bc, s2, t2)
      /\ Coordinates(cx, cy, zx, zy, cz, s3, t3) /\ Coordinates(zx, zy, ax, ay, za, s4, t4)
  BY <1>6, <1>7
<1>9. Around(ax, cx) /\ Around(ay, cy) /\ (ay = 0 <=> cy = 0)
  BY <1>3
<1>10. \/ ab > 0 /\ bc > 0 /\ cz > 0 /\ za > 0
       \/ ab < 0 /\ bc < 0 /\ cz < 0 /\ za < 0
  BY <1>4
<1>11. ~(ay > 0 /\ cy > 0)
  BY <1>9 DEF Around
<1>12. ay <= 0 /\ cy <= 0 => ay = 0 /\ cy = 0
  BY <1>9 DEF Around
<1>13. ASSUME ay = 0, cy = 0, by > 0, zy > 0 PROVE FALSE
  <2>1. ab = s1 /\ bc = -t2 /\ cz = s3 /\ za = -t4
    BY <1>13, <1>8 DEF Coordinates, Signs
  <2>2. Signs(ax, by, s1) /\ Signs(by, cx, t2) /\ Signs(cx, zy, s3)
    BY <1>8 DEF Coordinates
  <2> QED BY <1>13, <2>1, <2>2, <1>10 DEF Signs
<1>14. ASSUME ay = 0, cy = 0, by <= 0, zy <= 0 PROVE FALSE
  <2>1. ab = s1 /\ bc = -t2 /\ cz = s3 /\ za = -t4
    BY <1>14, <1>8 DEF Coordinates, Signs
  <2>2. Signs(ax, by, s1) /\ Signs(by, cx, t2) /\ Signs(cx, zy, s3)
    BY <1>8 DEF Coordinates
  <2> QED BY <1>14, <2>1, <2>2, <1>10 DEF Signs
<1>15. ASSUME ay <= 0 /\ cy <= 0
      PROVE  Odd4(CrossedAt(ay, by, ab), CrossedAt(by, cy, bc), CrossedAt(cy, zy, cz),
             CrossedAt(zy, ay, za))
  <2>1. (by > 0 /\ zy <= 0) \/ (by <= 0 /\ zy > 0)
    BY <1>12, <1>13, <1>14, <1>15
  <2> QED BY <1>15, <2>1, <1>10 DEF CrossedAt, Odd4
<1>16. ASSUME ay > 0 /\ cy <= 0
      PROVE  Odd4(CrossedAt(ay, by, ab), CrossedAt(by, cy, bc), CrossedAt(cy, zy, cz),
             CrossedAt(zy, ay, za))
  BY <1>16, <1>10 DEF CrossedAt, Odd4
<1>17. ASSUME ay <= 0 /\ cy > 0
      PROVE  Odd4(CrossedAt(ay, by, ab), CrossedAt(by, cy, bc), CrossedAt(cy, zy, cz),
             CrossedAt(zy, ay, za))
  BY <1>17, <1>10 DEF CrossedAt, Odd4
<1>18. Odd4(CrossedAt(ay, by, ab), CrossedAt(by, cy, bc), CrossedAt(cy, zy, cz),
         CrossedAt(zy, ay, za))
  BY <1>11, <1>15, <1>16, <1>17
<1> QED BY <1>18, <1>3, <1>4 DEF Crossed

(* The direction of an edge does not matter.                               *)
LEMMA Reversed ==
  ASSUME NEW a \in Plane, NEW b \in Plane
  PROVE  /\ Touched(a, b) <=> Touched(b, a)
         /\ Crossed(a, b) <=> Crossed(b, a)
<1>1. PICK ax \in Int, ay \in Int, bx \in Int, by \in Int :
        a = <<ax, ay>> /\ b = <<bx, by>>
  BY DEF Plane
<1>2. PICK d \in Int, e \in Int : d = Det(a, b) /\ e = Det(b, a) /\ e = -d
  BY DetType
<1>3. /\ TouchedAt(ax, ay, bx, by, d) <=> TouchedAt(bx, by, ax, ay, e)
      /\ CrossedAt(ay, by, d) <=> CrossedAt(by, ay, e)
  BY <1>2 DEF TouchedAt, CrossedAt, Around
<1> QED BY <1>1, <1>2, <1>3 DEF Touched, Crossed

TouchedRing(a, b, c, z) == Touched(a, b) \/ Touched(b, c) \/ Touched(c, z) \/ Touched(z, a)

(* The same for a quadrilateral that is cut along a, c into two triangles  *)
(* with the same orientation.                                              *)
LEMMA QuadrilateralParity ==
  ASSUME NEW a \in Plane, NEW b \in Plane, NEW c \in Plane, NEW z \in Plane,
         \/ Turn(a, b, c) > 0 /\ Turn(c, z, a) > 0
         \/ Turn(a, b, c) < 0 /\ Turn(c, z, a) < 0
  PROVE  (\/ TouchedRing(a, b, c, z)
          \/ Odd4(Crossed(a, b), Crossed(b, c), Crossed(c, z), Crossed(z, a)))
         <=> Within(a, b, c) \/ Within(c, z, a)
<1> DEFINE T1 == \/ Touched(a, b) \/ Touched(b, c)
           T2 == \/ Touched(c, z) \/ Touched(z, a)
           D1 == Touched(c, a)
           D2 == Touched(a, c)
           O1 == Odd3(Crossed(a, b), Crossed(b, c), Crossed(c, a))
           O2 == Odd3(Crossed(c, z), Crossed(z, a), Crossed(a, c))
           O  == Odd4(Crossed(a, b), Crossed(b, c), Crossed(c, z), Crossed(z, a))
           W1 == Within(a, b, c)
           W2 == Within(c, z, a)
<1>1. /\ Turn(a, b, c) \in Int /\ Turn(c, z, a) \in Int
      /\ Turn(a, b, c) # 0 /\ Turn(c, z, a) # 0
  BY DetType DEF Turn
<1>2. T1 \/ D1 \/ O1 <=> W1
  BY <1>1, TriangleParity
<1>3. T2 \/ D2 \/ O2 <=> W2
  BY <1>1, TriangleParity
<1>4. O <=> ~(O1 <=> O2)
  BY Reversed DEF Odd3, Odd4
<1>5. D1 <=> D2
  BY Reversed
<1>6. ASSUME Det(c, a) # 0 PROVE T1 \/ T2 \/ O <=> W1 \/ W2
  <2>1. PICK d \in Int, e \in Int, f \in Int :
          d = Det(a, b) /\ e = Det(b, c) /\ f = Det(c, a)
    BY DetType
  <2>2. PICK m \in Int, n \in Int : m = Det(c, z) /\ n = Det(z, a)
    BY DetType
  <2>3. Det(a, c) = -f
    BY <2>1, DetType
  <2>4. ~D1 /\ ~D2
    <3>1. ~D1
      BY <1>6 DEF Touched, TouchedAt
    <3> HIDE DEF D1, D2
    <3> QED BY <1>5, <3>1
  <2>5. (d + e + f > 0 /\ m + n - f > 0) \/ (d + e + f < 0 /\ m + n - f < 0)
    BY <2>1, <2>2, <2>3 DEF Turn
  <2>6. ~(WithinAt(d, e, f) /\ WithinAt(m, n, -f))
    BY <1>6, <2>1, <2>2, <2>5 DEF WithinAt
  <2>7. ~(W1 /\ W2)
    BY <2>1, <2>2, <2>3, <2>6 DEF Within
  <2> HIDE DEF T1, T2, D1, D2, O1, O2, O, W1, W2
  <2> QED BY <1>2, <1>3, <1>4, <2>4, <2>7
<1>7. ASSUME Det(c, a) = 0, ~T1, ~T2 PROVE T1 \/ T2 \/ O <=> W1 \/ W2
  <2>1. /\ W1 => D1
        /\ D1 => (IF Turn(a, b, c) > 0 THEN Det(a, b) > 0 /\ Det(b, c) > 0
                                       ELSE Det(a, b) < 0 /\ Det(b, c) < 0)
        /\ D1 => (a[1] # 0 \/ a[2] # 0) /\ (c[1] # 0 \/ c[2] # 0)
    BY <1>1, <1>7, DiagonalTouched
  <2>2. /\ W2 => D2
        /\ D2 => (IF Turn(c, z, a) > 0 THEN Det(c, z) > 0 /\ Det(z, a) > 0
                                       ELSE Det(c, z) < 0 /\ Det(z, a) < 0)
    <3>1. Det(a, c) = 0
      BY <1>7, DetType
    <3> QED BY <3>1, <1>1, <1>7, DiagonalTouched
  <2>3. D1 => O
    <3> SUFFICES ASSUME D1 PROVE O
      OBVIOUS
    <3>1. Around(a[1], c[1]) /\ Around(a[2], c[2])
      BY DEF Touched, TouchedAt, Around
    <3>2. \/ Det(a, b) > 0 /\ Det(b, c) > 0 /\ Det(c, z) > 0 /\ Det(z, a) > 0
          \/ Det(a, b) < 0 /\ Det(b, c) < 0 /\ Det(c, z) < 0 /\ Det(z, a) < 0
      BY <1>5, <2>1, <2>2, <1>1
    <3>3. a[2] = 0 <=> c[2] = 0
      <4>1. PICK ax \in Int, ay \in Int, cx \in Int, cy \in Int :
              a = <<ax, ay>> /\ c = <<cx, cy>>
        BY DEF Plane
      <4>2. PICK s \in Int, t \in Int : Coordinates(ax, ay, cx, cy, ax * cy - ay * cx, s, t)
        BY SignsOfDet
      <4>3. ax * cy - ay * cx = 0
        BY <1>7, <4>1, DetType DEF Det
      <4> QED BY <2>1, <4>1, <4>2, <4>3 DEF Coordinates, Signs
    <3> QED BY <3>1, <3>2, <3>3, RoundTheOrigin
  <2>4. ~D1 => ~O
    <3> HIDE DEF T1, T2, D1, D2, O1, O2, O, W1, W2
    <3> QED BY <1>2, <1>3, <1>4, <1>5, <1>7, <2>1, <2>2
  <2> HIDE DEF T1, T2, D1, D2, O1, O2, O, W1, W2
  <2> QED BY <1>2, <1>3, <1>5, <1>7, <2>1, <2>2, <2>3, <2>4
<1>8. ASSUME T1 \/ T2 PROVE T1 \/ T2 \/ O <=> W1 \/ W2
  BY <1>2, <1>3, <1>8
<1>9. T1 \/ T2 \/ O <=> W1 \/ W2
  <2>1. Det(c, a) \in Int
    BY DetType
  <2> HIDE DEF T1, T2, D1, D2, O1, O2, O, W1, W2
  <2> QED BY <1>6, <1>7, <1>8
<1> QED BY <1>9 DEF TouchedRing

(***************************************************************************)
(* From the model's points and vertices to vectors: Cross, Side, OnSegment *)
(* and Crosses of polygon.util.ts say what Det and Turn say.               *)
(***************************************************************************)
(* Vertices of a drawing; points <<x, y, w>>, for (x/w, y/w); and v as a   *)
(* vector from p, times w.                                                 *)
Nodes == Int \X Int \X {1}
Points == Int \X Int \X (Nat \ {0})
Seen(p, v) == <<v[1] * p[3] - p[1], v[2] * p[3] - p[2]>>

LEMMA SeenType == \A p \in Points, v \in Nodes : Seen(p, v) \in Plane
  BY DEF Points, Nodes, Plane, Seen

LEMMA SignOfMultiple ==
  ASSUME NEW w \in Nat \ {0}, NEW m \in Int, NEW n \in Int, w * m = n
  PROVE  Sign(m) = Sign(n) /\ (m > 0 <=> n > 0) /\ (m < 0 <=> n < 0) /\ (m = 0 <=> n = 0)
<1>1. Signs(w, m, w * m)
  BY SignOfProduct
<1>2. Signs(w, m, n)
  BY <1>1
<1>3. (m > 0 <=> n > 0) /\ (m < 0 <=> n < 0) /\ (m = 0 <=> n = 0)
  BY <1>2 DEF Signs
<1> QED BY <1>3 DEF Sign

(* The cross product of an edge and a point, times its w, is the Det of    *)
(* the ends seen from it.                                                  *)
LEMMA CrossOfPoint ==
  ASSUME NEW p \in Points, NEW a \in Nodes, NEW b \in Nodes
  PROVE  /\ Cross(a, b, p) \in Int
         /\ p[3] * Cross(a, b, p) = Det(Seen(p, a), Seen(p, b))
<1>1. PICK p1 \in Int, p2 \in Int, w \in Nat \ {0} : p = <<p1, p2, w>>
  BY DEF Points
<1>2. PICK a1 \in Int, a2 \in Int, b1 \in Int, b2 \in Int : a = <<a1, a2, 1>> /\ b = <<b1, b2, 1>>
  BY DEF Nodes
<1>3. w * ((b1 - a1) * (p2 - a2 * w) - (b2 - a2) * (p1 - a1 * w))
        = (a1 * w - p1) * (b2 * w - p2) - (a2 * w - p2) * (b1 * w - p1)
  OBVIOUS
<1>4. Cross(a, b, p) = (b1 - a1) * (p2 - a2 * w) - (b2 - a2) * (p1 - a1 * w)
  BY <1>1, <1>2 DEF Cross
<1>5. Det(Seen(p, a), Seen(p, b)) = (a1 * w - p1) * (b2 * w - p2) - (a2 * w - p2) * (b1 * w - p1)
  BY <1>1, <1>2 DEF Det, Seen
<1>6. Cross(a, b, p) \in Int
  BY <1>4
<1> QED BY <1>1, <1>3, <1>4, <1>5, <1>6

LEMMA SideOfPoint ==
  ASSUME NEW p \in Points, NEW a \in Nodes, NEW b \in Nodes
  PROVE  /\ Side(a, b, p) = Sign(Det(Seen(p, a), Seen(p, b)))
         /\ Cross(a, b, p) > 0 <=> Det(Seen(p, a), Seen(p, b)) > 0
         /\ Cross(a, b, p) < 0 <=> Det(Seen(p, a), Seen(p, b)) < 0
         /\ Side(a, b, p) = 0 <=> Det(Seen(p, a), Seen(p, b)) = 0
<1>1. PICK w \in Nat \ {0}, m \in Int, n \in Int :
        w = p[3] /\ m = Cross(a, b, p) /\ n = Det(Seen(p, a), Seen(p, b))
  BY CrossOfPoint, SeenType, DetType DEF Points
<1>2. w * m = n
  BY <1>1, CrossOfPoint
<1>3. Sign(m) = Sign(n) /\ (m > 0 <=> n > 0) /\ (m < 0 <=> n < 0) /\ (m = 0 <=> n = 0)
  BY <1>2, SignOfMultiple
<1>4. Sign(n) = 0 <=> n = 0
  BY DEF Sign
<1> QED BY <1>1, <1>3, <1>4 DEF Side

LEMMA BetweenMultiples ==
  ASSUME NEW m \in Int, NEW n \in Int, NEW w \in Nat \ {0}, NEW q \in Int
  PROVE  (q >= Lesser(m, n) * w /\ q <= Greater(m, n) * w)
           <=> Around(m * w - q, n * w - q)
<1>1. ASSUME m <= n PROVE m * w <= n * w
  <2>1. (n - m) * w >= 0
    BY <1>1
  <2> QED BY <2>1
<1>2. ASSUME n <= m PROVE n * w <= m * w
  <2>1. (m - n) * w >= 0
    BY <1>2
  <2> QED BY <2>1
<1>3. PICK i \in Int, j \in Int : i = m * w /\ j = n * w
  OBVIOUS
<1>4. CASE m <= n
  BY <1>1, <1>3, <1>4 DEF Lesser, Greater, Around
<1>5. CASE ~(m <= n)
  BY <1>2, <1>3, <1>5 DEF Lesser, Greater, Around
<1> QED BY <1>4, <1>5

(* onSegment() and the condition of the ray casting loop, of vectors.      *)
LEMMA OnSegmentIsTouched ==
  ASSUME NEW p \in Points, NEW a \in Nodes, NEW b \in Nodes
  PROVE  OnSegment(p, a, b) <=> Touched(Seen(p, a), Seen(p, b))
<1>1. PICK p1 \in Int, p2 \in Int, w \in Nat \ {0} : p = <<p1, p2, w>>
  BY DEF Points
<1>2. PICK a1 \in Int, a2 \in Int, b1 \in Int, b2 \in Int : a = <<a1, a2, 1>> /\ b = <<b1, b2, 1>>
  BY DEF Nodes
<1>3. (p1 >= Lesser(a1, b1) * w /\ p1 <= Greater(a1, b1) * w) <=> Around(a1 * w - p1, b1 * w - p1)
  BY BetweenMultiples
<1>4. (p2 >= Lesser(a2, b2) * w /\ p2 <= Greater(a2, b2) * w) <=> Around(a2 * w - p2, b2 * w - p2)
  BY BetweenMultiples
<1>5. Seen(p, a) = <<a1 * w - p1, a2 * w - p2>> /\ Seen(p, b) = <<b1 * w - p1, b2 * w - p2>>
  BY <1>1, <1>2 DEF Seen
<1>6. Touched(Seen(p, a), Seen(p, b)) <=>
        /\ Det(Seen(p, a), Seen(p, b)) = 0
        /\ Around(a1 * w - p1, b1 * w - p1)
        /\ Around(a2 * w - p2, b2 * w - p2)
  BY <1>5 DEF Touched, TouchedAt
<1>7. OnSegment(p, a, b) <=>
        /\ Side(a, b, p) = 0
        /\ p1 >= Lesser(a1, b1) * w /\ p1 <= Greater(a1, b1) * w
        /\ p2 >= Lesser(a2, b2) * w /\ p2 <= Greater(a2, b2) * w
  <2>1. 1..2 = {1, 2}
    OBVIOUS
  <2> QED BY <1>1, <1>2, <2>1 DEF OnSegment
<1>8. Side(a, b, p) = 0 <=> Det(Seen(p, a), Seen(p, b)) = 0
  BY SideOfPoint
<1> QED BY <1>3, <1>4, <1>6, <1>7, <1>8

LEMMA CrossesIsCrossed ==
  ASSUME NEW p \in Points, NEW a \in Nodes, NEW b \in Nodes
  PROVE  Crosses(p, a, b) <=> Crossed(Seen(p, a), Seen(p, b))
<1>1. PICK p1 \in Int, p2 \in Int, w \in Nat \ {0} : p = <<p1, p2, w>>
  BY DEF Points
<1>2. PICK a1 \in Int, a2 \in Int, b1 \in Int, b2 \in Int : a = <<a1, a2, 1>> /\ b = <<b1, b2, 1>>
  BY DEF Nodes
<1>3. PICK i \in Int, j \in Int, d \in Int :
        i = a2 * w /\ j = b2 * w /\ d = Det(Seen(p, a), Seen(p, b))
  BY SeenType, DetType
<1>4. Seen(p, a)[2] = i - p2 /\ Seen(p, b)[2] = j - p2
  BY <1>1, <1>2, <1>3 DEF Seen
<1>5. Crossed(Seen(p, a), Seen(p, b)) <=> CrossedAt(i - p2, j - p2, d)
  BY <1>3, <1>4 DEF Crossed
<1>6. b2 > a2 => j >= i
  <2>1. ASSUME b2 > a2 PROVE (b2 - a2) * w >= 0
    BY <2>1
  <2> QED BY <1>3, <2>1
<1>7. ~(b2 > a2) => j <= i
  <2>1. ASSUME ~(b2 > a2) PROVE (a2 - b2) * w >= 0
    BY <2>1
  <2> QED BY <1>3, <2>1
<1>8. /\ Cross(a, b, p) > 0 <=> d > 0
      /\ Cross(a, b, p) < 0 <=> d < 0
  BY <1>3, SideOfPoint
<1>9. Crosses(p, a, b) <=>
        /\ (i > p2) # (j > p2)
        /\ IF b2 > a2 THEN d > 0 ELSE d < 0
  BY <1>1, <1>2, <1>3, <1>8 DEF Crosses
<1> QED BY <1>5, <1>6, <1>7, <1>9 DEF CrossedAt

(* The cross product of three vertices is a Turn, from wherever it is      *)
(* seen.                                                                   *)
LEMMA CrossOfNodes ==
  ASSUME NEW p \in Points, NEW a \in Nodes, NEW b \in Nodes, NEW c \in Nodes
  PROVE  /\ Cross(a, b, c) \in Int
         /\ Sign(Cross(a, b, c)) = Sign(Turn(Seen(p, a), Seen(p, b), Seen(p, c)))
         /\ Cross(a, b, c) # 0 <=> Turn(Seen(p, a), Seen(p, b), Seen(p, c)) # 0
<1>1. PICK p1 \in Int, p2 \in Int, w \in Nat \ {0} : p = <<p1, p2, w>>
  BY DEF Points
<1>2. PICK a1 \in Int, a2 \in Int, b1 \in Int, b2 \in Int : a = <<a1, a2, 1>> /\ b = <<b1, b2, 1>>
  BY DEF Nodes
<1>3. PICK c1 \in Int, c2 \in Int : c = <<c1, c2, 1>>
  BY DEF Nodes
<1>4. PICK m \in Int : m = (b1 - a1) * (c2 - a2) - (b2 - a2) * (c1 - a1)
  OBVIOUS
<1>5. Cross(a, b, c) = m
  BY <1>2, <1>3, <1>4 DEF Cross
<1>6. PICK n \in Int : n = Turn(Seen(p, a), Seen(p, b), Seen(p, c))
  BY SeenType, DetType DEF Turn
<1>7. n = ((a1 * w - p1) * (b2 * w - p2) - (a2 * w - p2) * (b1 * w - p1))
          + ((b1 * w - p1) * (c2 * w - p2) - (b2 * w - p2) * (c1 * w - p1))
          + ((c1 * w - p1) * (a2 * w - p2) - (c2 * w - p2) * (a1 * w - p1))
  BY <1>1, <1>2, <1>3, <1>6 DEF Turn, Det, Seen
<1>8. n = w * (w * m)
  BY <1>4, <1>7
<1>9. PICK k \in Int : k = w * m
  OBVIOUS
<1>10. w * k = n
  BY <1>8, <1>9
<1>11. Sign(k) = Sign(n) /\ (k = 0 <=> n = 0)
  BY <1>10, SignOfMultiple
<1>12. Sign(m) = Sign(k) /\ (m = 0 <=> k = 0)
  BY <1>9, SignOfMultiple
<1> QED BY <1>5, <1>6, <1>11, <1>12

LEMMA CrossType ==
  ASSUME NEW a \in Nodes, NEW b \in Nodes, NEW c \in Nodes
  PROVE  Cross(a, b, c) \in Int
  BY DEF Nodes, Cross

LEMMA SideType ==
  ASSUME NEW a \in Nodes, NEW b \in Nodes, NEW c \in Nodes
  PROVE  Side(a, b, c) \in {-1, 0, 1}
<1>1. PICK n \in Int : n = Cross(a, b, c)
  BY CrossType
<1>2. Sign(n) \in {-1, 0, 1}
  BY DEF Sign
<1> QED BY <1>1, <1>2 DEF Side

LEMMA CyclicTurn ==
  ASSUME NEW a \in Nodes, NEW b \in Nodes, NEW c \in Nodes
  PROVE  Cross(b, c, a) = Cross(a, b, c) /\ Cross(c, a, b) = Cross(a, b, c)
<1>1. PICK a1 \in Int, a2 \in Int, b1 \in Int, b2 \in Int : a = <<a1, a2, 1>> /\ b = <<b1, b2, 1>>
  BY DEF Nodes
<1>2. PICK c1 \in Int, c2 \in Int : c = <<c1, c2, 1>>
  BY DEF Nodes
<1> QED BY <1>1, <1>2 DEF Cross

(* The reference's triangle, of vectors.                                   *)
LEMMA InTriangleIsWithin ==
  ASSUME NEW p \in Points, NEW a \in Nodes, NEW b \in Nodes, NEW c \in Nodes, Cross(a, b, c) # 0
  PROVE  InTriangle(<<a, b, c>>, p) <=> Within(Seen(p, a), Seen(p, b), Seen(p, c))
<1>1. PICK d \in Int, e \in Int, f \in Int :
        /\ d = Det(Seen(p, a), Seen(p, b)) /\ e = Det(Seen(p, b), Seen(p, c))
        /\ f = Det(Seen(p, c), Seen(p, a))
  BY SeenType, DetType
<1>2. PICK s \in {-1, 1} : s = Sign(Cross(a, b, c))
  BY CrossOfNodes DEF Sign
<1>3. s = Sign(d + e + f)
  BY <1>1, <1>2, CrossOfNodes DEF Turn
<1>4. InTriangle(<<a, b, c>>, p) <=> Sign(d) * s >= 0 /\ Sign(e) * s >= 0 /\ Sign(f) * s >= 0
  <2>1. 1..3 = {1, 2, 3}
    OBVIOUS
  <2>2. /\ Inward(<<a, b, c>>, 1) = s
        /\ Inward(<<a, b, c>>, 2) = s
        /\ Inward(<<a, b, c>>, 3) = s
    BY <1>2, CyclicTurn DEF Inward, Side
  <2>3. /\ Side(a, b, p) = Sign(d) /\ Side(b, c, p) = Sign(e) /\ Side(c, a, p) = Sign(f)
    BY <1>1, SideOfPoint
  <2> QED BY <2>1, <2>2, <2>3 DEF InTriangle
<1>5. WithinAt(d, e, f) <=> Sign(d) * s >= 0 /\ Sign(e) * s >= 0 /\ Sign(f) * s >= 0
  BY <1>3 DEF Sign, WithinAt
<1> QED BY <1>1, <1>4, <1>5 DEF Within

(***************************************************************************)
(* Counting the edges that are crossed.                                    *)
(***************************************************************************)
Odd(F) == Cardinality(F) % 2 = 1

(* Taking an element away changes the parity.                              *)
LEMMA OddWithout ==
  ASSUME NEW F, IsFiniteSet(F), NEW x
  PROVE  IsFiniteSet(F \ {x}) /\ (Odd(F) <=> ~(x \in F <=> Odd(F \ {x})))
<1>1. IsFiniteSet(F \ {x}) /\ Cardinality(F \ {x}) \in Nat /\ Cardinality(F) \in Nat
  BY FS_RemoveElement, FS_Subset, FS_CardinalityType
<1>2. CASE x \in F
  <2>1. Cardinality(F \ {x}) = Cardinality(F) - 1
    BY <1>2, FS_RemoveElement
  <2> QED BY <1>1, <1>2, <2>1 DEF Odd
<1>3. CASE x \notin F
  <2>1. F \ {x} = F
    BY <1>3
  <2> QED BY <1>1, <1>3, <2>1
<1> QED BY <1>2, <1>3

LEMMA OddOfNone == ~Odd({})
  BY FS_EmptySet DEF Odd

(* Of three different edges, and of four.                                  *)
LEMMA OddOfThree ==
  ASSUME NEW x, NEW y, NEW z, x # y, x # z, y # z, NEW F \in SUBSET {x, y, z}
  PROVE  Odd(F) <=> Odd3(x \in F, y \in F, z \in F)
<1>1. IsFiniteSet(F)
  <2>1. IsFiniteSet({x}) /\ IsFiniteSet({x} \cup {y}) /\ IsFiniteSet(({x} \cup {y}) \cup {z})
    BY FS_Singleton, FS_AddElement
  <2>2. F \subseteq ({x} \cup {y}) \cup {z}
    OBVIOUS
  <2> QED BY <2>1, <2>2, FS_Subset
<1>2. PICK G, H : G = F \ {x} /\ H = G \ {y}
  OBVIOUS
<1>3. IsFiniteSet(G) /\ (Odd(F) <=> ~(x \in F <=> Odd(G)))
  BY <1>1, <1>2, OddWithout
<1>4. IsFiniteSet(H) /\ (Odd(G) <=> ~(y \in G <=> Odd(H)))
  BY <1>2, <1>3, OddWithout
<1>5. Odd(H) <=> ~(z \in H <=> Odd(H \ {z}))
  BY <1>4, OddWithout
<1>6. H \ {z} = {} /\ (y \in G <=> y \in F) /\ (z \in H <=> z \in F)
  BY <1>2
<1> QED BY <1>3, <1>4, <1>5, <1>6, OddOfNone DEF Odd3

LEMMA OddOfFour ==
  ASSUME NEW u, NEW x, NEW y, NEW z, u # x, u # y, u # z, x # y, x # z, y # z,
         NEW F \in SUBSET {u, x, y, z}
  PROVE  Odd(F) <=> Odd4(u \in F, x \in F, y \in F, z \in F)
<1>1. IsFiniteSet(F)
  <2>1. IsFiniteSet({u} \cup {x})
    BY FS_Singleton, FS_AddElement
  <2>3. IsFiniteSet(({u} \cup {x}) \cup {y})
    BY <2>1, FS_AddElement
  <2>4. IsFiniteSet((({u} \cup {x}) \cup {y}) \cup {z})
    BY <2>3, FS_AddElement
  <2>2. F \subseteq (({u} \cup {x}) \cup {y}) \cup {z}
    OBVIOUS
  <2> QED BY <2>4, <2>2, FS_Subset
<1>2. Odd(F) <=> ~(u \in F <=> Odd(F \ {u}))
  BY <1>1, OddWithout
<1>3. F \ {u} \in SUBSET {x, y, z}
  OBVIOUS
<1>4. Odd(F \ {u}) <=> Odd3(x \in F \ {u}, y \in F \ {u}, z \in F \ {u})
  BY <1>3, OddOfThree
<1>5. (x \in F \ {u} <=> x \in F) /\ (y \in F \ {u} <=> y \in F) /\ (z \in F \ {u} <=> z \in F)
  OBVIOUS
<1> QED BY <1>2, <1>4, <1>5 DEF Odd3, Odd4

(***************************************************************************)
(* Rings of three and of four vertices.                                    *)
(***************************************************************************)
LEMMA EdgesOfTriangle ==
  ASSUME NEW a, NEW b, NEW c
  PROVE  Count(<<a, b, c, a>>) = 3 /\ Edges(<<a, b, c, a>>) = {<<a, b>>, <<b, c>>, <<c, a>>}
<1>1. Count(<<a, b, c, a>>) = 3 /\ 1..3 = {1, 2, 3}
  BY DEF Count
<1> QED BY <1>1 DEF Edges

LEMMA EdgesOfQuadrilateral ==
  ASSUME NEW a, NEW b, NEW c, NEW z
  PROVE  Count(<<a, b, c, z, a>>) = 4
         /\ Edges(<<a, b, c, z, a>>) = {<<a, b>>, <<b, c>>, <<c, z>>, <<z, a>>}
<1>1. Count(<<a, b, c, z, a>>) = 4 /\ 1..4 = {1, 2, 3, 4}
  BY DEF Count
<1> QED BY <1>1 DEF Edges

(* A triangle with an area has three vertices.                             *)
LEMMA DistinctNodes ==
  ASSUME NEW a \in Nodes, NEW b \in Nodes, NEW c \in Nodes, Cross(a, b, c) # 0
  PROVE  a # b /\ b # c /\ a # c
<1>1. PICK a1 \in Int, a2 \in Int, b1 \in Int, b2 \in Int : a = <<a1, a2, 1>> /\ b = <<b1, b2, 1>>
  BY DEF Nodes
<1>2. PICK c1 \in Int, c2 \in Int : c = <<c1, c2, 1>>
  BY DEF Nodes
<1>3. Cross(a, b, c) = (b1 - a1) * (c2 - a2) - (b2 - a2) * (c1 - a1)
  BY <1>1, <1>2 DEF Cross
<1> QED BY <1>1, <1>2, <1>3

(* Ray casting over the edges of a triangle.                               *)
LEMMA InsideOfTriangle ==
  ASSUME NEW p \in Points, NEW a \in Nodes, NEW b \in Nodes, NEW c \in Nodes, Cross(a, b, c) # 0,
         NEW ring, Edges(ring) = {<<a, b>>, <<b, c>>, <<c, a>>}
  PROVE  PointInPolygon(p, ring, TRUE) <=> InTriangle(<<a, b, c>>, p)
<1> DEFINE cast == {e \in Edges(ring) : Crosses(p, e[1], e[2])}
           on == \E e \in Edges(ring) : OnSegment(p, e[1], e[2])
<1>1. PointInPolygon(p, ring, TRUE) <=> on \/ Odd(cast)
  BY DEF PointInPolygon, Odd
<1>2. a # b /\ b # c /\ a # c
  BY DistinctNodes
<1>3. <<a, b>> # <<b, c>> /\ <<a, b>> # <<c, a>> /\ <<b, c>> # <<c, a>>
  BY <1>2
<1>4. cast \in SUBSET {<<a, b>>, <<b, c>>, <<c, a>>}
  OBVIOUS
<1>5. /\ <<a, b>> \in cast <=> Crossed(Seen(p, a), Seen(p, b))
      /\ <<b, c>> \in cast <=> Crossed(Seen(p, b), Seen(p, c))
      /\ <<c, a>> \in cast <=> Crossed(Seen(p, c), Seen(p, a))
  BY CrossesIsCrossed
<1>6. on <=> \/ Touched(Seen(p, a), Seen(p, b)) \/ Touched(Seen(p, b), Seen(p, c))
             \/ Touched(Seen(p, c), Seen(p, a))
  BY OnSegmentIsTouched
<1> HIDE DEF cast, on
<1>7. Odd(cast) <=> Odd3(<<a, b>> \in cast, <<b, c>> \in cast, <<c, a>> \in cast)
  BY <1>3, <1>4, OddOfThree
<1>8. Turn(Seen(p, a), Seen(p, b), Seen(p, c)) # 0
  BY CrossOfNodes
<1>9. (\/ Touched(Seen(p, a), Seen(p, b)) \/ Touched(Seen(p, b), Seen(p, c))
        \/ Touched(Seen(p, c), Seen(p, a))
        \/ Odd3(Crossed(Seen(p, a), Seen(p, b)), Crossed(Seen(p, b), Seen(p, c)),
             Crossed(Seen(p, c), Seen(p, a))))
         <=> Within(Seen(p, a), Seen(p, b), Seen(p, c))
  BY <1>8, SeenType, TriangleParity
<1>10. InTriangle(<<a, b, c>>, p) <=> Within(Seen(p, a), Seen(p, b), Seen(p, c))
  BY InTriangleIsWithin
<1>11. on \/ Odd(cast) <=> Within(Seen(p, a), Seen(p, b), Seen(p, c))
  BY <1>5, <1>6, <1>7, <1>9 DEF Odd3
<1> QED BY <1>1, <1>10, <1>11

(* Cut along a, c, with b and z on either side.                            *)
OnBothSides(a, b, c, z) ==
  \/ Cross(a, b, c) > 0 /\ Cross(c, z, a) > 0
  \/ Cross(a, b, c) < 0 /\ Cross(c, z, a) < 0

(* Ray casting over the edges of a quadrilateral, and its halves.          *)
LEMMA InsideOfQuadrilateral ==
  ASSUME NEW p \in Points, NEW a \in Nodes, NEW b \in Nodes, NEW c \in Nodes, NEW z \in Nodes,
         OnBothSides(a, b, c, z),
         NEW ring, Edges(ring) = {<<a, b>>, <<b, c>>, <<c, z>>, <<z, a>>}
  PROVE  PointInPolygon(p, ring, TRUE) <=> InTriangle(<<a, b, c>>, p)
         \/ InTriangle(<<c, z, a>>, p)
<1> DEFINE cast == {e \in Edges(ring) : Crosses(p, e[1], e[2])}
           on == \E e \in Edges(ring) : OnSegment(p, e[1], e[2])
<1>1. PointInPolygon(p, ring, TRUE) <=> on \/ Odd(cast)
  BY DEF PointInPolygon, Odd
<1>2. Cross(a, b, c) # 0 /\ Cross(c, z, a) # 0
  BY CrossOfNodes DEF OnBothSides
<1>3. a # b /\ b # c /\ a # c /\ c # z /\ z # a
  BY <1>2, DistinctNodes
<1>4. /\ <<a, b>> # <<b, c>> /\ <<a, b>> # <<c, z>> /\ <<a, b>> # <<z, a>>
      /\ <<b, c>> # <<c, z>> /\ <<b, c>> # <<z, a>> /\ <<c, z>> # <<z, a>>
  BY <1>3
<1>5. cast \in SUBSET {<<a, b>>, <<b, c>>, <<c, z>>, <<z, a>>}
  OBVIOUS
<1>6. /\ <<a, b>> \in cast <=> Crossed(Seen(p, a), Seen(p, b))
      /\ <<b, c>> \in cast <=> Crossed(Seen(p, b), Seen(p, c))
      /\ <<c, z>> \in cast <=> Crossed(Seen(p, c), Seen(p, z))
      /\ <<z, a>> \in cast <=> Crossed(Seen(p, z), Seen(p, a))
  BY CrossesIsCrossed
<1>7. on <=> TouchedRing(Seen(p, a), Seen(p, b), Seen(p, c), Seen(p, z))
  BY OnSegmentIsTouched DEF TouchedRing
<1> HIDE DEF cast, on
<1>8. Odd(cast) <=> Odd4(<<a, b>> \in cast, <<b, c>> \in cast, <<c, z>> \in cast,
        <<z, a>> \in cast)
  BY <1>4, <1>5, OddOfFour
<1>9. \/ /\ Turn(Seen(p, a), Seen(p, b), Seen(p, c)) > 0
         /\ Turn(Seen(p, c), Seen(p, z), Seen(p, a)) > 0
      \/ /\ Turn(Seen(p, a), Seen(p, b), Seen(p, c)) < 0
         /\ Turn(Seen(p, c), Seen(p, z), Seen(p, a)) < 0
  <2>1. /\ Sign(Cross(a, b, c)) = Sign(Turn(Seen(p, a), Seen(p, b), Seen(p, c)))
        /\ Sign(Cross(c, z, a)) = Sign(Turn(Seen(p, c), Seen(p, z), Seen(p, a)))
    BY CrossOfNodes
  <2>2. PICK m \in Int, n \in Int :
          m = Turn(Seen(p, a), Seen(p, b), Seen(p, c))
            /\ n = Turn(Seen(p, c), Seen(p, z), Seen(p, a))
    BY SeenType, DetType DEF Turn
  <2> QED BY <2>1, <2>2, CrossOfNodes DEF OnBothSides, Sign
<1>10. (\/ TouchedRing(Seen(p, a), Seen(p, b), Seen(p, c), Seen(p, z))
        \/ Odd4(Crossed(Seen(p, a), Seen(p, b)), Crossed(Seen(p, b), Seen(p, c)),
                Crossed(Seen(p, c), Seen(p, z)), Crossed(Seen(p, z), Seen(p, a))))
         <=> Within(Seen(p, a), Seen(p, b), Seen(p, c))
           \/ Within(Seen(p, c), Seen(p, z), Seen(p, a))
  BY <1>9, SeenType, QuadrilateralParity
<1>11. /\ InTriangle(<<a, b, c>>, p) <=> Within(Seen(p, a), Seen(p, b), Seen(p, c))
       /\ InTriangle(<<c, z, a>>, p) <=> Within(Seen(p, c), Seen(p, z), Seen(p, a))
  BY <1>2, InTriangleIsWithin
<1>12. on \/ Odd(cast) <=> Within(Seen(p, a), Seen(p, b), Seen(p, c))
         \/ Within(Seen(p, c), Seen(p, z), Seen(p, a))
  BY <1>6, <1>7, <1>8, <1>10 DEF Odd4
<1> QED BY <1>1, <1>11, <1>12

(***************************************************************************)
(* The rings that deliveryPolygonError() lets pass are cut by one of their *)
(* diagonals.                                                              *)
(***************************************************************************)
(* A vertex b whose edges go back on one another: deliveryPolygonError()   *)
(* refuses it.                                                             *)
Spike(a, b, c) ==
  /\ Side(a, b, c) = 0
  /\ (b[1] - a[1]) * (c[1] - b[1]) + (b[2] - a[2]) * (c[2] - b[2]) < 0

LEMMA SquareIsPositive ==
  ASSUME NEW m \in Int, NEW n \in Int, m # 0 \/ n # 0
  PROVE  m * m + n * n > 0
<1>1. Signs(m, m, m * m) /\ Signs(n, n, n * n)
  BY SignOfProduct
<1>2. PICK i \in Int, j \in Int : i = m * m /\ j = n * n
  OBVIOUS
<1> QED BY <1>1, <1>2 DEF Signs

(* The side of a direction u at which z is.                                *)
Slope(u1, u2, z1, z2) == Sign(u1 * z2 - u2 * z1)

(* Directions along one line, the same way, have the same sides.           *)
LEMMA AlongALine ==
  ASSUME NEW u1 \in Int, NEW u2 \in Int, NEW v1 \in Int, NEW v2 \in Int, NEW z1 \in Int,
         NEW z2 \in Int,
         u1 # 0 \/ u2 # 0, v1 # 0 \/ v2 # 0,
         u1 * v2 - u2 * v1 = 0, u1 * v1 + u2 * v2 >= 0
  PROVE  Slope(u1, u2, z1, z2) = Slope(v1, v2, z1, z2)
<1>1. PICK uu \in Int, uv \in Int, vv \in Int, x \in Int, y \in Int, k \in Int :
        /\ uu = u1 * u1 + u2 * u2 /\ uv = u1 * v1 + u2 * v2 /\ vv = v1 * v1 + v2 * v2
        /\ x = u1 * z2 - u2 * z1 /\ y = v1 * z2 - v2 * z1 /\ k = u1 * v2 - u2 * v1
  OBVIOUS
<1>2. uu > 0 /\ vv > 0
  BY <1>1, SquareIsPositive
<1>3. uv * uv + k * k = uu * vv
  BY <1>1
<1>4. k = 0
  BY <1>1
<1>5. uv * uv = uu * vv
  BY <1>3, <1>4
<1>6. uu * vv > 0
  BY <1>2
<1>7. uv # 0
  BY <1>5, <1>6
<1>8. uv > 0
  BY <1>1, <1>7
<1>9. uv * x - uu * y = (u1 * z1 + u2 * z2) * k
  BY <1>1
<1>10. uv * x = uu * y
  BY <1>9, <1>4
<1>11. PICK i \in Int, j \in Int : i = uv * x /\ j = uu * y
  OBVIOUS
<1>12. Sign(x) = Sign(i) /\ Sign(y) = Sign(j)
  BY <1>2, <1>8, <1>11, SignOfMultiple
<1> QED BY <1>1, <1>10, <1>11, <1>12 DEF Slope

(* The edges before and after a vertex that is no corner have the same     *)
(* sides.                                                                  *)
LEMMA StraightCorner ==
  ASSUME NEW a \in Nodes, NEW b \in Nodes, NEW c \in Nodes, NEW z \in Nodes,
         a # b, b # c, ~Spike(a, b, c), Cross(a, b, c) = 0
  PROVE  Sign(Cross(a, b, z)) = Sign(Cross(b, c, z))
<1>1. PICK a1 \in Int, a2 \in Int, b1 \in Int, b2 \in Int : a = <<a1, a2, 1>> /\ b = <<b1, b2, 1>>
  BY DEF Nodes
<1>2. PICK c1 \in Int, c2 \in Int, z1 \in Int, z2 \in Int : c = <<c1, c2, 1>> /\ z = <<z1, z2, 1>>
  BY DEF Nodes
<1>3. PICK u1 \in Int, u2 \in Int, v1 \in Int, v2 \in Int :
        u1 = b1 - a1 /\ u2 = b2 - a2 /\ v1 = c1 - b1 /\ v2 = c2 - b2
  OBVIOUS
<1>4. PICK y1 \in Int, y2 \in Int : y1 = z1 - b1 /\ y2 = z2 - b2
  OBVIOUS
<1>5. (u1 # 0 \/ u2 # 0) /\ (v1 # 0 \/ v2 # 0)
  BY <1>1, <1>2, <1>3
<1>6. Cross(a, b, c) = u1 * v2 - u2 * v1
  BY <1>1, <1>2, <1>3 DEF Cross
<1>7. Cross(a, b, z) = u1 * y2 - u2 * y1
  BY <1>1, <1>2, <1>3, <1>4 DEF Cross
<1>8. Cross(b, c, z) = v1 * y2 - v2 * y1
  BY <1>1, <1>2, <1>3, <1>4 DEF Cross
<1>9. Side(a, b, c) = 0
  BY DEF Side, Sign
<1>10. ~(u1 * v1 + u2 * v2 < 0)
  BY <1>1, <1>2, <1>3, <1>9 DEF Spike
<1>11. u1 * v1 + u2 * v2 >= 0
  BY <1>10
<1>12. u1 * v2 - u2 * v1 = 0
  BY <1>6
<1>13. Slope(u1, u2, y1, y2) = Slope(v1, v2, y1, y2)
  BY <1>5, <1>11, <1>12, AlongALine
<1> QED BY <1>7, <1>8, <1>13 DEF Slope

(* Both diagonals cut the same area.                                       *)
LEMMA AreasOfHalves ==
  ASSUME NEW a \in Nodes, NEW b \in Nodes, NEW c \in Nodes, NEW z \in Nodes
  PROVE  Cross(a, b, c) + Cross(c, z, a) = Cross(b, c, z) + Cross(z, a, b)
<1>1. PICK a1 \in Int, a2 \in Int, b1 \in Int, b2 \in Int : a = <<a1, a2, 1>> /\ b = <<b1, b2, 1>>
  BY DEF Nodes
<1>2. PICK c1 \in Int, c2 \in Int, z1 \in Int, z2 \in Int : c = <<c1, c2, 1>> /\ z = <<z1, z2, 1>>
  BY DEF Nodes
<1> QED BY <1>1, <1>2 DEF Cross

(* What deliveryPolygonError() has seen of a ring of four vertices.        *)
Simple4(a, b, c, z) ==
  /\ a # b /\ b # c /\ c # z /\ z # a
  /\ ~Spike(a, b, c) /\ ~Spike(b, c, z) /\ ~Spike(c, z, a) /\ ~Spike(z, a, b)
  /\ ~SegmentsIntersect(a, b, c, z) /\ ~SegmentsIntersect(b, c, z, a)
  /\ Cross(a, b, c) + Cross(c, z, a) # 0

(* Both numbers are positive, or both negative.                            *)
Alike(m, n) == (m > 0 /\ n > 0) \/ (m < 0 /\ n < 0)

(* Edges that do not cross are not each on both sides of the other.        *)
LEMMA OppositeSides ==
  ASSUME NEW a \in Nodes, NEW b \in Nodes, NEW c \in Nodes, NEW z \in Nodes,
         ~SegmentsIntersect(a, b, c, z)
  PROVE  \/ ~Alike(Cross(a, b, c), -Cross(z, a, b))
         \/ ~Alike(Cross(c, z, a), -Cross(b, c, z))
<1>1. PICK o1 \in Int, o2 \in Int, o3 \in Int, o4 \in Int :
        o1 = Cross(a, b, c) /\ o2 = Cross(c, z, a) /\ o3 = Cross(z, a, b) /\ o4 = Cross(b, c, z)
  BY CrossType
<1>2. Side(a, b, c) = Sign(o1) /\ Side(a, b, z) = Sign(o3) /\ Side(c, z, a) = Sign(o2)
        /\ Side(c, z, b) = Sign(o4)
  BY <1>1, CyclicTurn DEF Side
<1>3. ~(Sign(o1) * Sign(o3) < 0 /\ Sign(o2) * Sign(o4) < 0)
  BY <1>2 DEF SegmentsIntersect
<1>4. ~Alike(o1, -o3) \/ ~Alike(o2, -o4)
  BY <1>3 DEF Alike, Sign
<1> QED BY <1>1, <1>4

(* A simple quadrilateral has a diagonal with a vertex on either side.     *)
LEMMA OneDiagonalCuts ==
  ASSUME NEW a \in Nodes, NEW b \in Nodes, NEW c \in Nodes, NEW z \in Nodes, Simple4(a, b, c, z)
  PROVE  OnBothSides(a, b, c, z) \/ OnBothSides(b, c, z, a)
<1>1. PICK o1 \in Int, o2 \in Int, o3 \in Int, o4 \in Int :
        o1 = Cross(a, b, c) /\ o2 = Cross(c, z, a) /\ o3 = Cross(z, a, b) /\ o4 = Cross(b, c, z)
  BY CrossType
<1>2. o1 + o2 = o3 + o4 /\ o1 + o2 # 0
  BY <1>1, AreasOfHalves DEF Simple4
<1>3. o1 = 0 => Sign(o3) = Sign(o4)
  <2>1. a # b /\ b # c /\ ~Spike(a, b, c)
    BY DEF Simple4
  <2>2. ASSUME o1 = 0 PROVE Sign(Cross(a, b, z)) = Sign(Cross(b, c, z))
    <3>1. Cross(a, b, c) = 0
      BY <1>1, <2>2, CyclicTurn
    <3> QED BY <2>1, <3>1, StraightCorner
  <2> QED BY <1>1, <2>2, CyclicTurn
<1>4. o2 = 0 => Sign(o4) = Sign(o3)
  <2>1. c # z /\ z # a /\ ~Spike(c, z, a)
    BY DEF Simple4
  <2>2. ASSUME o2 = 0 PROVE Sign(Cross(c, z, b)) = Sign(Cross(z, a, b))
    <3>1. Cross(c, z, a) = 0
      BY <1>1, <2>2, CyclicTurn
    <3> QED BY <2>1, <3>1, StraightCorner
  <2> QED BY <1>1, <2>2, CyclicTurn
<1>5. o3 = 0 => Sign(o2) = Sign(o1)
  <2>1. z # a /\ a # b /\ ~Spike(z, a, b)
    BY DEF Simple4
  <2>2. ASSUME o3 = 0 PROVE Sign(Cross(z, a, c)) = Sign(Cross(a, b, c))
    <3>1. Cross(z, a, b) = 0
      BY <1>1, <2>2, CyclicTurn
    <3> QED BY <2>1, <3>1, StraightCorner
  <2> QED BY <1>1, <2>2, CyclicTurn
<1>6. o4 = 0 => Sign(o1) = Sign(o2)
  <2>1. b # c /\ c # z /\ ~Spike(b, c, z)
    BY DEF Simple4
  <2>2. ASSUME o4 = 0 PROVE Sign(Cross(b, c, a)) = Sign(Cross(c, z, a))
    <3>1. Cross(b, c, z) = 0
      BY <1>1, <2>2, CyclicTurn
    <3> QED BY <2>1, <3>1, StraightCorner
  <2> QED BY <1>1, <2>2, CyclicTurn
<1>7. ~Alike(o1, -o3) \/ ~Alike(o2, -o4)
  BY <1>1, OppositeSides DEF Simple4
<1>8. ~Alike(o4, -o1) \/ ~Alike(o3, -o2)
  <2>1. ~Alike(Cross(b, c, z), -Cross(a, b, c)) \/ ~Alike(Cross(z, a, b), -Cross(c, z, a))
    BY OppositeSides DEF Simple4
  <2> QED BY <1>1, <2>1
<1>9. Alike(o1, o2) \/ Alike(o4, o3)
  BY <1>2, <1>3, <1>4, <1>5, <1>6, <1>7, <1>8 DEF Alike, Sign
<1> QED BY <1>1, <1>9 DEF Alike, OnBothSides

(* The sum of signedArea, for three vertices and for four.                 *)
LEMMA AreaOfTriangle ==
  ASSUME NEW a \in Nodes, NEW b \in Nodes, NEW c \in Nodes
  PROVE  SignedArea(<<a, b, c, a>>) = Cross(a, b, c)
<1> DEFINE ring == <<a, b, c, a>>
           Sums(f) == [i \in 1..Count(ring) |->
                         IF i = 1 THEN 0 ELSE f[i - 1] + Cross(ring[1], ring[i], ring[i + 1])]
           area == CHOOSE f : f = Sums(f)
           sums == [i \in 1..3 |-> IF i = 1 THEN 0 ELSE Cross(a, b, c)]
<1>1. Count(ring) = 3 /\ 1..3 = {1, 2, 3}
  BY DEF Count
<1>2. Cross(a, b, c) \in Int /\ Cross(a, c, a) = 0
  <2>1. Cross(a, c, a) = 0
    BY DEF Nodes, Cross
  <2> QED BY <2>1, CrossType
<1>3. sums = Sums(sums)
  <2>1. sums[1] = 0 /\ sums[2] = Cross(a, b, c) /\ sums[3] = Cross(a, b, c)
    BY <1>1
  <2>2. ring[1] = a /\ ring[2] = b /\ ring[3] = c /\ ring[4] = a
    OBVIOUS
  <2>3. Sums(sums)[1] = 0 /\ Sums(sums)[2] = Cross(a, b, c) /\ Sums(sums)[3] = Cross(a, b, c)
    BY <1>1, <1>2, <2>1, <2>2
  <2>4. DOMAIN Sums(sums) = 1..3
    BY <1>1
  <2> HIDE DEF ring
  <2> QED BY <1>1, <2>1, <2>3, <2>4
<1>4. area = Sums(area)
  <2> HIDE DEF Sums, sums
  <2> QED BY <1>3
<1>5. area[1] = 0 /\ area[2] = area[1] + Cross(a, b, c) /\ area[3] = area[2] + Cross(a, c, a)
  <2> HIDE DEF area
  <2> QED BY <1>1, <1>4
<1>6. SignedArea(ring) = area[Count(ring)]
  BY DEF SignedArea
<1> HIDE DEF area
<1> QED BY <1>1, <1>2, <1>5, <1>6

LEMMA AreaOfQuadrilateral ==
  ASSUME NEW a \in Nodes, NEW b \in Nodes, NEW c \in Nodes, NEW z \in Nodes
  PROVE  SignedArea(<<a, b, c, z, a>>) = Cross(a, b, c) + Cross(c, z, a)
<1> DEFINE ring == <<a, b, c, z, a>>
           Sums(f) == [i \in 1..Count(ring) |->
                         IF i = 1 THEN 0 ELSE f[i - 1] + Cross(ring[1], ring[i], ring[i + 1])]
           area == CHOOSE f : f = Sums(f)
           sums == [i \in 1..4 |-> IF i = 1 THEN 0 ELSE IF i = 2 THEN Cross(a, b, c)
                                   ELSE Cross(a, b, c) + Cross(a, c, z)]
<1>1. Count(ring) = 4 /\ 1..4 = {1, 2, 3, 4}
  BY DEF Count
<1>2. Cross(a, b, c) \in Int /\ Cross(a, c, z) \in Int /\ Cross(a, z, a) = 0
  <2>1. Cross(a, z, a) = 0
    BY DEF Nodes, Cross
  <2> QED BY <2>1, CrossType
<1>3. sums = Sums(sums)
  <2>1. /\ sums[1] = 0 /\ sums[2] = Cross(a, b, c) /\ sums[3] = Cross(a, b, c) + Cross(a, c, z)
        /\ sums[4] = Cross(a, b, c) + Cross(a, c, z)
    BY <1>1
  <2>2. ring[1] = a /\ ring[2] = b /\ ring[3] = c /\ ring[4] = z /\ ring[5] = a
    OBVIOUS
  <2>3. /\ Sums(sums)[1] = 0 /\ Sums(sums)[2] = Cross(a, b, c)
        /\ Sums(sums)[3] = Cross(a, b, c) + Cross(a, c, z)
        /\ Sums(sums)[4] = Cross(a, b, c) + Cross(a, c, z)
    BY <1>1, <1>2, <2>1, <2>2
  <2>4. DOMAIN Sums(sums) = 1..4
    BY <1>1
  <2> HIDE DEF ring
  <2> QED BY <1>1, <2>1, <2>3, <2>4
<1>4. area = Sums(area)
  <2> HIDE DEF Sums, sums
  <2> QED BY <1>3
<1>5. /\ area[1] = 0 /\ area[2] = area[1] + Cross(a, b, c) /\ area[3] = area[2] + Cross(a, c, z)
      /\ area[4] = area[3] + Cross(a, z, a)
  <2> HIDE DEF area
  <2> QED BY <1>1, <1>4
<1>6. SignedArea(ring) = area[Count(ring)]
  BY DEF SignedArea
<1>7. Cross(a, c, z) = Cross(c, z, a)
  BY CyclicTurn
<1> HIDE DEF area
<1> QED BY <1>1, <1>2, <1>5, <1>6, <1>7

(* What deliveryPolygonError() says of rings of three vertices and of      *)
(* four.                                                                   *)
LEMMA ValidTriangle ==
  ASSUME NEW a \in Nodes, NEW b \in Nodes, NEW c \in Nodes, ValidRing(<<a, b, c, a>>)
  PROVE  Cross(a, b, c) # 0
  BY AreaOfTriangle DEF ValidRing

LEMMA ValidQuadrilateral ==
  ASSUME NEW a \in Nodes, NEW b \in Nodes, NEW c \in Nodes, NEW z \in Nodes,
         ValidRing(<<a, b, c, z, a>>)
  PROVE  Simple4(a, b, c, z)
<1> DEFINE ring == <<a, b, c, z, a>>
           next(i) == ring[((i + 1) % Count(ring)) + 1]
<1>1. Count(ring) = 4
  BY DEF Count
<1>2. /\ ring[1] = a /\ ring[2] = b /\ ring[3] = c /\ ring[4] = z /\ ring[5] = a
      /\ next(1) = c /\ next(2) = z /\ next(3) = a /\ next(4) = b
  BY <1>1
<1>3. \A i \in 1..4 : ring[i] # ring[i + 1] /\ ~Spike(ring[i], ring[i + 1], next(i))
  BY <1>1 DEF ValidRing, Spike
<1>4. \A i \in 1..4 : \A j \in (i + 2)..4 :
        ~(i = 1 /\ j = 4) => ~SegmentsIntersect(ring[i], ring[i + 1], ring[j], ring[j + 1])
  BY <1>1 DEF ValidRing
<1>5. SignedArea(ring) # 0
  BY DEF ValidRing
<1>6. Cross(a, b, c) + Cross(c, z, a) # 0
  BY <1>5, AreaOfQuadrilateral
<1> HIDE DEF ring, next
<1>7. a # b /\ b # c /\ c # z /\ z # a
  BY <1>2, <1>3
<1>8. ~Spike(a, b, c) /\ ~Spike(b, c, z) /\ ~Spike(c, z, a) /\ ~Spike(z, a, b)
  BY <1>2, <1>3
<1>9. ~SegmentsIntersect(a, b, c, z) /\ ~SegmentsIntersect(b, c, z, a)
  BY <1>2, <1>4
<1> QED BY <1>6, <1>7, <1>8, <1>9 DEF Simple4

(* The rings of the model, as the proofs know them.                        *)
Drawn(ring) ==
  \/ \E a, b, c \in Nodes : ring = <<a, b, c, a>> /\ Cross(a, b, c) # 0
  \/ \E a, b, c, z \in Nodes : ring = <<a, b, c, z, a>> /\ Simple4(a, b, c, z)

LEMMA VerticesAreNodes == Vertices \subseteq Nodes
<1>1. ASSUME NEW v \in Vertices PROVE v \in Nodes
  <2>1. PICK x \in Grid, y \in Grid : v = At2(x, y)
    BY DEF Vertices
  <2> QED BY <2>1, DrawingsAssumption DEF Nodes, At2
<1> QED BY <1>1

(* Every ring that deliveryPolygonError() lets pass is one of them.        *)
LEMMA RingsAreDrawn ==
  ASSUME NEW ring \in ValidRings
  PROVE  Drawn(ring)
<1>1. PICK n \in {3, 4} : ring \in Rings(n)
  BY DrawingsAssumption DEF ValidRings
<1>2. PICK r \in [1..n -> Vertices] :
        ring = [i \in 1..(n + 1) |-> IF i > n THEN r[1] ELSE r[i]]
  BY <1>1 DEF Rings
<1>3. ValidRing(ring)
  BY DEF ValidRings
<1>4. Vertices \subseteq Nodes
  BY VerticesAreNodes
<1>5. CASE n = 3
  <2>1. r[1] \in Nodes /\ r[2] \in Nodes /\ r[3] \in Nodes
    BY <1>2, <1>4, <1>5
  <2>2. ring = <<r[1], r[2], r[3], r[1]>>
    BY <1>2, <1>5
  <2> QED BY <1>3, <2>1, <2>2, ValidTriangle DEF Drawn
<1>6. CASE n = 4
  <2>1. r[1] \in Nodes /\ r[2] \in Nodes /\ r[3] \in Nodes /\ r[4] \in Nodes
    BY <1>2, <1>4, <1>6
  <2>2. ring = <<r[1], r[2], r[3], r[4], r[1]>>
    BY <1>2, <1>6
  <2> QED BY <1>3, <2>1, <2>2, ValidQuadrilateral DEF Drawn
<1> QED BY <1>5, <1>6

(* The halves of a quadrilateral have its orientation.                     *)
LEMMA SignOfHalves ==
  ASSUME NEW a \in Nodes, NEW b \in Nodes, NEW c \in Nodes, NEW z \in Nodes,
         OnBothSides(a, b, c, z)
  PROVE  /\ Cross(a, b, c) # 0 /\ Cross(c, z, a) # 0
         /\ Sign(Cross(a, b, c)) = Sign(Cross(a, b, c) + Cross(c, z, a))
         /\ Sign(Cross(c, z, a)) = Sign(Cross(a, b, c) + Cross(c, z, a))
<1>1. PICK m \in Int, n \in Int : m = Cross(a, b, c) /\ n = Cross(c, z, a)
  BY CrossType
<1>2. (m > 0 /\ n > 0) \/ (m < 0 /\ n < 0)
  BY <1>1 DEF OnBothSides
<1>3. m # 0 /\ n # 0 /\ Sign(m) = Sign(m + n) /\ Sign(n) = Sign(m + n)
  BY <1>2 DEF Sign
<1> QED BY <1>1, <1>3

(* Triangles() cuts a quadrilateral along a, c if that is a diagonal       *)
(* inside of it, and along b, z otherwise.                                 *)
LEMMA CutOfQuadrilateral ==
  ASSUME NEW a \in Nodes, NEW b \in Nodes, NEW c \in Nodes, NEW z \in Nodes
  PROVE  Triangles(<<a, b, c, z, a>>) =
           IF OnBothSides(a, b, c, z) THEN {<<a, b, c>>, <<a, c, z>>}
             ELSE {<<a, b, z>>, <<b, c, z>>}
<1> DEFINE ring == <<a, b, c, z, a>>
<1>1. Count(ring) = 4
  BY EdgesOfQuadrilateral
<1>2. Triangles(ring) =
        IF Side(a, c, b) * Side(a, c, z) < 0 THEN {<<a, b, c>>, <<a, c, z>>}
        ELSE {<<a, b, z>>, <<b, c, z>>}
  BY <1>1 DEF Triangles
<1>3. Side(a, c, b) * Side(a, c, z) < 0 <=> OnBothSides(a, b, c, z)
  <2>1. PICK m \in Int, n \in Int : m = Cross(a, b, c) /\ n = Cross(c, z, a)
    BY CrossType
  <2>2. Cross(a, c, b) = -m
    BY <2>1 DEF Nodes, Cross
  <2>3. Cross(a, c, z) = n
    BY <2>1, CyclicTurn
  <2> QED BY <2>1, <2>2, <2>3 DEF Side, Sign, OnBothSides
<1> HIDE DEF ring
<1>4. Triangles(ring) =
           IF OnBothSides(a, b, c, z) THEN {<<a, b, c>>, <<a, c, z>>}
             ELSE {<<a, b, z>>, <<b, c, z>>}
  BY <1>2, <1>3
<1> QED BY <1>4 DEF ring

(***************************************************************************)
(* Inside of a ring is inside of one of its triangles.                     *)
(***************************************************************************)
LEMMA RotatedTriangle ==
  ASSUME NEW p \in Points, NEW a \in Nodes, NEW b \in Nodes, NEW c \in Nodes, Cross(a, b, c) # 0
  PROVE  InTriangle(<<b, c, a>>, p) <=> InTriangle(<<a, b, c>>, p)
<1>1. Cross(b, c, a) # 0
  BY CyclicTurn
<1>2. /\ InTriangle(<<a, b, c>>, p) <=> Within(Seen(p, a), Seen(p, b), Seen(p, c))
      /\ InTriangle(<<b, c, a>>, p) <=> Within(Seen(p, b), Seen(p, c), Seen(p, a))
  BY <1>1, InTriangleIsWithin
<1> QED BY <1>2 DEF Within, WithinAt

(* pointInDeliveryPolygon(), the border included, and the triangles.       *)
LEMMA InsideOfRing ==
  ASSUME NEW p \in Points, NEW ring, Drawn(ring)
  PROVE  PointInPolygon(p, ring, TRUE) <=> \E t \in Triangles(ring) : InTriangle(t, p)
<1>1. ASSUME NEW a \in Nodes, NEW b \in Nodes, NEW c \in Nodes,
             ring = <<a, b, c, a>>, Cross(a, b, c) # 0
      PROVE  PointInPolygon(p, ring, TRUE) <=> \E t \in Triangles(ring) : InTriangle(t, p)
  <2>1. Count(ring) = 3 /\ Edges(ring) = {<<a, b>>, <<b, c>>, <<c, a>>}
    BY <1>1, EdgesOfTriangle
  <2>2. PointInPolygon(p, ring, TRUE) <=> InTriangle(<<a, b, c>>, p)
    BY <1>1, <2>1, InsideOfTriangle
  <2>3. Triangles(ring) = {<<a, b, c>>}
    BY <1>1, <2>1 DEF Triangles
  <2> QED BY <2>2, <2>3
<1>2. ASSUME NEW a \in Nodes, NEW b \in Nodes, NEW c \in Nodes, NEW z \in Nodes,
             ring = <<a, b, c, z, a>>, Simple4(a, b, c, z)
      PROVE  PointInPolygon(p, ring, TRUE) <=> \E t \in Triangles(ring) : InTriangle(t, p)
  <2>1. Count(ring) = 4 /\ Edges(ring) = {<<a, b>>, <<b, c>>, <<c, z>>, <<z, a>>}
    BY <1>2, EdgesOfQuadrilateral
  <2>2. Triangles(ring) =
          IF OnBothSides(a, b, c, z) THEN {<<a, b, c>>, <<a, c, z>>}
          ELSE {<<a, b, z>>, <<b, c, z>>}
    BY <1>2, CutOfQuadrilateral
  <2>4. ASSUME OnBothSides(a, b, c, z)
        PROVE  PointInPolygon(p, ring, TRUE) <=> \E t \in Triangles(ring) : InTriangle(t, p)
    <3>1. PointInPolygon(p, ring, TRUE) <=> InTriangle(<<a, b, c>>, p)
            \/ InTriangle(<<c, z, a>>, p)
      BY <2>1, <2>4, InsideOfQuadrilateral
    <3>2. InTriangle(<<c, z, a>>, p) <=> InTriangle(<<a, c, z>>, p)
      <4>1. Cross(a, c, z) # 0
        BY <2>4, CyclicTurn, CrossType DEF OnBothSides
      <4> QED BY <4>1, RotatedTriangle
    <3> QED BY <2>2, <2>4, <3>1, <3>2
  <2>5. ASSUME ~OnBothSides(a, b, c, z)
        PROVE  PointInPolygon(p, ring, TRUE) <=> \E t \in Triangles(ring) : InTriangle(t, p)
    <3>1. OnBothSides(b, c, z, a)
      BY <1>2, <2>5, OneDiagonalCuts
    <3>2. {<<a, b>>, <<b, c>>, <<c, z>>, <<z, a>>} = {<<b, c>>, <<c, z>>, <<z, a>>, <<a, b>>}
      OBVIOUS
    <3>3. PointInPolygon(p, ring, TRUE) <=> InTriangle(<<b, c, z>>, p)
            \/ InTriangle(<<z, a, b>>, p)
      BY <2>1, <3>1, <3>2, InsideOfQuadrilateral
    <3>4. InTriangle(<<z, a, b>>, p) <=> InTriangle(<<a, b, z>>, p)
      <4>1. Cross(z, a, b) # 0
        BY <3>1, CrossType DEF OnBothSides
      <4> QED BY <4>1, RotatedTriangle
    <3> QED BY <2>2, <2>5, <3>3, <3>4
  <2> QED BY <2>4, <2>5
<1> QED BY <1>1, <1>2 DEF Drawn

(***************************************************************************)
(* Triangles with a common point inside of one of them are not apart: no   *)
(* side separates them.                                                    *)
(***************************************************************************)
(* A point of a triangle that is on none of its edges is on none of the    *)
(* lines through them.                                                     *)
LEMMA BorderIsTouched ==
  ASSUME NEW a \in Plane, NEW b \in Plane, NEW c \in Plane, Turn(a, b, c) # 0, Within(a, b, c),
         ~Touched(a, b), ~Touched(b, c), ~Touched(c, a)
  PROVE  Det(a, b) # 0 /\ Det(b, c) # 0 /\ Det(c, a) # 0
<1>1. PICK ax \in Int, ay \in Int, bx \in Int, by \in Int, cx \in Int, cy \in Int :
        a = <<ax, ay>> /\ b = <<bx, by>> /\ c = <<cx, cy>>
  BY DEF Plane
<1>2. PICK d \in Int, e \in Int, f \in Int : d = Det(a, b) /\ e = Det(b, c) /\ f = Det(c, a)
  BY DetType
<1>3. d = ax * by - ay * bx /\ e = bx * cy - by * cx /\ f = cx * ay - cy * ax
  BY <1>1, <1>2 DEF Det
<1>4. \E k, m, n, q, r, s \in Int : Facts(ax, ay, bx, by, cx, cy, d, e, f, k, m, n, q, r, s)
  BY <1>3, FactsOfTriangles
<1>5. PICK k \in Int, m \in Int, n \in Int, q \in Int, r \in Int, s \in Int :
        Facts(ax, ay, bx, by, cx, cy, d, e, f, k, m, n, q, r, s)
  BY <1>4
<1>6. d + e + f # 0
  BY <1>2 DEF Turn
<1>7. /\ ~TouchedAt(ax, ay, bx, by, d) /\ ~TouchedAt(bx, by, cx, cy, e)
      /\ ~TouchedAt(cx, cy, ax, ay, f) /\ WithinAt(d, e, f)
  BY <1>1, <1>2 DEF Touched, Within
<1>8. d # 0
  BY <1>5, <1>6, <1>7 DEF Facts, Balanced, Flat, Signs, Around, TouchedAt, WithinAt
<1>9. e # 0
  BY <1>5, <1>6, <1>7 DEF Facts, Balanced, Flat, Signs, Around, TouchedAt, WithinAt
<1>10. f # 0
  BY <1>5, <1>6, <1>7 DEF Facts, Balanced, Flat, Signs, Around, TouchedAt, WithinAt
<1> QED BY <1>8, <1>9, <1>10, <1>2

(* A point of a triangle c, d, e is a mean of its vertices: so is what any *)
(* edge a, b makes with it.                                                *)
LEMMA WeightsOfVertices ==
  ASSUME NEW a \in Plane, NEW b \in Plane, NEW c \in Plane, NEW d \in Plane, NEW e \in Plane
  PROVE  Turn(c, d, e) * Det(a, b)
           = Det(d, e) * Turn(a, b, c) + Det(e, c) * Turn(a, b, d) + Det(c, d) * Turn(a, b, e)
<1>1. PICK ax \in Int, ay \in Int, bx \in Int, by \in Int :
        a = <<ax, ay>> /\ b = <<bx, by>>
  BY PairsOfInts
<1>2. PICK cx \in Int, cy \in Int, dx \in Int, dy \in Int :
        c = <<cx, cy>> /\ d = <<dx, dy>>
  BY PairsOfInts
<1>3. PICK ex \in Int, ey \in Int : e = <<ex, ey>>
  BY PairsOfInts
<1> QED BY <1>1, <1>2, <1>3 DEF Turn, Det

(* A mean is not above all of the numbers it is a mean of, and if it is 0, *)
(* and strictly between, they are not all on one side.                     *)
LEMMA SignsOfSums ==
  ASSUME NEW i \in Int, NEW j \in Int, NEW k \in Int, NEW x \in Int, NEW y \in Int, NEW z \in Int,
         NEW d \in Int, (i + j + k) * d = i * x + j * y + k * z, i + j + k # 0,
         (i >= 0 /\ j >= 0 /\ k >= 0) \/ (i <= 0 /\ j <= 0 /\ k <= 0)
  PROVE  /\ d > 0 => x > 0 \/ y > 0 \/ z > 0
         /\ d < 0 => x < 0 \/ y < 0 \/ z < 0
         /\ d = 0 /\ i # 0 /\ j # 0 /\ k # 0 /\ (x # 0 \/ y # 0 \/ z # 0) =>
              (x > 0 \/ y > 0 \/ z > 0) /\ (x < 0 \/ y < 0 \/ z < 0)
<1>1. PICK s \in Int, m \in Int, ix \in Int, jy \in Int, kz \in Int :
        s = i + j + k /\ m = s * d /\ ix = i * x /\ jy = j * y /\ kz = k * z
  OBVIOUS
<1>2. m = ix + jy + kz
  BY <1>1
<1>3. Signs(s, d, m) /\ Signs(i, x, ix) /\ Signs(j, y, jy) /\ Signs(k, z, kz)
  BY <1>1, SignOfProduct
<1>4. /\ (s > 0 /\ i >= 0 /\ j >= 0 /\ k >= 0) \/ (s < 0 /\ i <= 0 /\ j <= 0 /\ k <= 0)
  BY <1>1
<1>5. d > 0 => x > 0 \/ y > 0 \/ z > 0
  BY <1>2, <1>3, <1>4 DEF Signs
<1>6. d < 0 => x < 0 \/ y < 0 \/ z < 0
  BY <1>2, <1>3, <1>4 DEF Signs
<1>7. ASSUME d = 0, i # 0, j # 0, k # 0, x # 0 \/ y # 0 \/ z # 0
      PROVE  (x > 0 \/ y > 0 \/ z > 0) /\ (x < 0 \/ y < 0 \/ z < 0)
  BY <1>2, <1>3, <1>4, <1>7 DEF Signs
<1> QED BY <1>5, <1>6, <1>7

(* Three vertices on one line make no triangle.                            *)
LEMMA NotAllOnALine ==
  ASSUME NEW a \in Plane, NEW b \in Plane, NEW c \in Plane, NEW d \in Plane, NEW e \in Plane,
         a # b, Turn(a, b, c) = 0, Turn(a, b, d) = 0, Turn(a, b, e) = 0
  PROVE  Turn(c, d, e) = 0
<1>1. PICK ax \in Int, ay \in Int, bx \in Int, by \in Int :
        a = <<ax, ay>> /\ b = <<bx, by>>
  BY PairsOfInts
<1>2. PICK cx \in Int, cy \in Int, dx \in Int, dy \in Int :
        c = <<cx, cy>> /\ d = <<dx, dy>>
  BY PairsOfInts
<1>3. PICK ex \in Int, ey \in Int : e = <<ex, ey>>
  BY PairsOfInts
<1>4. PICK k \in Int, l \in Int, m \in Int, n \in Int :
        k = Turn(a, b, c) /\ l = Turn(a, b, d) /\ m = Turn(a, b, e) /\ n = Turn(c, d, e)
  BY TurnType
<1>5. PICK u1 \in Int, u2 \in Int, v1 \in Int, v2 \in Int, w1 \in Int, w2 \in Int :
        /\ u1 = bx - ax /\ u2 = by - ay /\ v1 = dx - cx /\ v2 = dy - cy
        /\ w1 = ex - cx /\ w2 = ey - cy
  OBVIOUS
<1>6. k = (ax * by - ay * bx) + (bx * cy - by * cx) + (cx * ay - cy * ax)
  BY <1>1, <1>2, <1>4 DEF Turn, Det
<1>7. l = (ax * by - ay * bx) + (bx * dy - by * dx) + (dx * ay - dy * ax)
  BY <1>1, <1>2, <1>4 DEF Turn, Det
<1>8. m = (ax * by - ay * bx) + (bx * ey - by * ex) + (ex * ay - ey * ax)
  BY <1>1, <1>3, <1>4 DEF Turn, Det
<1>9. u1 * v2 - u2 * v1 = l - k
  BY <1>5, <1>6, <1>7
<1>10. u1 * w2 - u2 * w1 = m - k
  BY <1>5, <1>6, <1>8
<1>11. v1 * w2 - v2 * w1 = n
  BY <1>2, <1>3, <1>4, <1>5 DEF Turn, Det
<1>12. /\ u1 * (v1 * w2 - v2 * w1) = v1 * (u1 * w2 - u2 * w1) - w1 * (u1 * v2 - u2 * v1)
       /\ u2 * (v1 * w2 - v2 * w1) = v2 * (u1 * w2 - u2 * w1) - w2 * (u1 * v2 - u2 * v1)
  OBVIOUS
<1>13. l - k = 0 /\ m - k = 0
  BY <1>4
<1>14. u1 * n = v1 * 0 - w1 * 0 /\ u2 * n = v2 * 0 - w2 * 0
  BY <1>9, <1>10, <1>11, <1>12, <1>13
<1>15. u1 * n = 0 /\ u2 * n = 0
  BY <1>14
<1>16. u1 # 0 \/ u2 # 0
  BY <1>1, <1>5
<1>17. n = 0
  BY <1>15, <1>16
<1> QED BY <1>4, <1>17

(* v is strictly on the side of the line a, b where x is; one of c, d, e   *)
(* is; and p is on the inner side of all edges.                            *)
Beside(a, b, x, v) == Side(a, b, v) * Side(a, b, x) > 0
Reaches(a, b, x, c, d, e) == Beside(a, b, x, c) \/ Beside(a, b, x, d) \/ Beside(a, b, x, e)
Interior(a, b, c, p) == Beside(a, b, c, p) /\ Beside(b, c, a, p) /\ Beside(c, a, b, p)

LEMMA BesideSeen ==
  ASSUME NEW p \in Points, NEW a \in Nodes, NEW b \in Nodes, NEW x \in Nodes
  PROVE  /\ Beside(a, b, x, p) <=>
              Alike(Det(Seen(p, a), Seen(p, b)), Turn(Seen(p, a), Seen(p, b), Seen(p, x)))
         /\ \A v \in Nodes : Beside(a, b, x, v) <=>
              Alike(Turn(Seen(p, a), Seen(p, b), Seen(p, v)),
                Turn(Seen(p, a), Seen(p, b), Seen(p, x)))
<1>1. \A m, n \in Int : Sign(m) * Sign(n) > 0 <=> Alike(m, n)
  BY DEF Sign, Alike
<1>2. Side(a, b, p) = Sign(Det(Seen(p, a), Seen(p, b)))
  BY SideOfPoint
<1>3. \A v \in Nodes : Side(a, b, v) = Sign(Turn(Seen(p, a), Seen(p, b), Seen(p, v)))
  BY CrossOfNodes DEF Side
<1>4. \A v \in Nodes : Turn(Seen(p, a), Seen(p, b), Seen(p, v)) \in Int
  BY SeenType, TurnType
<1>5. Det(Seen(p, a), Seen(p, b)) \in Int
  BY SeenType, DetType
<1> QED BY <1>1, <1>2, <1>3, <1>4, <1>5 DEF Beside

(* Different vertices are seen in different places.                        *)
LEMMA SeenApart ==
  ASSUME NEW p \in Points, NEW a \in Nodes, NEW b \in Nodes, a # b
  PROVE  Seen(p, a) # Seen(p, b)
<1>1. PICK p1 \in Int, p2 \in Int, w \in Nat \ {0} : p = <<p1, p2, w>>
  BY DEF Points
<1>2. PICK a1 \in Int, a2 \in Int, b1 \in Int, b2 \in Int : a = <<a1, a2, 1>> /\ b = <<b1, b2, 1>>
  BY DEF Nodes
<1>3. a1 # b1 \/ a2 # b2
  BY <1>2
<1>4. ASSUME NEW m \in Int, NEW n \in Int, m # n PROVE m * w # n * w
  <2>1. (m - n) * w # 0
    BY <1>4
  <2> QED BY <2>1
<1>5. a1 * w # b1 * w \/ a2 * w # b2 * w
  BY <1>3, <1>4
<1> QED BY <1>1, <1>2, <1>5 DEF Seen

(* From a point of a triangle a vertex of it is as far to a side.          *)
LEMMA VertexBeside ==
  ASSUME NEW p \in Points, NEW a \in Nodes, NEW b \in Nodes, NEW x \in Nodes,
         NEW c \in Nodes, NEW d \in Nodes, NEW e \in Nodes,
         Cross(c, d, e) # 0, InTriangle(<<c, d, e>>, p), Beside(a, b, x, p)
  PROVE  Reaches(a, b, x, c, d, e)
<1>1. PICK A \in Plane, B \in Plane, C \in Plane, D \in Plane, F \in Plane, X \in Plane :
        /\ A = Seen(p, a) /\ B = Seen(p, b) /\ C = Seen(p, c) /\ D = Seen(p, d)
        /\ F = Seen(p, e) /\ X = Seen(p, x)
  BY SeenType
<1>2. Turn(C, D, F) # 0 /\ Within(C, D, F)
  BY <1>1, CrossOfNodes, InTriangleIsWithin
<1>3. PICK i \in Int, j \in Int, k \in Int, l \in Int :
        i = Det(D, F) /\ j = Det(F, C) /\ k = Det(C, D) /\ l = Det(A, B)
  BY DetType
<1>4. PICK r \in Int, s \in Int, t \in Int, m \in Int :
        r = Turn(A, B, C) /\ s = Turn(A, B, D) /\ t = Turn(A, B, F) /\ m = Turn(A, B, X)
  BY TurnType
<1>5. (i + j + k) * l = i * r + j * s + k * t
  <2>1. Turn(C, D, F) * Det(A, B) = i * r + j * s + k * t
    BY <1>3, <1>4, WeightsOfVertices
  <2>2. Turn(C, D, F) = i + j + k
    BY <1>3 DEF Turn
  <2> QED BY <1>3, <2>1, <2>2
<1>6. i + j + k # 0
  BY <1>2, <1>3 DEF Turn
<1>7. (i >= 0 /\ j >= 0 /\ k >= 0) \/ (i <= 0 /\ j <= 0 /\ k <= 0)
  BY <1>2, <1>3 DEF Within, WithinAt
<1>8. /\ l > 0 => r > 0 \/ s > 0 \/ t > 0
      /\ l < 0 => r < 0 \/ s < 0 \/ t < 0
  BY <1>5, <1>6, <1>7, SignsOfSums
<1>9. Alike(l, m)
  BY <1>1, <1>3, <1>4, BesideSeen
<1>10. Alike(r, m) \/ Alike(s, m) \/ Alike(t, m)
  BY <1>8, <1>9 DEF Alike
<1> QED BY <1>1, <1>4, <1>10, BesideSeen DEF Reaches

(* A line through an interior point has vertices on both sides.            *)
LEMMA InteriorBeside ==
  ASSUME NEW p \in Points, NEW a \in Nodes, NEW b \in Nodes, NEW x \in Nodes,
         NEW c \in Nodes, NEW d \in Nodes, NEW e \in Nodes,
         Cross(c, d, e) # 0, Interior(c, d, e, p), Cross(a, b, x) # 0, Side(a, b, p) = 0
  PROVE  Reaches(a, b, x, c, d, e)
<1>1. PICK A \in Plane, B \in Plane, C \in Plane, D \in Plane, F \in Plane, X \in Plane :
        /\ A = Seen(p, a) /\ B = Seen(p, b) /\ C = Seen(p, c) /\ D = Seen(p, d)
        /\ F = Seen(p, e) /\ X = Seen(p, x)
  BY SeenType
<1>2. Turn(C, D, F) # 0 /\ Turn(A, B, X) # 0
  BY <1>1, CrossOfNodes
<1>3. PICK i \in Int, j \in Int, k \in Int, l \in Int :
        i = Det(D, F) /\ j = Det(F, C) /\ k = Det(C, D) /\ l = Det(A, B)
  BY DetType
<1>4. PICK r \in Int, s \in Int, t \in Int, m \in Int :
        r = Turn(A, B, C) /\ s = Turn(A, B, D) /\ t = Turn(A, B, F) /\ m = Turn(A, B, X)
  BY TurnType
<1>5. (i + j + k) * l = i * r + j * s + k * t
  <2>1. Turn(C, D, F) * Det(A, B) = i * r + j * s + k * t
    BY <1>3, <1>4, WeightsOfVertices
  <2>2. Turn(C, D, F) = i + j + k
    BY <1>3 DEF Turn
  <2> QED BY <1>3, <2>1, <2>2
<1>6. i + j + k # 0
  BY <1>2, <1>3 DEF Turn
<1>7. Alike(k, i + j + k) /\ Alike(i, i + j + k) /\ Alike(j, i + j + k)
  <2>1. /\ Turn(C, D, F) = i + j + k /\ Turn(D, F, C) = i + j + k /\ Turn(F, C, D) = i + j + k
    BY <1>3 DEF Turn
  <2>2. /\ Alike(Det(C, D), Turn(C, D, F)) /\ Alike(Det(D, F), Turn(D, F, C))
             /\ Alike(Det(F, C), Turn(F, C, D))
    BY <1>1, BesideSeen DEF Interior
  <2> QED BY <1>3, <2>1, <2>2
<1>8. l = 0
  BY <1>1, <1>3, SideOfPoint
<1>9. r # 0 \/ s # 0 \/ t # 0
  <2>1. A # B
    BY <1>1, SeenApart, DistinctNodes
  <2> QED BY <1>2, <1>4, <2>1, NotAllOnALine
<1>10. (r > 0 \/ s > 0 \/ t > 0) /\ (r < 0 \/ s < 0 \/ t < 0)
  <2>1. i # 0 /\ j # 0 /\ k # 0
    BY <1>7 DEF Alike
  <2>2. (i >= 0 /\ j >= 0 /\ k >= 0) \/ (i <= 0 /\ j <= 0 /\ k <= 0)
    BY <1>7 DEF Alike
  <2> QED BY <1>5, <1>6, <1>8, <1>9, <2>1, <2>2, SignsOfSums
<1>11. m # 0
  BY <1>2, <1>4
<1>12. Alike(r, m) \/ Alike(s, m) \/ Alike(t, m)
  BY <1>10, <1>11 DEF Alike
<1> QED BY <1>1, <1>4, <1>12, BesideSeen DEF Reaches

(* Triangles are not apart if each of their sides has a vertex of the      *)
(* other one at its inner side.                                            *)
LEMMA ApartMeans ==
  ASSUME NEW a \in Nodes, NEW b \in Nodes, NEW x \in Nodes,
         NEW c \in Nodes, NEW d \in Nodes, NEW e \in Nodes
  PROVE  ~Apart(<<a, b, x>>, <<c, d, e>>) <=>
           /\ Reaches(a, b, x, c, d, e) /\ Reaches(b, x, a, c, d, e) /\ Reaches(x, a, b, c, d, e)
           /\ Reaches(c, d, e, a, b, x) /\ Reaches(d, e, c, a, b, x) /\ Reaches(e, c, d, a, b, x)
<1> DEFINE t == <<a, b, x>>
           u == <<c, d, e>>
<1>1. 1..3 = {1, 2, 3}
  OBVIOUS
<1>2. \A m \in {-1, 0, 1}, n \in {-1, 0, 1} : m * n <= 0 <=> ~(m * n > 0)
  OBVIOUS
<1>3. \A f, g, h \in Nodes : Side(f, g, h) \in {-1, 0, 1}
  BY SideType
<1>4. /\ Separates(t, 1, u) <=> ~Reaches(a, b, x, c, d, e)
      /\ Separates(t, 2, u) <=> ~Reaches(b, x, a, c, d, e)
      /\ Separates(t, 3, u) <=> ~Reaches(x, a, b, c, d, e)
  BY <1>1, <1>2, <1>3 DEF Separates, Inward, Reaches, Beside
<1>5. /\ Separates(u, 1, t) <=> ~Reaches(c, d, e, a, b, x)
      /\ Separates(u, 2, t) <=> ~Reaches(d, e, c, a, b, x)
      /\ Separates(u, 3, t) <=> ~Reaches(e, c, d, a, b, x)
  BY <1>1, <1>2, <1>3 DEF Separates, Inward, Reaches, Beside
<1> HIDE DEF t, u
<1> QED BY <1>1, <1>4, <1>5 DEF Apart, t, u

LEMMA InTriangleMeans ==
  ASSUME NEW p \in Points, NEW a \in Nodes, NEW b \in Nodes, NEW c \in Nodes, Cross(a, b, c) # 0
  PROVE  InTriangle(<<a, b, c>>, p) <=>
           /\ Beside(a, b, c, p) \/ Side(a, b, p) = 0
           /\ Beside(b, c, a, p) \/ Side(b, c, p) = 0
           /\ Beside(c, a, b, p) \/ Side(c, a, p) = 0
<1>1. 1..3 = {1, 2, 3}
  OBVIOUS
<1>2. /\ Side(a, b, p) \in {-1, 0, 1} /\ Side(b, c, p) \in {-1, 0, 1}
           /\ Side(c, a, p) \in {-1, 0, 1}
  BY CrossOfPoint DEF Side, Sign
<1>3. PICK s \in {-1, 1} : s = Sign(Cross(a, b, c))
  BY CrossType DEF Sign
<1>4. s = Side(a, b, c) /\ s = Side(b, c, a) /\ s = Side(c, a, b)
  BY <1>3, CyclicTurn DEF Side
<1>5. InTriangle(<<a, b, c>>, p) <=>
        Side(a, b, p) * s >= 0 /\ Side(b, c, p) * s >= 0 /\ Side(c, a, p) * s >= 0
  <2>1. /\ Inward(<<a, b, c>>, 1) = s
        /\ Inward(<<a, b, c>>, 2) = s
        /\ Inward(<<a, b, c>>, 3) = s
    BY <1>3, CyclicTurn DEF Inward, Side
  <2> QED BY <1>1, <2>1 DEF InTriangle
<1>6. \A m \in {-1, 0, 1} : m * s >= 0 <=> m * s > 0 \/ m = 0
  OBVIOUS
<1> QED BY <1>2, <1>5, <1>6, <1>4 DEF Beside

(* A point of one triangle that is inside of the other.                    *)
LEMMA InteriorMeets ==
  ASSUME NEW p \in Points, NEW a \in Nodes, NEW b \in Nodes, NEW x \in Nodes,
         NEW c \in Nodes, NEW d \in Nodes, NEW e \in Nodes,
         Cross(a, b, x) # 0, Cross(c, d, e) # 0,
         InTriangle(<<a, b, x>>, p), Interior(c, d, e, p)
  PROVE  ~Apart(<<a, b, x>>, <<c, d, e>>)
<1>1. InTriangle(<<c, d, e>>, p)
  BY InTriangleMeans DEF Interior
<1>2. Cross(b, x, a) # 0 /\ Cross(x, a, b) # 0
  BY CyclicTurn
<1>3. /\ Beside(a, b, x, p) \/ Side(a, b, p) = 0
      /\ Beside(b, x, a, p) \/ Side(b, x, p) = 0
      /\ Beside(x, a, b, p) \/ Side(x, a, p) = 0
  BY InTriangleMeans
<1>4. Reaches(a, b, x, c, d, e)
  BY <1>1, <1>3, VertexBeside, InteriorBeside
<1>5. Reaches(b, x, a, c, d, e)
  BY <1>1, <1>2, <1>3, VertexBeside, InteriorBeside
<1>6. Reaches(x, a, b, c, d, e)
  BY <1>1, <1>2, <1>3, VertexBeside, InteriorBeside
<1>7. Reaches(c, d, e, a, b, x)
  BY VertexBeside DEF Interior
<1>8. Reaches(d, e, c, a, b, x)
  BY VertexBeside DEF Interior
<1>9. Reaches(e, c, d, a, b, x)
  BY VertexBeside DEF Interior
<1> QED BY <1>4, <1>5, <1>6, <1>7, <1>8, <1>9, ApartMeans

LEMMA StrictlyInside ==
  ASSUME NEW p \in Points, NEW c \in Nodes, NEW d \in Nodes, NEW e \in Nodes,
         Cross(c, d, e) # 0, InTriangle(<<c, d, e>>, p),
         ~OnSegment(p, c, d), ~OnSegment(p, d, e), ~OnSegment(p, e, c)
  PROVE  Interior(c, d, e, p)
<1>1. Within(Seen(p, c), Seen(p, d), Seen(p, e))
  BY InTriangleIsWithin
<1>2. Turn(Seen(p, c), Seen(p, d), Seen(p, e)) # 0
  BY CrossOfNodes
<1>3. ~Touched(Seen(p, c), Seen(p, d)) /\ ~Touched(Seen(p, d), Seen(p, e))
        /\ ~Touched(Seen(p, e), Seen(p, c))
  BY OnSegmentIsTouched
<1>4. /\ Det(Seen(p, c), Seen(p, d)) # 0 /\ Det(Seen(p, d), Seen(p, e)) # 0
      /\ Det(Seen(p, e), Seen(p, c)) # 0
  BY <1>1, <1>2, <1>3, SeenType, BorderIsTouched
<1>5. Side(c, d, p) # 0 /\ Side(d, e, p) # 0 /\ Side(e, c, p) # 0
  BY <1>4, SideOfPoint
<1> QED BY <1>5, InTriangleMeans DEF Interior

(* pointInDeliveryPolygon(), without the border, for a triangle.           *)
LEMMA InsideTriangle ==
  ASSUME NEW p \in Points, NEW c \in Nodes, NEW d \in Nodes, NEW e \in Nodes, Cross(c, d, e) # 0,
         PointInPolygon(p, <<c, d, e, c>>, FALSE)
  PROVE  Interior(c, d, e, p)
<1>1. Edges(<<c, d, e, c>>) = {<<c, d>>, <<d, e>>, <<e, c>>}
  BY EdgesOfTriangle
<1>2. \A f \in Edges(<<c, d, e, c>>) : ~OnSegment(p, f[1], f[2])
  BY DEF PointInPolygon
<1>3. PointInPolygon(p, <<c, d, e, c>>, TRUE)
  BY <1>2 DEF PointInPolygon
<1>4. InTriangle(<<c, d, e>>, p)
  <2> HIDE DEF PointInPolygon
  <2> QED BY <1>1, <1>3, InsideOfTriangle
<1>5. ~OnSegment(p, c, d) /\ ~OnSegment(p, d, e) /\ ~OnSegment(p, e, c)
  <2>1. \A f \in {<<c, d>>, <<d, e>>, <<e, c>>} : ~OnSegment(p, f[1], f[2])
    BY <1>1, <1>2
  <2> QED BY <2>1
<1> QED BY <1>4, <1>5, StrictlyInside

(* The triangles of a ring have an area.                                   *)
LEMMA TrianglesOfRing ==
  ASSUME NEW ring, Drawn(ring), NEW t \in Triangles(ring)
  PROVE  \E a, b, c \in Nodes : t = <<a, b, c>> /\ Cross(a, b, c) # 0
<1>1. ASSUME NEW a \in Nodes, NEW b \in Nodes, NEW c \in Nodes,
             ring = <<a, b, c, a>>, Cross(a, b, c) # 0
      PROVE  t = <<a, b, c>>
  <2>1. Count(ring) = 3
    BY <1>1, EdgesOfTriangle
  <2>2. Triangles(ring) = {<<a, b, c>>}
    BY <1>1, <2>1 DEF Triangles
  <2> QED BY <2>2
<1>2. ASSUME NEW a \in Nodes, NEW b \in Nodes, NEW c \in Nodes, NEW z \in Nodes,
             ring = <<a, b, c, z, a>>, Simple4(a, b, c, z)
      PROVE  \E f, g, h \in Nodes : t = <<f, g, h>> /\ Cross(f, g, h) # 0
  <2>1. Triangles(<<a, b, c, z, a>>) =
          IF OnBothSides(a, b, c, z) THEN {<<a, b, c>>, <<a, c, z>>}
          ELSE {<<a, b, z>>, <<b, c, z>>}
    BY CutOfQuadrilateral
  <2>2. Triangles(ring) =
          IF OnBothSides(a, b, c, z) THEN {<<a, b, c>>, <<a, c, z>>}
          ELSE {<<a, b, z>>, <<b, c, z>>}
    BY <1>2, <2>1
  <2>4. CASE OnBothSides(a, b, c, z)
    <3>1. Cross(a, b, c) # 0 /\ Cross(a, c, z) # 0
      BY <2>4, CyclicTurn, CrossType DEF OnBothSides
    <3> QED BY <2>2, <2>4, <3>1
  <2>5. CASE ~OnBothSides(a, b, c, z)
    <3>1. Cross(b, c, z) # 0 /\ Cross(a, b, z) # 0
      BY <1>2, <2>5, OneDiagonalCuts, CyclicTurn, CrossType DEF OnBothSides
    <3> QED BY <2>2, <2>5, <3>1
  <2> QED BY <2>4, <2>5
<1> QED BY <1>1, <1>2 DEF Drawn

(* A point of an edge of a ring that is inside of a triangle.              *)
LEMMA EdgeMeets ==
  ASSUME NEW ring, Drawn(ring), NEW f \in Edges(ring), NEW p \in Points, OnSegment(p, f[1], f[2]),
         NEW c \in Nodes, NEW d \in Nodes, NEW e \in Nodes, Cross(c, d, e) # 0,
         Interior(c, d, e, p)
  PROVE  \E t \in Triangles(ring) : ~Apart(t, <<c, d, e>>)
<1>1. PointInPolygon(p, ring, TRUE)
  BY DEF PointInPolygon
<1>2. PICK t \in Triangles(ring) : InTriangle(t, p)
  BY <1>1, InsideOfRing
<1>3. PICK a \in Nodes, b \in Nodes, x \in Nodes : t = <<a, b, x>> /\ Cross(a, b, x) # 0
  BY TrianglesOfRing
<1>4. ~Apart(<<a, b, x>>, <<c, d, e>>)
  BY <1>2, <1>3, InteriorMeets
<1> QED BY <1>3, <1>4

LEMMA EdgesOfRing ==
  ASSUME NEW ring, Drawn(ring)
  PROVE  \A f \in Edges(ring) : f[1] \in Nodes /\ f[2] \in Nodes /\ f[1] # f[2]
<1>1. ASSUME NEW a \in Nodes, NEW b \in Nodes, NEW c \in Nodes,
             ring = <<a, b, c, a>>, Cross(a, b, c) # 0
      PROVE  \A f \in Edges(ring) : f[1] \in Nodes /\ f[2] \in Nodes /\ f[1] # f[2]
  <2>1. Edges(ring) = {<<a, b>>, <<b, c>>, <<c, a>>}
    BY <1>1, EdgesOfTriangle
  <2>2. a # b /\ b # c /\ c # a
    BY <1>1, DistinctNodes
  <2> QED BY <2>1, <2>2
<1>2. ASSUME NEW a \in Nodes, NEW b \in Nodes, NEW c \in Nodes, NEW z \in Nodes,
             ring = <<a, b, c, z, a>>, Simple4(a, b, c, z)
      PROVE  \A f \in Edges(ring) : f[1] \in Nodes /\ f[2] \in Nodes /\ f[1] # f[2]
  <2>1. Edges(ring) = {<<a, b>>, <<b, c>>, <<c, z>>, <<z, a>>}
    BY <1>2, EdgesOfQuadrilateral
  <2>2. a # b /\ b # c /\ c # z /\ z # a
    BY <1>2 DEF Simple4
  <2> QED BY <2>1, <2>2
<1> QED BY <1>1, <1>2 DEF Drawn

(***************************************************************************)
(* The midpoints that deliveryPolygonsOverlap() tries are on the edge that *)
(* it cuts.                                                                *)
(***************************************************************************)
(* Cuts between the ends of an edge.                                       *)
Fractions == {c \in Int \X (Nat \ {0}) : 0 <= c[1] /\ c[1] <= c[2]}

LEMMA PartOfSegment ==
  ASSUME NEW a \in Nodes, NEW b \in Nodes, NEW w \in Nat \ {0}, NEW t \in Int, 0 <= t, t <= w
  PROVE  LET p == <<a[1] * w + t * (b[1] - a[1]), a[2] * w + t * (b[2] - a[2]), w>>
         IN p \in Points /\ OnSegment(p, a, b)
<1>1. PICK a1 \in Int, a2 \in Int, b1 \in Int, b2 \in Int : a = <<a1, a2, 1>> /\ b = <<b1, b2, 1>>
  BY DEF Nodes
<1>2. PICK p1 \in Int, p2 \in Int : p1 = a1 * w + t * (b1 - a1) /\ p2 = a2 * w + t * (b2 - a2)
  OBVIOUS
<1>3. \A m, n \in Int :
        m * w + t * (n - m) >= Lesser(m, n) * w /\ m * w + t * (n - m) <= Greater(m, n) * w
  <2> TAKE m, n \in Int
  <2>1. CASE m <= n
    <3>1. t * (n - m) >= 0
      BY <2>1
    <3>2. (w - t) * (n - m) >= 0
      BY <2>1
    <3> QED BY <2>1, <3>1, <3>2 DEF Lesser, Greater
  <2>2. CASE n <= m
    <3>1. t * (m - n) >= 0
      BY <2>2
    <3>2. (w - t) * (m - n) >= 0
      BY <2>2
    <3>3. (m = n /\ Lesser(m, n) = n /\ Greater(m, n) = m)
            \/ (Lesser(m, n) = n /\ Greater(m, n) = m)
      BY <2>2 DEF Lesser, Greater
    <3> QED BY <2>2, <3>1, <3>2, <3>3
  <2> QED BY <2>1, <2>2
<1>4. /\ p1 >= Lesser(a1, b1) * w /\ p1 <= Greater(a1, b1) * w
      /\ p2 >= Lesser(a2, b2) * w /\ p2 <= Greater(a2, b2) * w
  BY <1>2, <1>3
<1>5. Cross(a, b, <<p1, p2, w>>) = 0
  <2>1. (b1 - a1) * (p2 - a2 * w) - (b2 - a2) * (p1 - a1 * w) = 0
    BY <1>2
  <2> QED BY <1>1, <2>1 DEF Cross
<1>6. Side(a, b, <<p1, p2, w>>) = 0
  BY <1>5 DEF Side, Sign
<1>7. 1..2 = {1, 2}
  OBVIOUS
<1>8. OnSegment(<<p1, p2, w>>, a, b)
  BY <1>1, <1>4, <1>6, <1>7 DEF OnSegment
<1> QED BY <1>1, <1>2, <1>8 DEF Points

LEMMA VertexOfSegment ==
  ASSUME NEW a \in Nodes, NEW b \in Nodes
  PROVE  a \in Points /\ OnSegment(a, a, b)
<1>1. PICK a1 \in Int, a2 \in Int, b1 \in Int, b2 \in Int : a = <<a1, a2, 1>> /\ b = <<b1, b2, 1>>
  BY DEF Nodes
<1>2. Side(a, b, a) = 0
  BY <1>1 DEF Side, Sign, Cross
<1>3. 1..2 = {1, 2}
  OBVIOUS
<1> QED BY <1>1, <1>2, <1>3 DEF OnSegment, Lesser, Greater, Points

LEMMA CutsAreNumbers ==
  ASSUME NEW t \in Int, NEW w \in Int, w # 0
  PROVE  Cut(t, w) \in Int \X (Nat \ {0}) /\ Clamp(Cut(t, w)) \in Fractions
<1>1. Cut(t, w) \in Int \X (Nat \ {0})
  BY DEF Cut
<1>2. ASSUME NEW c \in Int \X (Nat \ {0}) PROVE Clamp(c) \in Fractions
  BY DEF Clamp, Fractions
<1> QED BY <1>1, <1>2

(* The longer coordinate of an edge has a length, and is the one along     *)
(* which every vertex is measured.                                         *)
LEMMA ParameterIsACut ==
  ASSUME NEW a \in Nodes, NEW b \in Nodes, a # b
  PROVE  \E i \in 1..2 : /\ a[i] \in Int /\ b[i] \in Int /\ b[i] # a[i]
                         /\ \A p \in Nodes : /\ p[i] \in Int
                                             /\ Parameter(p, a, b) = Cut(p[i] - a[i], b[i] - a[i])
<1>1. PICK a1 \in Int, a2 \in Int, b1 \in Int, b2 \in Int : a = <<a1, a2, 1>> /\ b = <<b1, b2, 1>>
  BY DEF Nodes
<1>2. \A p \in Nodes : p[1] \in Int /\ p[2] \in Int
  BY DEF Nodes
<1>3. a1 # b1 \/ a2 # b2
  BY <1>1
<1>4. CASE Abs(b[1] - a[1]) >= Abs(b[2] - a[2])
  <2>1. a1 # b1
    BY <1>1, <1>3, <1>4 DEF Abs
  <2>2. \A p \in Nodes : Parameter(p, a, b) = Cut(p[1] - a[1], b[1] - a[1])
    BY <1>4 DEF Parameter
  <2> QED BY <1>1, <1>2, <2>1, <2>2
<1>5. CASE ~(Abs(b[1] - a[1]) >= Abs(b[2] - a[2]))
  <2>1. a2 # b2
    BY <1>1, <1>3, <1>5 DEF Abs
  <2>2. \A p \in Nodes : Parameter(p, a, b) = Cut(p[2] - a[2], b[2] - a[2])
    BY <1>5 DEF Parameter
  <2> QED BY <1>1, <1>2, <2>1, <2>2
<1> QED BY <1>4, <1>5

LEMMA CutsAreFractions ==
  ASSUME NEW a \in Nodes, NEW b \in Nodes, a # b, NEW ring, Drawn(ring)
  PROVE  Cuts(a, b, ring) \subseteq Fractions
<1>1. ASSUME NEW c \in Nodes, NEW d \in Nodes, NEW cut \in CutsOf(a, b, c, d)
      PROVE  cut \in Fractions
  <2>1. \A v \in Nodes : Clamp(Parameter(v, a, b)) \in Fractions
    <3> TAKE v \in Nodes
    <3>1. PICK i \in 1..2 : /\ b[i] # a[i] /\ Parameter(v, a, b) = Cut(v[i] - a[i], b[i] - a[i])
                            /\ a[i] \in Int /\ b[i] \in Int /\ v[i] \in Int
      BY ParameterIsACut
    <3>2. PICK m \in Int, n \in Int : m = v[i] - a[i] /\ n = b[i] - a[i] /\ n # 0
      BY <3>1
    <3> QED BY <3>1, <3>2, CutsAreNumbers
  <2>2. Shared(a, b, c, d)[1] \in Fractions /\ Shared(a, b, c, d)[2] \in Fractions
    <3>1. \/ Shared(a, b, c, d) = <<Clamp(Parameter(d, a, b)), Clamp(Parameter(c, a, b))>>
          \/ Shared(a, b, c, d) = <<Clamp(Parameter(c, a, b)), Clamp(Parameter(d, a, b))>>
      BY DEF Shared
    <3> QED BY <2>1, <3>1
  <2>3. ASSUME NEW m \in Int, NEW n \in Int, n # 0 PROVE Clamp(Cut(m, n)) \in Fractions
    BY <2>3, CutsAreNumbers
  <2>4. PICK m \in Int, n \in Int :
          /\ n = (b[1] - a[1]) * (d[2] - c[2]) - (b[2] - a[2]) * (d[1] - c[1])
          /\ m = (c[1] - a[1]) * (d[2] - c[2]) - (c[2] - a[2]) * (d[1] - c[1])
    <3>1. /\ a[1] \in Int /\ a[2] \in Int /\ b[1] \in Int /\ b[2] \in Int
          /\ c[1] \in Int /\ c[2] \in Int /\ d[1] \in Int /\ d[2] \in Int
      BY DEF Nodes
    <3> QED BY <3>1
  <2>5. cut \in IF Collinear(a, b, c, d) THEN {Shared(a, b, c, d)[1], Shared(a, b, c, d)[2]}
                ELSE IF n # 0 THEN {Clamp(Cut(m, n))} ELSE {}
    BY <1>1, <2>4 DEF CutsOf
  <2> QED BY <2>2, <2>3, <2>5
<1>2. \A f \in Edges(ring) : f[1] \in Nodes /\ f[2] \in Nodes
  BY EdgesOfRing
<1>3. <<0, 1>> \in Fractions /\ <<1, 1>> \in Fractions
  BY DEF Fractions
<1> QED BY <1>1, <1>2, <1>3 DEF Cuts

LEMMA MidpointsAreOnEdges ==
  ASSUME NEW a \in Nodes, NEW b \in Nodes, NEW cuts \in SUBSET Fractions,
         NEW p \in Midpoints(a, b, cuts)
  PROVE  p \in Points /\ OnSegment(p, a, b)
<1>1. PICK q \in cuts \X cuts :
        p = LET t == q[1][1] * q[2][2] + q[2][1] * q[1][2]
                w == 2 * q[1][2] * q[2][2]
            IN <<a[1] * w + t * (b[1] - a[1]), a[2] * w + t * (b[2] - a[2]), w>>
  BY DEF Midpoints
<1>2. PICK i \in Int, m \in Nat \ {0}, j \in Int, n \in Nat \ {0} :
        /\ i = q[1][1] /\ m = q[1][2] /\ j = q[2][1] /\ n = q[2][2]
        /\ 0 <= i /\ i <= m /\ 0 <= j /\ j <= n
  BY DEF Fractions
<1>3. PICK t \in Int, w \in Int : t = i * n + j * m /\ w = 2 * m * n
  OBVIOUS
<1>4. p = <<a[1] * w + t * (b[1] - a[1]), a[2] * w + t * (b[2] - a[2]), w>>
  BY <1>1, <1>2, <1>3
<1>5. PICK mn \in Int, in \in Int, jm \in Int : mn = m * n /\ in = i * n /\ jm = j * m
  OBVIOUS
<1>6. mn > 0 /\ in >= 0 /\ jm >= 0
  BY <1>2, <1>5
<1>7. in <= mn
  <2>1. (m - i) * n >= 0
    BY <1>2
  <2> QED BY <1>5, <2>1
<1>8. jm <= mn
  <2>1. (n - j) * m >= 0
    BY <1>2
  <2> QED BY <1>5, <2>1
<1>9. w = 2 * mn /\ t = in + jm
  BY <1>3, <1>5
<1>10. w \in Nat \ {0} /\ 0 <= t /\ t <= w
  BY <1>6, <1>7, <1>8, <1>9
<1> QED BY <1>4, <1>10, PartOfSegment

(***************************************************************************)
(* Coincident edges: a point between the ends of both, and the vertices    *)
(* that are opposite to them on one side.                                  *)
(***************************************************************************)
(* 0 is strictly between m and n.                                          *)
Opposite(m, n) == (m < 0 /\ n > 0) \/ (m > 0 /\ n < 0)

LEMMA SumOfMultiples ==
  ASSUME NEW a \in Plane, NEW b \in Plane, NEW c \in Plane, NEW i \in 1..2
  PROVE  /\ a[i] \in Int /\ b[i] \in Int /\ c[i] \in Int
         /\ a[i] * Det(b, c) + b[i] * Det(c, a) + c[i] * Det(a, b) = 0
<1>1. PICK ax \in Int, ay \in Int, bx \in Int, by \in Int, cx \in Int, cy \in Int :
        a = <<ax, ay>> /\ b = <<bx, by>> /\ c = <<cx, cy>>
  BY DEF Plane
<1>2. i = 1 \/ i = 2
  OBVIOUS
<1>3. ay * (bx * cy - by * cx) + by * (cx * ay - cy * ax) + cy * (ax * by - ay * bx) = 0
  OBVIOUS
<1>4. ax * (bx * cy - by * cx) + bx * (cx * ay - cy * ax) + cx * (ax * by - ay * bx) = 0
  OBVIOUS
<1> QED BY <1>1, <1>2, <1>3, <1>4 DEF Det

(* Seen from a point between a and b, both ends make triangles with y of   *)
(* the orientation of a, b, y.                                             *)
LEMMA FromBetween ==
  ASSUME NEW a \in Plane, NEW b \in Plane, NEW y \in Plane, NEW i \in 1..2,
         Det(a, b) = 0, Opposite(a[i], b[i])
  PROVE  /\ Turn(a, b, y) = Det(b, y) + Det(y, a)
         /\ Turn(a, b, y) # 0 => Alike(Det(b, y), Turn(a, b, y))
              /\ Alike(Det(y, a), Turn(a, b, y))
         /\ Turn(a, b, y) = 0 => Det(b, y) = 0 /\ Det(y, a) = 0
<1>1. PICK k \in Int, l \in Int, m \in Int, n \in Int, q \in Int :
        k = Det(b, y) /\ l = Det(y, a) /\ m = a[i] /\ n = b[i] /\ q = y[i]
  BY DetType, SumOfMultiples
<1>2. m * k + n * l + q * 0 = 0
  BY <1>1, SumOfMultiples
<1>3. PICK r \in Int, s \in Int : r = m * k /\ s = n * l
  OBVIOUS
<1>4. r + s = 0
  BY <1>2, <1>3
<1>5. Signs(m, k, r) /\ Signs(n, l, s)
  BY <1>3, SignOfProduct
<1>6. Turn(a, b, y) = k + l
  BY <1>1 DEF Turn
<1>7. Opposite(m, n)
  BY <1>1
<1>8. /\ k + l # 0 => Alike(k, k + l) /\ Alike(l, k + l)
      /\ k + l = 0 => k = 0 /\ l = 0
  BY <1>4, <1>5, <1>7 DEF Signs, Opposite, Alike
<1> QED BY <1>1, <1>6, <1>8

(* A point strictly between a and b is inside of the other two sides of a  *)
(* triangle over that edge.                                                *)
LEMMA BetweenIsBeside ==
  ASSUME NEW p \in Points, NEW a \in Nodes, NEW b \in Nodes, NEW y \in Nodes, NEW i \in 1..2,
         Det(Seen(p, a), Seen(p, b)) = 0, Opposite(Seen(p, a)[i], Seen(p, b)[i]),
           Cross(a, b, y) # 0
  PROVE  /\ Beside(b, y, a, p) /\ Beside(y, a, b, p)
         /\ InTriangle(<<a, b, y>>, p)
<1>1. PICK A \in Plane, B \in Plane, Y \in Plane :
        A = Seen(p, a) /\ B = Seen(p, b) /\ Y = Seen(p, y)
  BY SeenType
<1>2. Turn(A, B, Y) # 0
  BY <1>1, CrossOfNodes
<1>3. Alike(Det(B, Y), Turn(A, B, Y)) /\ Alike(Det(Y, A), Turn(A, B, Y))
  BY <1>1, <1>2, FromBetween
<1>4. Turn(B, Y, A) = Turn(A, B, Y) /\ Turn(Y, A, B) = Turn(A, B, Y)
  BY DetType DEF Turn
<1>5. Beside(b, y, a, p) /\ Beside(y, a, b, p)
  BY <1>1, <1>3, <1>4, BesideSeen
<1>6. Side(a, b, p) = 0
  BY SideOfPoint
<1> QED BY <1>5, <1>6, InTriangleMeans

(* A line through the point, with another one along it.                    *)
LEMMA OnOneLine ==
  ASSUME NEW a \in Plane, NEW b \in Plane, NEW c \in Plane, NEW d \in Plane, a # b,
         Det(a, b) = 0, Turn(a, b, c) = 0, Turn(a, b, d) = 0
  PROVE  Det(c, d) = 0
<1>1. PICK ax \in Int, ay \in Int, bx \in Int, by \in Int :
        a = <<ax, ay>> /\ b = <<bx, by>>
  BY PairsOfInts
<1>2. PICK cx \in Int, cy \in Int, dx \in Int, dy \in Int :
        c = <<cx, cy>> /\ d = <<dx, dy>>
  BY PairsOfInts
<1>3. PICK u \in Int, v \in Int : u = bx - ax /\ v = by - ay
  OBVIOUS
<1>4. ax * by - ay * bx = 0
  BY <1>1 DEF Det
<1>5. (ax * by - ay * bx) + (bx * cy - by * cx) + (cx * ay - cy * ax) = 0
  BY <1>1, <1>2 DEF Turn, Det
<1>6. (ax * by - ay * bx) + (bx * dy - by * dx) + (dx * ay - dy * ax) = 0
  BY <1>1, <1>2 DEF Turn, Det
<1>7. u * cy - v * cx = 0
  BY <1>3, <1>4, <1>5
<1>8. u * dy - v * dx = 0
  BY <1>3, <1>4, <1>6
<1>9. PICK n \in Int : n = cx * dy - cy * dx
  OBVIOUS
<1>10. /\ u * (cx * dy - cy * dx) = cx * (u * dy - v * dx) - dx * (u * cy - v * cx)
       /\ v * (cx * dy - cy * dx) = cy * (u * dy - v * dx) - dy * (u * cy - v * cx)
  OBVIOUS
<1>11. u * n = cx * 0 - dx * 0 /\ v * n = cy * 0 - dy * 0
  BY <1>7, <1>8, <1>9, <1>10
<1>12. u * n = 0 /\ v * n = 0
  BY <1>11
<1>13. u # 0 \/ v # 0
  BY <1>1, <1>3
<1>14. n = 0
  BY <1>12, <1>13
<1> QED BY <1>2, <1>9, <1>14 DEF Det

(* If two cuts m/h and n/h differ within the edge, they are in order and   *)
(* reach into it.                                                          *)
LEMMA ClampsApart ==
  ASSUME NEW m \in Int, NEW n \in Int, NEW h \in Nat \ {0},
         Before(Clamp(<<m, h>>), Clamp(<<n, h>>))
  PROVE  m < n /\ m < h /\ n > 0
<1>1. Clamp(<<m, h>>) = IF m < 0 THEN <<0, 1>> ELSE IF m > h THEN <<1, 1>> ELSE <<m, h>>
  BY DEF Clamp
<1>2. Clamp(<<n, h>>) = IF n < 0 THEN <<0, 1>> ELSE IF n > h THEN <<1, 1>> ELSE <<n, h>>
  BY DEF Clamp
<1>3. CASE m < 0
  BY <1>1, <1>2, <1>3 DEF Before
<1>4. CASE m > h
  BY <1>1, <1>2, <1>4 DEF Before
<1>5. CASE m >= 0 /\ m <= h
  <2>1. Clamp(<<m, h>>) = <<m, h>>
    BY <1>1, <1>5
  <2>2. CASE n < 0
    BY <1>2, <1>5, <2>1, <2>2 DEF Before
  <2>3. CASE n > h
    BY <1>2, <1>5, <2>1, <2>3 DEF Before
  <2>4. CASE n >= 0 /\ n <= h
    <3>1. m * h < n * h
      BY <1>2, <2>1, <2>4 DEF Before
    <3>2. (n - m) * h > 0
      BY <3>1
    <3>3. m < n
      BY <3>2
    <3> QED BY <1>5, <2>4, <3>3
  <2> QED BY <2>2, <2>3, <2>4
<1> QED BY <1>3, <1>4, <1>5

(* The point t/w of the way from a to b; and how far the position k/h is   *)
(* from there.                                                             *)
Along(a, b, t, w) == <<a[1] * w + t * (b[1] - a[1]), a[2] * w + t * (b[2] - a[2]), w>>

Offset(k, h, t, w) == k * w - t * h

LEMMA SeenAlong ==
  ASSUME NEW a \in Nodes, NEW b \in Nodes, NEW v \in Nodes, NEW t \in Int, NEW w \in Int,
         NEW i \in 1..2
  PROVE  /\ a[i] \in Int /\ b[i] \in Int /\ v[i] \in Int
         /\ Seen(Along(a, b, t, w), v)[i] = Offset(v[i] - a[i], b[i] - a[i], t, w)
<1>1. PICK a1 \in Int, a2 \in Int, b1 \in Int, b2 \in Int : a = <<a1, a2, 1>> /\ b = <<b1, b2, 1>>
  BY DEF Nodes
<1>2. PICK v1 \in Int, v2 \in Int : v = <<v1, v2, 1>>
  BY DEF Nodes
<1>3. Seen(Along(a, b, t, w), v) = <<v1 * w - (a1 * w + t * (b1 - a1)),
        v2 * w - (a2 * w + t * (b2 - a2))>>
  BY <1>1, <1>2 DEF Seen, Along
<1>4. /\ v1 * w - (a1 * w + t * (b1 - a1)) = (v1 - a1) * w - t * (b1 - a1)
      /\ v2 * w - (a2 * w + t * (b2 - a2)) = (v2 - a2) * w - t * (b2 - a2)
  OBVIOUS
<1>5. i = 1 \/ i = 2
  OBVIOUS
<1> QED BY <1>1, <1>2, <1>3, <1>4, <1>5 DEF Offset

(* Positions k and l over h, as m and n over the positive g.               *)
Forwards(h, k, l, g, m, n) ==
  \/ h > 0 /\ g = h /\ m = k /\ n = l
  \/ h < 0 /\ g = 0 - h /\ m = 0 - k /\ n = 0 - l

(* t/w is strictly between m/g and n/g, and between 0 and 1.               *)
Halfway(m, n, g, t, w) ==
  w = g + g /\ m + m < t /\ t < n + n /\ 0 < t /\ t < w

LEMMA BetweenCuts ==
  ASSUME NEW m \in Int, NEW n \in Int, NEW h \in Nat \ {0}, m < n, m < h, n > 0
  PROVE  \E t \in Int, w \in Nat \ {0} : Halfway(m, n, h, t, w)
<1>1. PICK t \in Int : t = Greater(0, m) + Lesser(h, n)
  BY DEF Greater, Lesser
<1>2. 0 < t /\ t < h + h /\ m + m < t /\ t < n + n
  BY <1>1 DEF Greater, Lesser
<1> QED BY <1>2 DEF Halfway

LEMMA ProductSigns ==
  ASSUME NEW x \in Int, NEW g \in Int
  PROVE  /\ g > 0 /\ x > 0 => x * g > 0
         /\ g > 0 /\ x < 0 => x * g < 0
         /\ g < 0 /\ x > 0 => x * g < 0
         /\ g < 0 /\ x < 0 => x * g > 0
<1>1. Signs(x, g, x * g)
  BY SignOfProduct
<1> QED BY <1>1 DEF Signs

LEMMA OffsetIs ==
  ASSUME NEW h \in Int, NEW k \in Int, NEW l \in Int, NEW g \in Int, NEW m \in Int, NEW n \in Int,
         NEW t \in Int, NEW w \in Int, Forwards(h, k, l, g, m, n), w = g + g
  PROVE  /\ h # 0
         /\ m + m > t => (h > 0 => Offset(k, h, t, w) > 0) /\ (h < 0 => Offset(k, h, t, w) < 0)
         /\ m + m < t => (h > 0 => Offset(k, h, t, w) < 0) /\ (h < 0 => Offset(k, h, t, w) > 0)
<1> DEFINE x == m + m - t
<1>1. x = m + m - t /\ x \in Int
  OBVIOUS
<1> HIDE DEF x
<1>2. PICK y \in Int : y = x * h
  BY <1>1
<1>3. CASE h > 0
  <2>1. w = h + h /\ m = k
    BY <1>3 DEF Forwards
  <2>2. k * (h + h) - t * h = (k + k - t) * h
    OBVIOUS
  <2>3. Offset(k, h, t, w) = y
    BY <1>1, <1>2, <2>1, <2>2 DEF Offset
  <2>4. (x > 0 => y > 0) /\ (x < 0 => y < 0)
    BY <1>1, <1>2, <1>3, ProductSigns
  <2> QED BY <1>1, <1>3, <2>3, <2>4
<1>4. CASE h < 0
  <2>1. w = (0 - h) + (0 - h) /\ m = 0 - k
    BY <1>4 DEF Forwards
  <2>2. k * ((0 - h) + (0 - h)) - t * h = ((0 - k) + (0 - k) - t) * h
    OBVIOUS
  <2>3. Offset(k, h, t, w) = y
    BY <1>1, <1>2, <2>1, <2>2 DEF Offset
  <2>4. (x > 0 => y < 0) /\ (x < 0 => y > 0)
    BY <1>1, <1>2, <1>4, ProductSigns
  <2> QED BY <1>1, <1>4, <2>3, <2>4
<1> QED BY <1>3, <1>4 DEF Forwards

LEMMA SignsBetween ==
  ASSUME NEW h \in Int, NEW k \in Int, NEW l \in Int, NEW g \in Int, NEW m \in Int, NEW n \in Int,
         NEW t \in Int, NEW w \in Int, Forwards(h, k, l, g, m, n), Halfway(m, n, g, t, w)
  PROVE  Opposite(Offset(k, h, t, w), Offset(l, h, t, w))
<1>1. w = g + g /\ m + m < t /\ n + n > t
  BY DEF Halfway
<1>2. Forwards(h, l, k, g, n, m)
  BY DEF Forwards
<1>3. h # 0 /\ (h > 0 => Offset(k, h, t, w) < 0) /\ (h < 0 => Offset(k, h, t, w) > 0)
  BY <1>1, OffsetIs
<1>4. (h > 0 => Offset(l, h, t, w) > 0) /\ (h < 0 => Offset(l, h, t, w) < 0)
  BY <1>1, <1>2, OffsetIs
<1> QED BY <1>3, <1>4 DEF Opposite

(* A point strictly between the ends of both edges.                        *)
LEMMA SharedPart ==
  ASSUME NEW a \in Nodes, NEW b \in Nodes, NEW c \in Nodes, NEW d \in Nodes, a # b,
         Before(Shared(a, b, c, d)[1], Shared(a, b, c, d)[2])
  PROVE  \E p \in Points, i \in 1..2 :
           /\ OnSegment(p, a, b)
           /\ Opposite(Seen(p, a)[i], Seen(p, b)[i])
           /\ Opposite(Seen(p, c)[i], Seen(p, d)[i])
<1>1. PICK i \in 1..2 :
        /\ a[i] \in Int /\ b[i] \in Int /\ b[i] # a[i]
        /\ \A p \in Nodes : p[i] \in Int /\ Parameter(p, a, b) = Cut(p[i] - a[i], b[i] - a[i])
  BY ParameterIsACut
<1>2. PICK h \in Int, k \in Int, l \in Int : h = b[i] - a[i] /\ k = c[i] - a[i]
        /\ l = d[i] - a[i] /\ h # 0
  BY <1>1
<1>3. PICK g \in Nat \ {0}, m \in Int, n \in Int : Forwards(h, k, l, g, m, n)
  BY <1>2 DEF Forwards
<1>4. Parameter(c, a, b) = <<m, g>> /\ Parameter(d, a, b) = <<n, g>>
  <2>1. Parameter(c, a, b) = Cut(k, h) /\ Parameter(d, a, b) = Cut(l, h)
    BY <1>1, <1>2
  <2> QED BY <1>3, <2>1 DEF Cut, Forwards
<1>5. \/ Before(Clamp(<<m, g>>), Clamp(<<n, g>>))
      \/ Before(Clamp(<<n, g>>), Clamp(<<m, g>>))
  <2>1. Shared(a, b, c, d) = <<Clamp(<<n, g>>), Clamp(<<m, g>>)>>
        \/ Shared(a, b, c, d) = <<Clamp(<<m, g>>), Clamp(<<n, g>>)>>
    BY <1>4 DEF Shared
  <2> QED BY <2>1
<1>6. ASSUME NEW t \in Int, NEW w \in Nat \ {0}, Halfway(m, n, g, t, w) \/ Halfway(n, m, g, t, w)
      PROVE  \E p \in Points, j \in 1..2 :
               /\ OnSegment(p, a, b)
               /\ Opposite(Seen(p, a)[j], Seen(p, b)[j])
               /\ Opposite(Seen(p, c)[j], Seen(p, d)[j])
  <2> DEFINE p == Along(a, b, t, w)
  <2>1. p \in Points /\ OnSegment(p, a, b)
    BY <1>6, PartOfSegment DEF Along, Halfway
  <2>2. /\ Seen(p, a)[i] = Offset(0, h, t, w) /\ Seen(p, b)[i] = Offset(h, h, t, w)
        /\ Seen(p, c)[i] = Offset(k, h, t, w) /\ Seen(p, d)[i] = Offset(l, h, t, w)
    <3>1. a[i] - a[i] = 0
      BY <1>1
    <3> QED BY <1>2, <3>1, SeenAlong
  <2>3. g \in Int /\ w \in Int
    OBVIOUS
  <2>4. Forwards(h, 0, h, g, 0, g) /\ Halfway(0, g, g, t, w)
    <3>1. (h > 0 /\ g = h) \/ (h < 0 /\ g = 0 - h)
      BY <1>3 DEF Forwards
    <3>2. Forwards(h, 0, h, g, 0, g)
      BY <3>1 DEF Forwards
    <3>3. w = g + g /\ 0 < t /\ t < w
      BY <1>6 DEF Halfway
    <3> QED BY <2>3, <3>2, <3>3 DEF Halfway
  <2>5. Opposite(Offset(0, h, t, w), Offset(h, h, t, w))
    BY <2>3, <2>4, SignsBetween
  <2>6. ASSUME Halfway(m, n, g, t, w)
        PROVE  Opposite(Offset(k, h, t, w), Offset(l, h, t, w))
    BY <1>3, <2>3, <2>6, SignsBetween
  <2>7. ASSUME Halfway(n, m, g, t, w)
        PROVE  Opposite(Offset(l, h, t, w), Offset(k, h, t, w))
    <3>1. Forwards(h, l, k, g, n, m)
      BY <1>3 DEF Forwards
    <3> QED BY <3>1, <2>3, <2>7, SignsBetween
  <2> HIDE DEF p
  <2>8. Opposite(Seen(p, a)[i], Seen(p, b)[i]) /\ Opposite(Seen(p, c)[i], Seen(p, d)[i])
    BY <1>6, <2>2, <2>5, <2>6, <2>7 DEF Opposite
  <2> QED BY <2>1, <2>8
<1>7. CASE Before(Clamp(<<m, g>>), Clamp(<<n, g>>))
  <2>1. m < n /\ m < g /\ n > 0
    BY <1>7, ClampsApart
  <2>2. PICK t \in Int, w \in Nat \ {0} : Halfway(m, n, g, t, w)
    BY <2>1, BetweenCuts
  <2> QED BY <1>6, <2>2
<1>8. CASE Before(Clamp(<<n, g>>), Clamp(<<m, g>>))
  <2>1. n < m /\ n < g /\ m > 0
    BY <1>8, ClampsApart
  <2>2. PICK t \in Int, w \in Nat \ {0} : Halfway(n, m, g, t, w)
    BY <2>1, BetweenCuts
  <2> QED BY <1>6, <2>2
<1> QED BY <1>5, <1>7, <1>8

(* The product by which deliveryPolygonsOverlap() tells the direction of   *)
(* coincident edges.                                                       *)
Dot(a, b, c, d) == (b[1] - a[1]) * (d[1] - c[1]) + (b[2] - a[2]) * (d[2] - c[2])

(* Collinear edges have the same sides, or the opposite ones, as their     *)
(* directions are.                                                         *)
LEMMA ParallelSides ==
  ASSUME NEW a \in Nodes, NEW b \in Nodes, NEW c \in Nodes, NEW d \in Nodes, NEW v \in Nodes,
         a # b, c # d, Side(a, b, c) = 0, Side(a, b, d) = 0
  PROVE  /\ Dot(a, b, c, d) \in Int
         /\ Dot(a, b, c, d) > 0 => Side(a, b, v) = Side(c, d, v)
         /\ Dot(a, b, c, d) < 0 => Side(a, b, v) = 0 - Side(c, d, v)
<1>1. PICK a1 \in Int, a2 \in Int, b1 \in Int, b2 \in Int : a = <<a1, a2, 1>> /\ b = <<b1, b2, 1>>
  BY DEF Nodes
<1>2. PICK c1 \in Int, c2 \in Int, d1 \in Int, d2 \in Int : c = <<c1, c2, 1>> /\ d = <<d1, d2, 1>>
  BY DEF Nodes
<1>3. PICK v1 \in Int, v2 \in Int : v = <<v1, v2, 1>>
  BY DEF Nodes
<1>4. PICK u1 \in Int, u2 \in Int, w1 \in Int, w2 \in Int :
        u1 = b1 - a1 /\ u2 = b2 - a2 /\ w1 = d1 - c1 /\ w2 = d2 - c2
  OBVIOUS
<1>5. PICK z1 \in Int, z2 \in Int : z1 = v1 - c1 /\ z2 = v2 - c2
  OBVIOUS
<1>6. PICK m \in Int, n \in Int : m = Cross(a, b, c) /\ n = Cross(a, b, d)
  BY CrossType
<1>7. m = 0 /\ n = 0
  BY <1>6 DEF Side, Sign
<1>8. m = u1 * (c2 - a2) - u2 * (c1 - a1) /\ n = u1 * (d2 - a2) - u2 * (d1 - a1)
  BY <1>1, <1>2, <1>4, <1>6 DEF Cross
<1>9. u1 * w2 - u2 * w1 = 0
  <2>1. u1 * w2 - u2 * w1 = n - m
    BY <1>4, <1>8
  <2> QED BY <1>7, <2>1
<1>10. Cross(a, b, v) = u1 * z2 - u2 * z1
  <2>1. Cross(a, b, v) = u1 * (v2 - a2) - u2 * (v1 - a1)
    BY <1>1, <1>3, <1>4 DEF Cross
  <2>2. u1 * (v2 - a2) - u2 * (v1 - a1) = (u1 * z2 - u2 * z1) + m
    BY <1>5, <1>8
  <2>3. u1 * z2 - u2 * z1 \in Int
    OBVIOUS
  <2> QED BY <1>7, <2>1, <2>2, <2>3
<1>11. Cross(c, d, v) = w1 * z2 - w2 * z1
  BY <1>2, <1>3, <1>4, <1>5 DEF Cross
<1>12. Dot(a, b, c, d) = u1 * w1 + u2 * w2
  BY <1>1, <1>2, <1>4 DEF Dot
<1>13. (u1 # 0 \/ u2 # 0) /\ (w1 # 0 \/ w2 # 0)
  BY <1>1, <1>2, <1>4
<1>14. Side(a, b, v) = Slope(u1, u2, z1, z2) /\ Side(c, d, v) = Slope(w1, w2, z1, z2)
  BY <1>10, <1>11 DEF Side, Slope
<1>15. ASSUME Dot(a, b, c, d) > 0 PROVE Side(a, b, v) = Side(c, d, v)
  <2>1. u1 * w1 + u2 * w2 >= 0
    BY <1>12, <1>15
  <2> QED BY <1>9, <1>13, <1>14, <2>1, AlongALine
<1>16. ASSUME Dot(a, b, c, d) < 0 PROVE Side(a, b, v) = 0 - Side(c, d, v)
  <2>1. PICK x1 \in Int, x2 \in Int : x1 = 0 - w1 /\ x2 = 0 - w2
    OBVIOUS
  <2>2. u1 * x1 + u2 * x2 = 0 - (u1 * w1 + u2 * w2)
    BY <2>1
  <2>3. u1 * x2 - u2 * x1 = 0 - (u1 * w2 - u2 * w1)
    BY <2>1
  <2>4. u1 * x1 + u2 * x2 >= 0 /\ u1 * x2 - u2 * x1 = 0
    BY <1>9, <1>12, <1>16, <2>2, <2>3
  <2>5. x1 # 0 \/ x2 # 0
    BY <1>13, <2>1
  <2>6. Slope(u1, u2, z1, z2) = Slope(x1, x2, z1, z2)
    BY <1>13, <2>4, <2>5, AlongALine
  <2>7. PICK k \in Int : k = w1 * z2 - w2 * z1
    OBVIOUS
  <2>8. x1 * z2 - x2 * z1 = 0 - k
    BY <2>1, <2>7
  <2>9. Slope(x1, x2, z1, z2) = 0 - Slope(w1, w2, z1, z2)
    BY <2>7, <2>8 DEF Slope, Sign
  <2> QED BY <1>14, <2>6, <2>9
<1>17. Dot(a, b, c, d) \in Int
  BY <1>12
<1> QED BY <1>15, <1>16, <1>17

(* Coincident edges with the inner sides of both triangles on one side.    *)
LEMMA CoincidentMeets ==
  ASSUME NEW a \in Nodes, NEW b \in Nodes, NEW x \in Nodes,
         NEW c \in Nodes, NEW d \in Nodes, NEW y \in Nodes,
         Cross(a, b, x) # 0, Cross(c, d, y) # 0,
         CoincidentOverlap(a, b, c, d, Sign(Cross(a, b, x)) * Sign(Cross(c, d, y)))
  PROVE  ~Apart(<<a, b, x>>, <<c, d, y>>)
<1>1. a # b /\ c # d
  BY DistinctNodes
<1>2. Side(a, b, c) = 0 /\ Side(a, b, d) = 0
  BY DEF CoincidentOverlap, Collinear
<1>3. Before(Shared(a, b, c, d)[1], Shared(a, b, c, d)[2])
  BY DEF CoincidentOverlap
<1>4. PICK p \in Points, i \in 1..2 :
        /\ OnSegment(p, a, b)
        /\ Opposite(Seen(p, a)[i], Seen(p, b)[i])
        /\ Opposite(Seen(p, c)[i], Seen(p, d)[i])
  BY <1>1, <1>3, SharedPart
<1>5. Det(Seen(p, a), Seen(p, b)) = 0
  BY <1>4, SideOfPoint DEF OnSegment
<1>6. Det(Seen(p, c), Seen(p, d)) = 0
  <2>1. Cross(a, b, c) = 0 /\ Cross(a, b, d) = 0
    BY <1>2, CrossType DEF Side, Sign
  <2>2. Turn(Seen(p, a), Seen(p, b), Seen(p, c)) = 0
          /\ Turn(Seen(p, a), Seen(p, b), Seen(p, d)) = 0
    BY <2>1, CrossOfNodes
  <2>3. Seen(p, a) # Seen(p, b)
    BY <1>1, SeenApart
  <2> QED BY <1>5, <2>2, <2>3, SeenType, OnOneLine
<1>7. Beside(b, x, a, p) /\ Beside(x, a, b, p) /\ InTriangle(<<a, b, x>>, p)
  BY <1>4, <1>5, BetweenIsBeside
<1>8. Beside(d, y, c, p) /\ Beside(y, c, d, p) /\ InTriangle(<<c, d, y>>, p)
  BY <1>4, <1>6, BetweenIsBeside
<1>9. Reaches(b, x, a, c, d, y) /\ Reaches(x, a, b, c, d, y)
  BY <1>7, <1>8, VertexBeside
<1>10. Reaches(d, y, c, a, b, x) /\ Reaches(y, c, d, a, b, x)
  BY <1>7, <1>8, VertexBeside
<1>11. PICK s \in {-1, 1}, t \in {-1, 1}, r \in {-1, 0, 1} :
         s = Side(a, b, x) /\ t = Side(c, d, y) /\ r = Sign(Dot(a, b, c, d)) /\ s * t * r > 0
  <2>1. Side(a, b, x) \in {-1, 1} /\ Side(c, d, y) \in {-1, 1}
    BY CrossType DEF Side, Sign
  <2>2. Sign(Dot(a, b, c, d)) \in {-1, 0, 1}
    BY DEF Sign
  <2>3. Side(a, b, x) * Side(c, d, y) * Sign(Dot(a, b, c, d)) > 0
    BY DEF CoincidentOverlap, Side, Dot
  <2> QED BY <2>1, <2>2, <2>3
<1>12. Dot(a, b, c, d) \in Int /\ Dot(a, b, c, d) # 0
  BY <1>1, <1>2, <1>11, ParallelSides DEF Sign
<1>13. Side(a, b, y) * s > 0 /\ Side(c, d, x) * t > 0
  <2>1. CASE Dot(a, b, c, d) > 0
    <3>1. Side(a, b, y) = t /\ s = Side(c, d, x)
      BY <1>1, <1>2, <1>11, <2>1, ParallelSides
    <3>2. r = 1
      BY <1>11, <2>1 DEF Sign
    <3>3. s = t
      BY <1>11, <3>2
    <3> QED BY <1>11, <3>1, <3>3
  <2>2. CASE Dot(a, b, c, d) < 0
    <3>1. Side(a, b, y) = 0 - t /\ s = 0 - Side(c, d, x)
      BY <1>1, <1>2, <1>11, <2>2, ParallelSides
    <3>2. PICK n \in Int : n = Dot(a, b, c, d)
      BY <1>12
    <3>3. n < 0 /\ r = Sign(n)
      BY <1>11, <2>2, <3>2
    <3>4. r = -1
      BY <3>3 DEF Sign
    <3>5. Side(c, d, x) \in {-1, 0, 1}
      BY SideType
    <3>6. s = 0 - t
      BY <1>11, <3>4
    <3>7. Side(c, d, x) = t /\ Side(a, b, y) = s
      BY <1>11, <3>1, <3>5, <3>6
    <3> QED BY <1>11, <3>7
  <2> QED BY <1>12, <2>1, <2>2
<1>14. Beside(a, b, x, y)
  BY <1>11, <1>13 DEF Beside
<1>15. Beside(c, d, y, x)
  BY <1>11, <1>13 DEF Beside
<1> QED BY <1>9, <1>10, <1>14, <1>15, ApartMeans DEF Reaches

(***************************************************************************)
(* Triangles in any order of their vertices, and the one that an edge      *)
(* borders.                                                                *)
(***************************************************************************)
LEMMA ApartRotated ==
  ASSUME NEW a \in Nodes, NEW b \in Nodes, NEW x \in Nodes,
         NEW c \in Nodes, NEW d \in Nodes, NEW e \in Nodes
  PROVE  /\ Apart(<<a, b, x>>, <<c, d, e>>) <=> Apart(<<b, x, a>>, <<c, d, e>>)
         /\ Apart(<<a, b, x>>, <<c, d, e>>) <=> Apart(<<c, d, e>>, <<a, b, x>>)
<1>1. ~Apart(<<a, b, x>>, <<c, d, e>>) <=> ~Apart(<<b, x, a>>, <<c, d, e>>)
  <2>1. ~Apart(<<a, b, x>>, <<c, d, e>>) <=>
           /\ Reaches(a, b, x, c, d, e) /\ Reaches(b, x, a, c, d, e) /\ Reaches(x, a, b, c, d, e)
           /\ Reaches(c, d, e, a, b, x) /\ Reaches(d, e, c, a, b, x) /\ Reaches(e, c, d, a, b, x)
    BY ApartMeans
  <2>2. ~Apart(<<b, x, a>>, <<c, d, e>>) <=>
           /\ Reaches(b, x, a, c, d, e) /\ Reaches(x, a, b, c, d, e) /\ Reaches(a, b, x, c, d, e)
           /\ Reaches(c, d, e, b, x, a) /\ Reaches(d, e, c, b, x, a) /\ Reaches(e, c, d, b, x, a)
    BY ApartMeans
  <2>3. \A f, g, h \in Nodes : Reaches(f, g, h, a, b, x) <=> Reaches(f, g, h, b, x, a)
    BY DEF Reaches
  <2> QED BY <2>1, <2>2, <2>3
<1>2. ~Apart(<<a, b, x>>, <<c, d, e>>) <=> ~Apart(<<c, d, e>>, <<a, b, x>>)
  BY ApartMeans
<1> QED BY <1>1, <1>2

(* t is the triangle a, b, x, from one of its vertices on.                 *)
IsTriangle(t, a, b, x) == t \in {<<a, b, x>>, <<b, x, a>>, <<x, a, b>>}

LEMMA ApartTriangles ==
  ASSUME NEW a \in Nodes, NEW b \in Nodes, NEW x \in Nodes,
         NEW c \in Nodes, NEW d \in Nodes, NEW e \in Nodes,
         NEW t, IsTriangle(t, a, b, x), NEW u, IsTriangle(u, c, d, e)
  PROVE  Apart(t, u) <=> Apart(<<a, b, x>>, <<c, d, e>>)
<1>1. ASSUME NEW f \in Nodes, NEW g \in Nodes, NEW h \in Nodes
      PROVE  Apart(t, <<f, g, h>>) <=> Apart(<<a, b, x>>, <<f, g, h>>)
  <2>1. /\ Apart(<<a, b, x>>, <<f, g, h>>) <=> Apart(<<b, x, a>>, <<f, g, h>>)
        /\ Apart(<<b, x, a>>, <<f, g, h>>) <=> Apart(<<x, a, b>>, <<f, g, h>>)
    BY ApartRotated
  <2>2. t = <<a, b, x>> \/ t = <<b, x, a>> \/ t = <<x, a, b>>
    BY DEF IsTriangle
  <2> QED BY <2>1, <2>2
<1>2. u = <<c, d, e>> \/ u = <<d, e, c>> \/ u = <<e, c, d>>
  BY DEF IsTriangle
<1>3. /\ Apart(<<a, b, x>>, <<c, d, e>>) <=> Apart(<<c, d, e>>, <<a, b, x>>)
      /\ Apart(<<a, b, x>>, <<d, e, c>>) <=> Apart(<<d, e, c>>, <<a, b, x>>)
      /\ Apart(<<a, b, x>>, <<e, c, d>>) <=> Apart(<<e, c, d>>, <<a, b, x>>)
      /\ Apart(<<c, d, e>>, <<a, b, x>>) <=> Apart(<<d, e, c>>, <<a, b, x>>)
      /\ Apart(<<d, e, c>>, <<a, b, x>>) <=> Apart(<<e, c, d>>, <<a, b, x>>)
  BY ApartRotated
<1>4. Apart(<<a, b, x>>, u) <=> Apart(<<a, b, x>>, <<c, d, e>>)
  BY <1>2, <1>3
<1>5. Apart(t, u) <=> Apart(<<a, b, x>>, u)
  BY <1>1, <1>2
<1> QED BY <1>4, <1>5

(* An edge of a ring, in the order in which it is drawn, and the triangle  *)
(* at its inner side.                                                      *)
Borders(ring, a, b, x) ==
  /\ \E t \in Triangles(ring) : IsTriangle(t, a, b, x)
  /\ Cross(a, b, x) # 0
  /\ Sign(Cross(a, b, x)) = Sign(SignedArea(ring))

LEMMA BordersOfTriangle ==
  ASSUME NEW a \in Nodes, NEW b \in Nodes, NEW c \in Nodes, Cross(a, b, c) # 0,
         NEW f \in Edges(<<a, b, c, a>>)
  PROVE  \E x \in Nodes : Borders(<<a, b, c, a>>, f[1], f[2], x)
<1> DEFINE ring == <<a, b, c, a>>
<1>1. Count(ring) = 3 /\ f \in {<<a, b>>, <<b, c>>, <<c, a>>}
  BY EdgesOfTriangle
<1>2. Triangles(ring) = {<<a, b, c>>}
  BY <1>1 DEF Triangles
<1>3. SignedArea(ring) = Cross(a, b, c)
  BY AreaOfTriangle
<1>4. Cross(b, c, a) = Cross(a, b, c) /\ Cross(c, a, b) = Cross(a, b, c)
  BY CyclicTurn
<1> HIDE DEF ring
<1>5. Borders(ring, a, b, c) /\ Borders(ring, b, c, a) /\ Borders(ring, c, a, b)
  BY <1>2, <1>3, <1>4 DEF Borders, IsTriangle
<1>6. CASE f = <<a, b>>
  BY <1>5, <1>6 DEF ring
<1>7. CASE f = <<b, c>>
  BY <1>5, <1>7 DEF ring
<1>8. CASE f = <<c, a>>
  BY <1>5, <1>8 DEF ring
<1> QED BY <1>1, <1>6, <1>7, <1>8

LEMMA BordersOfQuadrilateral ==
  ASSUME NEW a \in Nodes, NEW b \in Nodes, NEW c \in Nodes, NEW z \in Nodes, Simple4(a, b, c, z),
         NEW f \in Edges(<<a, b, c, z, a>>)
  PROVE  \E x \in Nodes : Borders(<<a, b, c, z, a>>, f[1], f[2], x)
<1> DEFINE ring == <<a, b, c, z, a>>
<1>1. f = <<a, b>> \/ f = <<b, c>> \/ f = <<c, z>> \/ f = <<z, a>>
  BY EdgesOfQuadrilateral
<1>2. Triangles(ring) =
           IF OnBothSides(a, b, c, z) THEN {<<a, b, c>>, <<a, c, z>>}
             ELSE {<<a, b, z>>, <<b, c, z>>}
  BY CutOfQuadrilateral
<1>3. /\ SignedArea(ring) = Cross(a, b, c) + Cross(c, z, a)
      /\ SignedArea(ring) = Cross(b, c, z) + Cross(z, a, b)
  BY AreaOfQuadrilateral, AreasOfHalves
<1>4. /\ Cross(b, c, a) = Cross(a, b, c) /\ Cross(z, a, c) = Cross(c, z, a)
      /\ Cross(c, z, b) = Cross(b, c, z) /\ Cross(a, b, z) = Cross(z, a, b)
  BY CyclicTurn
<1> HIDE DEF ring
<1>5. CASE OnBothSides(a, b, c, z)
  <2>1. /\ Cross(a, b, c) # 0 /\ Cross(c, z, a) # 0
        /\ Sign(Cross(a, b, c)) = Sign(SignedArea(ring))
        /\ Sign(Cross(c, z, a)) = Sign(SignedArea(ring))
    BY <1>3, <1>5, SignOfHalves
  <2>2. <<a, b, c>> \in Triangles(ring) /\ <<a, c, z>> \in Triangles(ring)
    BY <1>2, <1>5
  <2>3. IsTriangle(<<a, b, c>>, a, b, c) /\ IsTriangle(<<a, b, c>>, b, c, a)
        /\ IsTriangle(<<a, c, z>>, c, z, a) /\ IsTriangle(<<a, c, z>>, z, a, c)
    BY DEF IsTriangle
  <2>4. Borders(ring, a, b, c) /\ Borders(ring, b, c, a) /\ Borders(ring, c, z, a)
          /\ Borders(ring, z, a, c)
    BY <1>4, <2>1, <2>2, <2>3 DEF Borders
  <2>5. \E x \in Nodes : Borders(ring, f[1], f[2], x)
    BY <1>1, <2>4
  <2> QED BY <2>5 DEF ring
<1>6. CASE ~OnBothSides(a, b, c, z)
  <2>0. OnBothSides(b, c, z, a)
    BY <1>6, OneDiagonalCuts
  <2>1. /\ Cross(b, c, z) # 0 /\ Cross(z, a, b) # 0
        /\ Sign(Cross(b, c, z)) = Sign(SignedArea(ring))
        /\ Sign(Cross(z, a, b)) = Sign(SignedArea(ring))
    BY <1>3, <2>0, SignOfHalves
  <2>2. <<a, b, z>> \in Triangles(ring) /\ <<b, c, z>> \in Triangles(ring)
    BY <1>2, <1>6
  <2>3. IsTriangle(<<a, b, z>>, a, b, z) /\ IsTriangle(<<b, c, z>>, b, c, z)
        /\ IsTriangle(<<b, c, z>>, c, z, b) /\ IsTriangle(<<a, b, z>>, z, a, b)
    BY DEF IsTriangle
  <2>4. Borders(ring, a, b, z) /\ Borders(ring, b, c, z) /\ Borders(ring, c, z, b)
          /\ Borders(ring, z, a, b)
    BY <1>4, <2>1, <2>2, <2>3 DEF Borders
  <2>5. \E x \in Nodes : Borders(ring, f[1], f[2], x)
    BY <1>1, <2>4
  <2> QED BY <2>5 DEF ring
<1> QED BY <1>5, <1>6

LEMMA EdgesBorder ==
  ASSUME NEW ring, Drawn(ring), NEW f \in Edges(ring)
  PROVE  \E x \in Nodes : Borders(ring, f[1], f[2], x)
  BY BordersOfTriangle, BordersOfQuadrilateral DEF Drawn

(* Edges that deliveryPolygonsOverlap() finds to coincide.                 *)
LEMMA EdgesMeet ==
  ASSUME NEW ring, Drawn(ring), NEW f \in Edges(ring),
         NEW c \in Nodes, NEW d \in Nodes, NEW e \in Nodes, Cross(c, d, e) # 0,
         NEW g \in Edges(<<c, d, e, c>>),
         CoincidentOverlap(f[1], f[2], g[1], g[2],
                           Sign(SignedArea(ring)) * Sign(SignedArea(<<c, d, e, c>>)))
  PROVE  \E t \in Triangles(ring) : ~Apart(t, <<c, d, e>>)
<1>1. PICK x \in Nodes : Borders(ring, f[1], f[2], x)
  BY EdgesBorder
<1>2. PICK y \in Nodes : Borders(<<c, d, e, c>>, g[1], g[2], y)
  BY BordersOfTriangle
<1>3. f[1] \in Nodes /\ f[2] \in Nodes
  BY EdgesOfRing
<1>4. g[1] \in Nodes /\ g[2] \in Nodes
  BY EdgesOfTriangle
<1>5. ~Apart(<<f[1], f[2], x>>, <<g[1], g[2], y>>)
  BY <1>1, <1>2, <1>3, <1>4, CoincidentMeets DEF Borders
<1>6. PICK t \in Triangles(ring) : IsTriangle(t, f[1], f[2], x)
  BY <1>1 DEF Borders
<1>7. PICK u \in Triangles(<<c, d, e, c>>) : IsTriangle(u, g[1], g[2], y)
  BY <1>2 DEF Borders
<1>8. u = <<c, d, e>>
  BY <1>7, EdgesOfTriangle DEF Triangles
<1>9. ~Apart(t, u)
  BY <1>3, <1>4, <1>5, <1>6, <1>7, ApartTriangles
<1> QED BY <1>8, <1>9

(***************************************************************************)
(* A vertex of the second polygon inside of the first one: in one of its   *)
(* triangles, or on the diagonal between them.                             *)
(***************************************************************************)
Origin == <<0, 0>>

LEMMA FromOrigin ==
  ASSUME NEW a \in Plane, NEW b \in Plane
  PROVE  /\ Origin \in Plane
         /\ Turn(Origin, a, b) = Det(a, b) /\ Turn(a, Origin, b) = Det(b, a)
<1>1. PICK ax \in Int, ay \in Int, bx \in Int, by \in Int : a = <<ax, ay>> /\ b = <<bx, by>>
  BY PairsOfInts
<1>2. Det(Origin, a) = 0 /\ Det(a, Origin) = 0 /\ Det(Origin, b) = 0 /\ Det(b, Origin) = 0
  BY <1>1 DEF Det, Origin
<1>3. Origin \in Plane
  BY DEF Origin, Plane
<1>4. Det(a, b) \in Int /\ Det(b, a) \in Int
  BY DetType
<1> QED BY <1>2, <1>3, <1>4 DEF Turn

(* The line from a point between a and c to y has a vertex of the triangle *)
(* a, b, c on the side of v, if y or v is on the side of b.                *)
LEMMA LineThroughDiagonal ==
  ASSUME NEW a \in Plane, NEW b \in Plane, NEW c \in Plane, NEW y \in Plane, NEW v \in Plane,
         NEW i \in 1..2, Det(a, c) = 0, Opposite(a[i], c[i]), Det(y, v) # 0,
         \/ Alike(Turn(a, c, y), Turn(a, c, b))
         \/ Alike(Turn(a, c, v), Turn(a, c, b))
  PROVE  \/ Alike(Det(y, a), Det(y, v)) \/ Alike(Det(y, b), Det(y, v))
         \/ Alike(Det(y, c), Det(y, v))
<1>1. PICK k \in Int, ya \in Int, yc \in Int :
        k = Turn(a, c, y) /\ ya = Det(y, a) /\ yc = Det(y, c)
  BY DetType, TurnType
<1>2. PICK yv \in Int : yv = Det(y, v) /\ yv # 0
  BY DetType
<1>3. CASE k # 0
  <2>1. Alike(Det(c, y), k) /\ Alike(Det(y, a), k)
    BY <1>1, <1>3, FromBetween
  <2>2. Det(c, y) = -yc
    BY <1>1, DetType
  <2>3. Alike(-yc, k) /\ Alike(ya, k)
    BY <1>1, <2>1, <2>2
  <2>4. Alike(ya, yv) \/ Alike(yc, yv)
    BY <1>2, <2>3 DEF Alike
  <2> QED BY <1>1, <1>2, <2>4
<1>4. CASE k = 0
  <2>1. PICK l \in Int, m \in Int : l = Turn(a, c, v) /\ m = Turn(a, c, b)
    BY TurnType
  <2>2. Alike(l, m)
    BY <1>1, <1>4, <2>1 DEF Alike
  <2>3. PICK va \in Int, ba \in Int, yb \in Int : va = Det(v, a) /\ ba = Det(b, a)
          /\ yb = Det(y, b)
    BY DetType
  <2>4. Alike(va, l) /\ Alike(ba, m)
    BY <2>1, <2>2, <2>3, FromBetween DEF Alike
  <2>5. ya = 0 /\ Det(a, y) = 0
    <3>1. Det(y, a) = 0
      <4>1. Turn(a, c, y) = 0
        BY <1>1, <1>4
      <4> QED BY <4>1, FromBetween
    <3> QED BY <1>1, <3>1, DetType
  <2>6. PICK p \in Int, q \in Int : p = a[i] /\ q = y[i]
    BY SumOfMultiples
  <2>7. p * yb + q * ba + b[i] * 0 = 0 /\ b[i] \in Int
    BY <2>3, <2>5, <2>6, SumOfMultiples
  <2>8. p * yv + q * va + v[i] * 0 = 0 /\ v[i] \in Int
    BY <1>2, <2>3, <2>5, <2>6, SumOfMultiples
  <2>9. p # 0
    BY <2>6 DEF Opposite
  <2>10. PICK r \in Int, s \in Int : r = p * yb /\ s = q * ba
    OBVIOUS
  <2>11. PICK g \in Int, h \in Int : g = p * yv /\ h = q * va
    OBVIOUS
  <2>12. r + s = 0 /\ g + h = 0
    <3>0. \A n \in Int : n * 0 = 0
      OBVIOUS
    <3>1. b[i] * 0 = 0 /\ v[i] * 0 = 0
      BY <2>7, <2>8, <3>0
    <3>2. r + s + 0 = 0 /\ g + h + 0 = 0
      BY <2>7, <2>8, <2>10, <2>11, <3>1
    <3> QED BY <3>2
  <2>13. Signs(p, yb, r) /\ Signs(q, ba, s)
    BY <2>10, SignOfProduct
  <2>14. Signs(p, yv, g) /\ Signs(q, va, h)
    BY <2>11, SignOfProduct
  <2>15. Alike(va, ba)
    BY <2>2, <2>4 DEF Alike
  <2>16. Alike(yb, yv)
    BY <1>2, <2>9, <2>12, <2>13, <2>14, <2>15 DEF Signs, Alike
  <2> QED BY <1>2, <2>3, <2>16
<1> QED BY <1>3, <1>4

(* A vertex q of a triangle lies on the side a, c of another, between its  *)
(* ends, and one of its neighbours on the side of b.                       *)
LEMMA DiagonalMeets ==
  ASSUME NEW a \in Nodes, NEW b \in Nodes, NEW c \in Nodes, Cross(c, a, b) # 0,
         NEW q \in Nodes, NEW y \in Nodes, NEW v \in Nodes, Cross(q, y, v) # 0,
         NEW i \in 1..2, Det(Seen(q, a), Seen(q, c)) = 0, Opposite(Seen(q, a)[i], Seen(q, c)[i]),
         Beside(a, c, b, y) \/ Beside(a, c, b, v)
  PROVE  ~Apart(<<a, c, b>>, <<q, y, v>>)
<1>1. q \in Points
  BY VertexOfSegment
<1>2. PICK A \in Plane, B \in Plane, C \in Plane, Y \in Plane, V \in Plane :
        /\ A = Seen(q, a) /\ B = Seen(q, b) /\ C = Seen(q, c) /\ Y = Seen(q, y) /\ V = Seen(q, v)
  BY <1>1, SeenType
<1>3. Seen(q, q) = Origin
  BY DEF Nodes, Seen, Origin
<1>4. Det(A, C) = 0 /\ Opposite(A[i], C[i])
  BY <1>2
<1>5. Cross(a, c, b) # 0
  <2>1. Cross(a, c, b) = -Cross(c, a, b) /\ Cross(c, a, b) \in Int
    BY DEF Nodes, Cross
  <2> QED BY <2>1
<1>6. Beside(c, b, a, q) /\ Beside(b, a, c, q) /\ InTriangle(<<a, c, b>>, q)
  BY <1>1, <1>5, BetweenIsBeside
<1>7. Reaches(c, b, a, q, y, v) /\ Reaches(b, a, c, q, y, v) /\ Reaches(a, c, b, q, y, v)
  BY <1>6 DEF Reaches
<1>8. Det(Y, V) # 0
  <2>1. Turn(Origin, Y, V) # 0
    BY <1>1, <1>2, <1>3, CrossOfNodes
  <2> QED BY <2>1, FromOrigin
<1>9. Alike(Turn(A, C, Y), Turn(A, C, B)) \/ Alike(Turn(A, C, V), Turn(A, C, B))
  BY <1>1, <1>2, BesideSeen
<1>10. \/ Alike(Det(Y, A), Det(Y, V)) \/ Alike(Det(Y, B), Det(Y, V))
            \/ Alike(Det(Y, C), Det(Y, V))
  BY <1>4, <1>8, <1>9, LineThroughDiagonal
<1>11. \/ Alike(Det(V, A), Det(V, Y)) \/ Alike(Det(V, B), Det(V, Y))
            \/ Alike(Det(V, C), Det(V, Y))
  <2>1. Det(V, Y) # 0
    BY <1>8, DetType
  <2> QED BY <1>4, <1>9, <2>1, LineThroughDiagonal
<1>12. Reaches(q, y, v, a, c, b)
  <2>1. \A x \in Nodes : Beside(q, y, v, x) <=> Alike(Det(Y, Seen(q, x)), Det(Y, V))
    <3> TAKE x \in Nodes
    <3>1. PICK X \in Plane : X = Seen(q, x)
      BY <1>1, SeenType
    <3>2. Beside(q, y, v, x) <=> Alike(Turn(Origin, Y, X), Turn(Origin, Y, V))
      BY <1>1, <1>2, <1>3, <3>1, BesideSeen
    <3> QED BY <3>1, <3>2, FromOrigin
  <2> QED BY <1>2, <1>10, <2>1 DEF Reaches
<1>13. Reaches(v, q, y, a, c, b)
  <2>1. \A x \in Nodes : Beside(v, q, y, x) <=> Alike(Det(V, Seen(q, x)), Det(V, Y))
    <3> TAKE x \in Nodes
    <3>1. PICK X \in Plane : X = Seen(q, x)
      BY <1>1, SeenType
    <3>2. Beside(v, q, y, x) <=> Alike(Turn(V, Origin, X), Turn(V, Origin, Y))
      BY <1>1, <1>2, <1>3, <3>1, BesideSeen
    <3>3. PICK m \in Int, n \in Int : m = Det(V, X) /\ n = Det(V, Y) /\ Det(X, V) = -m
            /\ Det(Y, V) = -n
      BY DetType
    <3>4. Turn(V, Origin, X) = -m /\ Turn(V, Origin, Y) = -n
      BY <3>3, FromOrigin
    <3>5. Alike(-m, -n) <=> Alike(m, n)
      BY DEF Alike
    <3> QED BY <3>1, <3>2, <3>3, <3>4, <3>5
  <2> QED BY <1>2, <1>11, <2>1 DEF Reaches
<1>14. Reaches(y, v, q, a, c, b)
  <2>1. Beside(y, v, q, q)
    <3>1. Side(y, v, q) \in {-1, 1}
      BY CyclicTurn, CrossType DEF Side, Sign
    <3> QED BY <3>1 DEF Beside
  <2> QED BY <1>1, <1>5, <1>6, <2>1, VertexBeside
<1> QED BY <1>7, <1>12, <1>13, <1>14, ApartMeans

LEMMA BetweenTheEnds ==
  ASSUME NEW a \in Plane, NEW c \in Plane, Touched(a, c), a # Origin, c # Origin
  PROVE  \E i \in 1..2 : Opposite(a[i], c[i])
<1>1. PICK ax \in Int, ay \in Int, cx \in Int, cy \in Int : a = <<ax, ay>> /\ c = <<cx, cy>>
  BY PairsOfInts
<1>2. Around(ax, cx) /\ Around(ay, cy) /\ ax * cy - ay * cx = 0
  BY <1>1 DEF Touched, TouchedAt, Det
<1>3. (ax # 0 \/ ay # 0) /\ (cx # 0 \/ cy # 0)
  BY <1>1 DEF Origin
<1>4. PICK s \in Int, t \in Int : s = ax * cy /\ t = ay * cx
  OBVIOUS
<1>5. Signs(ax, cy, s) /\ Signs(ay, cx, t) /\ s = t
  BY <1>2, <1>4, SignOfProduct
<1>6. Opposite(ax, cx) \/ Opposite(ay, cy)
  BY <1>2, <1>3, <1>5 DEF Signs, Around, Opposite
<1>7. 1 \in 1..2 /\ 2 \in 1..2
  OBVIOUS
<1> QED BY <1>1, <1>6, <1>7

(* A vertex of a triangle lies inside of a quadrilateral, on the diagonal  *)
(* along which it is cut: its neighbours are not both on that line.        *)
LEMMA DiagonalPoint ==
  ASSUME NEW a \in Nodes, NEW b \in Nodes, NEW c \in Nodes, NEW z \in Nodes,
         OnBothSides(a, b, c, z),
         NEW q \in Nodes, NEW y \in Nodes, NEW v \in Nodes, Cross(q, y, v) # 0,
         OnSegment(q, a, c), q # a, q # c
  PROVE  ~Apart(<<a, c, b>>, <<q, y, v>>) \/ ~Apart(<<c, a, z>>, <<q, y, v>>)
<1>1. q \in Points /\ Touched(Seen(q, a), Seen(q, c))
  BY VertexOfSegment, OnSegmentIsTouched
<1>2. Seen(q, a) # Origin /\ Seen(q, c) # Origin
  <2>1. Seen(q, q) = Origin
    BY DEF Nodes, Seen, Origin
  <2> QED BY <1>1, <2>1, SeenApart
<1>3. PICK i \in 1..2 : Opposite(Seen(q, a)[i], Seen(q, c)[i])
  BY <1>1, <1>2, SeenType, BetweenTheEnds
<1>4. Det(Seen(q, a), Seen(q, c)) = 0 /\ Det(Seen(q, c), Seen(q, a)) = 0
  <2>1. Det(Seen(q, a), Seen(q, c)) = 0
    BY <1>1 DEF Touched, TouchedAt
  <2>2. 0 = 0 - 0
    OBVIOUS
  <2> QED BY <1>1, <2>1, SeenType, DetType
<1>5. Opposite(Seen(q, c)[i], Seen(q, a)[i])
  BY <1>3 DEF Opposite
<1>6. Cross(c, a, b) # 0 /\ Cross(a, c, z) # 0
  <2>1. Cross(a, b, c) # 0 /\ Cross(c, z, a) # 0
    BY SignOfHalves
  <2> QED BY <2>1, CyclicTurn
<1>7. Cross(a, c, y) # 0 \/ Cross(a, c, v) # 0
  <2> SUFFICES ASSUME Cross(a, c, y) = 0, Cross(a, c, v) = 0 PROVE FALSE
    OBVIOUS
  <2>1. Cross(a, c, q) = 0
    BY <1>1, CrossType DEF OnSegment, Side, Sign
  <2>2. a # c
    BY <1>6, DistinctNodes
  <2>3. /\ Turn(Seen(q, a), Seen(q, c), Seen(q, q)) = 0
        /\ Turn(Seen(q, a), Seen(q, c), Seen(q, y)) = 0
        /\ Turn(Seen(q, a), Seen(q, c), Seen(q, v)) = 0
    BY <1>1, <2>1, CrossOfNodes
  <2>4. Seen(q, a) # Seen(q, c)
    BY <1>1, <2>2, SeenApart
  <2>5. Turn(Seen(q, q), Seen(q, y), Seen(q, v)) = 0
    BY <1>1, <2>3, <2>4, SeenType, NotAllOnALine
  <2> QED BY <1>1, <2>5, CrossOfNodes
<1>8. ASSUME NEW x \in Nodes, Cross(a, c, x) # 0
      PROVE  Beside(a, c, b, x) \/ Beside(c, a, z, x)
  <2>1. PICK k \in Int, m \in Int, n \in Int : k = Cross(a, c, x) /\ m = Cross(a, b, c)
          /\ n = Cross(c, z, a)
    BY CrossType
  <2>2. Cross(a, c, b) = -m /\ Cross(c, a, x) = -k
    BY <2>1 DEF Nodes, Cross
  <2>3. Cross(c, a, z) = -n
    <3>1. Cross(a, c, z) = n
      BY <2>1, CyclicTurn
    <3> QED BY <3>1 DEF Nodes, Cross
  <2>4. /\ Side(a, c, x) = Sign(k) /\ Side(a, c, b) = Sign(-m)
        /\ Side(c, a, x) = Sign(-k) /\ Side(c, a, z) = Sign(-n)
    BY <2>1, <2>2, <2>3 DEF Side
  <2>5. (m > 0 /\ n > 0) \/ (m < 0 /\ n < 0)
    BY <2>1 DEF OnBothSides
  <2>6. Sign(k) * Sign(-m) > 0 \/ Sign(-k) * Sign(-n) > 0
    BY <1>8, <2>1, <2>5 DEF Sign
  <2> QED BY <2>4, <2>6 DEF Beside
<1>9. \/ Beside(a, c, b, y) \/ Beside(a, c, b, v)
      \/ Beside(c, a, z, y) \/ Beside(c, a, z, v)
  BY <1>7, <1>8
<1> QED BY <1>3, <1>4, <1>5, <1>6, <1>9, DiagonalMeets

LEMMA ApartReversed ==
  ASSUME NEW a \in Nodes, NEW b \in Nodes, NEW x \in Nodes,
         NEW c \in Nodes, NEW d \in Nodes, NEW e \in Nodes
  PROVE  Apart(<<b, a, x>>, <<c, d, e>>) <=> Apart(<<a, b, x>>, <<c, d, e>>)
<1>1. ASSUME NEW f \in Nodes, NEW g \in Nodes, NEW v \in Nodes
      PROVE  Side(g, f, v) = 0 - Side(f, g, v)
  <2>1. PICK m \in Int, n \in Int : m = Cross(f, g, v) /\ n = Cross(g, f, v)
    BY CrossType
  <2>2. n = -m
    BY <2>1 DEF Nodes, Cross
  <2> QED BY <2>1, <2>2 DEF Side, Sign
<1>2. ASSUME NEW f \in Nodes, NEW g \in Nodes, NEW h \in Nodes, NEW v \in Nodes
      PROVE  Beside(g, f, h, v) <=> Beside(f, g, h, v)
  <2>1. PICK m \in {-1, 0, 1}, n \in {-1, 0, 1} : m = Side(f, g, v) /\ n = Side(f, g, h)
    BY CrossType DEF Side, Sign
  <2>2. Side(g, f, v) = 0 - m /\ Side(g, f, h) = 0 - n
    BY <1>1, <2>1
  <2> QED BY <2>1, <2>2 DEF Beside
<1>3. \A f, g, h \in Nodes : Reaches(g, f, h, c, d, e) <=> Reaches(f, g, h, c, d, e)
  BY <1>2 DEF Reaches
<1>4. \A f, g, h \in Nodes : Reaches(f, g, h, b, a, x) <=> Reaches(f, g, h, a, b, x)
  BY DEF Reaches
<1>5. ~Apart(<<b, a, x>>, <<c, d, e>>) <=>
           /\ Reaches(b, a, x, c, d, e) /\ Reaches(a, x, b, c, d, e) /\ Reaches(x, b, a, c, d, e)
           /\ Reaches(c, d, e, b, a, x) /\ Reaches(d, e, c, b, a, x) /\ Reaches(e, c, d, b, a, x)
  BY ApartMeans
<1>6. ~Apart(<<a, b, x>>, <<c, d, e>>) <=>
           /\ Reaches(a, b, x, c, d, e) /\ Reaches(b, x, a, c, d, e) /\ Reaches(x, a, b, c, d, e)
           /\ Reaches(c, d, e, a, b, x) /\ Reaches(d, e, c, a, b, x) /\ Reaches(e, c, d, a, b, x)
  BY ApartMeans
<1> QED BY <1>3, <1>4, <1>5, <1>6

LEMMA VertexIsInTriangle ==
  ASSUME NEW q \in Nodes, NEW y \in Nodes, NEW v \in Nodes, Cross(q, y, v) # 0
  PROVE  InTriangle(<<q, y, v>>, q)
<1>1. q \in Points /\ Side(q, y, q) = 0
  BY VertexOfSegment DEF OnSegment
<1>2. Side(v, q, q) = 0
  BY DEF Nodes, Side, Sign, Cross
<1>3. Side(y, v, q) \in {-1, 1}
  BY CyclicTurn, CrossType DEF Side, Sign
<1>4. Beside(y, v, q, q)
  BY <1>3 DEF Beside
<1> QED BY <1>1, <1>2, <1>4, InTriangleMeans

(* A vertex that is strictly inside of a triangle, and of a quadrilateral. *)
LEMMA VertexInside ==
  ASSUME NEW a \in Nodes, NEW b \in Nodes, NEW c \in Nodes, Cross(a, b, c) # 0,
         NEW q \in Nodes, NEW y \in Nodes, NEW v \in Nodes, Cross(q, y, v) # 0,
         InTriangle(<<a, b, c>>, q), ~OnSegment(q, a, b), ~OnSegment(q, b, c), ~OnSegment(q, c, a)
  PROVE  ~Apart(<<a, b, c>>, <<q, y, v>>)
<1>1. q \in Points
  BY VertexOfSegment
<1>2. Interior(a, b, c, q)
  BY <1>1, StrictlyInside
<1>3. ~Apart(<<q, y, v>>, <<a, b, c>>)
  BY <1>1, <1>2, VertexIsInTriangle, InteriorMeets
<1> QED BY <1>3, ApartRotated

LEMMA VertexInsideHalves ==
  ASSUME NEW a \in Nodes, NEW b \in Nodes, NEW c \in Nodes, NEW z \in Nodes,
         OnBothSides(a, b, c, z),
         NEW q \in Nodes, NEW y \in Nodes, NEW v \in Nodes, Cross(q, y, v) # 0,
         InTriangle(<<a, b, c>>, q) \/ InTriangle(<<c, z, a>>, q),
         ~OnSegment(q, a, b), ~OnSegment(q, b, c), ~OnSegment(q, c, z), ~OnSegment(q, z, a)
  PROVE  ~Apart(<<a, b, c>>, <<q, y, v>>) \/ ~Apart(<<c, z, a>>, <<q, y, v>>)
<1>1. Cross(a, b, c) # 0 /\ Cross(c, z, a) # 0
  BY SignOfHalves
<1>2. q \in Points
  BY VertexOfSegment
<1>3. OnSegment(q, a, c) <=> OnSegment(q, c, a)
  BY <1>2, OnSegmentIsTouched, SeenType, Reversed
<1>4. CASE OnSegment(q, a, c)
  <2>1. q # a /\ q # c
    BY VertexOfSegment
  <2>2. ~Apart(<<a, c, b>>, <<q, y, v>>) \/ ~Apart(<<c, a, z>>, <<q, y, v>>)
    BY <1>4, <2>1, DiagonalPoint
  <2>3. Apart(<<a, c, b>>, <<q, y, v>>) <=> Apart(<<a, b, c>>, <<q, y, v>>)
    <3>1. Apart(<<a, c, b>>, <<q, y, v>>) <=> Apart(<<c, a, b>>, <<q, y, v>>)
      BY ApartReversed
    <3> QED BY <3>1, ApartRotated
  <2>4. Apart(<<c, a, z>>, <<q, y, v>>) <=> Apart(<<c, z, a>>, <<q, y, v>>)
    <3>1. Apart(<<c, a, z>>, <<q, y, v>>) <=> Apart(<<a, c, z>>, <<q, y, v>>)
      BY ApartReversed
    <3> QED BY <3>1, ApartRotated
  <2> QED BY <2>2, <2>3, <2>4
<1>5. CASE ~OnSegment(q, a, c)
  BY <1>1, <1>3, <1>5, VertexInside
<1> QED BY <1>4, <1>5

(* A vertex that pointInDeliveryPolygon(), without the border, finds       *)
(* inside of a ring.                                                       *)
LEMMA VertexMeets ==
  ASSUME NEW ring, Drawn(ring), NEW q \in Nodes, NEW y \in Nodes, NEW v \in Nodes,
         Cross(q, y, v) # 0, PointInPolygon(q, ring, FALSE)
  PROVE  \E t \in Triangles(ring) : ~Apart(t, <<q, y, v>>)
<1>1. \A f \in Edges(ring) : ~OnSegment(q, f[1], f[2])
  BY DEF PointInPolygon
<1>2. PointInPolygon(q, ring, TRUE)
  BY <1>1 DEF PointInPolygon
<1>3. q \in Points
  BY VertexOfSegment
<1>4. ASSUME NEW a \in Nodes, NEW b \in Nodes, NEW c \in Nodes,
             ring = <<a, b, c, a>>, Cross(a, b, c) # 0
      PROVE  \E t \in Triangles(ring) : ~Apart(t, <<q, y, v>>)
  <2>1. Count(ring) = 3 /\ Edges(ring) = {<<a, b>>, <<b, c>>, <<c, a>>}
    BY <1>4, EdgesOfTriangle
  <2>2. InTriangle(<<a, b, c>>, q)
    BY <1>2, <1>3, <1>4, <2>1, InsideOfTriangle
  <2>3. ~OnSegment(q, a, b) /\ ~OnSegment(q, b, c) /\ ~OnSegment(q, c, a)
    <3>1. \A f \in {<<a, b>>, <<b, c>>, <<c, a>>} : ~OnSegment(q, f[1], f[2])
      BY <1>1, <2>1
    <3> QED BY <3>1
  <2>4. ~Apart(<<a, b, c>>, <<q, y, v>>)
    BY <1>4, <2>2, <2>3, VertexInside
  <2>5. <<a, b, c>> \in Triangles(ring)
    BY <1>4, <2>1 DEF Triangles
  <2> QED BY <2>4, <2>5
<1>5. ASSUME NEW a \in Nodes, NEW b \in Nodes, NEW c \in Nodes, NEW z \in Nodes,
             ring = <<a, b, c, z, a>>, Simple4(a, b, c, z)
      PROVE  \E t \in Triangles(ring) : ~Apart(t, <<q, y, v>>)
  <2>1. Edges(ring) = {<<a, b>>, <<b, c>>, <<c, z>>, <<z, a>>}
    BY <1>5, EdgesOfQuadrilateral
  <2>2. Triangles(ring) =
          IF OnBothSides(a, b, c, z) THEN {<<a, b, c>>, <<a, c, z>>}
            ELSE {<<a, b, z>>, <<b, c, z>>}
    BY <1>5, CutOfQuadrilateral
  <2>3. ~OnSegment(q, a, b) /\ ~OnSegment(q, b, c) /\ ~OnSegment(q, c, z) /\ ~OnSegment(q, z, a)
    <3>1. \A f \in {<<a, b>>, <<b, c>>, <<c, z>>, <<z, a>>} : ~OnSegment(q, f[1], f[2])
      BY <1>1, <2>1
    <3> QED BY <3>1
  <2>4. CASE OnBothSides(a, b, c, z)
    <3>1. InTriangle(<<a, b, c>>, q) \/ InTriangle(<<c, z, a>>, q)
      BY <1>2, <1>3, <2>1, <2>4, InsideOfQuadrilateral
    <3>2. ~Apart(<<a, b, c>>, <<q, y, v>>) \/ ~Apart(<<c, z, a>>, <<q, y, v>>)
      BY <2>3, <2>4, <3>1, VertexInsideHalves
    <3>3. Apart(<<a, c, z>>, <<q, y, v>>) <=> Apart(<<c, z, a>>, <<q, y, v>>)
      BY ApartRotated
    <3> QED BY <2>2, <2>4, <3>2, <3>3
  <2>5. CASE ~OnBothSides(a, b, c, z)
    <3>0. OnBothSides(b, c, z, a)
      BY <1>5, <2>5, OneDiagonalCuts
    <3>1. InTriangle(<<b, c, z>>, q) \/ InTriangle(<<z, a, b>>, q)
      <4>1. Edges(ring) = {<<b, c>>, <<c, z>>, <<z, a>>, <<a, b>>}
        BY <2>1
      <4> QED BY <1>2, <1>3, <4>1, <3>0, InsideOfQuadrilateral
    <3>2. ~Apart(<<b, c, z>>, <<q, y, v>>) \/ ~Apart(<<z, a, b>>, <<q, y, v>>)
      BY <2>3, <3>0, <3>1, VertexInsideHalves
    <3>3. Apart(<<z, a, b>>, <<q, y, v>>) <=> Apart(<<a, b, z>>, <<q, y, v>>)
      BY ApartRotated
    <3> QED BY <2>2, <2>5, <3>2, <3>3
  <2> QED BY <2>4, <2>5
<1> QED BY <1>4, <1>5 DEF Drawn

(***************************************************************************)
(* deliveryPolygonsOverlap() is right when it says yes.                    *)
(***************************************************************************)
(* Each way in which deliveryPolygonsOverlap() finds an overlap of a ring  *)
(* and a triangle shows two triangles that no side separates.              *)
LEMMA OverlapIsShared ==
  ASSUME NEW ring, Drawn(ring), NEW c \in Nodes, NEW d \in Nodes, NEW e \in Nodes,
         Cross(c, d, e) # 0,
         PolygonsOverlap(ring, <<c, d, e, c>>)
  PROVE  \E t \in Triangles(ring) : ~Apart(t, <<c, d, e>>)
<1> DEFINE second == <<c, d, e, c>>
           sides == Sign(SignedArea(ring)) * Sign(SignedArea(second))
           Shares == \E t \in Triangles(ring) : ~Apart(t, <<c, d, e>>)
<1>1. \A f \in Edges(ring) : f[1] \in Nodes /\ f[2] \in Nodes /\ f[1] # f[2]
  BY EdgesOfRing
<1>2. ASSUME NEW f \in Edges(ring), PointInPolygon(f[1], second, FALSE) PROVE Shares
  <2>1. f[1] \in Points /\ OnSegment(f[1], f[1], f[2])
    BY <1>1, VertexOfSegment
  <2>2. Interior(c, d, e, f[1])
    BY <1>2, <2>1, InsideTriangle
  <2> QED BY <2>1, <2>2, EdgeMeets
<1>3. ASSUME NEW f \in Edges(ring), NEW g \in Edges(second),
             CoincidentOverlap(f[1], f[2], g[1], g[2], sides)
      PROVE  Shares
  BY <1>3, EdgesMeet
<1>4. ASSUME NEW f \in Edges(ring), NEW p \in Midpoints(f[1], f[2], Cuts(f[1], f[2], second)),
             PointInPolygon(p, second, FALSE)
      PROVE  Shares
  <2>1. Drawn(second)
    BY DEF Drawn
  <2>2. Cuts(f[1], f[2], second) \in SUBSET Fractions
    BY <1>1, <2>1, CutsAreFractions
  <2>3. p \in Points /\ OnSegment(p, f[1], f[2])
    BY <1>1, <2>2, MidpointsAreOnEdges
  <2>4. Interior(c, d, e, p)
    BY <1>4, <2>3, InsideTriangle
  <2> QED BY <2>3, <2>4, EdgeMeets
<1>5. ASSUME NEW i \in 1..Count(second), PointInPolygon(second[i], ring, FALSE) PROVE Shares
  <2>1. i = 1 \/ i = 2 \/ i = 3
    BY EdgesOfTriangle
  <2>2. Cross(d, e, c) # 0 /\ Cross(e, c, d) # 0
    BY CyclicTurn
  <2>3. CASE i = 1
    BY <1>5, <2>3, VertexMeets
  <2>4. CASE i = 2
    <3>1. PICK t \in Triangles(ring) : ~Apart(t, <<d, e, c>>)
      BY <1>5, <2>2, <2>4, VertexMeets
    <3>2. PICK f \in Nodes, g \in Nodes, h \in Nodes : t = <<f, g, h>>
      BY TrianglesOfRing
    <3>3. IsTriangle(<<f, g, h>>, f, g, h) /\ IsTriangle(<<d, e, c>>, c, d, e)
      BY DEF IsTriangle
    <3>4. Apart(<<f, g, h>>, <<d, e, c>>) <=> Apart(<<f, g, h>>, <<c, d, e>>)
      BY <3>3, ApartTriangles
    <3> QED BY <3>1, <3>2, <3>4
  <2>5. CASE i = 3
    <3>1. PICK t \in Triangles(ring) : ~Apart(t, <<e, c, d>>)
      BY <1>5, <2>2, <2>5, VertexMeets
    <3>2. PICK f \in Nodes, g \in Nodes, h \in Nodes : t = <<f, g, h>>
      BY TrianglesOfRing
    <3>3. IsTriangle(<<f, g, h>>, f, g, h) /\ IsTriangle(<<e, c, d>>, c, d, e)
      BY DEF IsTriangle
    <3>4. Apart(<<f, g, h>>, <<e, c, d>>) <=> Apart(<<f, g, h>>, <<c, d, e>>)
      BY <3>3, ApartTriangles
    <3> QED BY <3>1, <3>2, <3>4
  <2> QED BY <2>1, <2>3, <2>4, <2>5
<1>6. \/ \E f \in Edges(ring) :
           \/ PointInPolygon(f[1], second, FALSE)
           \/ \E g \in Edges(second) : CoincidentOverlap(f[1], f[2], g[1], g[2], sides)
           \/ \E p \in Midpoints(f[1], f[2], Cuts(f[1], f[2], second)) :
                PointInPolygon(p, second, FALSE)
      \/ \E i \in 1..Count(second) : PointInPolygon(second[i], ring, FALSE)
  BY DEF PolygonsOverlap
<1> HIDE DEF second, sides, Shares
<1>7. Shares
  BY <1>2, <1>3, <1>4, <1>5, <1>6
<1> QED BY <1>7 DEF Shares

(***************************************************************************)
(* The drawings that the specification reaches, and the theorems.          *)
(***************************************************************************)
(* The answer is about the two rings that have been drawn.                 *)
Compared(first, second) ==
  /\ Drawn(first)
  /\ \E c, d, e \in Nodes : second = <<c, d, e, c>> /\ Cross(c, d, e) # 0
  /\ overlap = PolygonsOverlap(first, second)

(* The inductive invariant.                                                *)
DrawingsInv ==
  \/ rings = <<>>
  \/ rings = <<rings[1]>> /\ Drawn(rings[1])
  \/ Len(rings) = 2 /\ Compared(rings[1], rings[2])

LEMMA LengthsOfDrawings == Len(<<>>) = 0 /\ \A r : Len(<<r>>) = 1
OBVIOUS

LEMMA AppendToOne ==
  ASSUME NEW first, NEW second
  PROVE  LET both == Append(<<first>>, second)
         IN Len(both) = 2 /\ both[1] = first /\ both[2] = second
<1>1. <<first>> \in Seq({first, second}) /\ second \in {first, second} /\ Len(<<first>>) = 1
  OBVIOUS
<1> QED BY <1>1

LEMMA DrawingsStay ==
  ASSUME DrawingsInv, [PolygonNext]_polygonVars
  PROVE  DrawingsInv'
<1>1. ASSUME NEW ring \in ValidRings, Draw(ring) PROVE DrawingsInv'
  <2>1. rings' = <<ring>> /\ rings'[1] = ring
    BY <1>1 DEF Draw
  <2> QED BY <2>1, RingsAreDrawn DEF DrawingsInv
<1>2. ASSUME NEW ring \in ValidRings, Compare(ring) PROVE DrawingsInv'
  <2>1. /\ Len(rings) = 1 /\ Count(ring) = 3 /\ rings' = Append(rings, ring)
        /\ overlap' = PolygonsOverlap(rings[1], ring)
    BY <1>2 DEF Compare
  <2>2. PICK first : rings = <<first>> /\ Drawn(first) /\ first = rings[1]
    BY <2>1, LengthsOfDrawings DEF DrawingsInv
  <2>3. Len(rings') = 2 /\ rings'[1] = first /\ rings'[2] = ring
    BY <2>1, <2>2, AppendToOne
  <2>5. \E c, d, e \in Nodes : ring = <<c, d, e, c>> /\ Cross(c, d, e) # 0
    <3>1. \A a, b, c, z \in Nodes : ring # <<a, b, c, z, a>>
      BY <2>1, EdgesOfQuadrilateral
    <3> QED BY <3>1, RingsAreDrawn DEF Drawn
  <2>6. Compared(first, ring)'
    BY <2>1, <2>2, <2>5 DEF Compared
  <2> QED BY <2>3, <2>6 DEF DrawingsInv, Compared
<1>3. CASE UNCHANGED polygonVars
  BY <1>3 DEF polygonVars, DrawingsInv, Compared
<1> QED BY <1>1, <1>2, <1>3 DEF PolygonNext

(* polygon.util.ts:74: whatever the grid, only rings that                  *)
(* deliveryPolygonError() lets pass are drawn and compared, and those are  *)
(* triangles with an area and simple quadrilaterals.                       *)
THEOREM DrawingsAreKnown == Spec => []DrawingsInv
<1>1. Init => DrawingsInv
  BY DEF Init, PolygonInit, DrawingsInv
<1>2. DrawingsInv /\ [Next]_backOfficeVars => DrawingsInv'
  <2>1. [Next]_backOfficeVars => [PolygonNext]_polygonVars
    BY DEF Next, OthersRest, backOfficeVars
  <2> QED BY <2>1, DrawingsStay
<1> QED BY <1>1, <1>2, PTL DEF Spec

(* polygon.util.ts:144 pointInDeliveryPolygon(): whatever the grid, ray    *)
(* casting finds a point inside of a triangle or a quadrilateral, its      *)
(* border included, exactly if one of its triangles has it.                *)
THEOREM PointsAreInTriangles == Spec => []InsideIsInATriangle
<1>1. DrawingsInv => InsideIsInATriangle
  <2> SUFFICES ASSUME DrawingsInv, Len(rings) = 1, NEW v \in Vertices, NEW w \in Vertices
               PROVE  LET p == <<v[1] + w[1], v[2] + w[2], 2>> IN
                      PointInPolygon(p, rings[1], TRUE)
                        <=> \E t \in Triangles(rings[1]) : InTriangle(t, p)
    BY DEF InsideIsInATriangle
  <2>1. <<v[1] + w[1], v[2] + w[2], 2>> \in Points
    BY VerticesAreNodes DEF Nodes, Points
  <2>3. Drawn(rings[1])
    BY LengthsOfDrawings DEF DrawingsInv, Compared
  <2> QED BY <2>1, <2>3, InsideOfRing
<1> QED BY <1>1, DrawingsAreKnown, PTL

(* polygon.util.ts:172 deliveryPolygonsOverlap(): whatever the grid, a     *)
(* polygon of up to four vertices and a triangle that only touch are not   *)
(* found to overlap: when it answers yes, no side of a triangle of the one *)
(* separates it from the other.                                            *)
THEOREM TouchingIsNotOverlapping == Spec => []SharedBordersAreAllowed
<1>1. DrawingsInv => SharedBordersAreAllowed
  <2> SUFFICES ASSUME DrawingsInv, Len(rings) = 2, overlap PROVE SharedInterior
    BY DEF SharedBordersAreAllowed
  <2>2. Compared(rings[1], rings[2])
    BY LengthsOfDrawings DEF DrawingsInv
  <2>3. PICK c \in Nodes, d \in Nodes, e \in Nodes : rings[2] = <<c, d, e, c>>
          /\ Cross(c, d, e) # 0
    BY <2>2 DEF Compared
  <2>4. \E t \in Triangles(rings[1]) : ~Apart(t, <<c, d, e>>)
    BY <2>2, <2>3, OverlapIsShared DEF Compared
  <2>5. <<c, d, e>> \in Triangles(rings[2])
    BY <2>3, EdgesOfTriangle DEF Triangles
  <2> QED BY <2>4, <2>5 DEF SharedInterior
<1> QED BY <1>1, DrawingsAreKnown, PTL

(* Both: the answers of polygon.util.ts are about regions, on every grid.  *)
THEOREM PolygonsStayRegions == Spec => []PolygonsAreRegions
<1>1. InsideIsInATriangle /\ SharedBordersAreAllowed => PolygonsAreRegions
  BY DEF PolygonsAreRegions
<1> QED BY <1>1, PointsAreInTriangles, TouchingIsNotOverlapping, PTL

=============================================================================
