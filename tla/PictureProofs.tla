----------------------------- MODULE PictureProofs -----------------------------
(***************************************************************************)
(* Theorems about the way of a triangle to the screen: which pixels it     *)
(* hits (Rasterization), how its fragments get to the fragment shader      *)
(* (FragmentStage) and what is seen in the end (Picture), for any          *)
(* framebuffer, any triangles of integer vertices, batches of any size,    *)
(* any number of custom components, any timeout but that of one tick, and  *)
(* neighbours that take any time.                                          *)
(***************************************************************************)
EXTENDS Picture, FragmentStage, TLAPS

(***************************************************************************)
(* Rasterization.  Which pixels a triangle hits does not depend on the     *)
(* order in which its vertices come.                                       *)
(***************************************************************************)

IntPoints == [x : Int, y : Int]

\* Sign() is alternating: exchanging its last two points changes its sign.
LEMMA SignSwap ==
    ASSUME NEW p \in IntPoints, NEW q \in IntPoints, NEW r \in IntPoints
    PROVE  Sign(p, q, r) \in Int /\ Sign(p, r, q) = -Sign(p, q, r)
<1>. DEFINE px == p.x  py == p.y  qx == q.x  qy == q.y  rx == r.x  ry == r.y
<1>1. px \in Int /\ py \in Int /\ qx \in Int /\ qy \in Int /\ rx \in Int /\ ry \in Int
    BY DEF IntPoints
<1>2. /\ Sign(p, q, r) = (px - rx) * (qy - ry) - (qx - rx) * (py - ry)
      /\ Sign(p, r, q) = (px - qx) * (ry - qy) - (rx - qx) * (py - qy)
    BY DEF Sign
<1>. HIDE DEF px, py, qx, qy, rx, ry
<1>3. (px - rx) * (qy - ry) - (qx - rx) * (py - ry) \in Int
    BY <1>1
<1>4. (px - qx) * (ry - qy) - (rx - qx) * (py - qy)
        = -((px - rx) * (qy - ry) - (qx - rx) * (py - ry))
    BY <1>1, SMTT(30)
<1>. QED
    BY <1>2, <1>3, <1>4

\* The vertices in the opposite order (the other winding) hit the same pixels.
\* isPointInTriangle tests for mixed signs, not for one sign, for this reason.
THEOREM WindingFree ==
    ASSUME NEW pt \in IntPoints, NEW u \in IntPoints, NEW v \in IntPoints, NEW w \in IntPoints
    PROVE  IsPointInTriangle(pt, u, v, w) <=> IsPointInTriangle(pt, w, v, u)
<1>. DEFINE a == Sign(pt, u, v)  b == Sign(pt, v, w)  c == Sign(pt, w, u)
<1>1. a \in Int /\ b \in Int /\ c \in Int
    BY SignSwap
<1>2. Sign(pt, v, u) = -a /\ Sign(pt, w, v) = -b /\ Sign(pt, u, w) = -c
    BY SignSwap
<1>3. Signs(pt, u, v, w) = {a, b, c} /\ Signs(pt, w, v, u) = {-a, -b, -c}
    BY <1>2 DEF Signs
<1>. HIDE DEF a, b, c
<1>. QED
    BY <1>1, <1>3 DEF IsPointInTriangle

\* Nor does it matter with which vertex the triangle begins.
THEOREM RotationFree ==
    ASSUME NEW pt, NEW u, NEW v, NEW w
    PROVE  IsPointInTriangle(pt, u, v, w) <=> IsPointInTriangle(pt, v, w, u)
<1>1. Signs(pt, u, v, w) = Signs(pt, v, w, u)
    BY DEF Signs
<1>. QED
    BY <1>1 DEF IsPointInTriangle
-----------------------------------------------------------------------------
(* isPointInTriangle() against the definition of a triangle.               *)

\* p is the mean of u, v and w with the weights a, b and c.
Mean(p, u, v, w, a, b, c) ==
    /\ (a + b + c) * p.x = a * u.x + b * v.x + c * w.x
    /\ (a + b + c) * p.y = a * u.y + b * v.y + c * w.y

LEMMA MeanTurns ==
    ASSUME NEW p \in IntPoints, NEW u \in IntPoints, NEW v \in IntPoints, NEW w \in IntPoints,
           NEW a \in Int, NEW b \in Int, NEW c \in Int, Mean(p, u, v, w, a, b, c)
    PROVE  Mean(p, v, w, u, b, c, a) /\ Mean(p, u, v, w, -a, -b, -c)
<1>. DEFINE px == p.x  py == p.y  ux == u.x  uy == u.y  vx == v.x  vy == v.y  wx == w.x  wy == w.y
<1>1. /\ px \in Int /\ py \in Int /\ ux \in Int /\ uy \in Int
      /\ vx \in Int /\ vy \in Int /\ wx \in Int /\ wy \in Int
    BY DEF IntPoints
<1>2. (a + b + c) * px = a * ux + b * vx + c * wx /\ (a + b + c) * py = a * uy + b * vy + c * wy
    BY DEF Mean
<1>. HIDE DEF px, py, ux, uy, vx, vy, wx, wy
<1>3. (b + c + a) * px = b * vx + c * wx + a * ux /\ (b + c + a) * py = b * vy + c * wy + a * uy
    BY <1>1, <1>2
<1>4. (-a + -b + -c) * px = (-a) * ux + (-b) * vx + (-c) * wx
    BY <1>1, <1>2
<1>5. (-a + -b + -c) * py = (-a) * uy + (-b) * vy + (-c) * wy
    BY <1>1, <1>2
<1>. QED
    BY <1>3, <1>4, <1>5 DEF Mean, px, py, ux, uy, vx, vy, wx, wy

\* The three signs of a point are its barycentric coordinates, up to the area.
LEMMA SignsOf ==
    ASSUME NEW p \in IntPoints, NEW u \in IntPoints, NEW v \in IntPoints, NEW w \in IntPoints
    PROVE  /\ Sign(u, v, w) \in Int
           /\ Sign(p, v, w) \in Int /\ Sign(p, w, u) \in Int /\ Sign(p, u, v) \in Int
           /\ Sign(p, v, w) + Sign(p, w, u) + Sign(p, u, v) = Sign(u, v, w)
           /\ Mean(p, u, v, w, Sign(p, v, w), Sign(p, w, u), Sign(p, u, v))
<1>. DEFINE px == p.x  py == p.y  ux == u.x  uy == u.y  vx == v.x  vy == v.y  wx == w.x  wy == w.y
            area == Sign(u, v, w)  a == Sign(p, v, w)  b == Sign(p, w, u)  c == Sign(p, u, v)
<1>1. /\ px \in Int /\ py \in Int /\ ux \in Int /\ uy \in Int
      /\ vx \in Int /\ vy \in Int /\ wx \in Int /\ wy \in Int
    BY DEF IntPoints
<1>2. /\ area = (ux - wx) * (vy - wy) - (vx - wx) * (uy - wy)
      /\ c = (px - vx) * (uy - vy) - (ux - vx) * (py - vy)
      /\ a = (px - wx) * (vy - wy) - (vx - wx) * (py - wy)
      /\ b = (px - ux) * (wy - uy) - (wx - ux) * (py - uy)
    BY DEF Sign
<1>. HIDE DEF px, py, ux, uy, vx, vy, wx, wy, area, a, b, c
<1>3. area \in Int /\ a \in Int /\ b \in Int /\ c \in Int
    BY <1>1, <1>2
<1>4. a + b + c = area
    BY <1>1, <1>2, SMTT(30)
<1>5. area * px = a * ux + b * vx + c * wx
    BY <1>1, <1>2, SMTT(60)
<1>6. area * py = a * uy + b * vy + c * wy
    BY <1>1, <1>2, SMTT(60)
<1>7. Mean(p, u, v, w, a, b, c)
    BY <1>4, <1>5, <1>6 DEF Mean, px, py, ux, uy, vx, vy, wx, wy
<1>. QED
    BY <1>3, <1>4, <1>7 DEF area, a, b, c

\* Conversely, weights that make up a point are its signs, up to the area.
LEMMA SignOfWeights ==
    ASSUME NEW p \in IntPoints, NEW u \in IntPoints, NEW v \in IntPoints, NEW w \in IntPoints,
           NEW a \in Int, NEW b \in Int, NEW c \in Int, Mean(p, u, v, w, a, b, c)
    PROVE  (a + b + c) * Sign(p, u, v) = c * Sign(u, v, w)
<1>. DEFINE n == a + b + c
            px == p.x  py == p.y  ux == u.x  uy == u.y  vx == v.x  vy == v.y  wx == w.x  wy == w.y
            g == px - vx  h == py - vy  d == ux - vx  e == uy - vy  k == wx - vx  l == wy - vy
<1>1. /\ px \in Int /\ py \in Int /\ ux \in Int /\ uy \in Int
      /\ vx \in Int /\ vy \in Int /\ wx \in Int /\ wy \in Int
    BY DEF IntPoints
<1>2. Sign(p, u, v) = g * e - d * h
    BY DEF Sign
<1>3. Sign(u, v, w) = (ux - wx) * (vy - wy) - (vx - wx) * (uy - wy)
    BY DEF Sign
<1>4. n * px = a * ux + b * vx + c * wx /\ n * py = a * uy + b * vy + c * wy /\ n \in Int
    BY DEF Mean
<1>. HIDE DEF px, py, ux, uy, vx, vy, wx, wy
<1>5. Sign(u, v, w) = k * e - d * l
    BY <1>1, <1>3, SMTT(30)
<1>6. n * (px - vx) = a * (ux - vx) + c * (wx - vx)
    BY <1>1, <1>4, SMTT(30)
<1>7. n * (py - vy) = a * (uy - vy) + c * (wy - vy)
    BY <1>1, <1>4, SMTT(30)
<1>8. g \in Int /\ h \in Int /\ d \in Int /\ e \in Int /\ k \in Int /\ l \in Int
    BY <1>1
<1>9. n * g = a * d + c * k /\ n * h = a * e + c * l
    BY <1>6, <1>7
<1>. HIDE DEF g, h, d, e, k, l
<1>10. n * (g * e - d * h) = (n * g) * e - d * (n * h)
    <2>. HIDE DEF n
    <2>. QED
        BY <1>4, <1>8, SMTT(30)
<1>11. (a * d + c * k) * e - d * (a * e + c * l) = c * (k * e - d * l)
    BY <1>8, SMTT(30)
<1>12. n * (g * e - d * h) = c * (k * e - d * l)
    BY <1>9, <1>10, <1>11
<1>. QED
    BY <1>2, <1>5, <1>12

\* Turning a triangle turns its signs.
LEMMA SignTurns ==
    ASSUME NEW u \in IntPoints, NEW v \in IntPoints, NEW w \in IntPoints
    PROVE  Sign(v, w, u) = Sign(u, v, w) /\ Sign(w, u, v) = Sign(u, v, w)
<1>. DEFINE ux == u.x  uy == u.y  vx == v.x  vy == v.y  wx == w.x  wy == w.y
<1>1. ux \in Int /\ uy \in Int /\ vx \in Int /\ vy \in Int /\ wx \in Int /\ wy \in Int
    BY DEF IntPoints
<1>2. /\ Sign(u, v, w) = (ux - wx) * (vy - wy) - (vx - wx) * (uy - wy)
      /\ Sign(v, w, u) = (vx - ux) * (wy - uy) - (wx - ux) * (vy - uy)
      /\ Sign(w, u, v) = (wx - vx) * (uy - vy) - (ux - vx) * (wy - vy)
    BY DEF Sign
<1>. HIDE DEF ux, uy, vx, vy, wx, wy
<1>3. (vx - ux) * (wy - uy) - (wx - ux) * (vy - uy) = (ux - wx) * (vy - wy) - (vx - wx) * (uy - wy)
    BY <1>1, SMTT(30)
<1>4. (wx - vx) * (uy - vy) - (ux - vx) * (wy - vy) = (ux - wx) * (vy - wy) - (vx - wx) * (uy - wy)
    BY <1>1, SMTT(30)
<1>. QED
    BY <1>2, <1>3, <1>4

LEMMA MeansOwnSign ==
    ASSUME NEW n \in Int, NEW area \in Int, n > 0, area = n \/ area = -n,
           NEW s \in Int, NEW k \in Int, n * s = k * area
    PROVE  s = (IF area > 0 THEN k ELSE -k)
<1>1. CASE area = n
    <2>1. n * (s - k) = 0
        BY <1>1
    <2>2. s = k
        BY <2>1
    <2>. QED
        BY <1>1, <2>2
<1>2. CASE area = -n
    <2>1. n * (s + k) = 0
        BY <1>2
    <2>2. s = -k
        BY <2>1
    <2>. QED
        BY <1>2, <2>2
<1>. QED
    BY <1>1, <1>2

\* The signs of a point are not mixed exactly when it is a weighted mean of the
\* vertices: isPointInTriangle (rasterizer.cpp:69-81) is right for every triangle of
\* integer vertices that are not on one line, of either winding, on screen or off.
THEOREM InsideIsHit ==
    ASSUME NEW p \in IntPoints, NEW v \in [1 .. 3 -> IntPoints], ~Degenerate(v)
    PROVE  IsPointInTriangle(p, v[1], v[2], v[3]) <=> Inside(p, v)
<1>. DEFINE area == Sign(v[1], v[2], v[3])  n == Denominator(v)
            a == Sign(p, v[2], v[3])  b == Sign(p, v[3], v[1])  c == Sign(p, v[1], v[2])
<1>1. v[1] \in IntPoints /\ v[2] \in IntPoints /\ v[3] \in IntPoints
    OBVIOUS
<1>2. /\ area \in Int /\ a \in Int /\ b \in Int /\ c \in Int
      /\ a + b + c = area
      /\ Mean(p, v[1], v[2], v[3], a, b, c)
    BY <1>1, SignsOf
<1>3. area # 0
    BY DEF Degenerate
<1>4. n = (IF area > 0 THEN area ELSE -area) /\ n \in Int /\ n > 0
    BY <1>2, <1>3 DEF Denominator
<1>5. IsPointInTriangle(p, v[1], v[2], v[3])
        <=> (a >= 0 /\ b >= 0 /\ c >= 0) \/ (a <= 0 /\ b <= 0 /\ c <= 0)
    <2>1. Signs(p, v[1], v[2], v[3]) = {c, a, b}
        BY DEF Signs
    <2>. HIDE DEF a, b, c
    <2>. QED
        BY <1>2, <2>1 DEF IsPointInTriangle
<1>6. Inside(p, v) <=> \E k, l \in 0 .. n : n - k - l >= 0 /\ Mean(p, v[1], v[2], v[3], k, l, n - k - l)
    <2>1. \A k, l \in 0 .. n : k + l + (n - k - l) = n
        BY <1>4
    <2>. HIDE DEF n
    <2>. QED
        BY <2>1 DEF Inside, Mean, n
<1>8. ASSUME IsPointInTriangle(p, v[1], v[2], v[3])
      PROVE  Inside(p, v)
    <2>. HIDE DEF area, n, a, b, c
    <2>1. CASE area > 0
        <3>1. a \in 0 .. n /\ b \in 0 .. n /\ n - a - b = c /\ c >= 0 /\ n = area
            BY <1>2, <1>4, <1>5, <1>8, <2>1
        <3>2. Mean(p, v[1], v[2], v[3], a, b, n - a - b)
            BY <1>2, <3>1
        <3>. QED
            BY <1>6, <3>1, <3>2
    <2>2. CASE area < 0
        <3>1. -a \in 0 .. n /\ -b \in 0 .. n /\ n - (-a) - (-b) = -c /\ -c >= 0 /\ n = -area
            BY <1>2, <1>4, <1>5, <1>8, <2>2
        <3>2. Mean(p, v[1], v[2], v[3], -a, -b, -c)
            BY <1>1, <1>2, MeanTurns
        <3>3. Mean(p, v[1], v[2], v[3], -a, -b, n - (-a) - (-b))
            BY <3>1, <3>2
        <3>. QED
            BY <1>6, <3>1, <3>3
    <2>. QED
        BY <1>2, <1>3, <2>1, <2>2
<1>9. ASSUME Inside(p, v)
      PROVE  IsPointInTriangle(p, v[1], v[2], v[3])
    <2>1. PICK k \in 0 .. n, l \in 0 .. n : n - k - l >= 0 /\ Mean(p, v[1], v[2], v[3], k, l, n - k - l)
        BY <1>6, <1>9
    <2>. DEFINE m == n - k - l
    <2>2. k \in Int /\ l \in Int /\ m \in Int /\ k >= 0 /\ l >= 0 /\ m >= 0 /\ n = k + l + m
        BY <1>4, <2>1
    <2>3. Mean(p, v[1], v[2], v[3], k, l, m)
        BY <2>1
    <2>. HIDE DEF m, n
    <2>4. Mean(p, v[2], v[3], v[1], l, m, k)
        BY <1>1, <2>2, <2>3, MeanTurns
    <2>5. Mean(p, v[3], v[1], v[2], m, k, l)
        BY <1>1, <2>2, <2>4, MeanTurns
    <2>6. n * c = m * area /\ n * a = k * area /\ n * b = l * area
        <3>1. (k + l + m) * c = m * area
            BY <1>1, <2>2, <2>3, SignOfWeights
        <3>2. (l + m + k) * a = k * Sign(v[2], v[3], v[1])
            BY <1>1, <2>2, <2>4, SignOfWeights
        <3>3. (m + k + l) * b = l * Sign(v[3], v[1], v[2])
            BY <1>1, <2>2, <2>5, SignOfWeights
        <3>4. n = l + m + k /\ n = m + k + l
            BY <2>2
        <3>. QED
            BY <1>1, <2>2, <3>1, <3>2, <3>3, <3>4, SignTurns
    <2>. HIDE DEF area, a, b, c
    <2>7. /\ a = (IF area > 0 THEN k ELSE -k)
          /\ b = (IF area > 0 THEN l ELSE -l)
          /\ c = (IF area > 0 THEN m ELSE -m)
        <3>1. area = n \/ area = -n
            BY <1>2, <1>4
        <3>. QED
            BY <1>2, <1>4, <2>2, <2>6, <3>1, MeansOwnSign
    <2>. QED
        BY <1>2, <1>5, <2>2, <2>7
<1>. QED
    BY <1>8, <1>9
-----------------------------------------------------------------------------
(* The loop over the pixels.                                               *)

\* The hits so far are those among the pixels the loop has been at.
LoopInv ==
    /\ vertices \in [1 .. 3 -> Points]
    /\ x \in 0 .. Width /\ y \in 0 .. Height
    /\ y = Height => x = 0

Seen(p) == p.y < y \/ (p.y = y /\ p.x < x)

HitInv ==
    /\ hits \in Seq(Pixels)
    /\ \A p \in Pixels :
        p \in HitPixels <=> Seen(p) /\ IsPointInTriangle(p, vertices[1], vertices[2], vertices[3])

RasterIInv == LoopInv /\ HitInv

LEMMA RasterInit == Init => RasterIInv
<1>. SUFFICES ASSUME Init
              PROVE  RasterIInv
    OBVIOUS
<1>1. Width \in Nat /\ Height \in Nat
    BY RasterAssumption
<1>2. LoopInv
    BY <1>1 DEF Init, LoopInv
<1>3. HitPixels = {}
    BY DEF Init, HitPixels
<1>4. \A p \in Pixels : ~Seen(p)
    BY <1>1 DEF Init, Seen, Pixels
<1>. QED
    BY <1>2, <1>3, <1>4 DEF RasterIInv, HitInv, Init

\* An iteration of the inner loop is at one pixel of the framebuffer.
LEMMA PixelSeen ==
    ASSUME RasterIInv, Pixel
    PROVE  /\ [x |-> x, y |-> y] \in Pixels /\ ~Seen([x |-> x, y |-> y])
           /\ x' = x + 1 /\ x' \in 0 .. Width
           /\ \A p \in Pixels : Seen(p)' <=> Seen(p) \/ p = [x |-> x, y |-> y]
<1>1. Width \in Nat /\ Height \in Nat /\ CoordinateMod \in Nat /\ Width < CoordinateMod
    BY RasterAssumption
<1>2. x \in 0 .. Width - 1 /\ y \in 0 .. Height - 1 /\ y' = y
    BY <1>1 DEF RasterIInv, LoopInv, Pixel
<1>3. x' = x + 1 /\ x' \in 0 .. Width
    BY <1>1, <1>2 DEF Pixel
<1>4. [x |-> x, y |-> y] \in Pixels /\ ~Seen([x |-> x, y |-> y])
    BY <1>2 DEF Pixels, Seen
<1>5. ASSUME NEW p \in Pixels
      PROVE  Seen(p)' <=> Seen(p) \/ p = [x |-> x, y |-> y]
    <2>1. p.x \in Int /\ p.y \in Int /\ (p = [x |-> x, y |-> y] <=> p.x = x /\ p.y = y)
        BY <1>1 DEF Pixels
    <2>. QED
        BY <1>2, <1>3, <2>1 DEF Seen
<1>. QED
    BY <1>3, <1>4, <1>5

LEMMA PixelStep ==
    ASSUME RasterIInv, Pixel
    PROVE  RasterIInv'
<1>. DEFINE here == [x |-> x, y |-> y]
            Hit(p) == IsPointInTriangle(p, vertices[1], vertices[2], vertices[3])
<1>1. y \in 0 .. Height /\ y < Height /\ UNCHANGED <<vertices, y>>
    BY DEF RasterIInv, LoopInv, Pixel
<1>2. here \in Pixels /\ x' \in 0 .. Width /\ \A p \in Pixels : Seen(p)' <=> Seen(p) \/ p = here
    BY PixelSeen
<1>3. LoopInv'
    BY <1>1, <1>2, RasterAssumption DEF RasterIInv, LoopInv
<1>4. hits' = IF Hit(here) THEN Append(hits, here) ELSE hits
    BY DEF Pixel
<1>5. hits \in Seq(Pixels) /\ hits' \in Seq(Pixels)
    BY <1>2, <1>4 DEF RasterIInv, HitInv
<1>6. \A p \in Pixels : p \in HitPixels' <=> p \in HitPixels \/ (Hit(here) /\ p = here)
    <2>1. CASE Hit(here)
        <3>1. /\ Len(hits') = Len(hits) + 1 /\ hits'[Len(hits) + 1] = here
              /\ \A i \in 1 .. Len(hits) : hits'[i] = hits[i]
              /\ Len(hits) \in Nat
            BY <1>4, <1>5, <2>1
        <3>2. 1 .. Len(hits') = 1 .. Len(hits) \cup {Len(hits) + 1}
            BY <3>1
        <3>. QED
            BY <2>1, <3>1, <3>2 DEF HitPixels
    <2>2. CASE ~Hit(here)
        BY <1>4, <2>2 DEF HitPixels
    <2>. QED
        BY <2>1, <2>2
<1>7. \A p \in Pixels :
        p \in HitPixels' <=> Seen(p)' /\ IsPointInTriangle(p, vertices'[1], vertices'[2], vertices'[3])
    <2>1. \A p \in Pixels : p \in HitPixels <=> Seen(p) /\ Hit(p)
        BY DEF RasterIInv, HitInv
    <2>. QED
        BY <1>1, <1>2, <1>6, <2>1
<1>. QED
    BY <1>3, <1>5, <1>7 DEF RasterIInv, HitInv

LEMMA RowStep ==
    ASSUME RasterIInv, Row
    PROVE  RasterIInv' /\ \A p \in Pixels : Seen(p)' <=> Seen(p)
<1>1. Width \in Nat /\ Height \in Nat /\ CoordinateMod \in Nat /\ Height < CoordinateMod
    BY RasterAssumption
<1>2. x = Width /\ y \in 0 .. Height - 1 /\ x' = 0 /\ UNCHANGED <<vertices, hits>>
    BY <1>1 DEF RasterIInv, LoopInv, Row
<1>3. y' = y + 1
    BY <1>1, <1>2 DEF Row
<1>4. LoopInv'
    BY <1>1, <1>2, <1>3 DEF RasterIInv, LoopInv
<1>5. \A p \in Pixels : Seen(p)' <=> Seen(p)
    BY <1>1, <1>2, <1>3 DEF Seen, Pixels
<1>. QED
    BY <1>2, <1>4, <1>5 DEF RasterIInv, HitInv, HitPixels

\* At any time the rasterizer has passed on exactly those of the pixels it has been
\* at that are hit, none of them outside the framebuffer (rasterizer.cpp:35-50).
THEOREM LoopIsExact == Spec => []RasterIInv
<1>1. RasterIInv /\ [Next]_vars => RasterIInv'
    <2>. SUFFICES ASSUME RasterIInv, [Next]_vars
                  PROVE  RasterIInv'
        OBVIOUS
    <2>1. CASE UNCHANGED vars
        BY <2>1 DEF vars, RasterIInv, LoopInv, HitInv, HitPixels, Seen
    <2>. QED
        BY <2>1, PixelStep, RowStep DEF Next
<1>. QED
    BY <1>1, RasterInit, PTL DEF Spec

LEMMA HitsFollow == RasterIInv => HitsAreInside
<1>. SUFFICES ASSUME RasterIInv, Finished, ~Degenerate(vertices)
              PROVE  HitPixels = {p \in Pixels : Inside(p, vertices)}
    BY DEF HitsAreInside
<1>1. Width \in Nat /\ Height \in Nat
    BY RasterAssumption
<1>2. \A p \in Pixels : Seen(p)
    BY <1>1 DEF Pixels, Seen, Finished, RasterIInv, LoopInv
<1>3. vertices \in [1 .. 3 -> IntPoints]
    BY RasterAssumption DEF RasterIInv, LoopInv, Points, IntPoints
<1>4. Pixels \subseteq IntPoints
    BY <1>1 DEF Pixels, IntPoints
<1>5. \A p \in Pixels : IsPointInTriangle(p, vertices[1], vertices[2], vertices[3]) <=> Inside(p, vertices)
    BY <1>3, <1>4, InsideIsHit
<1>6. HitPixels \subseteq Pixels
    BY DEF HitPixels, RasterIInv, HitInv
<1>. QED
    BY <1>2, <1>5, <1>6 DEF RasterIInv, HitInv

\* A proper triangle of either winding hits exactly the pixels of the framebuffer
\* that are inside it or on its edges, for any framebuffer and any integer vertices.
THEOREM HitsExact == Spec => []HitsAreInside
BY LoopIsExact, HitsFollow, PTL

-----------------------------------------------------------------------------
(***************************************************************************)
(* FragmentStage.                                                          *)
(***************************************************************************)

(* The inductive invariant behind the four invariants.                     *)

\* Each signal is up exactly while its thread waits for the other one.
SignalsInv ==
    /\ attribsSending <=> rsPhase = "offer"
    /\ attribsReceiving <=> perTrianglePhase = "ask"
    /\ fragmentSending <=> rsPhase = "fragment"
    /\ fragmentReceiving <=> fsPhase \in {"ask", "stall"}
    /\ rsPhase \in {"offer", "stream"} => attribsData = current
    /\ rsPhase = "fragment" =>
        fragmentData \in Fragments /\ fragmentData.triangle = current /\ fragmentData.rank <= pixels

\* Rasterizer and perTriangleThread stream in step, and what has been streamed is
\* in place before the first fragment is offered.
AttribsInv ==
    /\ rsPhase = "vertices" => package \in 1 .. VertexPackages - 1
    /\ rsPhase = "offer" => package = 1
    /\ rsPhase = "stream" => package \in 2 .. AttribPackages /\ package = perTrianglePackages + 1
    /\ rsPhase = "stream" <=> perTrianglePhase = "stream"
    /\ perTrianglePhase = "ask" => perTrianglePackages = 0
    /\ perTrianglePhase = "stream" => \A k \in 1 .. perTrianglePackages : perTriangleReceived[k] = current
    /\ rsPhase = "fragment" => \A k \in Packages : perTriangleAttribs[k] = current

\* The fragment shader does not wait in vain for a fragment within a triangle.
PromptInv == rsPhase = "fragment" /\ fragmentData.rank > 1 => fsPhase # "stall"

Follows(f, g) == f = [g EXCEPT !.rank = @ + 1]

\* With a timeout the fragment shader waits less than two ticks for a batch to go
\* on, in which the rasterizer has not come to the next triangle.
BatchInv ==
    /\ batch \in Seq(Fragments)
    /\ fsPhase \in {"ask", "stall"} => Len(batch) < BatchSize
    /\ timeout > 0 => clocksWaiting = 1
    /\ timeout > 0 /\ batch # <<>> =>
        /\ fsPhase = "ask" => \/ rsPhase = "top"
                              \/ rsPhase = "fragment" /\ Follows(fragmentData, batch[Len(batch)])
        /\ fsPhase = "stall" => rsPhase = "receive"
        /\ fsPhase \in {"ask", "stall"} =>
            \A i \in 1 .. Len(batch) : \A k \in Packages : perTriangleAttribs[k] = batch[i].triangle

StageIInv ==
    /\ TypeOK /\ SignalsInv /\ AttribsInv /\ PromptInv /\ BatchInv
    /\ BatchOfOneTriangle /\ OwnAttributes

-----------------------------------------------------------------------------
LEMMA PackageNumbers ==
    ASSUME custom \in Nat
    PROVE  /\ AttribPackages \in Nat /\ AttribPackages >= 3
           /\ VertexPackages \in Nat /\ VertexPackages >= 1
           /\ MaxPackages \in Nat /\ AttribPackages <= MaxPackages /\ VertexPackages <= MaxPackages
BY DEF AttribPackages, VertexPackages, MaxPackages

\* Fragments of a triangle that hits n pixels.
LEMMA FragmentOf ==
    ASSUME NEW t \in Numbers, NEW n \in 0 .. MaxPixels, NEW rank \in 1 .. n
    PROVE  [triangle |-> t, rank |-> rank] \in Fragments
BY StageAssumption DEF Fragments, Numbers

-----------------------------------------------------------------------------
(* The rasterizer and perTriangleThread, whatever perFragmentThread does.  *)

RsTypeOK ==
    /\ custom \in CustomComponents /\ timeout \in Timeouts
    /\ rsPhase \in {"top", "receive", "vertices", "offer", "stream", "fragment"}
    /\ current \in Numbers
    /\ pixels \in 0 .. MaxPixels
    /\ package \in 0 .. MaxPackages
    /\ attribsSending \in BOOLEAN /\ attribsData \in Numbers \cup {Nothing}
    /\ fragmentSending \in BOOLEAN /\ fragmentData \in Fragments \cup {Nothing}

PtTypeOK ==
    /\ attribsReceiving \in BOOLEAN
    /\ perTriangleReceived \in Attribs /\ perTriangleAttribs \in Attribs
    /\ perTrianglePhase \in {"top", "ask", "stream"}
    /\ perTrianglePackages \in 0 .. AttribPackages

RsSignals ==
    /\ attribsSending <=> rsPhase = "offer"
    /\ fragmentSending <=> rsPhase = "fragment"
    /\ rsPhase \in {"offer", "stream"} => attribsData = current
    /\ rsPhase = "fragment" =>
        fragmentData \in Fragments /\ fragmentData.triangle = current /\ fragmentData.rank <= pixels
    /\ rsPhase = "vertices" => package \in 1 .. VertexPackages - 1
    /\ rsPhase = "offer" => package = 1
    /\ rsPhase = "stream" => package \in 2 .. AttribPackages

PtInv ==
    /\ attribsReceiving <=> perTrianglePhase = "ask"
    /\ rsPhase = "stream" => package = perTrianglePackages + 1
    /\ rsPhase = "stream" <=> perTrianglePhase = "stream"
    /\ perTrianglePhase = "ask" => perTrianglePackages = 0
    /\ perTrianglePhase = "stream" => \A k \in 1 .. perTrianglePackages : perTriangleReceived[k] = current
    /\ rsPhase = "fragment" => \A k \in Packages : perTriangleAttribs[k] = current

LEMMA TypeSplit == TypeOK => RsTypeOK /\ PtTypeOK /\ request \in Attribs
BY DEF TypeOK, RsTypeOK, PtTypeOK

\* What comes of rasterize() going on with the pixel of that rank.
LEMMA RasterizeKeeps ==
    ASSUME RsTypeOK, NEW rank \in Nat \ {0}, RasterizeFrom(rank), UNCHANGED <<custom, timeout>>
    PROVE  /\ RsTypeOK' /\ RsSignals'
           /\ \/ rsPhase' = "top"
              \/ rsPhase' = "fragment" /\ fragmentData' = [triangle |-> current, rank |-> rank]
<1>1. custom \in Nat /\ MaxPixels \in Nat
    BY StageAssumption DEF RsTypeOK
<1>2. AttribPackages' = AttribPackages /\ VertexPackages' = VertexPackages /\ MaxPackages' = MaxPackages
    BY DEF AttribPackages, VertexPackages, MaxPackages
<1>3. AttribPackages \in Nat /\ VertexPackages \in Nat /\ MaxPackages \in Nat
    BY <1>1, PackageNumbers
<1>4. CASE /\ rank <= pixels
           /\ rsPhase' = "fragment"
           /\ fragmentSending' = TRUE
           /\ fragmentData' = [triangle |-> current, rank |-> rank]
    <2>1. fragmentData' \in Fragments
        <3>1. rank \in 1 .. pixels
            BY <1>4 DEF RsTypeOK
        <3>. QED
            BY <1>4, <3>1, FragmentOf DEF RsTypeOK
    <2>2. RsTypeOK'
        <3>1. custom' \in CustomComponents /\ timeout' \in Timeouts
            BY DEF RsTypeOK
        <3>2. current' \in Numbers /\ pixels' \in 0 .. MaxPixels
            BY DEF RsTypeOK, RasterizeFrom
        <3>3. package' \in 0 .. MaxPackages'
            BY <1>2, <1>3 DEF RasterizeFrom
        <3>4. attribsSending' \in BOOLEAN /\ attribsData' \in Numbers \cup {Nothing}
            BY DEF RasterizeFrom
        <3>. QED
            BY <1>4, <2>1, <3>1, <3>2, <3>3, <3>4 DEF RsTypeOK
    <2>3. RsSignals'
        BY <1>4, <2>1 DEF RsSignals, RasterizeFrom
    <2>. QED
        BY <1>4, <2>2, <2>3
<1>5. CASE rank > pixels /\ Done
    <2>1. RsTypeOK'
        <3>1. package' \in 0 .. MaxPackages'
            BY <1>2, <1>3 DEF RasterizeFrom
        <3>2. fragmentData' \in Fragments \cup {Nothing}
            BY <1>5 DEF Done
        <3>. QED
            BY <1>5, <3>1, <3>2 DEF RsTypeOK, RasterizeFrom, Done
    <2>2. RsSignals'
        BY <1>5 DEF RsSignals, RasterizeFrom, Done
    <2>. QED
        BY <1>5, <2>1, <2>2 DEF Done
<1>. QED
    BY <1>4, <1>5 DEF RasterizeFrom

LEMMA RasterizerStep ==
    ASSUME RsTypeOK, RsSignals, RasterizerTick, UNCHANGED <<custom, timeout>>
    PROVE  /\ RsTypeOK' /\ RsSignals'
           /\ rsPhase = "top" => rsPhase' = "receive"
           /\ rsPhase \in {"receive", "vertices"} => rsPhase' \notin {"stream", "fragment"}
           /\ rsPhase = "offer" => IF attribsReceiving
                                   THEN rsPhase' = "stream" /\ package' = 2 /\ current' = current
                                   ELSE rsPhase' = "offer" /\ current' = current
           /\ rsPhase = "stream" =>
                /\ current' = current
                /\ IF package < AttribPackages
                   THEN rsPhase' = "stream" /\ package' = package + 1
                   ELSE rsPhase' = "top" \/ (rsPhase' = "fragment" /\ fragmentData'.rank = 1)
           /\ rsPhase = "fragment" =>
                /\ current' = current
                /\ IF fragmentReceiving
                   THEN \/ rsPhase' = "top"
                        \/ rsPhase' = "fragment" /\ Follows(fragmentData', fragmentData)
                   ELSE rsPhase' = "fragment" /\ fragmentData' = fragmentData
<1>1. custom \in Nat /\ MaxPixels \in Nat /\ Triangles \in Nat \ {0}
    BY StageAssumption DEF RsTypeOK
<1>2. AttribPackages' = AttribPackages /\ VertexPackages' = VertexPackages /\ MaxPackages' = MaxPackages
    BY DEF AttribPackages, VertexPackages, MaxPackages
<1>3. /\ AttribPackages \in Nat /\ AttribPackages >= 3 /\ VertexPackages \in Nat /\ VertexPackages >= 1
      /\ MaxPackages \in Nat /\ AttribPackages <= MaxPackages /\ VertexPackages <= MaxPackages
    BY <1>1, PackageNumbers
<1>. USE <1>1, <1>2, <1>3
<1>4. CASE RasterizerTop
    BY <1>4 DEF RasterizerTop, RsTypeOK, RsSignals
<1>5. CASE RasterizerWaits
    BY <1>5 DEF RasterizerWaits, rsVars, RsTypeOK, RsSignals
<1>6. CASE RasterizerReceives
    <2>1. current' \in Numbers
        <3>1. current + 1 \in Nat
            BY DEF RsTypeOK, Numbers
        <3>2. \A n \in Nat : n % Triangles \in 0 .. Triangles - 1
            OBVIOUS
        <3>. QED
            BY <1>6, <3>1, <3>2 DEF RasterizerReceives, Numbers
    <2>2. package' \in 0 .. MaxPackages' /\ pixels' \in 0 .. MaxPixels
        BY <1>6 DEF RasterizerReceives, OfferAttribs, RsTypeOK
    <2>3. RsTypeOK'
        BY <1>6, <2>1, <2>2 DEF RasterizerReceives, OfferAttribs, RsTypeOK
    <2>4. RsSignals'
        BY <1>6 DEF RasterizerReceives, OfferAttribs, RsSignals
    <2>. QED
        BY <1>6, <2>3, <2>4 DEF RasterizerReceives, OfferAttribs
<1>7. CASE RasterizerReceivesMore
    <2>1. package \in Nat
        BY DEF RsTypeOK
    <2>2. package' \in 0 .. MaxPackages'
        BY <1>7, <2>1 DEF RasterizerReceivesMore, OfferAttribs
    <2>3. RsTypeOK'
        BY <1>7, <2>2 DEF RasterizerReceivesMore, OfferAttribs, RsTypeOK
    <2>4. RsSignals'
        BY <1>7, <2>1 DEF RasterizerReceivesMore, OfferAttribs, RsSignals
    <2>. QED
        BY <1>7, <2>3, <2>4 DEF RasterizerReceivesMore, OfferAttribs
<1>8. CASE RasterizerOffers
    BY <1>8 DEF RasterizerOffers, rsVars, RsTypeOK, RsSignals
<1>9. CASE RasterizerStreams
    <2>1. CASE /\ package < AttribPackages
               /\ rsPhase' = "stream"
               /\ package' = package + 1
               /\ attribsSending' = FALSE
               /\ UNCHANGED <<attribsData, current, pixels, fragmentSending, fragmentData>>
        <3>1. package \in Nat /\ package' \in 0 .. MaxPackages'
            BY <2>1 DEF RsTypeOK
        <3>2. RsTypeOK'
            BY <2>1, <3>1 DEF RsTypeOK
        <3>3. RsSignals'
            BY <1>9, <2>1, <3>1 DEF RasterizerStreams, RsSignals
        <3>. QED
            BY <1>9, <2>1, <3>2, <3>3 DEF RasterizerStreams, RsSignals
    <2>2. CASE package = AttribPackages /\ RasterizeFrom(1)
        <3>1. /\ RsTypeOK' /\ RsSignals'
              /\ \/ rsPhase' = "top"
                 \/ rsPhase' = "fragment" /\ fragmentData' = [triangle |-> current, rank |-> 1]
            BY <2>2, RasterizeKeeps
        <3>2. current' = current
            BY <2>2 DEF RasterizeFrom
        <3>3. rsPhase = "stream"
            BY <1>9, <2>2 DEF RasterizerStreams, RsSignals
        <3>. QED
            BY <2>2, <3>1, <3>2, <3>3
    <2>. QED
        BY <1>9, <2>1, <2>2 DEF RasterizerStreams
<1>10. CASE RasterizerHolds
    BY <1>10 DEF RasterizerHolds, rsVars, RsTypeOK, RsSignals
<1>11. CASE RasterizerPasses
    <2>. PICK r : r = fragmentData.rank + 1
        OBVIOUS
    <2>1. rsPhase = "fragment" /\ fragmentReceiving /\ RasterizeFrom(r)
        BY <1>11 DEF RasterizerPasses
    <2>2. fragmentData \in Fragments /\ fragmentData.triangle = current /\ r \in Nat \ {0}
        BY <2>1 DEF RsSignals, Fragments
    <2>3. /\ RsTypeOK' /\ RsSignals'
          /\ \/ rsPhase' = "top"
             \/ rsPhase' = "fragment" /\ fragmentData' = [triangle |-> current, rank |-> r]
        BY <2>1, <2>2, RasterizeKeeps
    <2>4. current' = current
        BY <2>1 DEF RasterizeFrom
    <2>5. fragmentData' = [triangle |-> current, rank |-> r] => Follows(fragmentData', fragmentData)
        BY <2>2 DEF Follows, Fragments
    <2>. QED
        BY <2>1, <2>3, <2>4, <2>5
<1>. QED
    BY <1>4, <1>5, <1>6, <1>7, <1>8, <1>9, <1>10, <1>11 DEF RasterizerTick

\* The receive of a package, whatever its number.
LEMMA PackageArrives ==
    ASSUME PtTypeOK, RsTypeOK, RsSignals, PtInv, TakeAttribs, UNCHANGED <<custom, timeout>>,
           NEW n \in Packages, n = perTrianglePackages + 1, rsPhase \in {"offer", "stream"},
           rsPhase = "offer" => n = 1
    PROVE  /\ PtTypeOK'
           /\ perTrianglePackages' = n /\ attribsReceiving' = FALSE
           /\ \A k \in 1 .. n : perTriangleReceived'[k] = current
           /\ IF n < AttribPackages
              THEN perTrianglePhase' = "stream" /\ perTriangleAttribs' = perTriangleAttribs
              ELSE perTrianglePhase' = "top" /\ \A k \in Packages : perTriangleAttribs'[k] = current
<1>1. custom \in Nat
    BY StageAssumption DEF RsTypeOK
<1>2. AttribPackages' = AttribPackages /\ Packages' = Packages /\ Attribs' = Attribs
    BY DEF AttribPackages, Packages, Attribs
<1>3. AttribPackages \in Nat /\ AttribPackages >= 3
    BY <1>1, PackageNumbers
<1>4. n \in Nat /\ n >= 1 /\ n <= AttribPackages /\ Packages = 1 .. AttribPackages
    BY <1>3 DEF Packages
<1>5. attribsData = current /\ current \in Numbers
    BY DEF RsSignals, RsTypeOK
<1>6. perTrianglePackages' = n /\ attribsReceiving' = FALSE
    BY DEF TakeAttribs
<1>7. perTriangleReceived' = [perTriangleReceived EXCEPT ![n] = current]
    BY <1>5, <1>6 DEF TakeAttribs
<1>8. perTriangleReceived \in [Packages -> Numbers \cup {Nothing}]
    BY DEF PtTypeOK, Attribs
<1>9. perTriangleReceived' \in Attribs
    <2>1. perTriangleReceived' \in [Packages -> Numbers \cup {Nothing}]
        BY <1>5, <1>7, <1>8
    <2>. QED
        BY <2>1 DEF Attribs
<1>10. \A k \in 1 .. n : perTriangleReceived'[k] = current
    <2>. SUFFICES ASSUME NEW k \in 1 .. n
                  PROVE  perTriangleReceived'[k] = current
        OBVIOUS
    <2>1. k \in Packages
        BY <1>3, <1>4
    <2>2. CASE k = n
        BY <2>1, <2>2, <1>7, <1>8
    <2>3. CASE k # n
        <3>1. perTrianglePackages \in Nat /\ k \in 1 .. perTrianglePackages
            BY <2>3, <1>4 DEF PtTypeOK
        <3>2. rsPhase = "stream"
            BY <2>3, <1>4
        <3>3. perTriangleReceived[k] = current
            BY <3>1, <3>2 DEF PtInv
        <3>. QED
            BY <2>1, <2>3, <3>3, <1>7, <1>8
    <2>. QED
        BY <2>2, <2>3
<1>11. CASE n < AttribPackages
    <2>1. perTrianglePhase' = "stream" /\ perTriangleAttribs' = perTriangleAttribs
        BY <1>3, <1>4, <1>6, <1>11 DEF TakeAttribs
    <2>2. PtTypeOK'
        <3>1. perTrianglePackages' \in 0 .. AttribPackages'
            BY <1>2, <1>3, <1>4, <1>6
        <3>2. perTriangleReceived' \in Attribs' /\ perTriangleAttribs' \in Attribs'
            BY <1>2, <1>9, <2>1 DEF PtTypeOK
        <3>. QED
            BY <1>6, <2>1, <3>1, <3>2 DEF PtTypeOK
    <2>. QED
        BY <1>6, <1>10, <1>11, <2>1, <2>2
<1>12. CASE n = AttribPackages
    <2>1. perTrianglePhase' = "top" /\ perTriangleAttribs' = perTriangleReceived'
        BY <1>3, <1>4, <1>6, <1>12 DEF TakeAttribs
    <2>2. PtTypeOK'
        <3>1. perTrianglePackages' \in 0 .. AttribPackages'
            BY <1>2, <1>3, <1>4, <1>6
        <3>2. perTriangleReceived' \in Attribs' /\ perTriangleAttribs' \in Attribs'
            BY <1>2, <1>9, <2>1 DEF PtTypeOK
        <3>. QED
            BY <1>6, <2>1, <3>1, <3>2 DEF PtTypeOK
    <2>. QED
        BY <1>3, <1>4, <1>6, <1>10, <1>12, <2>1, <2>2
<1>13. n < AttribPackages \/ n = AttribPackages
    BY <1>3, <1>4
<1>. QED
    BY <1>11, <1>12, <1>13

\* Both sides of the per-triangle channel stay in step.
LEMMA PerTriangleStep ==
    ASSUME RsTypeOK, RsSignals, PtTypeOK, PtInv, RasterizerTick, PerTriangleTick,
           UNCHANGED <<custom, timeout>>
    PROVE  PtTypeOK' /\ PtInv' /\ (rsPhase # "stream" => perTriangleAttribs' = perTriangleAttribs)
<1>1. custom \in Nat
    BY StageAssumption DEF RsTypeOK
<1>2. AttribPackages' = AttribPackages /\ Packages' = Packages /\ Attribs' = Attribs
    BY DEF AttribPackages, Packages, Attribs
<1>3. AttribPackages \in Nat /\ AttribPackages >= 3 /\ Packages = 1 .. AttribPackages
    BY <1>1, PackageNumbers DEF Packages
<1>4. perTrianglePackages \in Nat
    BY <1>3 DEF PtTypeOK
<1>5. /\ RsTypeOK' /\ RsSignals'
      /\ rsPhase = "top" => rsPhase' = "receive"
      /\ rsPhase \in {"receive", "vertices"} => rsPhase' \notin {"stream", "fragment"}
      /\ rsPhase = "offer" => IF attribsReceiving
                              THEN rsPhase' = "stream" /\ package' = 2 /\ current' = current
                              ELSE rsPhase' = "offer" /\ current' = current
      /\ rsPhase = "stream" =>
           /\ current' = current
           /\ IF package < AttribPackages
              THEN rsPhase' = "stream" /\ package' = package + 1
              ELSE rsPhase' = "top" \/ (rsPhase' = "fragment" /\ fragmentData'.rank = 1)
      /\ rsPhase = "fragment" =>
           /\ current' = current
           /\ rsPhase' \in {"top", "fragment"}
    BY RasterizerStep
<1>6. rsPhase \in {"top", "receive", "vertices", "offer", "stream", "fragment"}
    BY DEF RsTypeOK
<1>7. CASE PerTriangleTop
    <2>1. rsPhase # "stream" /\ rsPhase' # "stream"
        BY <1>5, <1>6, <1>7 DEF PerTriangleTop, PtInv
    <2>2. PtTypeOK'
        BY <1>2, <1>3, <1>7 DEF PerTriangleTop, PtTypeOK
    <2>3. rsPhase' = "fragment" => \A k \in Packages' : perTriangleAttribs'[k] = current'
        BY <1>2, <1>5, <1>6, <1>7, <2>1 DEF PerTriangleTop, PtInv
    <2>4. PtInv'
        BY <1>7, <2>1, <2>3 DEF PerTriangleTop, PtInv
    <2>. QED
        BY <1>7, <2>2, <2>4 DEF PerTriangleTop
<1>8. CASE PerTriangleWaits
    <2>1. rsPhase # "stream" /\ rsPhase' # "stream"
        BY <1>5, <1>6, <1>8 DEF PerTriangleWaits, PtInv, RsSignals
    <2>2. PtTypeOK'
        BY <1>2, <1>3, <1>8 DEF PerTriangleWaits, perTriangleVars, PtTypeOK
    <2>3. rsPhase' = "fragment" => \A k \in Packages' : perTriangleAttribs'[k] = current'
        BY <1>2, <1>5, <1>6, <1>8, <2>1 DEF PerTriangleWaits, perTriangleVars, PtInv
    <2>4. PtInv'
        BY <1>8, <2>1, <2>3 DEF PerTriangleWaits, perTriangleVars, PtInv
    <2>. QED
        BY <1>8, <2>2, <2>4 DEF PerTriangleWaits, perTriangleVars
<1>9. CASE PerTriangleReceives
    <2>. PICK n \in Nat : n = perTrianglePackages + 1
        BY <1>4
    <2>1. \/ rsPhase = "offer" /\ attribsReceiving /\ n = 1
          \/ rsPhase = "stream" /\ package = n
        BY <1>9 DEF PerTriangleReceives, PtInv, RsSignals
    <2>2. n \in Packages
        BY <1>3, <2>1 DEF RsSignals
    <2>3. /\ PtTypeOK'
          /\ perTrianglePackages' = n /\ attribsReceiving' = FALSE
          /\ \A k \in 1 .. n : perTriangleReceived'[k] = current
          /\ IF n < AttribPackages
             THEN perTrianglePhase' = "stream" /\ perTriangleAttribs' = perTriangleAttribs
             ELSE perTrianglePhase' = "top" /\ \A k \in Packages : perTriangleAttribs'[k] = current
        BY <1>9, <2>1, <2>2, PackageArrives DEF PerTriangleReceives
    <2>4. CASE n < AttribPackages
        <3>1. rsPhase' = "stream" /\ package' = n + 1 /\ current' = current
            BY <1>5, <2>1, <2>4
        <3>2. PtInv'
            BY <2>3, <2>4, <3>1 DEF PtInv
        <3>3. rsPhase # "stream" => perTriangleAttribs' = perTriangleAttribs
            BY <2>3, <2>4
        <3>. QED
            BY <2>3, <3>2, <3>3
    <2>5. CASE n = AttribPackages
        <3>1. rsPhase = "stream" /\ rsPhase' \in {"top", "fragment"} /\ current' = current
            BY <1>3, <1>5, <2>1, <2>5
        <3>2. PtInv'
            BY <1>2, <2>3, <2>5, <3>1 DEF PtInv
        <3>. QED
            BY <2>3, <3>1, <3>2
    <2>. QED
        BY <1>3, <2>2, <2>4, <2>5
<1>. QED
    BY <1>7, <1>8, <1>9 DEF PerTriangleTick

-----------------------------------------------------------------------------
(* perFragmentThread, given what the others do in the same tick.           *)

FsTypeOK ==
    /\ fragmentReceiving \in BOOLEAN
    /\ fsPhase \in {"top", "ask", "stall", "shade", "output"}
    /\ clocksWaiting \in 1 .. timeout + 1
    /\ batch \in Seq(Fragments) /\ Len(batch) <= BatchSize
    /\ request \in Attribs
    /\ delay \in 1 .. MaxDelay
    /\ outFragments \in 0 .. BatchSize

FsInv ==
    /\ fragmentReceiving <=> fsPhase \in {"ask", "stall"}
    /\ PromptInv /\ BatchInv /\ BatchOfOneTriangle /\ OwnAttributes

\* Of the tick of the others, what perFragmentThread can notice.
OthersMove ==
    /\ rsPhase = "top" => rsPhase' = "receive"
    /\ rsPhase = "fragment" =>
         IF fragmentReceiving
         THEN \/ rsPhase' = "top"
              \/ rsPhase' = "fragment" /\ Follows(fragmentData', fragmentData)
         ELSE rsPhase' = "fragment" /\ fragmentData' = fragmentData
    /\ rsPhase' = "fragment" /\ rsPhase # "fragment" => fragmentData'.rank = 1
    /\ rsPhase # "stream" => perTriangleAttribs' = perTriangleAttribs

Others == RsTypeOK /\ RsSignals /\ PtTypeOK /\ PtInv

LEMMA OthersStep ==
    ASSUME Others, RasterizerTick, PerTriangleTick, UNCHANGED <<custom, timeout>>
    PROVE  Others' /\ OthersMove
<1>1. /\ RsTypeOK' /\ RsSignals'
      /\ rsPhase = "top" => rsPhase' = "receive"
      /\ rsPhase \in {"receive", "vertices"} => rsPhase' \notin {"stream", "fragment"}
      /\ rsPhase = "offer" => rsPhase' \in {"stream", "offer"}
      /\ rsPhase = "stream" =>
           IF package < AttribPackages
           THEN rsPhase' = "stream"
           ELSE rsPhase' = "top" \/ (rsPhase' = "fragment" /\ fragmentData'.rank = 1)
      /\ rsPhase = "fragment" =>
           IF fragmentReceiving
           THEN \/ rsPhase' = "top"
                \/ rsPhase' = "fragment" /\ Follows(fragmentData', fragmentData)
           ELSE rsPhase' = "fragment" /\ fragmentData' = fragmentData
    BY RasterizerStep DEF Others
<1>2. PtTypeOK' /\ PtInv' /\ (rsPhase # "stream" => perTriangleAttribs' = perTriangleAttribs)
    BY PerTriangleStep DEF Others
<1>3. rsPhase \in {"top", "receive", "vertices", "offer", "stream", "fragment"}
    BY DEF Others, RsTypeOK
<1>4. rsPhase' = "fragment" /\ rsPhase # "fragment" => fragmentData'.rank = 1
    BY <1>1, <1>3
<1>. QED
    BY <1>1, <1>2, <1>4 DEF Others, OthersMove

\* The one ordering fact between the rasterizer's fragments and the waiting for
\* them: only the first fragment of a triangle finds the fragment shader stalled.
LEMMA PromptStep ==
    ASSUME Others, FsTypeOK, FsInv, OthersMove, PerFragmentTick
    PROVE  PromptInv'
<1>. SUFFICES ASSUME rsPhase' = "fragment", fragmentData'.rank > 1, fsPhase' = "stall"
              PROVE  FALSE
    BY DEF PromptInv
<1>1. ~fragmentSending
    BY DEF PerFragmentTick, FragmentTop, FragmentAsks, FragmentWaits, FragmentCancels,
           FragmentDelayed, FragmentShaded, FragmentOutput, FragmentTaken, FragmentStalls, Ask,
           Shade
<1>2. rsPhase # "fragment"
    BY <1>1 DEF Others, RsSignals
<1>. QED
    BY <1>2 DEF OthersMove

\* A batch that is longer by one fragment.
LEMMA LongerBatch ==
    ASSUME NEW b \in Seq(Fragments), NEW f \in Fragments
    PROVE  /\ Append(b, f) \in Seq(Fragments)
           /\ Len(Append(b, f)) = Len(b) + 1 /\ Append(b, f) # <<>>
           /\ Len(b) \in Nat
           /\ Append(b, f)[Len(b) + 1] = f
           /\ \A i \in 1 .. Len(b) : Append(b, f)[i] = b[i]
OBVIOUS

\* What is so for the batch and the attributes once a fragment has been taken.
LEMMA TakenStep ==
    ASSUME Others, FsTypeOK, FsInv, OthersMove, FragmentTaken, fsPhase \in {"ask", "stall"},
           timeout > 0 => fsPhase = "ask",
           UNCHANGED <<custom, timeout>>
    PROVE  FsTypeOK' /\ (PromptInv' => FsInv')
<1>1. rsPhase = "fragment" /\ fragmentReceiving
    BY DEF FragmentTaken, Others, RsSignals, FsInv
<1>2. fragmentData \in Fragments /\ fragmentData.triangle = current
    BY <1>1 DEF Others, RsSignals
<1>3. batch \in Seq(Fragments) /\ BatchSize \in Nat /\ Len(batch) < BatchSize /\ MaxDelay \in Nat
    BY StageAssumption DEF FsTypeOK, FsInv, BatchInv
<1>. DEFINE n == Len(batch)
<1>4. /\ batch' \in Seq(Fragments) /\ Len(batch') = n + 1 /\ batch' # <<>> /\ n \in Nat
      /\ batch'[n + 1] = fragmentData
      /\ \A i \in 1 .. n : batch'[i] = batch[i]
    BY <1>2, <1>3, LongerBatch DEF FragmentTaken
<1>. HIDE DEF n
<1>5. timeout \in Nat
    BY StageAssumption DEF Others, RsTypeOK
<1>6. Attribs' = Attribs /\ Packages' = Packages
    BY DEF Attribs, Packages, AttribPackages
<1>7. /\ clocksWaiting' = 1
      /\ \/ /\ fsPhase' = "ask" /\ fragmentReceiving' = TRUE /\ Len(batch') < BatchSize
            /\ UNCHANGED <<request, delay, outFragments>>
         \/ /\ fsPhase' = "shade" /\ fragmentReceiving' = FALSE /\ request' = perTriangleAttribs
            /\ delay' \in 1 .. MaxDelay /\ outFragments' = outFragments
    BY DEF FragmentTaken, Ask, Shade
<1>8. FsTypeOK'
    <2>1. clocksWaiting' \in 1 .. timeout' + 1
        BY <1>5, <1>7
    <2>2. Len(batch') <= BatchSize
        BY <1>3, <1>4 DEF n
    <2>3. request' \in Attribs'
        BY <1>6, <1>7 DEF FsTypeOK, Others, PtTypeOK
    <2>4. delay' \in 1 .. MaxDelay /\ outFragments' \in 0 .. BatchSize
        BY <1>7 DEF FsTypeOK
    <2>. QED
        BY <1>4, <1>7, <2>1, <2>2, <2>3, <2>4 DEF FsTypeOK
<1>9. perTriangleAttribs' = perTriangleAttribs /\ \A k \in Packages : perTriangleAttribs[k] = current
    BY <1>1 DEF OthersMove, Others, PtInv
<1>10. timeout > 0 => \A i \in 1 .. n + 1 : \A k \in Packages : perTriangleAttribs[k] = batch'[i].triangle
    <2>. SUFFICES ASSUME timeout > 0, NEW i \in 1 .. n + 1, NEW k \in Packages
                  PROVE  perTriangleAttribs[k] = batch'[i].triangle
        OBVIOUS
    <2>1. CASE i = n + 1
        BY <1>2, <1>4, <1>9, <2>1
    <2>2. CASE i # n + 1
        <3>1. i \in 1 .. n /\ batch # <<>>
            BY <1>3, <1>4, <2>2 DEF n
        <3>2. perTriangleAttribs[k] = batch[i].triangle
            BY <3>1 DEF FsInv, BatchInv, n
        <3>. QED
            BY <1>4, <3>1, <3>2
    <2>. QED
        BY <2>1, <2>2
<1>11. BatchOfOneTriangle'
    <2>. SUFFICES ASSUME timeout > 0, NEW i \in 2 .. n + 1
                  PROVE  batch'[i] = [batch'[i - 1] EXCEPT !.rank = @ + 1]
        BY <1>4 DEF BatchOfOneTriangle
    <2>1. i - 1 \in 1 .. n
        BY <1>4
    <2>2. CASE i = n + 1
        <3>1. batch # <<>>
            BY <1>3, <2>1 DEF n
        <3>2. Follows(fragmentData, batch[n])
            BY <1>1, <3>1 DEF FsInv, BatchInv, n
        <3>3. batch'[i - 1] = batch[n] /\ batch'[i] = fragmentData
            BY <1>4, <2>1, <2>2
        <3>. QED
            BY <3>2, <3>3 DEF Follows
    <2>3. CASE i # n + 1
        <3>1. i \in 2 .. n
            BY <1>4, <2>3
        <3>2. batch[i] = [batch[i - 1] EXCEPT !.rank = @ + 1]
            BY <3>1 DEF FsInv, BatchOfOneTriangle, n
        <3>3. batch'[i] = batch[i] /\ batch'[i - 1] = batch[i - 1]
            BY <1>4, <2>1, <3>1
        <3>. QED
            BY <3>2, <3>3
    <2>. QED
        BY <2>2, <2>3
<1>12. OwnAttributes'
    <2>1. fsPhase' \in {"shade", "output"} => request' = perTriangleAttribs
        BY <1>7
    <2>. QED
        BY <1>4, <1>6, <1>10, <2>1 DEF OwnAttributes
<1>13. BatchInv'
    <2>1. timeout > 0 /\ fsPhase' = "ask" =>
            \/ rsPhase' = "top"
            \/ rsPhase' = "fragment" /\ Follows(fragmentData', batch'[Len(batch')])
        BY <1>1, <1>4 DEF OthersMove
    <2>2. timeout > 0 =>
            \A i \in 1 .. Len(batch') : \A k \in Packages' : perTriangleAttribs'[k] = batch'[i].triangle
        BY <1>4, <1>6, <1>9, <1>10
    <2>. QED
        BY <1>4, <1>7, <2>1, <2>2 DEF BatchInv
<1>. QED
    BY <1>7, <1>8, <1>11, <1>12, <1>13 DEF FsInv

\* With a timeout the counter of the receive never gets beyond 1: the comparison
\* cancels the receive in the first tick in which it stalls.
LEMMA StallIsCancelled ==
    ASSUME Others, FsInv, timeout > 0
    PROVE  TimesOut
<1>1. timeout \in Nat /\ timeout # 1 /\ clocksWaiting = 1
    BY StageAssumption DEF Others, RsTypeOK, FsInv, BatchInv
<1>. QED
    BY <1>1 DEF TimesOut

\* The receive that finds no fragment in its first tick.
LEMMA StallStep ==
    ASSUME Others, FsTypeOK, FsInv, OthersMove, fsPhase = "ask", FragmentStalls,
           UNCHANGED <<custom, timeout, clocksWaiting>>
    PROVE  FsTypeOK' /\ (PromptInv' => FsInv')
<1>1. rsPhase # "fragment" /\ fragmentReceiving /\ fragmentReceiving' = fragmentReceiving
    BY DEF FragmentStalls, Others, RsSignals, FsInv
<1>2. fsPhase' = "stall" /\ batch' = batch /\ request' = request
    BY DEF FragmentStalls
<1>3. Attribs' = Attribs /\ Packages' = Packages
    BY DEF Attribs, Packages, AttribPackages
<1>4. FsTypeOK'
    BY <1>1, <1>2, <1>3 DEF FragmentStalls, FsTypeOK
<1>5. BatchInv'
    <2>1. timeout > 0 /\ batch # <<>> =>
            /\ rsPhase = "top" /\ rsPhase' = "receive"
            /\ perTriangleAttribs' = perTriangleAttribs
            /\ \A i \in 1 .. Len(batch) : \A k \in Packages : perTriangleAttribs[k] = batch[i].triangle
        BY <1>1 DEF FsInv, BatchInv, OthersMove
    <2>. QED
        BY <1>1, <1>2, <1>3, <2>1 DEF FsInv, BatchInv
<1>6. BatchOfOneTriangle' /\ OwnAttributes'
    BY <1>2 DEF FsInv, BatchOfOneTriangle, OwnAttributes
<1>. QED
    BY <1>1, <1>2, <1>4, <1>5, <1>6 DEF FsInv

\* The receive that goes on waiting, which is without a timeout.
LEMMA WaitStep ==
    ASSUME Others, FsTypeOK, FsInv, OthersMove, fsPhase = "stall", ~TimesOut, FragmentStalls,
           clocksWaiting' = IF clocksWaiting > timeout THEN clocksWaiting ELSE clocksWaiting + 1,
           UNCHANGED <<custom, timeout>>
    PROVE  FsTypeOK' /\ (PromptInv' => FsInv')
<1>1. timeout \in Nat /\ ~(timeout > 0)
    BY StallIsCancelled, StageAssumption DEF Others, RsTypeOK
<1>2. fsPhase' = "stall" /\ batch' = batch /\ request' = request /\ fragmentReceiving' = fragmentReceiving
    BY DEF FragmentStalls
<1>3. Attribs' = Attribs /\ Packages' = Packages
    BY DEF Attribs, Packages, AttribPackages
<1>4. clocksWaiting' \in 1 .. timeout' + 1
    BY <1>1 DEF FsTypeOK
<1>5. FsTypeOK'
    BY <1>2, <1>3, <1>4 DEF FragmentStalls, FsTypeOK
<1>6. BatchInv' /\ BatchOfOneTriangle' /\ OwnAttributes'
    BY <1>1, <1>2 DEF FsInv, BatchInv, BatchOfOneTriangle, OwnAttributes
<1>. QED
    BY <1>2, <1>5, <1>6 DEF FsInv

\* The receive that is cancelled.
LEMMA CancelStep ==
    ASSUME Others, FsTypeOK, FsInv, OthersMove, FragmentCancels, UNCHANGED <<custom, timeout>>
    PROVE  FsTypeOK' /\ (PromptInv' => FsInv')
<1>1. timeout \in Nat /\ batch' = batch /\ fsPhase = "stall" /\ fragmentReceiving' = FALSE /\ clocksWaiting' = 1
    BY StageAssumption DEF FragmentCancels, Shade, Others, RsTypeOK
<1>2. Attribs' = Attribs /\ Packages' = Packages
    BY DEF Attribs, Packages, AttribPackages
<1>3. clocksWaiting' \in 1 .. timeout' + 1
    BY <1>1
<1>4. CASE batch # <<>> /\ Shade
    <2>1. fsPhase' = "shade" /\ request' = perTriangleAttribs /\ delay' \in 1 .. MaxDelay /\ outFragments' = outFragments
        BY <1>4 DEF Shade
    <2>2. request' \in Attribs'
        BY <1>2, <2>1 DEF Others, PtTypeOK
    <2>3. FsTypeOK'
        BY <1>1, <1>3, <2>1, <2>2 DEF FsTypeOK
    <2>4. timeout > 0 => \A i \in 1 .. Len(batch) : \A k \in Packages : request'[k] = batch[i].triangle
        BY <1>1, <1>4, <2>1 DEF FsInv, BatchInv
    <2>5. BatchInv' /\ BatchOfOneTriangle' /\ OwnAttributes'
        BY <1>1, <1>2, <2>1, <2>4 DEF FsInv, BatchInv, BatchOfOneTriangle, OwnAttributes
    <2>. QED
        BY <1>1, <2>1, <2>3, <2>5 DEF FsInv
<1>5. CASE /\ batch = <<>>
           /\ fsPhase' = "top"
           /\ fragmentReceiving' = FALSE
           /\ clocksWaiting' = 1
           /\ UNCHANGED <<request, delay, outFragments>>
    <2>1. FsTypeOK'
        BY <1>1, <1>2, <1>3, <1>5 DEF FsTypeOK
    <2>2. BatchInv' /\ BatchOfOneTriangle' /\ OwnAttributes'
        BY <1>1, <1>5 DEF FsInv, BatchInv, BatchOfOneTriangle, OwnAttributes
    <2>. QED
        BY <1>5, <2>1, <2>2 DEF FsInv
<1>. QED
    BY <1>4, <1>5 DEF FragmentCancels

\* Between the receive of one batch and the next.
LEMMA ServeStep ==
    ASSUME Others, FsTypeOK, FsInv, OthersMove, FragmentDelayed \/ FragmentShaded \/ FragmentOutput,
           UNCHANGED <<custom, timeout>>
    PROVE  FsTypeOK' /\ (PromptInv' => FsInv')
<1>1. /\ fsPhase \in {"shade", "output"} /\ fsPhase' \in {"top", "shade", "output"}
      /\ batch' = batch /\ request' = request /\ clocksWaiting' = clocksWaiting
      /\ fragmentReceiving' = fragmentReceiving
    BY DEF FragmentDelayed, FragmentShaded, FragmentOutput
<1>2. Attribs' = Attribs /\ Packages' = Packages
    BY DEF Attribs, Packages, AttribPackages
<1>3. BatchSize \in Nat /\ MaxDelay \in Nat /\ Len(batch) \in Nat
    BY StageAssumption DEF FsTypeOK
<1>4. delay' \in 1 .. MaxDelay
    BY <1>3 DEF FragmentDelayed, FragmentShaded, FragmentOutput, FsTypeOK
<1>5. outFragments' \in 0 .. BatchSize
    BY <1>3 DEF FragmentDelayed, FragmentShaded, FragmentOutput, FsTypeOK
<1>6. FsTypeOK'
    BY <1>1, <1>2, <1>4, <1>5 DEF FsTypeOK
<1>7. BatchInv' /\ BatchOfOneTriangle' /\ OwnAttributes'
    BY <1>1, <1>2 DEF FsInv, BatchInv, BatchOfOneTriangle, OwnAttributes
<1>. QED
    BY <1>1, <1>6, <1>7 DEF FsInv

\* The next batch.
LEMMA TopStep ==
    ASSUME Others, FsTypeOK, FsInv, OthersMove, FragmentTop, UNCHANGED <<custom, timeout>>
    PROVE  FsTypeOK' /\ (PromptInv' => FsInv')
<1>1. /\ timeout \in Nat /\ batch' = <<>> /\ fsPhase' = "ask" /\ fragmentReceiving' = TRUE /\ clocksWaiting' = 1
      /\ UNCHANGED <<request, delay, outFragments>>
    BY StageAssumption DEF FragmentTop, FirstBatch, Ask, Others, RsTypeOK
<1>2. Attribs' = Attribs
    BY DEF Attribs, Packages, AttribPackages
<1>3. clocksWaiting' \in 1 .. timeout' + 1
    BY <1>1
<1>4. batch' \in Seq(Fragments) /\ Len(batch') = 0 /\ BatchSize \in Nat \ {0}
    BY <1>1, StageAssumption
<1>5. FsTypeOK'
    BY <1>1, <1>2, <1>3, <1>4 DEF FsTypeOK
<1>6. BatchInv' /\ BatchOfOneTriangle' /\ OwnAttributes'
    BY <1>1, <1>4 DEF FsInv, BatchInv, BatchOfOneTriangle, OwnAttributes
<1>. QED
    BY <1>1, <1>5, <1>6 DEF FsInv

LEMMA PerFragmentStep ==
    ASSUME Others, FsTypeOK, FsInv, OthersMove, PerFragmentTick, UNCHANGED <<custom, timeout>>
    PROVE  FsTypeOK' /\ FsInv'
<1>1. PromptInv'
    BY PromptStep
<1>2. CASE FragmentTop
    BY <1>1, <1>2, TopStep
<1>3. CASE FragmentAsks
    <2>1. CASE FragmentTaken
        BY <1>1, <1>3, <2>1, TakenStep DEF FragmentAsks
    <2>2. CASE FragmentStalls /\ UNCHANGED clocksWaiting
        BY <1>1, <1>3, <2>2, StallStep DEF FragmentAsks
    <2>. QED
        BY <1>3, <2>1, <2>2 DEF FragmentAsks
<1>4. CASE FragmentWaits
    <2>1. CASE FragmentTaken
        BY <1>1, <1>4, <2>1, TakenStep, StallIsCancelled DEF FragmentWaits
    <2>2. CASE /\ FragmentStalls
               /\ clocksWaiting' = IF clocksWaiting > timeout THEN clocksWaiting ELSE clocksWaiting + 1
        BY <1>1, <1>4, <2>2, WaitStep DEF FragmentWaits
    <2>. QED
        BY <1>4, <2>1, <2>2 DEF FragmentWaits
<1>5. CASE FragmentCancels
    BY <1>1, <1>5, CancelStep
<1>6. CASE FragmentDelayed \/ FragmentShaded \/ FragmentOutput
    BY <1>1, <1>6, ServeStep
<1>. QED
    BY <1>2, <1>3, <1>4, <1>5, <1>6 DEF PerFragmentTick

-----------------------------------------------------------------------------
(* The theorems.                                                           *)

\* The inductive invariant, in the parts above and in those of the model.
LEMMA InvSplit == StageIInv <=> Others /\ FsTypeOK /\ FsInv
<1>1. StageIInv => Others /\ FsTypeOK /\ FsInv
    BY DEF StageIInv, TypeOK, SignalsInv, AttribsInv, Others, RsTypeOK, PtTypeOK, RsSignals, PtInv,
           FsTypeOK, FsInv, BatchInv
<1>2. Others /\ FsTypeOK /\ FsInv => StageIInv
    <2>. SUFFICES ASSUME Others, FsTypeOK, FsInv
                  PROVE  StageIInv
        OBVIOUS
    <2>1. \A i \in 1 .. Len(batch) : batch[i] \in Fragments
        BY DEF FsTypeOK
    <2>2. TypeOK
        BY <2>1 DEF TypeOK, Others, RsTypeOK, PtTypeOK, FsTypeOK
    <2>3. SignalsInv /\ AttribsInv
        BY DEF SignalsInv, AttribsInv, Others, RsSignals, PtInv, FsInv
    <2>. QED
        BY <2>2, <2>3 DEF StageIInv, FsInv
<1>. QED
    BY <1>1, <1>2

LEMMA StageBegins == StageInit => StageIInv
<1>. SUFFICES ASSUME StageInit
              PROVE  Others /\ FsTypeOK /\ FsInv
    BY InvSplit
<1>1. custom \in Nat /\ timeout \in Nat
    BY StageAssumption DEF StageInit
<1>2. AttribPackages \in Nat /\ MaxPackages \in Nat
    BY <1>1, PackageNumbers
<1>3. 0 \in Numbers
    BY StageAssumption DEF Numbers
<1>4. [k \in Packages |-> Nothing] \in Attribs
    BY DEF Attribs
<1>5. Others
    <2>1. 0 \in 0 .. MaxPackages /\ 0 \in 0 .. AttribPackages /\ 0 \in 0 .. MaxPixels
        BY <1>2, StageAssumption
    <2>2. RsTypeOK
        BY <1>3, <2>1 DEF StageInit, RsTypeOK
    <2>3. PtTypeOK
        BY <1>4, <2>1 DEF StageInit, PtTypeOK
    <2>4. RsSignals /\ PtInv
        BY DEF StageInit, RsSignals, PtInv
    <2>. QED
        BY <2>2, <2>3, <2>4 DEF Others
<1>6. batch \in Seq(Fragments) /\ Len(batch) = 0
    BY DEF StageInit
<1>7. FsTypeOK
    <2>1. 1 \in 1 .. timeout + 1 /\ 1 \in 1 .. MaxDelay /\ 0 \in 0 .. BatchSize /\ 0 <= BatchSize
        BY <1>1, StageAssumption
    <2>. QED
        BY <1>4, <1>6, <2>1 DEF StageInit, FsTypeOK
<1>8. FsInv
    BY <1>6 DEF StageInit, FsInv, PromptInv, BatchInv, BatchOfOneTriangle, OwnAttributes
<1>. QED
    BY <1>5, <1>7, <1>8

\* A tick of the three threads.
LEMMA StageNext == StageIInv /\ [Tick]_stageVars => StageIInv'
<1>. SUFFICES ASSUME StageIInv, [Tick]_stageVars
              PROVE  StageIInv'
    OBVIOUS
<1>1. CASE Tick
    <2>1. Others /\ FsTypeOK /\ FsInv
        BY InvSplit
    <2>2. RasterizerTick /\ PerTriangleTick /\ PerFragmentTick /\ UNCHANGED <<custom, timeout>>
        BY <1>1 DEF Tick
    <2>3. Others' /\ OthersMove
        BY <2>1, <2>2, OthersStep
    <2>4. FsTypeOK' /\ FsInv'
        BY <2>1, <2>2, <2>3, PerFragmentStep
    <2>5. (Others /\ FsTypeOK /\ FsInv => StageIInv)'
        BY InvSplit, PTL
    <2>. QED
        BY <2>3, <2>4, <2>5
<1>2. CASE UNCHANGED stageVars
    BY <1>2 DEF stageVars, rsVars, perTriangleVars, perFragmentVars, StageIInv, TypeOK, SignalsInv, AttribsInv,
        PromptInv, BatchInv, BatchOfOneTriangle, OwnAttributes, Attribs, Packages, AttribPackages,
        VertexPackages, MaxPackages
<1>. QED
    BY <1>1, <1>2

\* The invariant that the others follow from: the signals say what their threads
\* do, both sides of the per-triangle channel stream in step, and the fragment
\* shader with a batch begun waits less time than the rasterizer needs to come
\* to the next triangle.
THEOREM StageInvariant == StageSpec => []StageIInv
    BY StageBegins, StageNext, PTL DEF StageSpec

\* A fragment is lost between two batches or not at all: with the code's timeout of 5
\* (or any but 1) the fragment shader never gives up on a batch it has begun in the
\* tick in which the rasterizer offers the next fragment (fragment_shader.cpp:55).
THEOREM BetweenBatches == StageSpec => []LostBetweenBatches
<1>1. StageIInv => LostBetweenBatches
    <2>. SUFFICES ASSUME StageIInv, Passes, ~Takes
                  PROVE  timeout > 0 /\ batch = <<>>
        BY DEF LostBetweenBatches
    <2>1. /\ rsPhase = "fragment" /\ fsPhase = "stall" /\ TimesOut
          /\ clocksWaiting \in 1 .. timeout + 1 /\ timeout \in Nat
        BY StageAssumption DEF StageIInv, SignalsInv, TypeOK, Passes, Takes
    <2>2. timeout > 0
        BY <2>1 DEF TimesOut
    <2>. QED
        BY <2>1, <2>2 DEF StageIInv, BatchInv
<1>. QED
    BY <1>1, StageInvariant, PTL

\* The timeout can lose the first fragment of a triangle and no other.
THEOREM FirstIsLost == StageSpec => []OnlyFirstIsLost
<1>1. StageIInv => OnlyFirstIsLost
    <2>. SUFFICES ASSUME StageIInv, Passes, ~Takes
                  PROVE  fragmentData.rank = 1
        BY DEF OnlyFirstIsLost
    <2>1. fragmentSending /\ fsPhase \in {"ask", "stall"} /\ fragmentData \in Fragments
        BY DEF StageIInv, SignalsInv, Passes
    <2>2. fsPhase = "stall" /\ fragmentData.rank \in Nat /\ fragmentData.rank >= 1
        BY <2>1 DEF Takes, Fragments
    <2>. QED
        BY <2>2 DEF StageIInv, PromptInv, Passes
<1>. QED
    BY <1>1, StageInvariant, PTL

\* With the timeout a batch holds consecutive fragments of one triangle.
THEOREM OneTriangle == StageSpec => []BatchOfOneTriangle
    BY StageInvariant, PTL DEF StageIInv

\* With the timeout a batch is shaded with the attributes of its own triangle,
\* complete and not yet those of the next.
THEOREM OwnAttributesSent == StageSpec => []OwnAttributes
    BY StageInvariant, PTL DEF StageIInv

\* The type invariant.
THEOREM StageTypes == StageSpec => []TypeOK
    BY StageInvariant, PTL DEF StageIInv

-----------------------------------------------------------------------------
(***************************************************************************)
(* Picture.                                                                *)
(***************************************************************************)

(* The inductive invariant behind MergesAtomically.                        *)

PictureFragments == [x : 0 .. Width - 1, y : 0 .. Height - 1, z : Depths, color : Colors]

PictureTypeOK ==
    /\ x \in Nat /\ y \in Nat /\ hits \in Seq(Pixels)
    /\ triangles \in Seq(FlatTriangles) /\ triangle \in 1 .. Len(triangles)
    /\ shaded \in Seq(PictureFragments)
    /\ at \in Stages /\ depthTest \in BOOLEAN
    /\ at # "fragment" => fragment \in PictureFragments

\* Depths are in the one buffer and colours in the other.
BufferInv ==
    /\ memory \in [Addresses(DepthAddress) \cup Addresses(FramebufferAddress) -> Depths \cup Colors]
    /\ \A p \in Pixels : DepthOf(p) \in Depths /\ ColorOf(p) \in Colors

\* A fragment that has passed the depth test is still nearer when it is written:
\* nobody else writes the depth buffer meanwhile.
PassedInv ==
    /\ at \in {"depth", "depthWritten"} => depthTest
    /\ at = "depthWritten" => fragment.z < DepthOf(fragment)

PictureIInv == PictureTypeOK /\ BufferInv /\ PassedInv
-----------------------------------------------------------------------------
(* The inductive invariant behind NearestTakenIsSeen.  A fragment does not *)
(* say which triangle it is of; of[i] says it for the fragment at place i  *)
(* of those that are still to be merged, place 0 being the output merger.  *)

Covers(t, p) ==
    IsPointInTriangle(p, triangles[t].vertices[1], triangles[t].vertices[2], triangles[t].vertices[3])

\* The pixel's fragment of the triangle comes to the output merger some time.
Comes(t, p) == Covers(t, p) /\ <<t, p>> \notin lost

\* The rasterizer has been at pixel p for triangle t.
Scanned(t, p) == t < triangle \/ (t = triangle /\ Seen(p))

Waiting == (IF at \in {"depth", "depthWritten"} THEN 0 ELSE 1) .. Len(shaded)

Item(i) == IF i = 0 THEN fragment ELSE shaded[i]

WaitsAt(i, p) == Item(i).x = p.x /\ Item(i).y = p.y

\* What is waiting has been hit, and comes in the order of the triangles.
QueueInv(of) ==
    \A i \in Waiting :
        /\ Item(i).z = triangles[of[i]].z /\ Item(i).color = triangles[of[i]].color
        /\ \A p \in Pixels : WaitsAt(i, p) =>
            /\ Scanned(of[i], p) /\ Comes(of[i], p)
            /\ \A j \in Waiting : i < j /\ WaitsAt(j, p) => of[i] < of[j]

Merged(of, p) ==
    {t \in DOMAIN triangles :
        Scanned(t, p) /\ Comes(t, p) /\ \A i \in Waiting : ~(WaitsAt(i, p) /\ of[i] = t)}

MergedFirst(of) ==
    \A p \in Pixels : \A t \in Merged(of, p) : \A i \in Waiting : WaitsAt(i, p) => t < of[i]

\* Of the triangles of ts that can be seen, s is the one that is.
IsSeen(s, ts) ==
    /\ s \in ts /\ (depthTest => triangles[s].z < Far)
    /\ \A t \in ts :
        IF depthTest
        THEN triangles[s].z < triangles[t].z \/ (triangles[s].z = triangles[t].z /\ s <= t)
        ELSE t <= s

\* The pixel p is what merging the triangles ts in their order makes of it.
IsRight(p, ts) ==
    \/ /\ \A t \in ts : depthTest /\ triangles[t].z >= Far
       /\ Shown(p) = [z |-> Far, color |-> Background]
    \/ \E s \in ts :
        /\ IsSeen(s, ts)
        /\ Shown(p) = [z |-> IF depthTest THEN triangles[s].z ELSE Far, color |-> triangles[s].color]

SeenInv ==
    \E of \in [0 .. Len(shaded) -> DOMAIN triangles] :
        /\ QueueInv(of) /\ MergedFirst(of)
        /\ \A p \in Pixels : IsRight(p, Merged(of, p))

ScanInv ==
    /\ vertices = triangles[triangle].vertices
    /\ RasterIInv

\* A fragment is lost when the rasterizer comes to it, not before.
LostInv == \A t \in DOMAIN triangles : \A p \in Pixels : <<t, p>> \in lost => Scanned(t, p)

SeenIInv == PictureIInv /\ ScanInv /\ LostInv /\ SeenInv

-----------------------------------------------------------------------------
(* The buffers: a dword for each pixel.                                    *)

Index(p) == p.y * Width + p.x

Cell(base, p) == base \div 4 + Index(p)

LEMMA PixelNumbers ==
    ASSUME NEW p \in Pixels
    PROVE  p.x \in 0 .. Width - 1 /\ p.y \in 0 .. Height - 1 /\ Width \in Nat /\ Height \in Nat
BY RasterAssumption DEF Pixels

LEMMA IndexInside ==
    ASSUME NEW p \in Pixels
    PROVE  Index(p) \in 0 .. Width * Height - 1
<1>. DEFINE px == p.x  py == p.y
<1>1. px \in 0 .. Width - 1 /\ py \in 0 .. Height - 1 /\ Width \in Nat /\ Height \in Nat
    BY PixelNumbers
<1>. HIDE DEF px, py
<1>2. py * Width <= (Height - 1) * Width /\ py * Width \in Nat
    BY <1>1
<1>3. (Height - 1) * Width = Width * Height - Width /\ Width * Height \in Nat
    BY <1>1
<1>4. py * Width + px \in 0 .. Width * Height - 1
    BY <1>1, <1>2, <1>3
<1>. QED
    BY <1>4 DEF Index, px, py

\* No two pixels share a dword.
LEMMA IndexInjective ==
    ASSUME NEW p \in Pixels, NEW q \in Pixels, Index(p) = Index(q)
    PROVE  p = q
<1>. DEFINE px == p.x  py == p.y  qx == q.x  qy == q.y
<1>1. /\ px \in 0 .. Width - 1 /\ py \in 0 .. Height - 1
      /\ qx \in 0 .. Width - 1 /\ qy \in 0 .. Height - 1
      /\ Width \in Nat
    BY PixelNumbers
<1>2. py * Width + px = qy * Width + qx
    BY DEF Index
<1>. HIDE DEF px, py, qx, qy
<1>3. (py - qy) * Width = qx - px
    BY <1>1, <1>2
<1>4. py = qy
    <2>1. CASE py > qy
        <3>1. (py - qy) * Width >= Width
            BY <1>1, <2>1
        <3>. QED
            BY <1>1, <1>3, <3>1
    <2>2. CASE py < qy
        <3>1. (py - qy) * Width <= -Width
            BY <1>1, <2>2
        <3>. QED
            BY <1>1, <1>3, <3>1
    <2>. QED
        BY <1>1, <2>1, <2>2
<1>5. px = qx
    BY <1>1, <1>3, <1>4
<1>. QED
    BY <1>4, <1>5 DEF Pixels, px, py, qx, qy

\* The dword the output merger computes for a fragment is that of its pixel.
LEMMA PixelIndexIs ==
    ASSUME NEW base \in Nat, NEW p \in Pixels, NEW f, f.x = p.x, f.y = p.y
    PROVE  PixelIndex(base, f) = Cell(base, p)
<1>1. Index(p) \in Nat
    BY IndexInside, PixelNumbers
<1>2. PixelIndex(base, f) = (base + Index(p) * 4) \div 4
    BY BuffersAssumption DEF PixelIndex, Index
<1>. HIDE DEF Index
<1>. QED
    BY <1>1, <1>2 DEF Cell

LEMMA CellNumbers ==
    ASSUME NEW base \in Nat, NEW p \in Pixels
    PROVE  /\ Cell(base, p) \in Addresses(base)
           /\ base \div 4 + p.y * Width + p.x = Cell(base, p)
           /\ \A q \in Pixels : Cell(base, q) = Cell(base, p) => q = p
<1>1. base \div 4 \in Nat
    OBVIOUS
<1>2. p.y * Width \in Nat /\ p.x \in Nat
    BY PixelNumbers
<1>3. base \div 4 + p.y * Width + p.x = Cell(base, p)
    BY <1>1, <1>2 DEF Cell, Index
<1>4. Cell(base, p) \in Addresses(base)
    BY IndexInside DEF Cell, Addresses
<1>5. ASSUME NEW q \in Pixels, Cell(base, q) = Cell(base, p)
      PROVE  q = p
    <2>1. Index(q) \in Int /\ Index(p) \in Int
        BY IndexInside
    <2>2. Index(q) = Index(p)
        BY <1>1, <1>5, <2>1 DEF Cell
    <2>. QED
        BY <2>2, IndexInjective
<1>. QED
    BY <1>3, <1>4, <1>5

\* A write to the dword of a pixel changes that pixel in one of the buffers.
LEMMA WriteCell ==
    ASSUME BufferInv, NEW base \in {DepthAddress, FramebufferAddress}, NEW p \in Pixels,
           NEW v, v \in IF base = DepthAddress THEN Depths ELSE Colors,
           memory' = [memory EXCEPT ![Cell(base, p)] = v]
    PROVE  /\ \A q \in Pixels : DepthOf(q)' = IF base = DepthAddress /\ q = p THEN v ELSE DepthOf(q)
           /\ \A q \in Pixels : ColorOf(q)' = IF base = FramebufferAddress /\ q = p THEN v ELSE ColorOf(q)
           /\ BufferInv'
<1>. DEFINE dwords == Addresses(DepthAddress) \cup Addresses(FramebufferAddress)
<1>1. DepthAddress \in Nat /\ FramebufferAddress \in Nat /\ base \in Nat
    BY BuffersAssumption
<1>2. Addresses(DepthAddress) \cap Addresses(FramebufferAddress) = {}
    BY BuffersAssumption
<1>3. \A q \in Pixels :
        /\ Cell(DepthAddress, q) \in Addresses(DepthAddress)
        /\ Cell(FramebufferAddress, q) \in Addresses(FramebufferAddress)
        /\ Cell(base, q) = Cell(base, p) => q = p
    BY <1>1, CellNumbers
<1>4. \A q \in Pixels :
        /\ DepthOf(q) = memory[Cell(DepthAddress, q)]
        /\ ColorOf(q) = memory[Cell(FramebufferAddress, q)]
    BY <1>1, CellNumbers DEF DepthOf, ColorOf
<1>5. \A q \in Pixels :
        /\ DepthOf(q)' = memory'[Cell(DepthAddress, q)]
        /\ ColorOf(q)' = memory'[Cell(FramebufferAddress, q)]
    BY <1>1, CellNumbers DEF DepthOf, ColorOf
<1>6. memory \in [dwords -> Depths \cup Colors]
    BY DEF BufferInv
<1>7. memory' \in [dwords -> Depths \cup Colors]
    BY <1>6
<1>8. \A a \in dwords : memory'[a] = IF a = Cell(base, p) THEN v ELSE memory[a]
    BY <1>6
<1>9. \A q \in Pixels : DepthOf(q)' = IF base = DepthAddress /\ q = p THEN v ELSE DepthOf(q)
    <2>1. ASSUME NEW q \in Pixels
          PROVE  DepthOf(q)' = IF base = DepthAddress /\ q = p THEN v ELSE DepthOf(q)
        <3>1. CASE base = DepthAddress
            BY <1>3, <1>4, <1>5, <1>8, <3>1
        <3>2. CASE base # DepthAddress
            <4>1. Cell(DepthAddress, q) # Cell(base, p)
                BY <1>2, <1>3, <3>2
            <4>. QED
                BY <1>3, <1>4, <1>5, <1>8, <3>2, <4>1
        <3>. QED
            BY <3>1, <3>2
    <2>. QED
        BY <2>1
<1>10. \A q \in Pixels : ColorOf(q)' = IF base = FramebufferAddress /\ q = p THEN v ELSE ColorOf(q)
    <2>1. ASSUME NEW q \in Pixels
          PROVE  ColorOf(q)' = IF base = FramebufferAddress /\ q = p THEN v ELSE ColorOf(q)
        <3>1. CASE base = FramebufferAddress
            BY <1>3, <1>4, <1>5, <1>8, <3>1
        <3>2. CASE base # FramebufferAddress
            <4>1. Cell(FramebufferAddress, q) # Cell(base, p)
                BY <1>2, <1>3, <3>2
            <4>. QED
                BY <1>3, <1>4, <1>5, <1>8, <3>2, <4>1
        <3>. QED
            BY <3>1, <3>2
    <2>. QED
        BY <2>1
<1>11. DepthAddress # FramebufferAddress
    BY <1>2, <1>3
<1>12. \A q \in Pixels : DepthOf(q)' \in Depths /\ ColorOf(q)' \in Colors
    BY <1>9, <1>10, <1>11 DEF BufferInv
<1>. QED
    BY <1>7, <1>9, <1>10, <1>12 DEF BufferInv

\* Where the memory stays as it is, so do the buffers.
LEMMA SameBuffers ==
    ASSUME BufferInv, UNCHANGED memory
    PROVE  BufferInv' /\ \A q : DepthOf(q)' = DepthOf(q) /\ ColorOf(q)' = ColorOf(q)
BY DEF BufferInv, DepthOf, ColorOf
-----------------------------------------------------------------------------
(* The invariant.                                                          *)

\* The pixel of a fragment.
PixelOf(f) == [x |-> f.x, y |-> f.y]

LEMMA FragmentPixel ==
    ASSUME NEW f \in PictureFragments
    PROVE  PixelOf(f) \in Pixels /\ PixelOf(f).x = f.x /\ PixelOf(f).y = f.y
BY DEF PictureFragments, Pixels, PixelOf

\* Before a draw each pixel is as cleared.
LEMMA Cleared ==
    ASSUME InitDraw
    PROVE  /\ memory \in [Addresses(DepthAddress) \cup Addresses(FramebufferAddress) -> Depths \cup Colors]
           /\ Far \in Depths /\ Background \in Colors
           /\ \A p \in Pixels : /\ DepthOf(p) = Far /\ ColorOf(p) = Background
                                /\ Shown(p) = [z |-> Far, color |-> Background]
<1>. DEFINE dwords == Addresses(DepthAddress) \cup Addresses(FramebufferAddress)
<1>1. /\ memory = [a \in dwords |-> IF a \in Addresses(DepthAddress) THEN Far ELSE Background]
      /\ at = "fragment"
    BY DEF InitDraw
<1>2. Far \in Depths /\ Background \in Colors
    BY DrawsAssumption
<1>3. ASSUME NEW p \in Pixels
      PROVE  DepthOf(p) = Far /\ ColorOf(p) = Background
    <2>1. /\ DepthOf(p) = memory[Cell(DepthAddress, p)]
          /\ ColorOf(p) = memory[Cell(FramebufferAddress, p)]
          /\ Cell(DepthAddress, p) \in Addresses(DepthAddress)
          /\ Cell(FramebufferAddress, p) \in Addresses(FramebufferAddress)
        BY CellNumbers, BuffersAssumption DEF DepthOf, ColorOf
    <2>2. Cell(FramebufferAddress, p) \notin Addresses(DepthAddress)
        BY <2>1, BuffersAssumption
    <2>. QED
        BY <1>1, <2>1, <2>2
<1>. QED
    BY <1>1, <1>2, <1>3 DEF Shown

LEMMA PictureInit == InitDraw => PictureIInv
<1>. SUFFICES ASSUME InitDraw
              PROVE  PictureIInv
    OBVIOUS
<1>1. PICK draw \in Draws :
        /\ triangles = draw.triangles /\ depthTest = draw.depthTest
        /\ triangle = 1 /\ x = 0 /\ y = 0 /\ hits = <<>> /\ shaded = <<>> /\ at = "fragment"
    BY DEF InitDraw
<1>2. PictureTypeOK
    <2>1. triangles \in Seq(FlatTriangles) /\ triangles # <<>> /\ depthTest \in BOOLEAN
        BY <1>1, DrawsAssumption
    <2>2. triangle \in 1 .. Len(triangles)
        BY <1>1, <2>1
    <2>. QED
        BY <1>1, <2>1, <2>2 DEF PictureTypeOK, Stages
<1>3. BufferInv
    BY Cleared DEF BufferInv
<1>4. PassedInv
    BY <1>1 DEF PassedInv
<1>. QED
    BY <1>2, <1>3, <1>4 DEF PictureIInv

\* A pixel is in the framebuffer when the loop tests it.
LEMMA PixelTyped ==
    ASSUME PictureTypeOK, Next
    PROVE  /\ x' \in Nat /\ y' \in Nat /\ hits' \in Seq(Pixels)
           /\ hits' # hits => hits'[Len(hits')] \in Pixels
<1>1. x \in Nat /\ y \in Nat /\ hits \in Seq(Pixels)
    BY DEF PictureTypeOK
<1>2. Width \in Nat /\ Height \in Nat /\ CoordinateMod \in Nat /\ CoordinateMod > 0
    BY RasterAssumption
<1>3. \A n \in Nat : n % CoordinateMod \in Nat
    BY <1>2
<1>4. CASE Pixel
    <2>1. [x |-> x, y |-> y] \in Pixels
        BY <1>1, <1>2, <1>4 DEF Pixel, Pixels
    <2>2. hits' = Append(hits, [x |-> x, y |-> y]) \/ hits' = hits
        BY <1>4 DEF Pixel
    <2>3. x' \in Nat /\ y' \in Nat
        BY <1>1, <1>3, <1>4 DEF Pixel
    <2>. QED
        BY <1>1, <2>1, <2>2, <2>3
<1>5. CASE Row
    BY <1>1, <1>3, <1>5 DEF Row
<1>. QED
    BY <1>4, <1>5 DEF Next

LEMMA RasterizeInvariant == PictureIInv /\ Rasterize => PictureIInv'
<1>. SUFFICES ASSUME PictureIInv, Rasterize
              PROVE  PictureIInv'
    OBVIOUS
<1>1. PictureTypeOK /\ BufferInv /\ PassedInv
    BY DEF PictureIInv
<1>2. Next /\ UNCHANGED <<mergerVars, triangles, triangle>>
    BY DEF Rasterize
<1>3. x' \in Nat /\ y' \in Nat /\ hits' \in Seq(Pixels)
    BY <1>1, <1>2, PixelTyped
<1>4. shaded' \in Seq(PictureFragments)
    <2>1. shaded \in Seq(PictureFragments)
        BY <1>1 DEF PictureTypeOK
    <2>2. ASSUME NEW hit \in Pixels
          PROVE  ShadedFragment(hit) \in PictureFragments
        <3>1. triangles[triangle] \in FlatTriangles
            BY <1>1 DEF PictureTypeOK
        <3>. QED
            BY <3>1 DEF ShadedFragment, PictureFragments, FlatTriangles, Pixels
    <2>3. hits' # hits => ShadedFragment(hits'[Len(hits')]) \in PictureFragments
        BY <1>1, <1>2, <2>2, PixelTyped
    <2>. QED
        BY <2>1, <2>3 DEF Rasterize, Taken, Missed
<1>5. PictureTypeOK'
    BY <1>1, <1>2, <1>3, <1>4 DEF PictureTypeOK, mergerVars
<1>6. BufferInv' /\ DepthOf(fragment)' = DepthOf(fragment)
    BY <1>1, <1>2 DEF mergerVars, DepthOf, BufferInv, ColorOf
<1>7. PassedInv'
    BY <1>1, <1>2, <1>6 DEF mergerVars, PassedInv
<1>. QED
    BY <1>5, <1>6, <1>7 DEF PictureIInv

LEMMA NextTriangleInvariant == PictureIInv /\ NextTriangle => PictureIInv'
<1>. SUFFICES ASSUME PictureIInv, NextTriangle
              PROVE  PictureIInv'
    OBVIOUS
<1>1. PictureTypeOK /\ BufferInv /\ PassedInv
    BY DEF PictureIInv
<1>2. PictureTypeOK'
    BY <1>1 DEF PictureTypeOK, NextTriangle, mergerVars
<1>3. BufferInv' /\ PassedInv'
    BY <1>1 DEF NextTriangle, mergerVars, BufferInv, PassedInv, DepthOf, ColorOf
<1>. QED
    BY <1>2, <1>3 DEF PictureIInv
-----------------------------------------------------------------------------
(* Each action keeps the invariant, and is a step of the atomic picture or *)
(* changes nothing of it.                                                  *)

Display == [p \in Pixels |-> Shown(p)]

Unseen == UNCHANGED <<Display, depthTest>>

\* Where neither the buffers nor the pixel being written change, nothing is seen.
LEMMA NothingSeen ==
    ASSUME \A p \in Pixels : Shown(p)' = Shown(p), UNCHANGED depthTest
    PROVE  Unseen
BY DEF Unseen, Display

\* What a merge of the atomic picture comes to.
LEMMA MergeSeen ==
    ASSUME NEW p \in Pixels, UNCHANGED depthTest,
           \A q \in Pixels \ {p} : Shown(q)' = Shown(q),
           Shown(p)' \in [z : Depths, color : Colors],
           IF depthTest THEN Shown(p)'.z < Shown(p).z ELSE Shown(p)'.z = Shown(p).z
    PROVE  Atomic!Next
<1>1. \A q \in Pixels : Display[q] = Shown(q) /\ Display'[q] = Shown(q)'
    BY DEF Display
<1>2. Atomic!Merge(p)
    BY <1>1 DEF Atomic!Merge, Display
<1>. QED
    BY <1>2 DEF Atomic!Next

\* Without a depth test a fragment is merged as soon as it is taken.
LEMMA MergeShows ==
    ASSUME PictureIInv, Merge
    PROVE  /\ Head(shaded) \in PictureFragments /\ PixelOf(Head(shaded)) \in Pixels
           /\ \A p \in Pixels : Shown(p) = [z |-> DepthOf(p), color |-> ColorOf(p)]
           /\ \A p \in Pixels : Shown(p)' =
                [z |-> DepthOf(p),
                 color |-> IF ~depthTest /\ p = PixelOf(Head(shaded)) THEN Head(shaded).color ELSE ColorOf(p)]
<1>1. PictureTypeOK /\ BufferInv
    BY DEF PictureIInv
<1>2. Head(shaded) \in PictureFragments /\ PixelOf(Head(shaded)) \in Pixels
    <2>1. Head(shaded) \in PictureFragments
        BY <1>1 DEF PictureTypeOK, Merge
    <2>. QED
        BY <2>1, FragmentPixel
<1>3. /\ at = "fragment" /\ fragment' = Head(shaded)
      /\ at' = IF depthTest THEN "depth" ELSE "colorWritten"
      /\ UNCHANGED <<memory, depthTest>>
    BY DEF Merge, Receive
<1>4. \A p \in Pixels : DepthOf(p)' = DepthOf(p) /\ ColorOf(p)' = ColorOf(p)
    BY <1>1, <1>3, SameBuffers
<1>5. PixelOf(Head(shaded)) = [x |-> fragment'.x, y |-> fragment'.y]
    BY <1>3 DEF PixelOf
<1>. QED
    BY <1>2, <1>3, <1>4, <1>5 DEF Shown

LEMMA MergeStep == PictureIInv /\ Merge => PictureIInv' /\ (Atomic!Next \/ Unseen)
<1>. SUFFICES ASSUME PictureIInv, Merge
              PROVE  PictureIInv' /\ (Atomic!Next \/ Unseen)
    OBVIOUS
<1>1. PictureTypeOK /\ BufferInv /\ PassedInv
    BY DEF PictureIInv
<1>2. shaded' \in Seq(PictureFragments) /\ Head(shaded) \in PictureFragments
    BY <1>1 DEF PictureTypeOK, Merge
<1>3. /\ at = "fragment" /\ fragment' = Head(shaded)
      /\ at' = IF depthTest THEN "depth" ELSE "colorWritten"
      /\ UNCHANGED <<memory, depthTest, vars, triangles, triangle>>
    BY DEF Merge, Receive
<1>4. PictureTypeOK'
    BY <1>1, <1>2, <1>3 DEF PictureTypeOK, vars, Stages
<1>5. BufferInv'
    BY <1>1, <1>3, SameBuffers
<1>6. PassedInv'
    BY <1>3 DEF PassedInv
<1>7. CASE depthTest
    <2>1. Unseen
        BY <1>3, <1>7, MergeShows, NothingSeen
    <2>. QED
        BY <1>4, <1>5, <1>6, <2>1 DEF PictureIInv
<1>8. CASE ~depthTest
    <2>. PICK f \in PictureFragments, p \in Pixels : f = Head(shaded) /\ p = PixelOf(f)
        BY MergeShows
    <2>1. Shown(p)' = [z |-> DepthOf(p), color |-> f.color] /\ Shown(p).z = DepthOf(p)
        BY <1>8, MergeShows
    <2>2. DepthOf(p) \in Depths /\ f.color \in Colors
        BY <1>1 DEF BufferInv, PictureFragments
    <2>3. \A q \in Pixels \ {p} : Shown(q)' = Shown(q)
        BY MergeShows
    <2>4. Atomic!Next
        BY <1>3, <1>8, <2>1, <2>2, <2>3, MergeSeen
    <2>. QED
        BY <1>4, <1>5, <1>6, <2>4 DEF PictureIInv
<1>. QED
    BY <1>7, <1>8

\* The pixel of the fragment in work, and its dwords.
LEMMA InWork ==
    ASSUME PictureTypeOK, at # "fragment"
    PROVE  /\ fragment \in PictureFragments /\ fragment.z \in Depths /\ fragment.color \in Colors
           /\ PixelOf(fragment) \in Pixels
           /\ PixelIndex(DepthAddress, fragment) = Cell(DepthAddress, PixelOf(fragment))
           /\ PixelIndex(FramebufferAddress, fragment) = Cell(FramebufferAddress, PixelOf(fragment))
           /\ DepthOf(fragment) = DepthOf(PixelOf(fragment))
           /\ DepthOf(fragment) = memory[PixelIndex(DepthAddress, fragment)]
<1>1. fragment \in PictureFragments
    BY DEF PictureTypeOK
<1>. DEFINE p == PixelOf(fragment)
<1>2. p \in Pixels /\ p.x = fragment.x /\ p.y = fragment.y
    BY <1>1, FragmentPixel
<1>3. DepthAddress \in Nat /\ FramebufferAddress \in Nat
    BY BuffersAssumption
<1>4. /\ PixelIndex(DepthAddress, fragment) = Cell(DepthAddress, p)
      /\ PixelIndex(FramebufferAddress, fragment) = Cell(FramebufferAddress, p)
    BY <1>2, <1>3, PixelIndexIs
<1>5. DepthOf(fragment) = DepthOf(p) /\ DepthOf(p) = memory[Cell(DepthAddress, p)]
    BY <1>2, <1>3, CellNumbers DEF DepthOf
<1>. QED
    BY <1>1, <1>2, <1>4, <1>5 DEF PictureFragments

LEMMA TestDepthStep ==
    ASSUME PictureIInv, TestDepth, UNCHANGED <<vars, triangles, triangle, shaded>>
    PROVE  PictureIInv' /\ Unseen /\ \A p \in Pixels : Shown(p)' = Shown(p)
<1>1. PictureTypeOK /\ BufferInv /\ PassedInv /\ at = "depth"
    BY DEF PictureIInv, TestDepth
<1>2. /\ at' = IF fragment.z >= DepthOf(fragment) THEN "fragment" ELSE "depthWritten"
      /\ UNCHANGED <<memory, fragment, depthTest>>
    BY <1>1, InWork DEF TestDepth
<1>3. BufferInv' /\ \A q : DepthOf(q)' = DepthOf(q) /\ ColorOf(q)' = ColorOf(q)
    BY <1>1, <1>2, SameBuffers
<1>4. PictureTypeOK'
    BY <1>1, <1>2 DEF PictureTypeOK, vars, Stages
<1>5. PassedInv'
    <2>1. fragment.z \in Int /\ DepthOf(fragment) \in Int
        BY <1>1, InWork, DrawsAssumption DEF BufferInv
    <2>2. DepthOf(fragment)' = DepthOf(fragment)
        BY <1>2 DEF DepthOf
    <2>3. at' = "depthWritten" => fragment.z < DepthOf(fragment)
        BY <1>2, <2>1
    <2>4. depthTest
        BY <1>1 DEF PassedInv
    <2>. QED
        BY <1>2, <2>2, <2>3, <2>4 DEF PassedInv
<1>6. \A q \in Pixels : Shown(q)' = Shown(q)
    BY <1>1, <1>2, <1>3 DEF Shown
<1>. QED
    BY <1>2, <1>3, <1>4, <1>5, <1>6, NothingSeen DEF PictureIInv

LEMMA WriteDepthStep ==
    ASSUME PictureIInv, WriteDepth, UNCHANGED <<vars, triangles, triangle, shaded>>
    PROVE  /\ PictureIInv' /\ Atomic!Next
           /\ depthTest /\ PixelOf(fragment) \in Pixels
           /\ \A p \in Pixels :
                IF p = PixelOf(fragment)
                THEN fragment.z < Shown(p).z /\ Shown(p)' = [z |-> fragment.z, color |-> fragment.color]
                ELSE Shown(p)' = Shown(p)
<1>1. PictureTypeOK /\ BufferInv /\ PassedInv /\ at = "depthWritten" /\ at' = "colorWritten"
    BY DEF PictureIInv, WriteDepth
<1>. PICK p \in Pixels : p = PixelOf(fragment)
    BY <1>1, InWork
<1>2. /\ fragment.z \in Depths /\ fragment.color \in Colors
      /\ memory' = [memory EXCEPT ![Cell(DepthAddress, p)] = fragment.z]
      /\ UNCHANGED <<fragment, depthTest>>
    BY <1>1, InWork DEF WriteDepth
<1>3. /\ \A q \in Pixels : DepthOf(q)' = IF q = p THEN fragment.z ELSE DepthOf(q)
      /\ \A q \in Pixels : ColorOf(q)' = ColorOf(q)
      /\ BufferInv'
    <2>1. DepthAddress # FramebufferAddress
        <3>1. Cell(DepthAddress, p) \in Addresses(DepthAddress)
            BY <1>2, CellNumbers, BuffersAssumption
        <3>. QED
            BY <3>1, BuffersAssumption
    <2>. QED
        BY <1>1, <1>2, <2>1, WriteCell
<1>4. PictureTypeOK'
    BY <1>1, <1>2 DEF PictureTypeOK, vars, Stages
<1>5. PassedInv'
    BY <1>1, <1>2 DEF PassedInv
<1>6. depthTest /\ fragment.z < DepthOf(p)
    BY <1>1, InWork DEF PassedInv
<1>7. \A q \in Pixels : Shown(q) = [z |-> DepthOf(q), color |-> ColorOf(q)]
    BY <1>1 DEF Shown
<1>8. \A q \in Pixels :
        Shown(q)' = IF q = p THEN [z |-> fragment.z, color |-> fragment.color]
                             ELSE [z |-> DepthOf(q), color |-> ColorOf(q)]
    BY <1>1, <1>2, <1>3 DEF Shown, PixelOf
<1>9. Shown(p)' = [z |-> fragment.z, color |-> fragment.color] /\ Shown(p).z = DepthOf(p)
    BY <1>7, <1>8
<1>10. \A q \in Pixels \ {p} : Shown(q)' = Shown(q)
    BY <1>7, <1>8
<1>11. Atomic!Next
    BY <1>2, <1>6, <1>9, <1>10, MergeSeen
<1>. QED
    BY <1>3, <1>4, <1>5, <1>6, <1>9, <1>10, <1>11 DEF PictureIInv

LEMMA WriteColorStep ==
    ASSUME PictureIInv, WriteColor, UNCHANGED <<vars, triangles, triangle, shaded>>
    PROVE  PictureIInv' /\ Unseen /\ \A p \in Pixels : Shown(p)' = Shown(p)
<1>1. PictureTypeOK /\ BufferInv /\ at = "colorWritten" /\ at' = "fragment"
    BY DEF PictureIInv, WriteColor
<1>. PICK p \in Pixels : p = PixelOf(fragment)
    BY <1>1, InWork
<1>2. /\ fragment.color \in Colors
      /\ memory' = [memory EXCEPT ![Cell(FramebufferAddress, p)] = fragment.color]
      /\ UNCHANGED <<fragment, depthTest>>
    BY <1>1, InWork DEF WriteColor
<1>3. /\ \A q \in Pixels : DepthOf(q)' = DepthOf(q)
      /\ \A q \in Pixels : ColorOf(q)' = IF q = p THEN fragment.color ELSE ColorOf(q)
      /\ BufferInv'
    <2>1. DepthAddress # FramebufferAddress
        <3>1. Cell(DepthAddress, p) \in Addresses(DepthAddress)
            BY <1>2, CellNumbers, BuffersAssumption
        <3>. QED
            BY <3>1, BuffersAssumption
    <2>. QED
        BY <1>1, <1>2, <2>1, WriteCell
<1>4. PictureTypeOK'
    BY <1>1, <1>2 DEF PictureTypeOK, vars, Stages
<1>5. PassedInv'
    BY <1>1 DEF PassedInv
<1>6. \A q \in Pixels : Shown(q)' = Shown(q)
    BY <1>1, <1>2, <1>3 DEF Shown, PixelOf
<1>. QED
    BY <1>2, <1>3, <1>4, <1>5, <1>6, NothingSeen DEF PictureIInv

LEMMA PictureStep ==
    ASSUME PictureIInv, [NextStep]_pictureVars
    PROVE  PictureIInv' /\ (Atomic!Next \/ Unseen)
<1>1. CASE Rasterize
    <2>1. UNCHANGED mergerVars
        BY <1>1 DEF Rasterize
    <2>. QED
        BY <1>1, <2>1, RasterizeInvariant, NothingSeen DEF mergerVars, Shown, DepthOf, ColorOf
<1>2. CASE NextTriangle
    <2>1. UNCHANGED mergerVars
        BY <1>2 DEF NextTriangle
    <2>. QED
        BY <1>2, <2>1, NextTriangleInvariant, NothingSeen DEF mergerVars, Shown, DepthOf, ColorOf
<1>3. CASE Merge
    BY <1>3, MergeStep
<1>4. CASE MemoryAccess
    BY <1>4, TestDepthStep, WriteDepthStep, WriteColorStep DEF MemoryAccess, Access
<1>5. CASE UNCHANGED pictureVars
    <2>1. PictureIInv'
        BY <1>5 DEF pictureVars, vars, mergerVars, PictureIInv, PictureTypeOK, BufferInv, PassedInv, DepthOf, ColorOf
    <2>2. Unseen
        BY <1>5, NothingSeen DEF pictureVars, mergerVars, Shown, DepthOf, ColorOf
    <2>. QED
        BY <2>1, <2>2
<1>. QED
    BY <1>1, <1>2, <1>3, <1>4, <1>5 DEF NextStep

\* What comes with a fragment is in its place throughout a draw: coordinates on
\* the framebuffer, depths in the one buffer and colours in the other, and a
\* fragment that has passed the depth test (output_merger.cpp:29) still nearer
\* than what is there when its depth is written (output_merger.cpp:33).
THEOREM PictureInvariant == PictureSpec => []PictureIInv
<1>1. PictureIInv /\ [NextStep]_pictureVars => PictureIInv'
    BY PictureStep
<1>. QED
    BY <1>1, PictureInit, PTL DEF PictureSpec

\* Of each pixel depth and colour change as one and only to a nearer fragment's,
\* or without a depth test to any fragment's, though the output merger writes them
\* in two accesses (output_merger.cpp:33-60) and the rasterizer goes on meanwhile.
THEOREM MergeRefinement == PictureSpec => MergesAtomically
<1>1. InitDraw => Atomic!Init
    <2>. SUFFICES ASSUME InitDraw
                  PROVE  Atomic!Init
        OBVIOUS
    <2>1. PictureTypeOK /\ BufferInv /\ at = "fragment"
        BY PictureInit DEF PictureIInv, InitDraw
    <2>2. \A p \in Pixels : Shown(p) \in [z : Depths, color : Colors]
        BY <2>1 DEF Shown, BufferInv
    <2>3. Display \in [Pixels -> [z : Depths, color : Colors]]
        BY <2>2 DEF Display
    <2>. QED
        BY <2>1, <2>3 DEF Atomic!Init, Display, PictureTypeOK
<1>2. PictureIInv /\ [NextStep]_pictureVars => [Atomic!Next]_<<Display, depthTest>>
    BY PictureStep DEF Unseen
<1>3. PictureIInv /\ [NextStep]_pictureVars => [Atomic!Next]_<<[p \in Pixels |-> Shown(p)], depthTest>>
    BY <1>2 DEF Display
<1>. QED
    BY <1>1, <1>3, PictureInvariant, PTL DEF PictureSpec, MergesAtomically, Atomic!Spec
-----------------------------------------------------------------------------
(* What is seen in the end.  First the rasterizer's part: it is at the     *)
(* triangle it should be at, and has hit what it should have.              *)

LEMMA TriangleTyped ==
    ASSUME PictureTypeOK, NEW t \in DOMAIN triangles
    PROVE  /\ t \in Int /\ triangles[t] \in FlatTriangles
           /\ triangles[t].z \in Int /\ triangles[t].z \in Depths /\ triangles[t].color \in Colors
           /\ triangles[t].vertices \in [1 .. 3 -> Points]
<1>1. triangles \in Seq(FlatTriangles)
    BY DEF PictureTypeOK
<1>2. t \in Int /\ triangles[t] \in FlatTriangles
    BY <1>1
<1>. QED
    BY <1>2, DrawsAssumption DEF FlatTriangles

LEMMA ScanInit == InitDraw => ScanInv
<1>. SUFFICES ASSUME InitDraw
              PROVE  ScanInv
    OBVIOUS
<1>1. vertices = triangles[triangle].vertices
    BY DEF InitDraw
<1>2. vertices \in [1 .. 3 -> Points]
    <2>1. PictureTypeOK
        BY PictureInit DEF PictureIInv
    <2>2. triangle \in DOMAIN triangles
        BY <2>1 DEF PictureTypeOK
    <2>. QED
        BY <1>1, <2>1, <2>2, TriangleTyped
<1>3. Init
    BY <1>2 DEF InitDraw, Init
<1>. QED
    BY <1>1, <1>3, RasterInit DEF ScanInv

LEMMA ScanStep ==
    ASSUME PictureTypeOK, ScanInv, [NextStep]_pictureVars
    PROVE  ScanInv'
<1>1. CASE Rasterize
    <2>1. UNCHANGED <<triangles, triangle, vertices>> /\ (Pixel \/ Row)
        BY <1>1 DEF Rasterize, Next, Pixel, Row
    <2>2. RasterIInv'
        BY <2>1, PixelStep, RowStep DEF ScanInv
    <2>. QED
        BY <2>1, <2>2 DEF ScanInv
<1>2. CASE NextTriangle
    <2>1. /\ triangle' = triangle + 1 /\ triangle + 1 \in DOMAIN triangles
          /\ vertices' = triangles[triangle + 1].vertices
          /\ x' = 0 /\ y' = 0 /\ hits' = <<>> /\ UNCHANGED triangles
        BY <1>2 DEF NextTriangle, PictureTypeOK
    <2>2. vertices' \in [1 .. 3 -> Points]
        BY <2>1, TriangleTyped
    <2>3. LoopInv'
        BY <2>1, <2>2, RasterAssumption DEF LoopInv
    <2>4. HitPixels' = {}
        BY <2>1 DEF HitPixels
    <2>5. \A p \in Pixels : ~Seen(p)'
        BY <2>1, RasterAssumption DEF Seen, Pixels
    <2>6. HitInv'
        BY <2>1, <2>4, <2>5 DEF HitInv
    <2>. QED
        BY <2>1, <2>3, <2>6 DEF ScanInv, RasterIInv
<1>3. CASE UNCHANGED <<vars, triangles, triangle>>
    BY <1>3 DEF vars, ScanInv, RasterIInv, LoopInv, HitInv, HitPixels, Seen
<1>. QED
    BY <1>1, <1>2, <1>3 DEF NextStep, Merge, MemoryAccess, pictureVars

\* In a draw, too, a proper triangle hits exactly the pixels inside it: the
\* rasterizer begins each triangle anew (rasterizer.cpp:52-63).
THEOREM DrawHitsExact == PictureSpec => []HitsAreInside
<1>1. PictureIInv /\ ScanInv /\ [NextStep]_pictureVars => ScanInv'
    BY ScanStep DEF PictureIInv
<1>2. ScanInv => HitsAreInside
    BY HitsFollow DEF ScanInv
<1>. QED
    BY <1>1, <1>2, ScanInit, PictureInvariant, PTL DEF PictureSpec

-----------------------------------------------------------------------------
(* What a pixel shows when one more triangle is merged into it.            *)

\* It shows no depth farther than the cleared one.
LEMMA ShownDepth ==
    ASSUME PictureTypeOK, NEW p, NEW ts \in SUBSET DOMAIN triangles, IsRight(p, ts)
    PROVE  Shown(p).z \in Int /\ Shown(p).z <= Far /\ Far \in Int /\ (~depthTest => Shown(p).z = Far)
<1>1. Far \in Int /\ \A t \in ts : triangles[t].z \in Int
    BY TriangleTyped, DrawsAssumption
<1>. QED
    BY <1>1 DEF IsRight, IsSeen

LEMMA Hidden ==
    ASSUME PictureTypeOK, NEW p, NEW ts \in SUBSET DOMAIN triangles, IsRight(p, ts),
           NEW t \in DOMAIN triangles, \A u \in ts : u < t,
           depthTest, triangles[t].z >= Shown(p).z
    PROVE  IsRight(p, ts \cup {t})
<1>1. \A u \in ts \cup {t} : u \in Int /\ triangles[u].z \in Int
    BY TriangleTyped
<1>2. Far \in Int
    BY DrawsAssumption
<1>3. CASE /\ \A u \in ts : triangles[u].z >= Far
           /\ Shown(p) = [z |-> Far, color |-> Background]
    BY <1>3 DEF IsRight
<1>4. ASSUME NEW s \in ts, IsSeen(s, ts),
             Shown(p) = [z |-> triangles[s].z, color |-> triangles[s].color]
      PROVE  IsRight(p, ts \cup {t})
    <2>1. IsSeen(s, ts \cup {t})
        <3>1. triangles[s].z <= triangles[t].z /\ s <= t
            BY <1>1, <1>4
        <3>2. triangles[s].z < triangles[t].z \/ (triangles[s].z = triangles[t].z /\ s <= t)
            BY <1>1, <3>1
        <3>. QED
            BY <1>4, <3>2 DEF IsSeen
    <2>. QED
        BY <1>4, <2>1 DEF IsRight
<1>. QED
    BY <1>3, <1>4 DEF IsRight

LEMMA Nearer ==
    ASSUME PictureTypeOK, NEW p, NEW ts \in SUBSET DOMAIN triangles, IsRight(p, ts),
           NEW t \in DOMAIN triangles, \A u \in ts : u < t,
           depthTest => triangles[t].z < Shown(p).z
    PROVE  IsSeen(t, ts \cup {t})
<1>1. \A u \in ts \cup {t} : u \in Int /\ triangles[u].z \in Int
    BY TriangleTyped
<1>2. Far \in Int /\ Shown(p).z \in Int /\ Shown(p).z <= Far
    BY ShownDepth
<1>3. CASE ~depthTest
    <2>1. \A u \in ts \cup {t} : u <= t
        BY <1>1
    <2>. QED
        BY <1>3, <2>1 DEF IsSeen
<1>4. CASE depthTest
    <2>1. triangles[t].z < Far
        BY <1>1, <1>2, <1>4
    <2>2. \A u \in ts : triangles[t].z < triangles[u].z
        <3>1. CASE \A u \in ts : triangles[u].z >= Far
            BY <1>1, <1>2, <2>1, <3>1
        <3>2. ASSUME NEW s \in ts, IsSeen(s, ts), Shown(p).z = triangles[s].z
              PROVE  \A u \in ts : triangles[t].z < triangles[u].z
            <4>1. \A u \in ts : triangles[s].z <= triangles[u].z
                BY <1>1, <1>4, <3>2 DEF IsSeen
            <4>. QED
                BY <1>1, <1>4, <3>2, <4>1
        <3>. QED
            BY <1>4, <3>1, <3>2 DEF IsRight
    <2>. QED
        BY <1>1, <1>4, <2>1, <2>2 DEF IsSeen
<1>. QED
    BY <1>3, <1>4
-----------------------------------------------------------------------------
(* The fragments that wait, step by step.                                  *)

Tags == [0 .. Len(shaded) -> DOMAIN triangles]

LEMMA WaitingTyped ==
    ASSUME PictureTypeOK
    PROVE  /\ Len(shaded) \in Nat /\ Waiting \subseteq 0 .. Len(shaded)
           /\ \A i \in Waiting : Item(i) \in PictureFragments
           /\ \A i \in 1 .. Len(shaded) : Item(i) = shaded[i]
<1>1. shaded \in Seq(PictureFragments) /\ Len(shaded) \in Nat
    BY DEF PictureTypeOK
<1>2. Waiting \subseteq 0 .. Len(shaded)
    BY <1>1 DEF Waiting
<1>3. \A i \in 1 .. Len(shaded) : Item(i) = shaded[i]
    BY DEF Item
<1>4. ASSUME NEW i \in Waiting
      PROVE  Item(i) \in PictureFragments
    <2>1. CASE i = 0
        <3>1. at # "fragment"
            BY <1>1, <2>1 DEF Waiting
        <3>. QED
            BY <2>1, <3>1 DEF Item, PictureTypeOK
    <2>2. CASE i # 0
        BY <1>1, <1>2, <1>3, <2>2
    <2>. QED
        BY <2>1, <2>2
<1>. QED
    BY <1>1, <1>2, <1>3, <1>4

LEMMA RightCarried ==
    ASSUME NEW of, NEW of2, UNCHANGED <<triangles, depthTest>>,
           \A p \in Pixels : IsRight(p, Merged(of, p)),
           \A p \in Pixels : Shown(p)' = Shown(p) /\ Merged(of2, p)' = Merged(of, p)
    PROVE  \A p \in Pixels : IsRight(p, Merged(of2, p))'
BY DEF IsRight, IsSeen

\* Nothing comes and nothing goes, and no pixel is scanned that is hit.
LEMMA QuietStep ==
    ASSUME SeenInv, UNCHANGED <<triangles, depthTest, shaded, Waiting>>,
           0 \in Waiting => UNCHANGED fragment,
           \A t \in DOMAIN triangles : \A p \in Pixels :
                Scanned(t, p)' /\ Comes(t, p)' <=> Scanned(t, p) /\ Comes(t, p),
           \A p \in Pixels : Shown(p)' = Shown(p)
    PROVE  SeenInv'
<1>. PICK of \in Tags :
        QueueInv(of) /\ MergedFirst(of) /\ \A p \in Pixels : IsRight(p, Merged(of, p))
    BY DEF SeenInv, Tags
<1>1. \A i \in Waiting : Item(i)' = Item(i)
    BY DEF Item
<1>2. \A i \in Waiting : \A p : WaitsAt(i, p)' <=> WaitsAt(i, p)
    BY <1>1 DEF WaitsAt
<1>4. \A p \in Pixels : Merged(of, p)' = Merged(of, p)
    BY <1>2 DEF Merged
<1>5. of \in Tags' /\ Waiting \subseteq 0 .. Len(shaded)
    BY DEF Tags, Waiting
<1>6. QueueInv(of)'
    <2>1. \A i \in Waiting : of[i] \in DOMAIN triangles
        BY <1>5 DEF Tags
    <2>. QED
        BY <1>1, <1>2, <2>1 DEF QueueInv
<1>7. MergedFirst(of)'
    BY <1>2, <1>4 DEF MergedFirst
<1>8. \A p \in Pixels : IsRight(p, Merged(of, p))'
    BY <1>4, RightCarried
<1>. QED
    BY <1>5, <1>6, <1>7, <1>8 DEF SeenInv, Tags

\* The rasterizer hits a pixel of the triangle it is at: a fragment comes.
LEMMA HitStep ==
    ASSUME PictureTypeOK, SeenInv, UNCHANGED <<mergerVars, triangles, triangle, lost>>,
           NEW here \in Pixels, Comes(triangle, here), ~Seen(here),
           \A p \in Pixels : Seen(p)' <=> Seen(p) \/ p = here,
           shaded' = Append(shaded, ShadedFragment(here))
    PROVE  SeenInv'
<1>. PICK of \in Tags :
        QueueInv(of) /\ MergedFirst(of) /\ \A p \in Pixels : IsRight(p, Merged(of, p))
    BY DEF SeenInv, Tags
<1>. PICK n \in Nat : n = Len(shaded)
    BY WaitingTyped
<1>. PICK of2 : of2 = [i \in 0 .. n + 1 |-> IF i = n + 1 THEN triangle ELSE of[i]]
    OBVIOUS
<1>1. /\ shaded \in Seq(PictureFragments) /\ Len(shaded') = n + 1
      /\ shaded'[n + 1] = ShadedFragment(here) /\ \A i \in 1 .. n : shaded'[i] = shaded[i]
    BY DEF PictureTypeOK
<1>2. Waiting' = Waiting \cup {n + 1} /\ Waiting \subseteq 0 .. n /\ n + 1 \notin Waiting
    BY <1>1 DEF Waiting, mergerVars
<1>3. of2 \in Tags'
    <2>1. triangle \in DOMAIN triangles
        BY DEF PictureTypeOK
    <2>2. of2 \in [0 .. n + 1 -> DOMAIN triangles]
        BY <2>1 DEF Tags
    <2>. QED
        BY <1>1, <2>2 DEF Tags
<1>4. of2[n + 1] = triangle /\ \A i \in Waiting : of2[i] = of[i] /\ of[i] \in DOMAIN triangles
    BY <1>2 DEF Tags
<1>5. Item(n + 1)' = ShadedFragment(here) /\ \A i \in Waiting : Item(i)' = Item(i)
    <2>1. n + 1 # 0
        OBVIOUS
    <2>2. \A i \in Waiting : i = 0 \/ i \in 1 .. n
        BY <1>2
    <2>. QED
        BY <1>1, <2>1, <2>2 DEF Item, mergerVars
<1>6. \A p \in Pixels : WaitsAt(n + 1, p)' <=> p = here
    <2>1. \A p \in Pixels : p = here <=> here.x = p.x /\ here.y = p.y
        BY DEF Pixels
    <2>2. Item(n + 1)'.x = here.x /\ Item(n + 1)'.y = here.y
        BY <1>5 DEF ShadedFragment
    <2>. QED
        BY <2>1, <2>2 DEF WaitsAt
<1>7. \A i \in Waiting : \A p : WaitsAt(i, p)' <=> WaitsAt(i, p)
    BY <1>5 DEF WaitsAt
<1>8. \A t : \A p : Comes(t, p)' <=> Comes(t, p)
    BY DEF Comes, Covers
<1>9. \A t \in DOMAIN triangles : \A p \in Pixels :
        Scanned(t, p)' <=> Scanned(t, p) \/ (t = triangle /\ p = here)
    BY DEF Scanned
<1>10. \A p \in Pixels : Merged(of2, p)' = Merged(of, p)
    <2>1. ASSUME NEW p \in Pixels
          PROVE  Merged(of2, p)' = Merged(of, p)
        <3>1. CASE p = here
            <4>1. ~Scanned(triangle, p)
                BY <3>1, TriangleTyped DEF Scanned, PictureTypeOK
            <4>2. ASSUME NEW t \in DOMAIN triangles
                  PROVE  t \in Merged(of2, p)' <=> t \in Merged(of, p)
                <5>1. t \in Merged(of2, p)' <=>
                        /\ Scanned(t, p)' /\ Comes(t, p)
                        /\ \A i \in Waiting : ~(WaitsAt(i, p) /\ of[i] = t)
                        /\ t # triangle
                    BY <1>2, <1>4, <1>6, <1>7, <1>8, <3>1 DEF Merged
                <5>. QED
                    BY <1>9, <3>1, <4>1, <5>1 DEF Merged
            <4>. QED
                BY <4>2 DEF Merged
        <3>2. CASE p # here
            BY <1>2, <1>4, <1>6, <1>7, <1>8, <1>9, <3>2 DEF Merged
        <3>. QED
            BY <3>1, <3>2
    <2>. QED
        BY <2>1
<1>11. \A t \in DOMAIN triangles : Scanned(t, here) => t < triangle
    BY DEF Scanned
<1>12. QueueInv(of2)'
    <2>1. ASSUME NEW i \in Waiting
          PROVE  /\ Item(i)'.z = triangles'[of2[i]].z /\ Item(i)'.color = triangles'[of2[i]].color
                 /\ \A p \in Pixels : WaitsAt(i, p)' =>
                    /\ Scanned(of2[i], p)' /\ Comes(of2[i], p)'
                    /\ \A j \in Waiting' : i < j /\ WaitsAt(j, p)' => of2[i] < of2[j]
        <3>1. /\ Item(i).z = triangles[of[i]].z /\ Item(i).color = triangles[of[i]].color
              /\ \A p \in Pixels : WaitsAt(i, p) =>
                    /\ Scanned(of[i], p) /\ Comes(of[i], p)
                    /\ \A j \in Waiting : i < j /\ WaitsAt(j, p) => of[i] < of[j]
            BY DEF QueueInv
        <3>2. ASSUME NEW p \in Pixels, WaitsAt(i, p)', NEW j \in Waiting', WaitsAt(j, p)', i < j
              PROVE  of2[i] < of2[j]
            <4>1. CASE j \in Waiting
                BY <1>4, <1>7, <3>1, <3>2, <4>1
            <4>2. CASE j = n + 1
                BY <1>4, <1>6, <1>7, <1>11, <3>1, <3>2, <4>2
            <4>. QED
                BY <1>2, <4>1, <4>2
        <3>3. \A p \in Pixels : WaitsAt(i, p)' => Scanned(of2[i], p)' /\ Comes(of2[i], p)'
            BY <1>4, <1>7, <1>8, <1>9, <3>1
        <3>. QED
            BY <1>4, <1>5, <3>1, <3>2, <3>3
    <2>2. /\ Item(n + 1)'.z = triangles'[of2[n + 1]].z /\ Item(n + 1)'.color = triangles'[of2[n + 1]].color
          /\ \A p \in Pixels : WaitsAt(n + 1, p)' =>
                    /\ Scanned(of2[n + 1], p)' /\ Comes(of2[n + 1], p)'
                    /\ \A j \in Waiting' : n + 1 < j /\ WaitsAt(j, p)' => of2[n + 1] < of2[j]
        <3>1. \A j \in Waiting' : ~(n + 1 < j)
            BY <1>2
        <3>2. Scanned(of2[n + 1], here)' /\ Comes(of2[n + 1], here)'
            <4>1. of2[n + 1] = triangle' /\ Seen(here)'
                BY <1>4
            <4>2. Scanned(of2[n + 1], here)'
                BY <4>1 DEF Scanned
            <4>3. Comes(of2[n + 1], here)'
                BY <1>4 DEF Comes, Covers
            <4>. QED
                BY <4>2, <4>3
        <3>3. Item(n + 1)'.z = triangles'[of2[n + 1]].z /\ Item(n + 1)'.color = triangles'[of2[n + 1]].color
            BY <1>4, <1>5 DEF ShadedFragment
        <3>. QED
            BY <1>6, <3>1, <3>2, <3>3
    <2>3. \A i \in Waiting' : i \in Waiting \/ i = n + 1
        BY <1>2
    <2>. QED
        BY <2>1, <2>2, <2>3 DEF QueueInv
<1>13. MergedFirst(of2)'
    <2>1. ASSUME NEW p \in Pixels, NEW t \in Merged(of, p), NEW i \in Waiting', WaitsAt(i, p)'
          PROVE  t < of2[i]
        <3>1. CASE i \in Waiting
            BY <1>4, <1>7, <2>1, <3>1 DEF MergedFirst
        <3>2. CASE i = n + 1
            BY <1>4, <1>6, <1>11, <2>1, <3>2 DEF Merged
        <3>. QED
            BY <1>2, <3>1, <3>2
    <2>. QED
        BY <1>10, <2>1 DEF MergedFirst
<1>14. \A p \in Pixels : Shown(p)' = Shown(p)
    BY DEF Shown, DepthOf, ColorOf, mergerVars
<1>15. \A p \in Pixels : IsRight(p, Merged(of2, p))'
    BY <1>10, <1>14, RightCarried DEF mergerVars
<1>. QED
    BY <1>3, <1>12, <1>13, <1>15 DEF SeenInv, Tags
\* of2 is of for the fragments at the places left, d places further ahead.
Moves(of, of2, left, d) == \A i \in left : of2[i - d] = of[i]

\* What is merged when only those wait.
MergedBut(left, of, p) ==
    {t \in DOMAIN triangles : Scanned(t, p) /\ Comes(t, p) /\ \A i \in left : ~(WaitsAt(i, p) /\ of[i] = t)}

RasterizerRests == UNCHANGED <<triangles, triangle, x, y, lost>>

LEMMA Moved ==
    ASSUME NEW of, QueueInv(of), RasterizerRests,
           NEW d \in {0, 1}, NEW left \in SUBSET Waiting, NEW of2,
           \A j : j \in Waiting' <=> \E i \in left : j = i - d,
           \A i \in left : Item(i - d)' = Item(i),
           Moves(of, of2, left, d)
    PROVE  /\ QueueInv(of2)'
           /\ \A i \in left : \A p \in Pixels : WaitsAt(i - d, p)' <=> WaitsAt(i, p)
           /\ \A p \in Pixels : Merged(of2, p)' = MergedBut(left, of, p)
<1>1. \A i \in left : \A p \in Pixels : WaitsAt(i - d, p)' <=> WaitsAt(i, p)
    BY DEF WaitsAt
<1>2. \A t : \A p : (Comes(t, p)' <=> Comes(t, p)) /\ (Scanned(t, p)' <=> Scanned(t, p))
    BY DEF Comes, Covers, Scanned, Seen, RasterizerRests
<1>3. left \subseteq Int
    BY DEF Waiting
<1>4. QueueInv(of2)'
    <2>. USE DEF RasterizerRests
    <2>1. SUFFICES ASSUME NEW i \in left
                   PROVE  /\ Item(i - d)'.z = triangles'[of2[i - d]].z
                          /\ Item(i - d)'.color = triangles'[of2[i - d]].color
                          /\ \A p \in Pixels : WaitsAt(i - d, p)' =>
                                /\ Scanned(of2[i - d], p)' /\ Comes(of2[i - d], p)'
                                /\ \A j \in Waiting' : i - d < j /\ WaitsAt(j, p)' => of2[i - d] < of2[j]
        BY DEF QueueInv
    <2>2. /\ Item(i).z = triangles[of[i]].z /\ Item(i).color = triangles[of[i]].color
          /\ \A p \in Pixels : WaitsAt(i, p) =>
                /\ Scanned(of[i], p) /\ Comes(of[i], p)
                /\ \A j \in left : i < j /\ WaitsAt(j, p) => of[i] < of[j]
        BY DEF QueueInv
    <2>3. ASSUME NEW p \in Pixels, WaitsAt(i, p), NEW j \in left, i - d < j - d, WaitsAt(j, p)
          PROVE  of2[i - d] < of2[j - d]
        <3>1. i < j
            BY <1>3, <2>3
        <3>. QED
            BY <2>2, <2>3, <3>1 DEF Moves
    <2>4. \A p \in Pixels : WaitsAt(i, p) => Scanned(of2[i - d], p)' /\ Comes(of2[i - d], p)'
        <3>. PICK t : t = of[i]
            OBVIOUS
        <3>. QED
            BY <1>2, <2>2 DEF Moves
    <2>. QED
        BY <1>1, <2>2, <2>3, <2>4 DEF Moves
<1>5. \A p \in Pixels : Merged(of2, p)' = MergedBut(left, of, p)
    BY <1>1, <1>2 DEF Merged, MergedBut, Moves, RasterizerRests
<1>. QED
    BY <1>1, <1>4, <1>5

\* The output merger takes a fragment whose depth it is to test.
LEMMA TakeStep ==
    ASSUME PictureTypeOK, SeenInv, UNCHANGED <<triangles, triangle, x, y, lost, depthTest>>,
           shaded # <<>>, shaded' = Tail(shaded), Waiting = 1 .. Len(shaded),
           Waiting' = {i - 1 : i \in Waiting}, \A i \in Waiting : Item(i - 1)' = Item(i),
           \A p \in Pixels : Shown(p)' = Shown(p)
    PROVE  SeenInv'
<1>. PICK of \in Tags :
        QueueInv(of) /\ MergedFirst(of) /\ \A p \in Pixels : IsRight(p, Merged(of, p))
    BY DEF SeenInv, Tags
<1>. PICK n \in Nat : n = Len(shaded)
    BY WaitingTyped
<1>. PICK of2 : of2 = [i \in 0 .. n - 1 |-> of[i + 1]]
    OBVIOUS
<1>1. n >= 1 /\ Len(shaded') = n - 1
    BY DEF PictureTypeOK
<1>2. of2 \in Tags' /\ \A i \in Waiting : of2[i - 1] = of[i]
    BY <1>1 DEF Tags
<1>3. /\ QueueInv(of2)'
      /\ \A i \in Waiting : \A p \in Pixels : WaitsAt(i - 1, p)' <=> WaitsAt(i, p)
      /\ \A p \in Pixels : Merged(of2, p)' = Merged(of, p)
    <2>. PICK left \in SUBSET Waiting, d \in {0, 1} : left = Waiting /\ d = 1
        OBVIOUS
    <2>1. /\ \A j : j \in Waiting' <=> \E i \in left : j = i - d
          /\ \A i \in left : Item(i - d)' = Item(i)
          /\ Moves(of, of2, left, d)
        BY <1>2 DEF Moves
    <2>2. RasterizerRests
        BY DEF RasterizerRests
    <2>3. QueueInv(of2)'
        BY ONLY QueueInv(of), d \in {0, 1}, left \in SUBSET Waiting, <2>1, <2>2, Moved, SMTT(30), ZenonT(40)
    <2>4. \A i \in left : \A p \in Pixels : WaitsAt(i - d, p)' <=> WaitsAt(i, p)
        BY ONLY QueueInv(of), d \in {0, 1}, left \in SUBSET Waiting, <2>1, <2>2, Moved, SMTT(30), ZenonT(40)
    <2>5. \A p \in Pixels : Merged(of2, p)' = MergedBut(left, of, p)
        BY ONLY QueueInv(of), d \in {0, 1}, left \in SUBSET Waiting, <2>1, <2>2, Moved, SMTT(30), ZenonT(40)
    <2>6. \A p \in Pixels : MergedBut(left, of, p) = Merged(of, p)
        BY DEF Merged, MergedBut
    <2>. QED
        BY <2>3, <2>4, <2>5, <2>6
<1>4. MergedFirst(of2)'
    <2>1. ASSUME NEW p \in Pixels, NEW t \in Merged(of, p), NEW i \in Waiting, WaitsAt(i - 1, p)'
          PROVE  t < of2[i - 1]
        BY <1>2, <1>3, <2>1 DEF MergedFirst
    <2>. QED
        BY <1>3, <2>1 DEF MergedFirst
<1>5. \A p \in Pixels : IsRight(p, Merged(of2, p))'
    BY <1>3, RightCarried
<1>. QED
    BY <1>2, <1>3, <1>4, <1>5 DEF SeenInv, Tags

\* The first of the fragments is merged, which is to say written or dropped.
LEMMA SettleStep ==
    ASSUME PictureTypeOK, SeenInv, UNCHANGED <<triangles, triangle, x, y, lost, depthTest>>,
           NEW k \in Waiting, NEW d \in {0, 1}, d <= Len(shaded), Len(shaded') = Len(shaded) - d,
           Waiting' = {i - d : i \in Waiting \ {k}},
           \A i \in Waiting \ {k} : k < i /\ Item(i - d)' = Item(i),
           NEW p \in Pixels, WaitsAt(k, p),
           \A q \in Pixels \ {p} : Shown(q)' = Shown(q),
           \/ depthTest /\ Item(k).z >= Shown(p).z /\ Shown(p)' = Shown(p)
           \/ /\ depthTest => Item(k).z < Shown(p).z
              /\ Shown(p)' = [z |-> IF depthTest THEN Item(k).z ELSE Shown(p).z, color |-> Item(k).color]
    PROVE  SeenInv'
<1>. PICK of \in Tags :
        QueueInv(of) /\ MergedFirst(of) /\ \A q \in Pixels : IsRight(q, Merged(of, q))
    BY DEF SeenInv, Tags
<1>. PICK n \in Nat : n = Len(shaded) /\ Waiting \subseteq 0 .. n
    BY WaitingTyped
<1>. PICK left \in SUBSET Waiting : left = Waiting \ {k}
    OBVIOUS
<1>. PICK of2 : of2 = [i \in 0 .. n - d |-> of[i + d]]
    OBVIOUS
<1>. PICK t \in DOMAIN triangles : t = of[k]
    BY DEF Tags
<1>1. of2 \in Tags'
    BY DEF Tags
<1>2. \A i \in left : of2[i - d] = of[i]
    <2>1. \A i \in left : i - d \in 0 .. n - d /\ i - d + d = i
        OBVIOUS
    <2>. QED
        BY <2>1
<1>3. /\ QueueInv(of2)'
      /\ \A i \in left : \A q \in Pixels : WaitsAt(i - d, q)' <=> WaitsAt(i, q)
      /\ \A q \in Pixels : Merged(of2, q)' = MergedBut(left, of, q)
    <2>1. /\ \A j : j \in Waiting' <=> \E i \in left : j = i - d
          /\ \A i \in left : Item(i - d)' = Item(i)
          /\ Moves(of, of2, left, d)
        BY <1>2 DEF Moves
    <2>2. RasterizerRests
        BY DEF RasterizerRests
    <2>3. QueueInv(of2)'
        BY ONLY QueueInv(of), d \in {0, 1}, left \in SUBSET Waiting, <2>1, <2>2, Moved, SMTT(30), ZenonT(40)
    <2>4. \A i \in left : \A q \in Pixels : WaitsAt(i - d, q)' <=> WaitsAt(i, q)
        BY ONLY QueueInv(of), d \in {0, 1}, left \in SUBSET Waiting, <2>1, <2>2, Moved, SMTT(30), ZenonT(40)
    <2>5. \A q \in Pixels : Merged(of2, q)' = MergedBut(left, of, q)
        BY ONLY QueueInv(of), d \in {0, 1}, left \in SUBSET Waiting, <2>1, <2>2, Moved, SMTT(30), ZenonT(40)
    <2>. QED
        BY <2>3, <2>4, <2>5
<1>4. /\ Item(k).z = triangles[t].z /\ Item(k).color = triangles[t].color
      /\ Scanned(t, p) /\ Comes(t, p)
      /\ \A i \in left : WaitsAt(i, p) => t < of[i]
    BY DEF QueueInv
<1>5. \A q \in Pixels \ {p} : ~WaitsAt(k, q)
    <2>1. \A q \in Pixels : q = [x |-> q.x, y |-> q.y]
        BY DEF Pixels
    <2>2. ASSUME NEW q \in Pixels \ {p}, WaitsAt(k, q)
          PROVE  FALSE
        <3>1. q.x = p.x /\ q.y = p.y
            BY <2>2 DEF WaitsAt
        <3>. QED
            BY ONLY <2>1, <3>1, p \in Pixels, q \in Pixels \ {p}
    <2>. QED
        BY <2>2
<1>6. \A i \in left : of[i] \in DOMAIN triangles
    BY DEF Tags
<1>7. \A u \in DOMAIN triangles : u \in Int
    BY TriangleTyped
<1>8. \A q \in Pixels \ {p} : Merged(of2, q)' = Merged(of, q)
    <2>1. \A q \in Pixels \ {p} : MergedBut(left, of, q) = Merged(of, q)
        BY <1>5 DEF Merged, MergedBut
    <2>. QED
        BY <1>3, <2>1
<1>9. Merged(of2, p)' = Merged(of, p) \cup {t}
    <2>1. \A i \in left : ~(WaitsAt(i, p) /\ of[i] = t)
        BY <1>4, <1>6, <1>7
    <2>2. ASSUME NEW u \in DOMAIN triangles
          PROVE  u \in Merged(of2, p)' <=> u \in Merged(of, p) \/ u = t
        <3>1. u \in Merged(of, p) <=>
                /\ Scanned(u, p) /\ Comes(u, p) /\ u # t
                /\ \A i \in left : ~(WaitsAt(i, p) /\ of[i] = u)
            BY DEF Merged
        <3>. QED
            BY <1>3, <1>4, <2>1, <3>1 DEF MergedBut
    <2>3. Merged(of2, p)' \subseteq DOMAIN triangles
        BY <1>3 DEF MergedBut
    <2>4. Merged(of, p) \subseteq DOMAIN triangles
        BY DEF Merged
    <2>. QED
        BY <2>2, <2>3, <2>4
<1>10. \A u \in Merged(of, p) : u < t
    BY DEF MergedFirst
<1>11. MergedFirst(of2)'
    <2>1. ASSUME NEW q \in Pixels, NEW u \in Merged(of2, q)', NEW j \in Waiting', WaitsAt(j, q)'
          PROVE  u < of2[j]
        <3>. PICK i \in left : j = i - d
            OBVIOUS
        <3>1. WaitsAt(i, q) /\ of2[j] = of[i]
            BY <1>2, <1>3, <2>1
        <3>2. CASE u \in Merged(of, q)
            BY <3>1, <3>2 DEF MergedFirst
        <3>3. CASE u \notin Merged(of, q)
            <4>1. q = p /\ u = t
                BY <1>8, <1>9, <2>1, <3>3
            <4>. QED
                BY <1>4, <3>1, <4>1
        <3>. QED
            BY <3>2, <3>3
    <2>. QED
        BY <2>1 DEF MergedFirst
<1>12. \A q \in Pixels \ {p} : IsRight(q, Merged(of2, q))'
    <2>1. ASSUME NEW q \in Pixels \ {p}
          PROVE  IsRight(q, Merged(of2, q))'
        <3>1. IsRight(q, Merged(of, q)) /\ Shown(q)' = Shown(q) /\ Merged(of2, q)' = Merged(of, q)
            BY <1>8
        <3>. QED
            BY <3>1 DEF IsRight, IsSeen
    <2>. QED
        BY <2>1
<1>13. IsRight(p, Merged(of2, p))'
    <2>. PICK ts \in SUBSET DOMAIN triangles : ts = Merged(of, p)
        BY DEF Merged
    <2>1. IsRight(p, ts) /\ \A u \in ts : u < t
        BY <1>10
    <2>. PICK us : us = ts \cup {t} /\ Merged(of2, p)' = us
        BY <1>9
    <2>2. CASE depthTest /\ Item(k).z >= Shown(p).z /\ Shown(p)' = Shown(p)
        <3>1. IsRight(p, ts \cup {t})
            BY <1>4, <2>1, <2>2, Hidden
        <3>2. IsRight(p, us)
            BY <3>1
        <3>. QED
            BY <2>2, <3>2 DEF IsRight, IsSeen
    <2>3. CASE /\ depthTest => Item(k).z < Shown(p).z
               /\ Shown(p)' = [z |-> IF depthTest THEN Item(k).z ELSE Shown(p).z, color |-> Item(k).color]
        <3>1. IsSeen(t, ts \cup {t})
            BY <1>4, <2>1, <2>3, Nearer
        <3>2. IsSeen(t, us) /\ t \in us
            BY <3>1
        <3>3. ~depthTest => Shown(p).z = Far
            BY <2>1, ShownDepth
        <3>4. Shown(p)' = [z |-> IF depthTest THEN triangles[t].z ELSE Far, color |-> triangles[t].color]
            BY <1>4, <2>3, <3>3
        <3>. QED
            BY <3>2, <3>4 DEF IsRight, IsSeen
    <2>. QED
        BY <2>2, <2>3
<1>. QED
    BY <1>1, <1>3, <1>11, <1>12, <1>13 DEF SeenInv, Tags
-----------------------------------------------------------------------------
(* Each action keeps what is seen right.                                   *)

LEMMA SeenInit == InitDraw => SeenInv
<1>. SUFFICES ASSUME InitDraw
              PROVE  SeenInv
    OBVIOUS
<1>1. PictureTypeOK /\ triangle = 1 /\ x = 0 /\ y = 0 /\ shaded = <<>> /\ at = "fragment"
    BY PictureInit DEF InitDraw, PictureIInv
<1>2. Waiting = {} /\ Len(shaded) = 0
    BY <1>1 DEF Waiting
<1>3. 1 \in DOMAIN triangles
    BY <1>1 DEF PictureTypeOK
<1>. PICK of : of = [i \in 0 .. 0 |-> 1]
    OBVIOUS
<1>4. of \in [0 .. Len(shaded) -> DOMAIN triangles]
    BY <1>2, <1>3
<1>5. \A p \in Pixels : \A t \in DOMAIN triangles : ~Scanned(t, p)
    BY <1>1, RasterAssumption DEF Scanned, Seen, Pixels, PictureTypeOK
<1>6. \A p \in Pixels : Merged(of, p) = {}
    BY <1>5 DEF Merged
<1>7. \A p \in Pixels : IsRight(p, Merged(of, p))
    BY <1>6, Cleared DEF IsRight
<1>. QED
    BY <1>2, <1>4, <1>6, <1>7 DEF SeenInv, QueueInv, MergedFirst

LEMMA RasterizeSeen ==
    ASSUME PictureTypeOK, ScanInv, LostInv, SeenInv, Rasterize
    PROVE  SeenInv'
<1>. DEFINE Hit(p) == IsPointInTriangle(p, vertices[1], vertices[2], vertices[3])
<1>1. /\ UNCHANGED <<triangles, triangle, depthTest, at, fragment, memory>>
      /\ vertices = triangles[triangle].vertices /\ RasterIInv
      /\ shaded \in Seq(PictureFragments) /\ hits \in Seq(Pixels)
      /\ triangle \in DOMAIN triangles
    BY DEF Rasterize, mergerVars, ScanInv, PictureTypeOK
<1>2. \A p : Hit(p) <=> Covers(triangle, p)
    BY <1>1 DEF Covers
<1>3. \A p \in Pixels : Shown(p)' = Shown(p)
    BY <1>1 DEF Shown, DepthOf, ColorOf
<1>4. \A t : \A p : Covers(t, p)' <=> Covers(t, p)
    BY <1>1 DEF Covers
<1>5. ASSUME UNCHANGED shaded,
             \A t \in DOMAIN triangles : \A p \in Pixels :
                Scanned(t, p)' /\ Comes(t, p)' <=> Scanned(t, p) /\ Comes(t, p)
      PROVE  SeenInv'
    <2>1. Waiting' = Waiting
        BY <1>1, <1>5 DEF Waiting
    <2>. QED
        BY <1>1, <1>3, <1>5, <2>1, QuietStep
<1>6. CASE Pixel
    <2>. PICK here \in Pixels : here = [x |-> x, y |-> y]
        BY <1>1, <1>6, PixelSeen
    <2>1. ~Seen(here) /\ \A p \in Pixels : Seen(p)' <=> Seen(p) \/ p = here
        BY <1>1, <1>6, PixelSeen
    <2>2. \A t \in DOMAIN triangles : \A p \in Pixels :
            Scanned(t, p)' <=> Scanned(t, p) \/ (t = triangle /\ p = here)
        BY <1>1, <2>1 DEF Scanned
    <2>3. CASE Hit(here)
        <3>1. hits' = Append(hits, here)
            BY <1>6, <2>3 DEF Pixel
        <3>2. hits' # hits /\ hits'[Len(hits')] = here
            BY <1>1, <3>1
        <3>3. UNCHANGED <<mergerVars, triangles, triangle>>
            BY DEF Rasterize
        <3>4. ~Scanned(triangle, here)
            BY <1>1, <2>1, TriangleTyped DEF Scanned
        <3>5. CASE Taken(here)
            <4>1. Comes(triangle, here)
                BY <1>1, <1>2, <2>3, <3>4 DEF LostInv, Comes
            <4>. QED
                BY <2>1, <3>3, <3>5, <4>1, HitStep DEF Taken
        <3>6. CASE Missed(here)
            <4>1. lost' = lost \cup {<<triangle, here>>}
                BY <3>6 DEF Missed
            <4>2. \A t \in DOMAIN triangles : \A p \in Pixels :
                    Comes(t, p)' <=> Comes(t, p) /\ ~(t = triangle /\ p = here)
                BY <1>4, <4>1 DEF Comes
            <4>. QED
                BY <1>5, <2>2, <3>4, <3>6, <4>2 DEF Missed
        <3>. QED
            BY <3>2, <3>5, <3>6 DEF Rasterize
    <2>4. CASE ~Hit(here)
        <3>1. UNCHANGED <<shaded, lost>>
            BY <1>6, <2>4 DEF Pixel, Rasterize
        <3>2. ~Comes(triangle, here) /\ \A t : \A p : Comes(t, p)' <=> Comes(t, p)
            BY <1>2, <1>4, <2>4, <3>1 DEF Comes
        <3>. QED
            BY <1>5, <2>2, <3>1, <3>2
    <2>. QED
        BY <2>3, <2>4
<1>7. CASE Row
    <2>1. UNCHANGED <<shaded, lost>>
        BY <1>7 DEF Row, Rasterize
    <2>2. \A t \in DOMAIN triangles : \A p \in Pixels : Scanned(t, p)' <=> Scanned(t, p)
        BY <1>1, <1>7, RowStep DEF Scanned
    <2>3. \A t : \A p : Comes(t, p)' <=> Comes(t, p)
        BY <1>4, <2>1 DEF Comes
    <2>. QED
        BY <1>5, <2>1, <2>2, <2>3
<1>. QED
    BY <1>6, <1>7 DEF Rasterize, Next

LEMMA NextTriangleSeen ==
    ASSUME PictureTypeOK, ScanInv, SeenInv, NextTriangle
    PROVE  SeenInv'
<1>1. /\ UNCHANGED <<triangles, depthTest, shaded, lost, at, fragment, memory>>
      /\ y >= Height /\ y \in Nat /\ x' = 0 /\ y' = 0
      /\ triangle' = triangle + 1 /\ triangle \in Nat
    BY DEF NextTriangle, mergerVars, PictureTypeOK
<1>2. \A p \in Pixels : p.y \in 0 .. Height - 1 /\ p.x \in 0 .. Width - 1
    BY DEF Pixels
<1>3. \A p \in Pixels : Seen(p) /\ ~Seen(p)'
    BY <1>1, <1>2, RasterAssumption DEF Seen
<1>4. \A t \in DOMAIN triangles : \A p \in Pixels : Scanned(t, p)' <=> Scanned(t, p)
    <2>1. \A t \in DOMAIN triangles : t \in Int
        BY TriangleTyped
    <2>. QED
        BY <1>1, <1>3, <2>1 DEF Scanned
<1>5. Waiting' = Waiting
    BY <1>1 DEF Waiting
<1>6. \A p \in Pixels : Shown(p)' = Shown(p)
    BY <1>1 DEF Shown, DepthOf, ColorOf
<1>7. \A t : \A p : Comes(t, p)' <=> Comes(t, p)
    BY <1>1 DEF Comes, Covers
<1>. QED
    BY <1>1, <1>4, <1>5, <1>6, <1>7, QuietStep

LEMMA ItemsMoveUp ==
    ASSUME PictureTypeOK, Merge
    PROVE  /\ shaded # <<>> /\ shaded' = Tail(shaded) /\ Waiting = 1 .. Len(shaded)
           /\ Len(shaded) \in Nat /\ 1 <= Len(shaded) /\ Len(shaded') = Len(shaded) - 1
           /\ \A i \in Waiting : Item(i - 1)' = Item(i)
           /\ Item(1) = Head(shaded)
<1>1. /\ shaded \in Seq(PictureFragments) /\ shaded # <<>> /\ shaded' = Tail(shaded)
      /\ at = "fragment" /\ fragment' = Head(shaded)
    BY DEF PictureTypeOK, Merge, Receive
<1>2. Waiting = 1 .. Len(shaded)
    BY <1>1 DEF Waiting
<1>3. /\ Len(shaded) \in Nat /\ 1 <= Len(shaded) /\ Len(shaded') = Len(shaded) - 1
      /\ \A i \in 1 .. Len(shaded) - 1 : shaded'[i] = shaded[i + 1]
      /\ Head(shaded) = shaded[1]
    BY <1>1
<1>4. ASSUME NEW i \in Waiting
      PROVE  Item(i - 1)' = Item(i)
    <2>1. CASE i = 1
        BY <1>1, <1>3, <2>1 DEF Item
    <2>2. CASE i # 1
        <3>1. i - 1 \in 1 .. Len(shaded) - 1 /\ i - 1 # 0 /\ i # 0 /\ i - 1 + 1 = i
            BY <1>2, <1>3, <2>2
        <3>2. shaded'[i - 1] = shaded[i]
            BY <1>3, <3>1
        <3>. QED
            BY <3>1, <3>2 DEF Item
    <2>. QED
        BY <2>1, <2>2
<1>. QED
    BY <1>1, <1>2, <1>3, <1>4 DEF Item

LEMMA MergeSeenRight ==
    ASSUME PictureIInv, SeenInv, Merge
    PROVE  SeenInv'
<1>1. PictureTypeOK /\ at = "fragment" /\ at' = (IF depthTest THEN "depth" ELSE "colorWritten")
    BY DEF PictureIInv, Merge, Receive
<1>2. UNCHANGED <<triangles, triangle, x, y, lost, depthTest>>
    BY DEF Merge, Receive, vars
<1>3. /\ shaded # <<>> /\ shaded' = Tail(shaded) /\ Waiting = 1 .. Len(shaded)
      /\ Len(shaded) \in Nat /\ 1 <= Len(shaded) /\ Len(shaded') = Len(shaded) - 1
      /\ \A i \in Waiting : Item(i - 1)' = Item(i)
      /\ Item(1) = Head(shaded)
    BY <1>1, ItemsMoveUp
<1>4. CASE depthTest
    <2>1. Waiting' = {i - 1 : i \in Waiting}
        <3>1. Waiting' = 0 .. Len(shaded) - 1
            BY <1>1, <1>3, <1>4 DEF Waiting
        <3>2. \A j \in 0 .. Len(shaded) - 1 : j + 1 \in Waiting /\ j = j + 1 - 1
            BY <1>3
        <3>. QED
            BY <1>3, <3>1, <3>2
    <2>2. \A p \in Pixels : Shown(p)' = Shown(p)
        BY <1>4, MergeShows
    <2>. QED
        BY <1>1, <1>2, <1>3, <2>1, <2>2, TakeStep
<1>5. CASE ~depthTest
    <2>. PICK f \in PictureFragments, p \in Pixels : f = Head(shaded) /\ p = PixelOf(f)
        BY MergeShows
    <2>1. Waiting' = {i - 1 : i \in Waiting \ {1}}
        <3>1. Waiting' = 1 .. Len(shaded) - 1
            BY <1>1, <1>3, <1>5 DEF Waiting
        <3>2. \A j \in 1 .. Len(shaded) - 1 : j + 1 \in Waiting \ {1} /\ j = j + 1 - 1
            BY <1>3
        <3>. QED
            BY <1>3, <3>1, <3>2
    <2>2. 1 \in Waiting /\ \A i \in Waiting \ {1} : 1 < i /\ Item(i - 1)' = Item(i)
        BY <1>3
    <2>3. WaitsAt(1, p)
        BY <1>3, FragmentPixel DEF WaitsAt
    <2>4. \A q \in Pixels \ {p} : Shown(q)' = Shown(q)
        BY MergeShows
    <2>5. Shown(p)' = [z |-> IF depthTest THEN Item(1).z ELSE Shown(p).z, color |-> Item(1).color]
        BY <1>3, <1>5, MergeShows
    <2>. QED
        BY <1>1, <1>2, <1>3, <1>5, <2>1, <2>2, <2>3, <2>4, <2>5, SettleStep
<1>. QED
    BY <1>4, <1>5

\* The fragment in the output merger is merged, the others stay where they are.
LEMMA FrontSettles ==
    ASSUME PictureTypeOK, SeenInv, at \in {"depth", "depthWritten"}, at' \in {"fragment", "colorWritten"},
           UNCHANGED <<triangles, triangle, x, y, lost, depthTest, shaded>>,
           NEW p \in Pixels, p = PixelOf(fragment),
           \A q \in Pixels \ {p} : Shown(q)' = Shown(q),
           \/ depthTest /\ fragment.z >= Shown(p).z /\ Shown(p)' = Shown(p)
           \/ /\ depthTest /\ fragment.z < Shown(p).z
              /\ Shown(p)' = [z |-> fragment.z, color |-> fragment.color]
    PROVE  SeenInv'
<1>1. /\ Len(shaded) \in Nat /\ 0 <= Len(shaded) /\ Len(shaded') = Len(shaded) - 0
      /\ Waiting = 0 .. Len(shaded) /\ Waiting' = 1 .. Len(shaded) /\ 0 \in Waiting
    BY WaitingTyped DEF Waiting
<1>2. Waiting' = {i - 0 : i \in Waiting \ {0}}
    <2>1. \A j \in 1 .. Len(shaded) : j \in Waiting \ {0} /\ j = j - 0
        BY <1>1
    <2>2. \A i \in Waiting \ {0} : i - 0 = i /\ i \in 1 .. Len(shaded)
        BY <1>1
    <2>. QED
        BY <1>1, <2>1, <2>2
<1>3. \A i \in Waiting \ {0} : 0 < i /\ Item(i - 0)' = Item(i)
    <2>1. \A i \in Waiting \ {0} : 0 < i /\ i - 0 = i
        BY <1>1
    <2>. QED
        BY <2>1 DEF Item
<1>4. Item(0) = fragment /\ WaitsAt(0, p)
    BY DEF Item, WaitsAt, PixelOf
<1>5. \/ depthTest /\ Item(0).z >= Shown(p).z /\ Shown(p)' = Shown(p)
      \/ /\ depthTest => Item(0).z < Shown(p).z
         /\ Shown(p)' = [z |-> IF depthTest THEN Item(0).z ELSE Shown(p).z, color |-> Item(0).color]
    BY <1>4
<1>. QED
    BY <1>1, <1>2, <1>3, <1>4, <1>5, SettleStep

LEMMA AccessSeen ==
    ASSUME PictureIInv, SeenInv, MemoryAccess
    PROVE  SeenInv'
<1>1. PictureTypeOK /\ UNCHANGED <<vars, triangles, triangle, shaded, lost>>
    BY DEF PictureIInv, MemoryAccess
<1>2. UNCHANGED <<triangles, triangle, x, y, shaded, lost, depthTest, fragment>>
    BY <1>1 DEF vars, MemoryAccess, Access, TestDepth, WriteDepth, WriteColor
<1>3. \A t : \A p : (Scanned(t, p)' <=> Scanned(t, p)) /\ (Comes(t, p)' <=> Comes(t, p))
    BY <1>2 DEF Scanned, Seen, Comes, Covers
<1>4. ASSUME Waiting' = Waiting, \A p \in Pixels : Shown(p)' = Shown(p)
      PROVE  SeenInv'
    BY <1>2, <1>3, <1>4, QuietStep
<1>5. CASE TestDepth
    <2>1. \A p \in Pixels : Shown(p)' = Shown(p)
        BY <1>1, <1>5, TestDepthStep
    <2>2. at = "depth" /\ depthTest
        BY <1>5 DEF TestDepth, PictureIInv, PassedInv
    <2>. PICK p \in Pixels : p = PixelOf(fragment)
        BY <1>1, <2>2, InWork
    <2>3. at' = IF fragment.z >= Shown(p).z THEN "fragment" ELSE "depthWritten"
        BY <1>1, <1>5, <2>2, InWork DEF TestDepth, Shown
    <2>4. CASE fragment.z >= Shown(p).z
        BY <1>1, <1>2, <2>1, <2>2, <2>3, <2>4, FrontSettles
    <2>5. CASE ~(fragment.z >= Shown(p).z)
        <3>1. Waiting' = Waiting
            BY <1>2, <2>2, <2>3, <2>5 DEF Waiting
        <3>. QED
            BY <1>4, <2>1, <3>1
    <2>. QED
        BY <2>4, <2>5
<1>6. CASE WriteDepth
    <2>1. at = "depthWritten" /\ at' = "colorWritten" /\ depthTest
        BY <1>1, <1>6, WriteDepthStep DEF WriteDepth
    <2>. PICK p \in Pixels : p = PixelOf(fragment)
        BY <1>1, <1>6, WriteDepthStep
    <2>2. /\ \A q \in Pixels \ {p} : Shown(q)' = Shown(q)
          /\ fragment.z < Shown(p).z /\ Shown(p)' = [z |-> fragment.z, color |-> fragment.color]
        BY <1>1, <1>6, WriteDepthStep
    <2>. QED
        BY <1>1, <1>2, <2>1, <2>2, FrontSettles
<1>7. CASE WriteColor
    <2>1. \A p \in Pixels : Shown(p)' = Shown(p)
        BY <1>1, <1>7, WriteColorStep
    <2>2. Waiting' = Waiting
        BY <1>2, <1>7 DEF Waiting, WriteColor
    <2>. QED
        BY <1>4, <2>1, <2>2
<1>. QED
    BY <1>5, <1>6, <1>7 DEF MemoryAccess, Access

LEMMA LostStep ==
    ASSUME PictureTypeOK, ScanInv, LostInv, [NextStep]_pictureVars
    PROVE  LostInv'
<1>. SUFFICES ASSUME NEW t \in DOMAIN triangles, NEW p \in Pixels, <<t, p>> \in lost'
              PROVE  Scanned(t, p)'
    BY DEF LostInv, NextStep, Rasterize, NextTriangle, Merge, MemoryAccess, pictureVars
<1>1. t \in Int /\ triangle \in Int
    BY TriangleTyped DEF PictureTypeOK
<1>2. CASE Rasterize
    <2>1. UNCHANGED triangle /\ hits \in Seq(Pixels) /\ (Pixel \/ Row)
        BY <1>2 DEF Rasterize, Next, PictureTypeOK
    <2>2. Scanned(t, p) => Scanned(t, p)'
        BY <2>1, PixelSeen, RowStep DEF Scanned, ScanInv
    <2>3. CASE <<t, p>> \in lost
        BY <2>2, <2>3 DEF LostInv
    <2>4. CASE <<t, p>> \notin lost
        <3>1. hits' # hits /\ t = triangle /\ p = hits'[Len(hits')]
            BY <1>2, <2>4 DEF Rasterize, Taken, Missed
        <3>2. Pixel /\ hits' = Append(hits, [x |-> x, y |-> y])
            BY <2>1, <3>1 DEF Pixel, Row
        <3>3. p = [x |-> x, y |-> y]
            BY <2>1, <3>1, <3>2
        <3>4. Seen(p)'
            BY <3>2, <3>3, PixelSeen DEF ScanInv
        <3>. QED
            BY <2>1, <3>1, <3>4 DEF Scanned
    <2>. QED
        BY <2>3, <2>4
<1>3. CASE NextTriangle
    <2>1. Scanned(t, p) /\ triangle' = triangle + 1
        BY <1>3 DEF NextTriangle, LostInv
    <2>. QED
        BY <1>1, <2>1 DEF Scanned
<1>4. CASE UNCHANGED <<vars, triangle, lost>>
    BY <1>4 DEF LostInv, Scanned, Seen, vars
<1>. QED
    BY <1>2, <1>3, <1>4 DEF NextStep, Merge, MemoryAccess, pictureVars

\* What is waiting comes in the order of the triangles, and each pixel is what
\* merging the triangles whose fragments have been merged so far makes of it.
THEOREM AlwaysRight == PictureSpec => []SeenIInv
<1>1. SeenIInv /\ [NextStep]_pictureVars => SeenIInv'
    <2>. SUFFICES ASSUME SeenIInv, [NextStep]_pictureVars
                  PROVE  SeenIInv'
        OBVIOUS
    <2>1. PictureIInv /\ PictureTypeOK /\ ScanInv /\ LostInv /\ SeenInv
        BY DEF SeenIInv, PictureIInv
    <2>2. PictureIInv' /\ ScanInv' /\ LostInv'
        BY <2>1, PictureStep, ScanStep, LostStep
    <2>3. CASE UNCHANGED pictureVars
        <3>1. UNCHANGED <<triangles, triangle, x, y, shaded, lost, depthTest, fragment, at, memory>>
            BY <2>3 DEF pictureVars, vars, mergerVars
        <3>2. Waiting' = Waiting /\ \A p \in Pixels : Shown(p)' = Shown(p)
            BY <3>1 DEF Waiting, Shown, DepthOf, ColorOf
        <3>3. \A t : \A p : (Scanned(t, p)' <=> Scanned(t, p)) /\ (Comes(t, p)' <=> Comes(t, p))
            BY <3>1 DEF Scanned, Seen, Comes, Covers
        <3>4. SeenInv'
            BY <2>1, <3>1, <3>2, <3>3, QuietStep
        <3>. QED
            BY <2>2, <3>4 DEF SeenIInv
    <2>4. CASE NextStep
        <3>1. SeenInv'
            BY <2>1, <2>4, RasterizeSeen, NextTriangleSeen, MergeSeenRight, AccessSeen DEF NextStep
        <3>. QED
            BY <2>2, <3>1 DEF SeenIInv
    <2>. QED
        BY <2>3, <2>4
<1>2. InitDraw => SeenIInv
    <2>1. InitDraw => LostInv
        BY DEF InitDraw, LostInv
    <2>. QED
        BY <2>1, PictureInit, ScanInit, SeenInit DEF SeenIInv
<1>. QED
    BY <1>1, <1>2, PTL DEF PictureSpec

LEMMA LeastAndLast ==
    ASSUME NEW S \in SUBSET Int, NEW n \in S
    PROVE  /\ (\A m \in S : n <= m) => Min(S) = n
           /\ (\A m \in S : m <= n) => Max(S) = n
<1>1. ASSUME \A m \in S : n <= m
      PROVE  Min(S) = n
    <2>1. \A k \in S : (\A m \in S : k <= m) => k = n
        BY <1>1
    <2>. QED
        BY <1>1, <2>1 DEF Min
<1>2. ASSUME \A m \in S : m <= n
      PROVE  Max(S) = n
    <2>1. \A k \in S : (\A m \in S : k >= m) => k = n
        BY <1>2
    <2>2. \A m \in S : n >= m
        BY <1>2
    <2>. QED
        BY <2>1, <2>2 DEF Max
<1>. QED
    BY <1>1, <1>2

LEMMA RightWhenDrawn == SeenIInv => NearestTakenIsSeen
<1>. DEFINE over(p) == {t \in DOMAIN triangles :
                            /\ Inside(p, triangles[t].vertices) /\ <<t, p>> \notin lost
                            /\ depthTest => triangles[t].z < Far}
            nearest(p) == {t \in over(p) : \A u \in over(p) : triangles[t].z <= triangles[u].z}
            winner(p) == IF depthTest THEN Min(nearest(p)) ELSE Max(over(p))
<1>. SUFFICES ASSUME SeenIInv, Drawn, Proper, NEW p \in Pixels
              PROVE  IF over(p) = {}
                     THEN DepthOf(p) = Far /\ ColorOf(p) = Background
                     ELSE /\ DepthOf(p) = (IF depthTest THEN triangles[winner(p)].z ELSE Far)
                          /\ ColorOf(p) = triangles[winner(p)].color
    BY DEF NearestTakenIsSeen
<1>1. PictureTypeOK /\ SeenInv
    BY DEF SeenIInv, PictureIInv
<1>2. /\ y >= Height /\ triangle = Len(triangles) /\ shaded = <<>> /\ at = "fragment"
      /\ triangles \in Seq(FlatTriangles) /\ y \in Nat
    BY <1>1 DEF Drawn, PictureTypeOK
<1>3. Waiting = {}
    BY <1>2 DEF Waiting
<1>4. \A t \in DOMAIN triangles : Scanned(t, p)
    <2>1. p.y < y
        BY <1>2, PixelNumbers
    <2>. QED
        BY <1>2, <2>1 DEF Scanned, Seen
<1>5. \A t \in DOMAIN triangles :
        Comes(t, p) <=> Inside(p, triangles[t].vertices) /\ <<t, p>> \notin lost
    <2>1. ASSUME NEW t \in DOMAIN triangles
          PROVE  Covers(t, p) <=> Inside(p, triangles[t].vertices)
        <3>. PICK v : v = triangles[t].vertices
            OBVIOUS
        <3>1. v \in [1 .. 3 -> IntPoints]
            BY <1>1, TriangleTyped, RasterAssumption DEF Points, IntPoints
        <3>2. p \in IntPoints
            BY PixelNumbers DEF Pixels, IntPoints
        <3>3. ~Degenerate(v)
            BY DEF Proper
        <3>. QED
            BY <3>1, <3>2, <3>3, InsideIsHit DEF Covers
    <2>. QED
        BY <2>1 DEF Comes
<1>. PICK of : IsRight(p, Merged(of, p))
    BY <1>1 DEF SeenInv
<1>. PICK ts \in SUBSET DOMAIN triangles : ts = {t \in DOMAIN triangles : Comes(t, p)}
    OBVIOUS
<1>6. Merged(of, p) = ts
    BY <1>3, <1>4 DEF Merged
<1>7. over(p) = {t \in ts : depthTest => triangles[t].z < Far}
    BY <1>5
<1>8. Far \in Int /\ \A t \in DOMAIN triangles : t \in Int /\ triangles[t].z \in Int
    BY <1>1, TriangleTyped, DrawsAssumption
<1>9. Shown(p) = [z |-> DepthOf(p), color |-> ColorOf(p)]
    BY <1>2 DEF Shown
<1>10. CASE /\ \A t \in ts : depthTest /\ triangles[t].z >= Far
            /\ Shown(p) = [z |-> Far, color |-> Background]
    <2>1. over(p) = {}
        BY <1>7, <1>8, <1>10
    <2>. QED
        BY <1>9, <1>10, <2>1
<1>11. ASSUME NEW s \in ts, IsSeen(s, ts),
              Shown(p) = [z |-> IF depthTest THEN triangles[s].z ELSE Far, color |-> triangles[s].color]
       PROVE  /\ over(p) # {} /\ winner(p) = s
              /\ DepthOf(p) = (IF depthTest THEN triangles[s].z ELSE Far)
              /\ ColorOf(p) = triangles[s].color
    <2>1. s \in over(p)
        BY <1>7, <1>11 DEF IsSeen
    <2>2. winner(p) = s
        <3>1. CASE depthTest
            <4>1. s \in nearest(p)
                BY <1>7, <1>8, <1>11, <2>1, <3>1 DEF IsSeen
            <4>2. \A m \in nearest(p) : s <= m
                BY <1>7, <1>8, <1>11, <2>1, <3>1 DEF IsSeen
            <4>3. nearest(p) \subseteq Int
                BY <1>8
            <4>. HIDE DEF nearest
            <4>. QED
                BY <3>1, <4>1, <4>2, <4>3, LeastAndLast
        <3>2. CASE ~depthTest
            <4>1. \A m \in over(p) : m <= s
                BY <1>7, <1>11, <3>2 DEF IsSeen
            <4>2. over(p) \subseteq Int
                BY <1>8
            <4>. HIDE DEF over
            <4>. QED
                BY <2>1, <3>2, <4>1, <4>2, LeastAndLast
        <3>. QED
            BY <3>1, <3>2
    <2>. QED
        BY <1>9, <1>11, <2>1, <2>2
<1>12. CASE \E s \in ts :
            /\ IsSeen(s, ts)
            /\ Shown(p) = [z |-> IF depthTest THEN triangles[s].z ELSE Far, color |-> triangles[s].color]
    BY <1>11, <1>12
<1>. QED
    BY <1>6, <1>10, <1>12 DEF IsRight

\* After any draw each pixel has depth and colour of the nearest triangle it is
\* inside of, not counting a triangle whose fragment there was lost, for any
\* framebuffer, any number of triangles, and however far the rasterizer runs ahead
\* of the output merger.
THEOREM DrawIsRight == PictureSpec => []NearestTakenIsSeen
BY AlwaysRight, RightWhenDrawn, PTL
=============================================================================
