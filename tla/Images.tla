------------------------------- MODULE Images --------------------------------
(***************************************************************************)
(* Raw images (ef/graphics/image.c): lines, circles, ellipses, triangles   *)
(* and fills drawn on one, and rectangles copied and combined from another *)
(* by loops over whole vectors (ef/os/vectorization.c) or over pixels.     *)
(*                                                                         *)
(* An image is its memory, row after row.  What is drawn is 1 on 0; what   *)
(* is copied is an alpha and a colour, each of two bits.  Left out: curves,*)
(* arcs and rotations, which are of floating point, and how much of its    *)
(* colour an antialiased pixel takes.                                      *)
(***************************************************************************)
EXTENDS Integers, Sequences, FiniteSets, FiniteSetsExt, SequencesExt, Bitwise

CONSTANTS W, H,         \* size of the image
          Word,         \* of an unsigned: more than any size
          Lanes,        \* pixels of a vector
          Corners,      \* bound: points that triangles have
          Radii, Deltas \* bounds: of circles, and of places in rectangles

VARIABLE task           \* what is drawn or copied, or nothing yet
vars == task

Points == (0..(W - 1)) \X (0..(H - 1))
Index(p) == p[2] * W + p[1]
Memory == 0..(W * H - 1)
U(n) == n % Word
Size(n) == IF n < 0 THEN 0 - n ELSE n
Sign(n) == IF n < 0 THEN -1 ELSE 1
Least(a, b) == IF a < b THEN a ELSE b
Most(a, b) == IF a < b THEN b ELSE a

(* A loop from a start, until it stops or n times.                         *)
Repeat(Body(_), Stops(_), start, n) ==
    LET f[i \in 0..n] == IF i = 0 THEN start ELSE LET b == f[i - 1] IN IF Stops(b) THEN b ELSE Body(b)
    IN f[n]

Pixels == [alpha : 0..3, colour : 0..3]
Source == [i \in Memory |-> [alpha |-> IF i % 3 = 0 THEN 0 ELSE 3, colour |-> (i \div 2) % 4]]
Target == [i \in Memory |-> [alpha |-> 3, colour |-> i % 3]]

-----------------------------------------------------------------------------
(* Lines, as sets of points.                                               *)
HLine(x0, y, x1) ==
    IF y >= H THEN {}
    ELSE (Least(x0, x1)..Least(Most(x0, x1), W - 1)) \X {y}

VLine(x, y0, y1) == {x} \X (Least(y0, y1)..Least(Most(y0, y1), H - 1))

(* g2d_bline: along the longer way one by one, and aside when the sum d is *)
(* not negative.                                                           *)
BLine(p, q) ==
    LET dx == Size(q[1] - p[1]) dy == Size(q[2] - p[2])
        long == Most(dx, dy) short == Least(dx, dy)
        sx == IF p[1] > q[1] THEN -1 ELSE 1 sy == IF p[2] > q[2] THEN -1 ELSE 1
        step(b) ==
            LET aside == b.d >= 0
            IN [d |-> b.d + 2 * short - (IF aside THEN 2 * long ELSE 0),
                z |-> <<b.z[1] + (IF aside \/ dx >= dy THEN sx ELSE 0),
                        b.z[2] + (IF aside \/ dx < dy THEN sy ELSE 0)>>,
                drawn |-> b.drawn \cup {b.z}]
    IN Repeat(step, LAMBDA b : FALSE, [z |-> p, d |-> 2 * short - long, drawn |-> {}], long + 1).drawn

Root(n) == CHOOSE r \in 0..n : r * r <= n /\ (r + 1) * (r + 1) > n

(* g2d_bline_antialiased, with the points beside the line that it touches. *)
BLineAntialiased(p, q) ==
    LET dx == Size(q[1] - p[1]) dy == Size(q[2] - p[2])
        sx == IF p[1] < q[1] THEN 1 ELSE -1 sy == IF p[2] < q[2] THEN 1 ELSE -1
        ed == IF dx + dy = 0 THEN 1 ELSE Root(dx * dx + dy * dy)
        step(b) ==
            LET e == b.err x == b.z[1] y == b.z[2]
                alongX == 2 * e >= 0 - dx
                stopX == alongX /\ x = q[1]
                besideX == IF alongX /\ ~stopX /\ e + dy < ed THEN {<<x, y + sy>>} ELSE {}
                alongY == ~stopX /\ 2 * e <= dy
                stopY == alongY /\ y = q[2]
                besideY == IF alongY /\ ~stopY /\ dx - e < ed THEN {<<x + sx, y>>} ELSE {}
            IN [drawn |-> b.drawn \cup {b.z} \cup besideX \cup besideY,
                err |-> e - (IF alongX THEN dy ELSE 0) + (IF alongY THEN dx ELSE 0),
                z |-> <<IF alongX THEN x + sx ELSE x, IF alongY THEN y + sy ELSE y>>,
                stop |-> stopX \/ stopY]
    IN Repeat(step, LAMBDA b : b.stop, [z |-> p, err |-> dx - dy, drawn |-> {}, stop |-> FALSE], dx + dy + 1).drawn

Line(p, q, antialiased) ==
    IF p[1] = q[1] THEN VLine(p[1], p[2], q[2])
    ELSE IF p[2] = q[2] THEN HLine(p[1], p[2], q[1])
    ELSE IF antialiased THEN BLineAntialiased(p, q) ELSE BLine(p, q)

Triangle(p, q, r) == Line(p, q, FALSE) \cup Line(p, r, FALSE) \cup Line(q, r, FALSE)

-----------------------------------------------------------------------------
(* Circles and ellipses are made of the four, or eight, places that are    *)
(* alike; the octant or quarter is a sequence of [x, y].                   *)
Inside(zs) == zs \cap Points
Four(c, x, y) == {<<c[1] + x, c[2] + y>>, <<c[1] - x, c[2] + y>>,
                  <<c[1] + x, c[2] - y>>, <<c[1] - x, c[2] - y>>}
SpanU(c, x, y) == HLine(U(c[1] - x), U(c[2] + y), c[1] + x)

(* A slip of Octant: the error is not doubled when it is compared.         *)
OctantHalf(r) ==
    LET step(b) ==
            LET re == b.re + b.yc
                in == re + b.xc > 0
            IN [x |-> IF in THEN b.x - 1 ELSE b.x, y |-> b.y + 1, yc |-> b.yc + 2, xc |-> IF in THEN b.xc + 2 ELSE b.xc,
                re |-> IF in THEN re + b.xc ELSE re,
                at |-> b.at \cup {[x |-> b.x, y |-> b.y]}]
    IN Repeat(step, LAMBDA b : b.x < b.y,
              [x |-> r, y |-> 0, xc |-> 1 - 2 * r, yc |-> 1, re |-> 0, at |-> {}], r + 1).at

Octant(r) ==
    LET step(b) ==
            LET re == b.re + b.yc
                in == 2 * re + b.xc > 0
            IN [x |-> IF in THEN b.x - 1 ELSE b.x, y |-> b.y + 1, yc |-> b.yc + 2, xc |-> IF in THEN b.xc + 2 ELSE b.xc,
                re |-> IF in THEN re + b.xc ELSE re,
                at |-> b.at \cup {[x |-> b.x, y |-> b.y]}]
    IN Repeat(step, LAMBDA b : b.x < b.y,
              [x |-> r, y |-> 0, xc |-> 1 - 2 * r, yc |-> 1, re |-> 0, at |-> {}], r + 1).at

Circle(c, r) == Inside(UNION {Four(c, o.x, o.y) \cup Four(c, o.y, o.x) : o \in Octant(r)})
CircleFill(c, r) ==
    UNION {SpanU(c, o.x, o.y) \cup SpanU(c, o.x, 0 - o.y)
           \cup SpanU(c, o.y, o.x) \cup SpanU(c, o.y, 0 - o.x) : o \in Octant(r)}

(* g2d_circle_antialiased goes a quarter round, x down to 0 and y below    *)
(* it; what it touches comes with its three other quarters.                *)
Turned(c, x, y) == {<<c[1] + x, c[2] - y>>, <<c[1] + y, c[2] + x>>,
                    <<c[1] - x, c[2] + y>>, <<c[1] - y, c[2] - x>>}
Quarter(r) ==
    LET err0 == 2 - 2 * r full == 1 - err0
        step(b) ==
            LET e == b.err x == b.x y == b.y
                down == e > y
                err1 == IF down THEN e - (2 * (x - 1) - 1) ELSE e
                aside == e <= x
            IN [x |-> IF down THEN x - 1 ELSE x, y |-> IF aside THEN y - 1 ELSE y,
                err |-> IF aside THEN err1 - (2 * (y - 1) - 1) ELSE err1,
                at |-> b.at \cup {<<x, y>>},
                beside |-> b.beside
                    \cup (IF down /\ x # 0 /\ (255 * (e + 2 * x - 1)) \div full < 255
                          THEN {<<x, y - 1>>} ELSE {})
                    \cup (IF aside /\ x # 0 /\ (255 * (1 - 2 * y - e)) \div full < 255
                          THEN {<<x - 1, y>>} ELSE {}),
                stop |-> x = 0]
    IN Repeat(step, LAMBDA b : b.stop, [x |-> r, y |-> 0, err |-> err0, at |-> {}, beside |-> {},
              stop |-> FALSE], 2 * r + 2)

CircleAntialiased(c, r) ==
    Inside(UNION {Turned(c, z[1], z[2]) : z \in Quarter(r).at \cup Quarter(r).beside})

CircleFillAntialiased(c, r) ==
    LET pos(n) == Most(n, 0)
        spans(z) == HLine(pos(c[1] - z[1]), pos(c[2] + z[2]), pos(c[1] + z[1]))
                    \cup HLine(pos(c[1] + z[2]), pos(c[2] + z[1]), pos(c[1] - z[2]))
    IN CircleAntialiased(c, r) \cup UNION {spans(z) : z \in Quarter(r).at}

(* One half of a quarter of an ellipse: from the end of one radius, a, on  *)
(* which it starts one too near, as far as the slope allows.               *)
Half(a, b) ==
    LET step(l) ==
            LET re == l.re + l.yc
                in == 2 * re + l.xc > 0
            IN [x |-> IF in THEN l.x - 1 ELSE l.x, y |-> l.y + 1,
                xc |-> IF in THEN l.xc + 2 * b * b ELSE l.xc, yc |-> l.yc + 2 * a * a,
                re |-> IF in THEN re + l.xc ELSE re,
                sx |-> IF in THEN l.sx - 2 * b * b ELSE l.sx, sy |-> l.sy + 2 * a * a,
                at |-> l.at \cup {<<l.x, l.y>>}]
    IN Repeat(step, LAMBDA l : l.sx <= l.sy, [x |-> a - 1, y |-> 0, xc |-> b * b * (1 - 2 * a), yc |-> a * a, re |-> 0,
                     sx |-> 2 * b * b * a, sy |-> 0, at |-> {}], a + b).at

EllipseAt(rx, ry) == Half(rx, ry) \cup {<<z[2], z[1]>> : z \in Half(ry, rx)}
Ellipse(c, rx, ry) == Inside(UNION {Four(c, z[1], z[2]) : z \in EllipseAt(rx, ry)})
EllipseFill(c, rx, ry) ==
    UNION {HLine(Most(c[1] - z[1], 0), c[2] + z[2], c[1] + z[1])
           \cup HLine(Most(c[1] - z[1], 0), Most(c[2] - z[2], 0), c[1] + z[1]) : z \in EllipseAt(rx, ry)}

-----------------------------------------------------------------------------
(* g2d_triangle_fill, row by row between two edges.  An edge is walked for *)
(* a row until its error e is full; a steep one (its dx and dy changed)    *)
(* makes one step a row.                                                   *)
Edge(p, q) ==
    LET dx == Size(q[1] - p[1]) dy == q[2] - p[2]
    IN [x |-> p[1], s |-> Sign(q[1] - p[1]), steep |-> dy > dx,
        dx |-> Most(dx, dy), dy |-> Least(dx, dy), e |-> Most(dx, dy) \div 2]

(* The edge in a row, of `limit` steps at most: where it comes to, and     *)
(* the edge for the next row.                                              *)
Walk(w, limit) ==
    LET most == IF w.steep THEN Least(limit, 1) ELSE limit
        full == {k \in 1..most : w.e + k * w.dy >= w.dx}
        n == IF full = {} THEN most ELSE Min(full)
    IN [to |-> IF w.steep THEN w.x ELSE w.x + w.s * (IF full = {} THEN n ELSE n - 1), steps |-> n,
        turned |-> full # {},
        edge |-> [w EXCEPT !.e = @ + n * w.dy - (IF full = {} THEN 0 ELSE w.dx),
                           !.x = IF w.steep THEN (IF full = {} THEN @ ELSE @ + w.s)
                                 ELSE @ + w.s * (IF full = {} THEN n + 1 ELSE n)]]

RowOf(y, w1, w2, a, b) == HLine(Min({w1.x, w2.x, a.to, b.to}), y, Max({w1.x, w2.x, a.to, b.to}))

TriangleFill(p, q, r) ==
    LET swap(t, i, j) == IF t[i][2] > t[j][2] THEN [t EXCEPT ![i] = t[j], ![j] = t[i]] ELSE t
        byY == swap(swap(swap(<<p, q, r>>, 1, 2), 1, 3), 2, 3)
        top == byY[1] mid == byY[2] end == byY[3]
        second(w) == IF w.x = end[1] THEN 0
                     ELSE IF (end[1] - w.x) * w.s > 0 THEN Size(end[1] - w.x) ELSE w.dx
        row(b, u, v, i) == [y |-> b.y + 1, i |-> i, w1 |-> u.edge, w2 |-> v.edge,
                            drawn |-> b.drawn \cup RowOf(b.y, b.w1, b.w2, u, v)]
        above(b) == b.i >= b.w1.dx \/ b.y = mid[2]
        below(b) == b.i > b.w1.dx \/ b.y > end[2]
        upper(b) == LET u == Walk(b.w1, b.w1.dx - b.i)
                    IN row(b, u, Walk(b.w2, b.w2.dx), b.i + u.steps)
        lower(b) == LET u == Walk(b.w1, b.w1.dx - b.i)
                        more == IF u.turned \/ (b.w1.steep /\ u.steps > 0) THEN 0 ELSE 1
                    IN row(b, u, Walk(b.w2, second(b.w2)), b.i + u.steps + more)
        start == [y |-> top[2], i |-> 0, w1 |-> Edge(top, mid), w2 |-> Edge(top, end), drawn |-> {}]
        half == Repeat(upper, above, start, H)
    IN Repeat(lower, below, [half EXCEPT !.i = 0, !.w1 = Edge(mid, end)], H + 1).drawn

-----------------------------------------------------------------------------
(* g2d_repfill: a stack of points; from each, up but not to the first row, *)
(* and then down, while the colour is `rep`.  A neighbour is looked at in  *)
(* memory, so that beside the last of a row is the first of the next; it   *)
(* is stacked when those above it were not.                                *)
FillColumn(q, p, dy, rep, col) ==
    LET at(m, i) == IF i \in Memory THEN m[i] ELSE 2
        stops(b) == b.y >= H \/ (dy < 0 /\ b.y <= 0) \/ at(b.m, b.y * W + p[1]) # rep
        step(b) ==
            LET i == b.y * W + p[1]
                left == p[1] > 0 /\ at(b.m, i - 1) = rep
                right == at(b.m, i + 1) = rep
            IN [y |-> b.y + dy, m |-> [b.m EXCEPT ![i] = col],
                l |-> IF p[1] > 0 THEN left ELSE b.l, r |-> right,
                stk |-> b.stk \o (IF left /\ ~b.l THEN <<<<p[1] - 1, b.y>>>> ELSE <<>>)
                              \o (IF right /\ ~b.r THEN <<<<p[1] + 1, b.y>>>> ELSE <<>>)]
        start == [y |-> IF dy < 0 THEN p[2] ELSE p[2] + 1, m |-> q.m, l |-> FALSE, r |-> FALSE, stk |-> q.stk]
        done == Repeat(step, stops, start, H)
    IN [m |-> done.m, stk |-> done.stk]

RepFill(image, p, rep, col) ==
    LET step(b) ==
            LET z == Last(b.stk)
                up == FillColumn([m |-> b.m, stk |-> Front(b.stk)], z, -1, rep, col)
            IN FillColumn(up, z, 1, rep, col)
    IN Repeat(step, LAMBDA b : b.stk = <<>>, [m |-> image, stk |-> <<p>>], W * H)

-----------------------------------------------------------------------------
(* What a loop over n pixels does, as the offsets in their order, from     *)
(* `start` in memory: pixels up to a whole vector, vectors, and the rest.  *)
Ahead(start) == (Lanes - (start % Lanes)) % Lanes
Upto(n) == [k \in 1..n |-> k - 1]

VectorizeBegin(start, n) ==
    LET pre == Ahead(start) IN
    IF n < Lanes \/ pre >= n - Lanes THEN [pixels |-> Upto(n), lanes |-> <<>>, post |-> <<>>]
    ELSE LET whole == ((n - pre) \div Lanes) * Lanes
         IN [pixels |-> Upto(pre), lanes |-> [k \in 1..whole |-> pre + k - 1],
             post |-> [k \in 1..(n - pre - whole) |-> pre + whole + k - 1]]

(* With two images the rest is taken for as many before its place as there *)
(* are pixels ahead of the vectors.                                        *)
VectorizePairBegin(a, b, n) ==
    LET one == VectorizeBegin(b, n) IN
    IF Ahead(a) # Ahead(b) \/ one.lanes = <<>> THEN [pixels |-> Upto(n), lanes |-> <<>>, post |-> <<>>]
    ELSE [one EXCEPT !.post = [k \in DOMAIN one.post |-> one.post[k] - Ahead(b)]]

(* What becomes of a pixel d with s copied to it.                          *)
Part(alpha, s, d) == (s * alpha) \div 3 + (d * (3 - alpha)) \div 3
Copied(s, d) == s
Xored(s, d) == [alpha |-> s.alpha ^^ d.alpha, colour |-> s.colour ^^ d.colour]
Blended(s, d) == [alpha |-> 3, colour |-> Part(s.alpha, s.colour, d.colour)]
Channel(s, d) == [alpha |-> d.alpha, colour |-> s.colour]
Combined(how, s, d) ==
    CASE how = "copy" -> Copied(s, d) [] how = "xor" -> Xored(s, d)
      [] how = "alpha" -> Blended(s, d) [] how = "channel" -> Channel(s, d)

(* g2d_bitblt_validate: what is too wide becomes as wide as what is left   *)
(* of the image, but from the place in the other one.                      *)
Validate(d, s) ==
    LET wide == d.w + d.x > W high == d.h + d.y > H
        w == IF wide THEN U(W - s.x) ELSE d.w
        h == IF high THEN U(H - s.y) ELSE d.h
    IN [ok |-> /\ ~(wide /\ d.x > W) /\ ~(high /\ d.y > H)
               /\ (wide \/ d.w = s.w) /\ (high \/ d.h = s.h), w |-> w, h |-> h]

(* The rows of a copy, and in each the pixels in the order of its loop.    *)
Blit(how, image, d, s, vectors) ==
    LET v == Validate(d, s)
        from(y) == (s.y + y) * W + s.x
        to(y) == (d.y + y) * W + d.x
        order(y) == IF vectors
                    THEN LET q == VectorizePairBegin(from(y), to(y), v.w)
                         IN q.pixels \o q.lanes \o q.post
                    ELSE Upto(v.w)
        inside(i, j) == i \in Memory /\ j \in Memory
        pixel(y, m, k) == IF inside(from(y) + k, to(y) + k)
                          THEN [m EXCEPT ![to(y) + k] = Combined(how, Source[from(y) + k], @)] ELSE m
        row(m, y) == FoldLeft(LAMBDA n, k : pixel(y, n, k), m, order(y))
    IN [image |-> IF v.ok THEN FoldLeft(row, image, Upto(v.h)) ELSE image,
        outside |-> v.ok /\ \E y \in 0..(v.h - 1) : \E k \in 0..(v.w - 1) : ~inside(from(y) + k, to(y) + k)]

(* Loops over one image: fill, set a channel, make gray, black and white.  *)
(* Vectors of grays lose their alpha; of black and white they take each    *)
(* byte by itself.                                                         *)
Distance(image, area) ==
    LET colours == {image[i].colour : i \in area} \cup {3}
        most == {image[i].colour : i \in area} \cup {0}
    IN (Max(most) - Min(colours)) \div 2 + Min(colours)
Clear(d, lane, n) == [alpha |-> 3, colour |-> 1]
ChannelSet(d, lane, n) == [alpha |-> d.alpha, colour |-> 1]
Luminance(d, lane, n) == [alpha |-> IF lane THEN 0 ELSE 3, colour |-> (64 * d.colour + 32) \div 64]
BlackWhite(d, lane, n) ==
    IF lane THEN [alpha |-> IF d.alpha < n THEN 0 ELSE 3, colour |-> IF d.colour < n THEN 0 ELSE 3]
    ELSE IF d.colour < n THEN [alpha |-> 0, colour |-> 0] ELSE [alpha |-> 3, colour |-> 3]
Changed(how, d, lane, n) ==
    CASE how = "clear" -> Clear(d, lane, n) [] how = "channelSet" -> ChannelSet(d, lane, n)
      [] how = "luminance" -> Luminance(d, lane, n) [] how = "blackWhite" -> BlackWhite(d, lane, n)

(* g2d_channel_set_dafault takes for the number of its pixels the place    *)
(* where they end.                                                         *)
WidthOf(how, c, vectors) == IF how = "channelSet" /\ ~vectors THEN c.w + c.x ELSE c.w

Loop(how, image, c, vectors) ==
    LET area == {y * W + x : x \in c.x..(c.x + c.w - 1), y \in c.y..(c.y + c.h - 1)}
        n == Distance(image, area)
        start(y) == (c.y + y) * W + c.x
        set(m, i, lane) == IF i \in Memory THEN [m EXCEPT ![i] = Changed(how, @, lane, n)] ELSE m
        row(m, y) ==
            LET q == IF vectors THEN VectorizeBegin(start(y), c.w)
                     ELSE [pixels |-> Upto(WidthOf(how, c, vectors)), lanes |-> <<>>, post |-> <<>>]
                a == FoldLeft(LAMBDA l, k : set(l, start(y) + k, FALSE), m, q.pixels)
                b == FoldLeft(LAMBDA l, k : set(l, start(y) + k, TRUE), a, q.lanes)
            IN FoldLeft(LAMBDA l, k : set(l, start(y) + k, FALSE), b, q.post)
    IN FoldLeft(row, image, Upto(c.h))

(* A slip of Window: it is not held back at the far end.                   *)
WindowOver(i, m, n) ==
    LET x == 2 * i * n - (m - 1)
        at == IF x < 0 THEN 0 ELSE x \div (2 * (m - 1))
        from == IF at = 0 THEN 1 ELSE at
    IN (from - 1)..(from + 2)

(* Where a resize takes its four pixels a row from, for the i-th of m of n.*)
Window(i, m, n) ==
    LET x == 2 * i * n - (m - 1)
        at == IF x < 0 THEN 0 ELSE x \div (2 * (m - 1))
        from == IF at = 0 THEN 1 ELSE IF at >= n - 2 THEN n - 3 ELSE at
    IN (from - 1)..(from + 2)

(* A pixel of a supersampled image is of four of one twice as wide; those  *)
(* are halved from one that is 2^mul as wide.                              *)
Averaged(m, w) ==
    [z \in (0..(w - 1)) \X (0..(w - 1)) |->
        (m[2 * z[1], 2 * z[2]] + m[2 * z[1] + 1, 2 * z[2]]
         + m[2 * z[1], 2 * z[2] + 1] + m[2 * z[1] + 1, 2 * z[2] + 1]) \div 4]
Supersampled(m, w, mul) ==
    FoldLeft(LAMBDA n, k : Averaged(n, w * 2 ^ (mul - k)), m, [k \in 1..mul |-> k])

-----------------------------------------------------------------------------
Init == task = [op |-> "none"]

Do(t) == task.op = "none" /\ task' = t

DrawLine(p, q, anti) == Do([op |-> "line", p |-> p, q |-> q, anti |-> anti])
DrawCircle(c, r, anti) == Do([op |-> "circle", c |-> c, radius |-> r, anti |-> anti])
DrawEllipse(c, rx, ry) == Do([op |-> "ellipse", c |-> c, rx |-> rx, ry |-> ry])
DrawTriangle(p, q, r) == Do([op |-> "triangle", p |-> p, q |-> q, r |-> r])
FillTriangle(p, q, r, z) == Do([op |-> "fill", p |-> p, q |-> q, r |-> r, z |-> z])
Bitblt(how, d, s) == Do([op |-> "blit", how |-> how, d |-> d, s |-> s])
Change(how, c) == c.x + c.w <= W /\ Do([op |-> "change", how |-> how, c |-> c])
Resize(m, n) == Do([op |-> "resize", m |-> m, n |-> n])

Next ==
    \/ \E p \in Corners, q \in Points, anti \in BOOLEAN : DrawLine(p, q, anti)
    \/ \E c \in Points, r \in Radii, anti \in BOOLEAN : DrawCircle(c, r, anti)
    \/ \E c \in Corners, rx, ry \in Radii : DrawEllipse(c, rx, ry)
    \/ \E p, q, r, z \in Corners : DrawTriangle(p, q, r) \/ FillTriangle(p, q, r, z)
    \/ \E x, sx, sy \in Deltas, w \in {3, W - 3, W - 1} :
          LET d == [x |-> x, y |-> 1, w |-> w, h |-> 2] IN
          \/ \E how \in {"copy", "xor", "alpha", "channel"} : Bitblt(how, d, [d EXCEPT !.x = sx, !.y = sy])
          \/ \E how \in {"clear", "channelSet", "luminance", "blackWhite"} : Change(how, d)
    \/ \E m \in 2..W, n \in 4..W : Resize(m, n)

-----------------------------------------------------------------------------
(* A line is of one point for each step of its longer way, its ends among  *)
(* them, and none further from it than half a point, or with the points    *)
(* beside it, which may be beyond the image, than two.                     *)
LineRight(p, q, anti, zs) ==
    LET long == Most(Size(q[1] - p[1]), Size(q[2] - p[2]))
        far(z) == Size((q[1] - p[1]) * (z[2] - p[2]) - (q[2] - p[2]) * (z[1] - p[1]))
    IN /\ {p, q} \subseteq zs
       /\ \A z \in zs : IF anti THEN far(z) <= 2 * long ELSE 2 * far(z) <= long /\ z \in Points
       /\ ~anti => Cardinality(zs) = long + 1

(* A circle is within a point of its radius.                               *)
CircleRight(c, r, zs, wide) ==
    /\ \A z \in zs : Size((z[1] - c[1]) * (z[1] - c[1]) + (z[2] - c[2]) * (z[2] - c[2]) - r * r) <= wide * r
    /\ \A x \in (c[1] - r)..(c[1] + r) : \E z \in zs : z[1] = x
    /\ \A y \in (c[2] - r)..(c[2] + r) : \E z \in zs : z[2] = y

(* The ends of an outline, or of a filled shape, in a row.                 *)
Row(zs, y) == {z[1] : z \in {o \in zs : o[2] = y}}
Near(full, zs, by) ==
    \A y \in 0..(H - 1) :
        LET f == Row(full, y) o == Row(zs, y) IN
        /\ (f = {}) <=> (o = {})
        /\ f # {} => /\ f = Min(f)..Max(f)
                     /\ Size(Min(f) - Min(o)) <= by /\ Size(Max(f) - Max(o)) <= by

Within(c, rx, ry) == c[1] >= rx /\ c[2] >= ry /\ c[1] + rx < W /\ c[2] + ry < H

(* What is connected with p over 0s.                                       *)
Region(m, p) ==
    LET near(z) == {<<z[1] + 1, z[2]>>, <<z[1] - 1, z[2]>>, <<z[1], z[2] + 1>>, <<z[1], z[2] - 1>>}
        free(zs) == {z \in Inside(zs) : m[Index(z)] = 0}
        f[n \in 0..(W + H)] == IF n = 0 THEN {p} ELSE LET b == f[n - 1] IN b \cup free(UNION {near(z) : z \in b})
    IN f[W + H]

Image(zs) == [i \in Memory |-> IF \E z \in zs : Index(z) = i THEN 1 ELSE 0]

FillRight(zs, z) ==
    LET m == Image(zs)
        region == Region(m, z)
        done == RepFill(m, z, 0, 1)
    IN m[Index(z)] = 0 /\ (\A o \in region : o[2] > 0 /\ o[1] < W - 1)
       => done.stk = <<>> /\ done.m = Image(zs \cup region)

(* Lines meet their ends and stay on their way; circles their radius, when *)
(* they are within the image; a filled shape is what its outline is about, *)
(* a triangle but for one point at each end of a row; and a fill colours   *)
(* the region around its point and ends, when that has neither the first   *)
(* row nor the last column in it (image.c:1356-1494, 1813-2114, 2149-2338, *)
(* 2456-2539).                                                             *)
DrawnRight ==
    CASE task.op = "line" -> LineRight(task.p, task.q, task.anti, Line(task.p, task.q, task.anti))
      [] task.op = "circle" /\ Within(task.c, task.radius, task.radius) ->
            LET zs == IF task.anti THEN CircleAntialiased(task.c, task.radius) ELSE Circle(task.c, task.radius)
                full == IF task.anti THEN CircleFillAntialiased(task.c, task.radius) ELSE CircleFill(task.c, task.radius)
            IN CircleRight(task.c, task.radius, zs, IF task.anti THEN 2 ELSE 1) /\ Near(full, zs, 0)
      [] task.op = "ellipse" /\ Within(task.c, task.rx, task.ry) ->
            Near(EllipseFill(task.c, task.rx, task.ry), Ellipse(task.c, task.rx, task.ry), 0)
      [] task.op = "triangle" ->
            Near(TriangleFill(task.p, task.q, task.r), Triangle(task.p, task.q, task.r), 1)
            /\ {task.p, task.q, task.r} \subseteq TriangleFill(task.p, task.q, task.r)
      [] task.op = "fill" -> FillRight(Triangle(task.p, task.q, task.r), task.z)
      [] OTHER -> TRUE

(* A copy changes the pixels of its rectangle, each from its own, when it  *)
(* fits or is cut in the one place, and by vectors when none is over ahead *)
(* of or behind them; loops over one image by vectors change nothing but   *)
(* their rectangle, and there do to each colour what loops over pixels do, *)
(* which set a channel of the pixels behind the rectangle too, as many as  *)
(* there are before it; and a resize takes pixels of the image             *)
(* (image.c:244-542, 544-756, 948-962; vectorization.c:3-72).              *)
BlitRight(how, d, s, vectors) ==
    LET b == Blit(how, Target, d, s, vectors)
        cut == d.x + d.w > W
        w == IF cut THEN W - d.x ELSE d.w
        rect == {y * W + x : x \in d.x..(d.x + w - 1), y \in d.y..(d.y + d.h - 1)}
        from(i) == i + (s.y - d.y) * W + (s.x - d.x)
        even == \A y \in 0..(d.h - 1) : Ahead((d.y + y) * W + d.x) = 0 \/ Ahead((s.y + y) * W + s.x) # Ahead((d.y + y) * W + d.x)
    IN s.x + w <= W /\ (cut => s.x = d.x) /\ (vectors => even)
       => /\ ~b.outside
          /\ b.image = [i \in Memory |-> IF i \in rect THEN Combined(how, Source[from(i)], Target[i]) ELSE Target[i]]

ChangeRight(how, c) ==
    LET one == Loop(how, Target, c, FALSE) two == Loop(how, Target, c, TRUE)
        rows(w) == {(c.y + y) * W + c.x + k : y \in 0..(c.h - 1), k \in 0..(w - 1)}
        over == rows(WidthOf(how, c, FALSE)) \ rows(c.w)
    IN \A i \in Memory :
        /\ i \notin over => one[i].colour = two[i].colour
        /\ how \in {"clear", "channelSet"} /\ i \notin over => one[i] = two[i]
        /\ i \notin rows(c.w) => two[i] = Target[i]
        /\ i \notin rows(c.w) \cup over => one[i] = Target[i]
        /\ over # {} => how = "channelSet" /\ c.x > 0

CopiedRight ==
    CASE task.op = "blit" -> \A vectors \in BOOLEAN : BlitRight(task.how, task.d, task.s, vectors)
      [] task.op = "change" -> ChangeRight(task.how, task.c)
      [] task.op = "resize" ->
            /\ \A i \in 0..(task.m - 1) : Window(i, task.m, task.n) \subseteq 0..(task.n - 1)
            /\ \A mul \in 1..2 :
                  LET sam == [z \in (0..(task.m * 2 ^ mul - 1)) \X (0..(task.m * 2 ^ mul - 1)) |-> z[1]]
                  IN \A x, y \in 0..(task.m - 1) :
                        Supersampled(sam, task.m, mul)[x, y] \in (x * 2 ^ mul)..((x + 1) * 2 ^ mul - 1)
      [] OTHER -> TRUE
=============================================================================
