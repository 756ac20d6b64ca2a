----------------------------- MODULE Perception -----------------------------
(***************************************************************************)
(* What the agent sees: a grid parsed into objects and their relations,    *)
(* the exact and the semantic difference of two observations, and the      *)
(* identities a tracker gives to the objects of successive scenes.  Pure   *)
(* functions of their arguments.                                           *)
(*                                                                         *)
(* A grid is a function from its pixels <<x, y>> to colors; the pixels are *)
(* the rectangle with corner <<0, 0>>.  Objects are records without an id: *)
(* the id of an object is its place in the scene.  Centroids, scores and   *)
(* distances are fractions, compared by cross-multiplication.              *)
(***************************************************************************)
EXTENDS Integers, Sequences, SequencesExt

Steps4 == {<<1, 0>>, <<-1, 0>>, <<0, 1>>, <<0, -1>>}
Steps8 == Steps4 \cup {<<1, 1>>, <<1, -1>>, <<-1, 1>>, <<-1, -1>>}

AbsDiff(a, b) == IF a < b THEN b - a ELSE a - b
Around(p, steps) == {<<p[1] + d[1], p[2] + d[2]>> : d \in steps}

\* Row by row, from left to right.
Reads(p, q) == p[2] < q[2] \/ (p[2] = q[2] /\ p[1] < q[1])

\* The elements of a set in the order of a strict total order.
Ranked(S, Less(_, _)) ==
    [i \in 1..Cardinality(S) |->
        CHOOSE a \in S : Cardinality({b \in S : Less(b, a)}) = i - 1]

Width(grid)  == 1 + Max({p[1] : p \in DOMAIN grid})
Height(grid) == 1 + Max({p[2] : p \in DOMAIN grid})

-----------------------------------------------------------------------------
(* Regions                                                                 *)

Box(pixels) ==
    LET xs == {p[1] : p \in pixels}
        ys == {p[2] : p \in pixels}
    IN  [x |-> Min(xs), y |-> Min(ys),
         width |-> Max(xs) - Min(xs) + 1, height |-> Max(ys) - Min(ys) + 1]

Right(box)  == box.x + box.width - 1
Bottom(box) == box.y + box.height - 1

\* The second box lies inside the first, away from its border.
Encloses(outer, inner) ==
    /\ outer.x + 1 <= inner.x /\ outer.y + 1 <= inner.y
    /\ Right(outer) - 1 >= Right(inner) /\ Bottom(outer) - 1 >= Bottom(inner)

\* The pixels of "free" that a walk from "region" reaches, layer by layer.
Flood(region, free, steps) ==
    LET grown[n \in 0..Cardinality(free)] ==
            IF n = 0 THEN [inner |-> {}, edge |-> region]
            ELSE LET last == grown[n - 1]
                     all  == last.inner \cup last.edge
                 IN  [inner |-> all,
                      edge |-> (UNION {Around(p, steps) \cap free : p \in last.edge}) \ all]
        end == grown[Cardinality(free)]
    IN  end.inner \cup end.edge

Regions(pixels, steps) == {Flood({p}, pixels \ {p}, steps) : p \in pixels}

\* Faulty variant of Holes: every gap of the bounding box counts.
HolesAnyGap(pixels) ==
    LET box   == Box(pixels)
        inner == (box.x..Right(box)) \X (box.y..Bottom(box))
    IN  Cardinality(Regions(inner \ pixels, Steps4))

\* Gaps of the shape that do not touch the border of its bounding box.
Holes(pixels) ==
    LET box   == Box(pixels)
        inner == (box.x..Right(box)) \X (box.y..Bottom(box))
        Edge(p) == p[1] \in {box.x, Right(box)} \/ p[2] \in {box.y, Bottom(box)}
    IN  Cardinality({gap \in Regions(inner \ pixels, Steps4) : \A p \in gap : ~Edge(p)})

-----------------------------------------------------------------------------
(* Objects                                                                 *)

MakeObject(color, pixels) ==
    [color |-> color, pixels |-> pixels, box |-> Box(pixels),
     perimeter |-> MapThenSumSet(LAMBDA p : Cardinality(Around(p, Steps4) \ pixels), pixels),
     holes |-> Holes(pixels)]

Area(o)  == Cardinality(o.pixels)
SumX(o)  == MapThenSumSet(LAMBDA p : p[1], o.pixels)
SumY(o)  == MapThenSumSet(LAMBDA p : p[2], o.pixels)
Shape(o) == {<<p[1] - o.box.x, p[2] - o.box.y>> : p \in o.pixels}

\* How often the border, as it is listed, holds a pixel: the top and the bottom row are
\* one row of a flat grid, the left and the right column one of a narrow grid.
OnBorder(p, w, h) ==
    IF p[2] \in {0, h - 1} THEN (IF h = 1 THEN 2 ELSE 1)
    ELSE IF p[1] \in {0, w - 1} THEN (IF w = 1 THEN 2 ELSE 1) ELSE 0

\* The color that scores best, 0.7 of its share of the border and 0.3 of its share of
\* the grid; the smallest of those that score the same.
Background(grid) ==
    LET w == Width(grid)
        h == Height(grid)
        Of(c)    == {p \in DOMAIN grid : grid[p] = c}
        Score(c) == 7 * w * h * MapThenSumSet(LAMBDA p : OnBorder(p, w, h), Of(c))
                    + 3 * (2 * w + (IF h > 2 THEN 2 * (h - 2) ELSE 0)) * Cardinality(Of(c))
        colors   == {grid[p] : p \in DOMAIN grid}
    IN  CHOOSE c \in colors : \A d \in colors \ {c} :
            Score(c) > Score(d) \/ (Score(c) = Score(d) /\ c < d)

\* Top, left, color, largest first; ties stay in the order the objects were found.
Before(a, b) ==
    LET rank(o) == <<o.box.y, o.box.x, o.color, -Area(o)>>
        ra == rank(a)
        rb == rank(b)
        First(o) == CHOOSE p \in o.pixels : \A q \in o.pixels \ {p} : Reads(p, q)
    IN  IF ra = rb THEN Reads(First(a), First(b))
        ELSE \E i \in 1..4 : ra[i] < rb[i] /\ \A j \in 1..(i - 1) : ra[j] = rb[j]

\* Each connected region of one color, other than the background, is an object.
ParseScene(grid, background, steps) ==
    LET figure == {p \in DOMAIN grid : grid[p] # background}
        Of(c)  == {p \in figure : grid[p] = c}
    IN  Ranked(
            UNION {{MakeObject(c, region) : region \in Regions(Of(c), steps)} :
                       c \in {grid[p] : p \in figure}},
            Before)

Scene(grid) == ParseScene(grid, Background(grid), Steps4)

-----------------------------------------------------------------------------
(* Relations                                                               *)

Aligned(sum1, area1, sum2, area2) ==
    2 * AbsDiff(sum1 * area2, sum2 * area1) < area1 * area2

Touching(a, b) == \E p \in a.pixels : Around(p, Steps4) \cap b.pixels # {}

\* What holds of one object towards another.  Every test of a pair also adds the
\* opposite relation, or the same one the other way.
Towards(a, b) ==
    {r \in {"left_of", "right_of", "above", "below", "contains", "inside", "aligned_x",
            "aligned_y", "touching", "same_color", "same_shape"} :
        CASE r = "left_of"    -> Right(a.box) < b.box.x
          [] r = "right_of"   -> Right(b.box) < a.box.x
          [] r = "above"      -> Bottom(a.box) < b.box.y
          [] r = "below"      -> Bottom(b.box) < a.box.y
          [] r = "contains"   -> Encloses(a.box, b.box)
          [] r = "inside"     -> Encloses(b.box, a.box)
          [] r = "aligned_x"  -> Aligned(SumX(a), Area(a), SumX(b), Area(b))
          [] r = "aligned_y"  -> Aligned(SumY(a), Area(a), SumY(b), Area(b))
          [] r = "touching"   -> Touching(a, b)
          [] r = "same_color" -> a.color = b.color
          [] r = "same_shape" -> Shape(a) = Shape(b)}

Relations(scene) ==
    {q \in (1..Len(scene)) \X {"left_of", "right_of", "above", "below", "contains",
            "inside", "aligned_x", "aligned_y", "touching", "same_color", "same_shape"}
            \X (1..Len(scene)) :
        q[1] # q[3] /\ q[2] \in Towards(scene[q[1]], scene[q[3]])}

-----------------------------------------------------------------------------
(* Differences                                                             *)

\* Changed pixels and the boxes of their connected regions; grids of different shapes
\* cannot be compared.
CompareGrids(expected, actual) ==
    LET changed == {p \in DOMAIN expected : expected[p] # actual[p]}
    IN  [changed |-> changed, regions |-> {Box(r) : r \in Regions(changed, Steps4)}]

\* The distance of two objects times the product of their areas: of the centroids, 4
\* for another color, and the relative difference of the areas.
ObjectDistance(a, b) ==
    LET m == Area(a)
        n == Area(b)
    IN  AbsDiff(SumX(a) * n, SumX(b) * m) + AbsDiff(SumY(a) * n, SumY(b) * m)
        + (IF a.color = b.color THEN 0 ELSE 4 * m * n)
        + AbsDiff(m, n) * (IF m < n THEN m ELSE n)

Reach == 10     \* objects farther apart than this are not the same one

\* The first of the nearest objects that are left, if it is near enough.
Nearest(before, actual, left) ==
    {j \in left :
        /\ \A k \in left :
             LET dj == ObjectDistance(before, actual[j]) * Area(actual[k])
                 dk == ObjectDistance(before, actual[k]) * Area(actual[j])
             IN  dj < dk \/ (dj = dk /\ j <= k)
        /\ ObjectDistance(before, actual[j]) <= Reach * Area(before) * Area(actual[j])}

Changes(a, b) ==
    (IF a.color = b.color THEN {} ELSE {"recolored"})
    \cup (IF Shape(a) = Shape(b) THEN {} ELSE {"reshaped"})
    \cup (IF a.box = b.box THEN {} ELSE {"moved"})

\* Faulty variant of CompareScenes: an object of the actual scene is matched at will.
CompareScenesReusing(expected, actual) ==
    LET Match(acc, i) == acc \cup {<<i, j>> : j \in Nearest(expected[i], actual, DOMAIN actual)}
        matched == FoldLeft(Match, {}, [i \in 1..Len(expected) |-> i])
    IN  [matched |-> matched,
         deltas  |-> UNION {{<<c, m[1], m[2]>> : c \in Changes(expected[m[1]], actual[m[2]])} :
                                m \in matched},
         added |-> {}, removed |-> {}]

\* Each expected object, in order, takes its nearest; the rest were removed or created.
\* Relations are compared between matched objects only.
CompareScenes(expected, actual) ==
    LET Match(acc, i) == acc \cup
            {<<i, j>> : j \in Nearest(expected[i], actual, DOMAIN actual \ {m[2] : m \in acc})}
        matched == FoldLeft(Match, {}, [i \in 1..Len(expected) |-> i])
        To(i)   == CHOOSE j \in DOMAIN actual : <<i, j>> \in matched
        From    == {m[1] : m \in matched}
        Into    == {m[2] : m \in matched}
        foreseen == {<<To(r[1]), r[2], To(r[3])>> :
                        r \in {q \in Relations(expected) : {q[1], q[3]} \subseteq From}}
        found    == {r \in Relations(actual) : {r[1], r[3]} \subseteq Into}
    IN  [matched |-> matched,
         deltas  |-> (UNION {{<<c, m[1], m[2]>> : c \in Changes(expected[m[1]], actual[m[2]])} :
                                 m \in matched})
                     \cup {<<"removed", i, 0>> : i \in DOMAIN expected \ From}
                     \cup {<<"created", 0, j>> : j \in DOMAIN actual \ Into},
         added |-> found \ foreseen, removed |-> foreseen \ found]

SceneEqual(diff) == diff.deltas = {} /\ diff.added = {} /\ diff.removed = {}

-----------------------------------------------------------------------------
(* Tracking                                                                *)

\* The tracker numbers every object of the first scene.
Initialize(count, next) ==
    [names |-> [i \in 1..count |-> next + i - 1], next |-> next + count]

\* Faulty variant of Update: an object that is already taken can be taken again.
UpdateTwice(previous, count, cost, limit, next) ==
    [names |-> [j \in 1..count |->
        LET near == {i \in DOMAIN previous : cost[<<i, j>>] <= limit}
        IN  IF near = {} THEN next + j - 1 ELSE previous[Min(near)]],
     next |-> next + count]

\* The least power of ten above a number: how far its decimal digits reach.
Scale(n) ==
    LET Exceed(p) == IF p > n THEN p ELSE 10 * p
        power[k \in 0..n] == IF k = 0 THEN 10 ELSE Exceed(power[k - 1])
    IN  power[n]

\* Identities are strings: t10 stands before t2.  The digits decide from the first one on,
\* and of two that go on alike the shorter stands before the longer.
NameBefore(a, b) ==
    LET x == a * Scale(b)
        y == b * Scale(a)
    IN  x < y \/ (x = y /\ a < b)

\* Pairs of an object of the previous scene, by its identity, and one of the current scene
\* are taken in the order of cost, identity and index, up to the limit; what is left of the
\* current scene gets new identities, in order.  An identity is the number in its string.
Update(previous, count, cost, limit, next) ==
    LET pairs  == {<<cost[m], previous[m[1]], m[2]>> : m \in (DOMAIN previous) \X (1..count)}
        Cheaper(a, b) == \/ a[1] < b[1]
                         \/ a[1] = b[1] /\ (NameBefore(a[2], b[2]) \/ (a[2] = b[2] /\ a[3] < b[3]))
        Take(acc, c) ==
            IF c[1] > limit \/ \E t \in acc : t[2] = c[2] \/ t[3] = c[3] THEN acc
            ELSE acc \cup {c}
        taken  == FoldLeft(Take, {}, Ranked(pairs, Cheaper))
        fresh  == Ranked((1..count) \ {t[3] : t \in taken}, LAMBDA i, j : i < j)
    IN  [names |-> [j \in 1..count |->
             IF \E t \in taken : t[3] = j THEN (CHOOSE t \in taken : t[3] = j)[2]
             ELSE next - 1 + CHOOSE k \in DOMAIN fresh : fresh[k] = j],
         next |-> next + Len(fresh)]
=============================================================================
