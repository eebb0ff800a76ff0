------------------------- MODULE CompositorLayout_proofs -------------------------
(***************************************************************************)
(* What gstreamer_compositor_relayout_videos computes, for any list of     *)
(* pads: up to 16 videos lie inside the frame and apart from each other.   *)
(*                                                                         *)
(* Positions is a recursive function, so the facts about it need induction *)
(* over the places in the list.  It is done with sets: the places where a  *)
(* fact fails have a least element, because < is well founded on Nat.      *)
(***************************************************************************)
EXTENDS Compositor, SequenceTheorems, WellFoundedInduction, TLAPS

-------------------------------------------------------------------------------
\* Induction over a part of the natural numbers

\* A set of natural numbers has a least element.
LEMMA LeastElement ==
  ASSUME NEW T \in SUBSET Nat, T # {}
  PROVE  \E x \in T : \A y \in T : x <= y
<1> DEFINE R == {ss \in Nat \X Nat : ss[1] < ss[2]}
<1>1. IsWellFoundedOn(R, Nat) BY NatLessThanWellFounded DEF OpToRel
<1> HIDE DEF R
<1>2. PICK x \in T : \A y \in T : ~(<<y, x>> \in R) BY <1>1, WFMin
<1>3. \A y \in T : y < x => <<y, x>> \in R BY DEF R
<1>4. \A y \in T : ~(y < x) BY <1>2, <1>3
<1>5. \A a, b \in Nat : ~(a < b) => b <= a OBVIOUS
<1>6. x \in Nat /\ \A y \in T : y \in Nat OBVIOUS
<1>7. \A y \in T : x <= y BY <1>4, <1>5, <1>6
<1> QED BY <1>7

\* A set that holds 1, and with a number the next one, holds all up to k.
LEMMA UpTo ==
  ASSUME NEW k \in Nat, NEW S, 1 \in S, \A i \in 1 .. k : i < k /\ i \in S => i + 1 \in S
  PROVE  \A i \in 1 .. k : i \in S
<1> DEFINE T == {i \in 1 .. k : i \notin S}
<1>1. SUFFICES ASSUME T # {} PROVE FALSE
  OBVIOUS
<1>2. T \in SUBSET Nat OBVIOUS
<1>3. PICK x \in T : \A y \in T : x <= y BY <1>1, <1>2, LeastElement
<1>4. x \in 1 .. k /\ x \notin S /\ x # 1 BY <1>3
<1>5. x - 1 \in 1 .. k /\ x - 1 < k /\ x - 1 \notin T BY <1>3, <1>4
<1>6. x - 1 \in S BY <1>5
<1>7. (x - 1) + 1 \in S BY <1>5, <1>6
<1> QED BY <1>4, <1>7

-------------------------------------------------------------------------------
\* The positions, one after another

Origin == [x |-> 0, y |-> 0]

\* g holds the first k positions.
Steps(g, k, w, h) == g = [i \in 1 .. k |-> IF i = 1 THEN Origin ELSE Step(g[i - 1], w, h)]

\* There is such a function, so Positions is it.
LEMMA StepsExist ==
  ASSUME NEW k \in Nat, NEW w, NEW h
  PROVE  \E g : Steps(g, k, w, h)
<1> DEFINE S == {n \in Nat : \E g : Steps(g, n, w, h)}
<1>1. CASE k = 0
  <2>1. Steps([i \in 1 .. 0 |-> Origin], 0, w, h) BY DEF Steps
  <2> QED BY <1>1, <2>1
<1>2. CASE k # 0
  <2>1. Steps([i \in 1 .. 1 |-> Origin], 1, w, h) BY DEF Steps
  <2>2. ASSUME NEW n \in 1 .. k, n \in S PROVE n + 1 \in S
    <3>1. PICK g : Steps(g, n, w, h) BY <2>2
    <3> DEFINE f == [i \in 1 .. n + 1 |-> IF i <= n THEN g[i] ELSE Step(g[n], w, h)]
               q == [i \in 1 .. n + 1 |-> IF i = 1 THEN Origin ELSE Step(f[i - 1], w, h)]
    <3>2. ASSUME NEW i \in 1 .. n + 1 PROVE f[i] = q[i]
      <4>1. CASE i <= n
        <5>1. f[i] = g[i] BY <4>1
        <5>2. g[i] = IF i = 1 THEN Origin ELSE Step(g[i - 1], w, h) BY <3>1, <4>1 DEF Steps
        <5>3. i # 1 => f[i - 1] = g[i - 1] BY <4>1
        <5> QED BY <5>1, <5>2, <5>3
      <4>2. CASE i = n + 1
        <5>1. f[i] = Step(g[n], w, h) /\ f[n] = g[n] /\ i # 1 /\ i - 1 = n BY <4>2
        <5> QED BY <5>1
      <4> QED BY <4>1, <4>2
    <3>3. f = q BY <3>2
    <3>4. Steps(f, n + 1, w, h) BY <3>3 DEF Steps
    <3> QED BY <3>4
  <2>3. 1 \in S BY <2>1
  <2> HIDE DEF S
  <2>4. k \in S BY <1>2, <2>2, <2>3, UpTo
  <2> QED BY <2>4 DEF S
<1> QED BY <1>1, <1>2

LEMMA PositionsEquation ==
  ASSUME NEW k \in Nat, NEW w, NEW h
  PROVE  Steps(Positions(k, w, h), k, w, h)
<1> DEFINE P(g) == Steps(g, k, w, h)
<1>1. Positions(k, w, h) = CHOOSE g : P(g) BY DEF Positions, Steps, Origin
<1>2. \E g : P(g) BY StepsExist
<1> HIDE DEF P
<1>3. P(CHOOSE g : P(g)) BY <1>2
<1>4. P(Positions(k, w, h)) BY <1>1, <1>3
<1> QED BY <1>4 DEF P

\* The first position is the corner, and each other one a step from the one before.
LEMMA PositionAt ==
  ASSUME NEW k \in Nat, NEW w, NEW h, NEW i \in 1 .. k
  PROVE  /\ i = 1 => Positions(k, w, h)[i] = Origin
         /\ i < k => Positions(k, w, h)[i + 1] = Step(Positions(k, w, h)[i], w, h)
<1> DEFINE at == Positions(k, w, h)
<1>1. Steps(at, k, w, h) BY PositionsEquation
<1> HIDE DEF at
<1>2. i < k => i + 1 \in 1 .. k /\ i + 1 # 1 /\ (i + 1) - 1 = i OBVIOUS
<1>3. i = 1 => at[i] = Origin BY <1>1 DEF Steps
<1>4. i < k => at[i + 1] = Step(at[(i + 1) - 1], w, h) BY <1>1, <1>2 DEF Steps
<1> QED BY <1>2, <1>3, <1>4 DEF at

Points == [x : Int, y : Int]

\* Whatever the width and the height, even a negative one.
LEMMA PositionType ==
  ASSUME NEW k \in Nat, NEW w \in Int, NEW h \in Int
  PROVE  \A i \in 1 .. k : Positions(k, w, h)[i] \in Points
<1> DEFINE at == Positions(k, w, h)
           S == {i \in 1 .. k : at[i] \in Points}
<1>1. CASE k = 0 BY <1>1
<1>2. CASE k # 0
  <2>1. 1 \in 1 .. k BY <1>2
  <2>2. at[1] = Origin BY <2>1, PositionAt
  <2>3. ASSUME NEW i \in 1 .. k, i < k, at[i] \in Points PROVE at[i + 1] \in Points
    <3>1. at[i + 1] = Step(at[i], w, h) BY <2>3, PositionAt
    <3> HIDE DEF at
    <3> QED BY <2>3, <3>1 DEF Step, Points, Width
  <2> HIDE DEF at
  <2>4. 1 \in S BY <2>1, <2>2 DEF Origin, Points
  <2>5. \A i \in 1 .. k : i < k /\ i \in S => i + 1 \in S BY <2>3
  <2> HIDE DEF S
  <2>6. \A i \in 1 .. k : i \in S BY <2>4, <2>5, UpTo
  <2> QED BY <2>6 DEF S, at
<1> QED BY <1>1, <1>2

-------------------------------------------------------------------------------
\* The grid

\* p is the cell in row r and column c.
Cell(p, r, c, n) == p = [x |-> c * (Width \div n), y |-> r * (Height \div n)]

\* Position i of a grid with n columns: the rows are filled one after another.
LEMMA Cells ==
  ASSUME NEW n \in 1 .. 4, NEW k \in Nat
  PROVE  \A i \in 1 .. k : \E r \in Nat, c \in 0 .. n - 1 :
           /\ i = r * n + c + 1
           /\ Cell(Positions(k, Width \div n, Height \div n)[i], r, c, n)
<1> DEFINE w == Width \div n
           h == Height \div n
           at == Positions(k, w, h)
           S == {i \in 1 .. k : \E r \in Nat, c \in 0 .. n - 1 :
                                  i = r * n + c + 1 /\ Cell(at[i], r, c, n)}
<1>1. CASE k = 0 BY <1>1
<1>2. CASE k # 0
  <2>1. 1 \in 1 .. k BY <1>2
  <2>2. at[1] = Origin BY <2>1, PositionAt
  <2>3. \A i \in 1 .. k : i < k => at[i + 1] = Step(at[i], w, h) BY PositionAt
  <2> HIDE DEF at
  <2>4. /\ w \in Nat /\ h \in Nat /\ n * w = Width
        /\ \A c \in 0 .. n - 1 : c * w + w = (c + 1) * w /\ (c * w + w >= Width <=> c = n - 1)
    <3>1. CASE n = 1 BY <3>1 DEF Width, Height
    <3>2. CASE n = 2 BY <3>2 DEF Width, Height
    <3>3. CASE n = 3 BY <3>3 DEF Width, Height
    <3>4. CASE n = 4 BY <3>4 DEF Width, Height
    <3> QED BY <3>1, <3>2, <3>3, <3>4
  <2>5. 1 \in S
    <3>1. 0 \in Nat /\ 0 \in 0 .. n - 1 /\ 1 = 0 * n + 0 + 1 OBVIOUS
    <3>2. Cell(at[1], 0, 0, n) BY <2>2, <2>4 DEF Cell, Origin
    <3> QED BY <2>1, <3>1, <3>2
  <2>6. ASSUME NEW i \in 1 .. k, i < k, i \in S PROVE i + 1 \in S
    <3>1. PICK r \in Nat, c \in 0 .. n - 1 : i = r * n + c + 1 /\ Cell(at[i], r, c, n) BY <2>6
    <3>2. at[i].x = c * w /\ at[i].y = r * h BY <3>1 DEF Cell
    <3>3. CASE c = n - 1
      <4>1. at[i + 1] = [x |-> 0, y |-> r * h + h] BY <2>3, <2>4, <2>6, <3>2, <3>3 DEF Step
      <4>2. r * h + h = (r + 1) * h BY <2>4
      <4>3. Cell(at[i + 1], r + 1, 0, n) BY <2>4, <4>1, <4>2 DEF Cell
      <4>4. r + 1 \in Nat /\ 0 \in 0 .. n - 1 /\ i + 1 = (r + 1) * n + 0 + 1
        <5>1. (r + 1) * n = r * n + n /\ r * n \in Nat OBVIOUS
        <5> QED BY <3>1, <3>3, <5>1
      <4> QED BY <2>6, <4>3, <4>4
    <3>4. CASE c # n - 1
      <4>1. at[i + 1] = [x |-> c * w + w, y |-> r * h] BY <2>3, <2>4, <2>6, <3>2, <3>4 DEF Step
      <4>2. Cell(at[i + 1], r, c + 1, n) BY <2>4, <4>1 DEF Cell
      <4>3. c + 1 \in 0 .. n - 1 /\ i + 1 = r * n + (c + 1) + 1
        <5>1. r * n \in Nat OBVIOUS
        <5> QED BY <3>1, <3>4, <5>1
      <4> QED BY <2>6, <4>2, <4>3
    <3> QED BY <3>3, <3>4
  <2> HIDE DEF S
  <2>7. \A i \in 1 .. k : i \in S BY <2>5, <2>6, UpTo
  <2> QED BY <2>7 DEF S, at
<1> QED BY <1>1, <1>2

\* Up to 16 videos have a grid with a cell for each.
LEMMA GridHasRoom ==
  ASSUME NEW l \in Nat, l <= MaxVideos
  PROVE  Side(l) \in 1 .. 4 /\ l <= Side(l) * Side(l)
BY DEF Side, MaxVideos

\* Two cells of a grid with n rows and n columns.
LEMMA CellsFit ==
  ASSUME NEW n \in 1 .. 4, NEW r \in Nat, NEW c \in 0 .. n - 1, r * n + c + 1 <= n * n,
         NEW a \in Nat, NEW b \in 0 .. n - 1, a * n + b + 1 <= n * n,
         NEW p, NEW q,
         p = [x |-> c * (Width \div n), y |-> r * (Height \div n),
              w |-> Width \div n, h |-> Height \div n],
         q = [x |-> b * (Width \div n), y |-> a * (Height \div n),
              w |-> Width \div n, h |-> Height \div n]
  PROVE  InFrame(p) /\ (r * n + c # a * n + b => Apart(p, q))
<1>1. CASE n = 1 BY <1>1 DEF InFrame, Apart, Width, Height
<1>2. CASE n = 2 BY <1>2 DEF InFrame, Apart, Width, Height
<1>3. CASE n = 3 BY <1>3 DEF InFrame, Apart, Width, Height
<1>4. CASE n = 4 BY <1>4 DEF InFrame, Apart, Width, Height
<1> QED BY <1>1, <1>2, <1>3, <1>4

-------------------------------------------------------------------------------
\* The layout of a list of pads

LEMMA LayoutAt ==
  ASSUME NEW S, NEW ps \in Seq(S), IsInjective(ps), NEW rows, NEW cols, NEW i \in 1 .. Len(ps)
  PROVE  Layout(ps, rows, cols)[ps[i]] =
           [x |-> Positions(Len(ps), Quotient(Width, cols), Quotient(Height, rows))[i].x,
            y |-> Positions(Len(ps), Quotient(Width, cols), Quotient(Height, rows))[i].y,
            w |-> Quotient(Width, cols), h |-> Quotient(Height, rows)]
<1>1. DOMAIN ps = 1 .. Len(ps) BY LenProperties
<1>2. ps[i] \in Range(ps) BY <1>1 DEF Range
<1>3. (CHOOSE j \in DOMAIN ps : ps[j] = ps[i]) = i BY <1>1 DEF IsInjective
<1> QED BY <1>2, <1>3 DEF Layout

LEMMA QuotientType ==
  ASSUME NEW a \in Nat, NEW b \in Int, b # 0
  PROVE  Quotient(a, b) \in Int
<1>1. CASE b > 0 BY <1>1 DEF Quotient
<1>2. CASE b < 0
  <2>1. -b \in Nat /\ -b > 0 BY <1>2
  <2>2. a \div (-b) \in Int BY <2>1
  <2> QED BY <1>2, <2>2 DEF Quotient
<1> QED BY <1>1, <1>2

(***************************************************************************)
(* gstreamer_compositor_relayout_videos: every pad gets four numbers, even *)
(* if rows and cols are whatever the memory held, as long as neither is 0. *)
(***************************************************************************)
LEMMA LayoutType ==
  ASSUME NEW S, NEW ps \in Seq(S), IsInjective(ps),
         NEW rows \in Int, NEW cols \in Int, rows # 0, cols # 0
  PROVE  \A p \in Range(ps) : Layout(ps, rows, cols)[p] \in Tiles
<1> SUFFICES ASSUME NEW p \in Range(ps) PROVE Layout(ps, rows, cols)[p] \in Tiles
  OBVIOUS
<1>1. DOMAIN ps = 1 .. Len(ps) /\ Len(ps) \in Nat BY LenProperties
<1>2. PICK i \in 1 .. Len(ps) : p = ps[i] BY <1>1 DEF Range
<1> DEFINE w == Quotient(Width, cols)
           h == Quotient(Height, rows)
           at == Positions(Len(ps), w, h)
<1>3. w \in Int /\ h \in Int BY QuotientType DEF Width, Height
<1>4. Layout(ps, rows, cols)[ps[i]] = [x |-> at[i].x, y |-> at[i].y, w |-> w, h |-> h]
  BY LayoutAt
<1>5. at[i] \in Points BY <1>1, <1>3, PositionType
<1> HIDE DEF at, w, h
<1> QED BY <1>2, <1>3, <1>4, <1>5 DEF Points, Tiles

(***************************************************************************)
(* gstreamer_compositor_relayout_videos, for any list of up to 16 pads:    *)
(* the videos lie inside the frame, and no two of them cover each other.   *)
(***************************************************************************)
THEOREM LayoutIsRight ==
  ASSUME NEW S, NEW ps \in Seq(S), IsInjective(ps), Len(ps) <= MaxVideos
  PROVE  LET n == Side(Len(ps))
             placed == Layout(ps, n, n) IN
         \A i, j \in 1 .. Len(ps) :
           InFrame(placed[ps[i]]) /\ (i # j => Apart(placed[ps[i]], placed[ps[j]]))
<1> DEFINE n == Side(Len(ps))
           w == Width \div n
           h == Height \div n
           at == Positions(Len(ps), w, h)
           placed == Layout(ps, n, n)
<1>1. Len(ps) \in Nat BY LenProperties
<1>2. n \in 1 .. 4 /\ Len(ps) <= n * n BY <1>1, GridHasRoom
<1>3. Quotient(Width, n) = w /\ Quotient(Height, n) = h
  <2> HIDE DEF n
  <2> QED BY <1>2 DEF Quotient
<1>4. \A i \in 1 .. Len(ps) : placed[ps[i]] = [x |-> at[i].x, y |-> at[i].y, w |-> w, h |-> h]
  BY <1>3, LayoutAt
<1> HIDE DEF n, placed
<1>5. \A i \in 1 .. Len(ps) : \E r \in Nat, c \in 0 .. n - 1 :
        i = r * n + c + 1 /\ Cell(at[i], r, c, n)
  BY <1>1, <1>2, Cells
<1> HIDE DEF at
<1>6. ASSUME NEW i \in 1 .. Len(ps), NEW j \in 1 .. Len(ps)
      PROVE  InFrame(placed[ps[i]]) /\ (i # j => Apart(placed[ps[i]], placed[ps[j]]))
  <2>1. PICK r \in Nat, c \in 0 .. n - 1 : i = r * n + c + 1 /\ Cell(at[i], r, c, n) BY <1>5
  <2>2. PICK a \in Nat, b \in 0 .. n - 1 : j = a * n + b + 1 /\ Cell(at[j], a, b, n) BY <1>5
  <2>3. /\ placed[ps[i]] = [x |-> c * w, y |-> r * h, w |-> w, h |-> h]
        /\ placed[ps[j]] = [x |-> b * w, y |-> a * h, w |-> w, h |-> h]
    BY <1>4, <2>1, <2>2 DEF Cell
  <2>4. r * n + c + 1 <= n * n /\ a * n + b + 1 <= n * n BY <1>1, <1>2, <2>1, <2>2
  <2>5. i # j => r * n + c # a * n + b BY <2>1, <2>2
  <2> HIDE DEF w, h
  <2>6. InFrame(placed[ps[i]]) /\ (r * n + c # a * n + b => Apart(placed[ps[i]], placed[ps[j]]))
    BY <1>2, <2>3, <2>4, CellsFit DEF w, h
  <2> QED BY <2>5, <2>6
<1> QED BY <1>6 DEF n, placed
===============================================================================
