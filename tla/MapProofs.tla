----------------------------- MODULE MapProofs -----------------------------
(***************************************************************************)
(* Proofs about what the map is asked, for any map.  The walk cache of a   *)
(* monster, for any size of its window: that it agrees with the map        *)
(* whatever moves in it, the monster included, as long as no step spoils   *)
(* it.  And the search for spectators, for any width of the leaves and any *)
(* range: that it finds everybody who sees a place, along links made in    *)
(* any order, and that what it keeps is dropped in time.                   *)
(***************************************************************************)
EXTENDS Spectators, WalkCache, FiniteSetTheorems, TLAPS

WalkCacheInv == WalkCacheTypeOK /\ WindowAgrees

Span == -Half .. Half

-----------------------------------------------------------------------------
(* Cells.                                                                  *)

LEMMA CellsArePairs ==
  /\ \A x, y \in Span : <<x, y>> \in Cells /\ <<x, y>>[1] = x /\ <<x, y>>[2] = y
  /\ \A d \in Cells : d[1] \in Span /\ d[2] \in Span /\ d = <<d[1], d[2]>>
  BY DEF Cells, Span

LEMMA SpanIsAroundZero ==
  /\ Span \subseteq Int /\ 0 \in Span /\ 1 \in Span /\ -1 \in Span
  /\ Half \in Span /\ -Half \in Span /\ Half # -Half
  /\ \A x \in Span : x # Half => x + 1 \in Span
  /\ \A x \in Span : x # -Half => x - 1 \in Span
  /\ \A x \in Span : x + Half >= 0 /\ (x + Half >= 1 <=> x # -Half)
  BY WalkCacheAssumption DEF Span

LEMMA AbsOfInt == \A i \in Int : Abs(i) = IF i < 0 THEN -i ELSE i
  BY DEF Abs

\* The places have three coordinates.
LEMMA TilesAreTriples ==
  \A p \in Tiles : p[1] \in Int /\ p[2] \in Int /\ p[3] \in Int /\ p = <<p[1], p[2], p[3]>>
  BY WalkCacheAssumption

LEMMA AnswersAreBoolean == \A s, p : MayEnter(s, p) \in BOOLEAN
  BY DEF MayEnter

-----------------------------------------------------------------------------
(* What the window becomes, cell by cell.                                  *)

LEMMA WindowsAreWhole ==
  ASSUME NEW s, NEW c, NEW from
  PROVE  /\ DOMAIN StepNorth(s, c) = Cells /\ DOMAIN StepSouth(s, c) = Cells
         /\ DOMAIN StepEast(s, c, from) = Cells /\ DOMAIN StepWest(s, c, from) = Cells
  BY DEF StepNorth, StepSouth, StepEast, StepWest

LEMMA RowsMoveSouth ==
  ASSUME NEW s, NEW c, NEW x \in Span, NEW y \in Span
  PROVE  StepNorth(s, c)[<<x, y>>] = IF y = -Half THEN MayEnter(s, CellAt(s, <<x, y>>))
                                   ELSE c[<<x, y - 1>>]
  BY CellsArePairs DEF StepNorth

LEMMA RowsMoveNorth ==
  ASSUME NEW s, NEW c, NEW x \in Span, NEW y \in Span
  PROVE  StepSouth(s, c)[<<x, y>>] = IF y = Half THEN MayEnter(s, CellAt(s, <<x, y>>))
                                   ELSE c[<<x, y + 1>>]
  BY CellsArePairs DEF StepSouth

LEMMA ColumnsMoveWest ==
  ASSUME NEW s, NEW c, NEW from, NEW x \in Span, NEW y \in Span
  PROVE  StepEast(s, c, from)[<<x, y>>] =
           IF x = Half THEN MayEnter(s, CellAt(s, <<x, y>>))
           ELSE IF y + Half >= from THEN c[<<x + 1, y>>] ELSE c[<<x, y>>]
  BY CellsArePairs DEF StepEast

LEMMA ColumnsMoveEast ==
  ASSUME NEW s, NEW c, NEW from, NEW x \in Span, NEW y \in Span
  PROVE  StepWest(s, c, from)[<<x, y>>] =
           IF x = -Half THEN MayEnter(s, CellAt(s, <<x, y>>))
           ELSE IF y + Half >= from THEN c[<<x - 1, y>>] ELSE c[<<x, y>>]
  BY CellsArePairs DEF StepWest

\* Which of the shifts a step is.
LEMMA ShiftOfStep ==
  ASSUME NEW s, NEW c, NEW old, NEW dx \in {-1, 0, 1}, NEW dy \in {-1, 0, 1},
         old[1] \in Int, old[2] \in Int,
         s.monster[1] = old[1] + dx, s.monster[2] = old[2] + dy
  PROVE  /\ UpDown(s, c, old) = IF dy = -1 THEN StepNorth(s, c)
                                ELSE IF dy = 1 THEN StepSouth(s, c) ELSE c
         /\ LeftRight(s, c, old) = IF dx = 1 THEN StepEast(s, c, Abs(dy))
                                   ELSE IF dx = -1 THEN StepWest(s, c, Abs(dy)) ELSE c
<1>1. Abs(old[2] - s.monster[2]) = Abs(dy)
  BY AbsOfInt
<1>2. /\ old[2] > s.monster[2] <=> dy = -1
      /\ old[2] < s.monster[2] <=> dy = 1
      /\ old[1] < s.monster[1] <=> dx = 1
      /\ old[1] > s.monster[1] <=> dx = -1
  OBVIOUS
<1>3. UpDown(s, c, old) = IF dy = -1 THEN StepNorth(s, c)
                          ELSE IF dy = 1 THEN StepSouth(s, c) ELSE c
  BY <1>2 DEF UpDown
<1>4. LeftRight(s, c, old) = IF dx = 1 THEN StepEast(s, c, Abs(dy))
                             ELSE IF dx = -1 THEN StepWest(s, c, Abs(dy)) ELSE c
  BY <1>1, <1>2 DEF LeftRight
<1> QED
  BY <1>3, <1>4

\* The cells of c hold the answers of s at a distance of dx and dy; those of m
\* hold them in their place.  The cell of the monster and that it has left are
\* of no account.
Awaits(s, c, dx, dy) ==
    \A x, y, v, w \in Span :
        v = x + dx /\ w = y + dy /\ (v # 0 \/ w # 0) /\ (x # 0 \/ y # 0)
        => c[<<v, w>>] = MayEnter(s, CellAt(s, <<x, y>>))

Arrived(s, m, dx, dy) ==
    /\ DOMAIN m = Cells
    /\ \A x, y \in Span :
         (x # 0 \/ y # 0) /\ (x + dx # 0 \/ y + dy # 0)
         => m[<<x, y>>] = MayEnter(s, CellAt(s, <<x, y>>))

\* After a step by dx and dy that does not spoil the window, a cell whose answer
\* was beside it has it, and one that has come into the window is read.
LEMMA WindowMoves ==
  ASSUME NEW s, NEW c, NEW old, NEW dx \in {-1, 0, 1}, NEW dy \in {-1, 0, 1},
         old[1] \in Int, old[2] \in Int,
         s.monster[1] = old[1] + dx, s.monster[2] = old[2] + dy,
         dx # 0 \/ dy # 0, dx = 0 \/ dy # 1,
         Awaits(s, c, dx, dy)
  PROVE  Arrived(s, LeftRight(s, UpDown(s, c, old), old), dx, dy)
<1> DEFINE m == LeftRight(s, UpDown(s, c, old), old)
           u == UpDown(s, c, old)
           V(x, y) == MayEnter(s, CellAt(s, <<x, y>>))
<1>1. /\ u = IF dy = -1 THEN StepNorth(s, c) ELSE IF dy = 1 THEN StepSouth(s, c) ELSE c
      /\ m = IF dx = 1 THEN StepEast(s, u, Abs(dy))
             ELSE IF dx = -1 THEN StepWest(s, u, Abs(dy)) ELSE u
  BY ShiftOfStep
<1>2. \A x, y, v, w \in Span :
         v = x + dx /\ w = y + dy /\ (v # 0 \/ w # 0) /\ (x # 0 \/ y # 0)
         => c[<<v, w>>] = V(x, y)
  BY DEF Awaits
<1>3. Abs(0) = 0 /\ Abs(-1) = 1
  BY AbsOfInt
<1> HIDE DEF m, u, V
<1>4. CASE dx = 0 /\ dy = -1
  <2>1. m = StepNorth(s, c)
    BY <1>1, <1>4
  <2>2. DOMAIN m = Cells
    BY <2>1, WindowsAreWhole
  <2>3. ASSUME NEW x \in Span, NEW y \in Span
        PROVE  m[<<x, y>>] = IF y = -Half THEN V(x, y) ELSE c[<<x, y - 1>>]
    BY <2>1, RowsMoveSouth DEF V
  <2>4. ASSUME NEW x \in Span, NEW y \in Span, x # 0 \/ y # 0, x + dx # 0 \/ y + dy # 0
        PROVE  m[<<x, y>>] = V(x, y)
    <3>1. CASE y = -Half
      BY <2>3, <3>1
    <3>2. CASE ~(y = -Half)
      <4>1. y - 1 \in Span /\ x \in Int /\ y \in Int /\ y + Half >= 0
        BY <3>2, SpanIsAroundZero
      <4>2. c[<<x, y - 1>>] = V(x, y)
        BY <1>2, <1>4, <2>4, <4>1
      <4> QED
        BY <2>3, <3>2, <4>1, <4>2
    <3> QED
      BY <3>1, <3>2
  <2> QED
    BY <2>2, <2>4 DEF Arrived, m, V
<1>5. CASE dx = 0 /\ dy = 1
  <2>1. m = StepSouth(s, c)
    BY <1>1, <1>5
  <2>2. DOMAIN m = Cells
    BY <2>1, WindowsAreWhole
  <2>3. ASSUME NEW x \in Span, NEW y \in Span
        PROVE  m[<<x, y>>] = IF y = Half THEN V(x, y) ELSE c[<<x, y + 1>>]
    BY <2>1, RowsMoveNorth DEF V
  <2>4. ASSUME NEW x \in Span, NEW y \in Span, x # 0 \/ y # 0, x + dx # 0 \/ y + dy # 0
        PROVE  m[<<x, y>>] = V(x, y)
    <3>1. CASE y = Half
      BY <2>3, <3>1
    <3>2. CASE ~(y = Half)
      <4>1. y + 1 \in Span /\ x \in Int /\ y \in Int /\ y + Half >= 0
        BY <3>2, SpanIsAroundZero
      <4>2. c[<<x, y + 1>>] = V(x, y)
        BY <1>2, <1>5, <2>4, <4>1
      <4> QED
        BY <2>3, <3>2, <4>1, <4>2
    <3> QED
      BY <3>1, <3>2
  <2> QED
    BY <2>2, <2>4 DEF Arrived, m, V
<1>6. CASE dx = 1 /\ dy = 0
  <2>1. m = StepEast(s, c, 0)
    BY <1>1, <1>3, <1>6
  <2>2. DOMAIN m = Cells
    BY <2>1, WindowsAreWhole
  <2>3. ASSUME NEW x \in Span, NEW y \in Span
        PROVE  m[<<x, y>>] = IF x = Half THEN V(x, y) ELSE
                 IF y + Half >= 0 THEN c[<<x + 1, y>>] ELSE c[<<x, y>>]
    BY <2>1, ColumnsMoveWest DEF V
  <2>4. ASSUME NEW x \in Span, NEW y \in Span, x # 0 \/ y # 0, x + dx # 0 \/ y + dy # 0
        PROVE  m[<<x, y>>] = V(x, y)
    <3>1. CASE x = Half
      BY <2>3, <3>1
    <3>2. CASE ~(x = Half)
      <4>1. x + 1 \in Span /\ x \in Int /\ y \in Int /\ y + Half >= 0
        BY <3>2, SpanIsAroundZero
      <4>2. c[<<x + 1, y>>] = V(x, y)
        BY <1>2, <1>6, <2>4, <4>1
      <4> QED
        BY <2>3, <3>2, <4>1, <4>2
    <3> QED
      BY <3>1, <3>2
  <2> QED
    BY <2>2, <2>4 DEF Arrived, m, V
<1>7. CASE dx = -1 /\ dy = 0
  <2>1. m = StepWest(s, c, 0)
    BY <1>1, <1>3, <1>7
  <2>2. DOMAIN m = Cells
    BY <2>1, WindowsAreWhole
  <2>3. ASSUME NEW x \in Span, NEW y \in Span
        PROVE  m[<<x, y>>] = IF x = -Half THEN V(x, y) ELSE
                 IF y + Half >= 0 THEN c[<<x - 1, y>>] ELSE c[<<x, y>>]
    BY <2>1, ColumnsMoveEast DEF V
  <2>4. ASSUME NEW x \in Span, NEW y \in Span, x # 0 \/ y # 0, x + dx # 0 \/ y + dy # 0
        PROVE  m[<<x, y>>] = V(x, y)
    <3>1. CASE x = -Half
      BY <2>3, <3>1
    <3>2. CASE ~(x = -Half)
      <4>1. x - 1 \in Span /\ x \in Int /\ y \in Int /\ y + Half >= 0
        BY <3>2, SpanIsAroundZero
      <4>2. c[<<x - 1, y>>] = V(x, y)
        BY <1>2, <1>7, <2>4, <4>1
      <4> QED
        BY <2>3, <3>2, <4>1, <4>2
    <3> QED
      BY <3>1, <3>2
  <2> QED
    BY <2>2, <2>4 DEF Arrived, m, V
<1>8. CASE dx = 1 /\ dy = -1
  <2>1. u = StepNorth(s, c) /\ m = StepEast(s, u, 1)
    BY <1>1, <1>3, <1>8
  <2>2. DOMAIN m = Cells
    BY <2>1, WindowsAreWhole
  <2>3. ASSUME NEW x \in Span, NEW y \in Span
        PROVE  u[<<x, y>>] = IF y = -Half THEN V(x, y) ELSE c[<<x, y - 1>>]
    BY <2>1, RowsMoveSouth DEF V
  <2>4. ASSUME NEW x \in Span, NEW y \in Span
        PROVE  m[<<x, y>>] = IF x = Half THEN V(x, y) ELSE
                 IF y + Half >= 1 THEN u[<<x + 1, y>>] ELSE u[<<x, y>>]
    BY <2>1, ColumnsMoveWest DEF V
  <2>5. ASSUME NEW x \in Span, NEW y \in Span, x # 0 \/ y # 0, x + dx # 0 \/ y + dy # 0
        PROVE  m[<<x, y>>] = V(x, y)
    <3>1. CASE x = Half
      BY <2>4, <3>1
    <3>2. CASE ~(x = Half) /\ y = -Half
      <4>1. ~(y + Half >= 1)
        BY <3>2, SpanIsAroundZero
      <4> QED
        BY <2>3, <2>4, <3>2, <4>1
    <3>3. CASE ~(x = Half) /\ y # -Half
      <4>1. /\ x + 1 \in Span /\ y - 1 \in Span /\ x \in Int /\ y \in Int
            /\ y + Half >= 1
        BY <3>3, SpanIsAroundZero
      <4>2. c[<<x + 1, y - 1>>] = V(x, y)
        BY <1>2, <1>8, <2>5, <4>1
      <4>3. m[<<x, y>>] = u[<<x + 1, y>>]
        BY <2>4, <3>3, <4>1
      <4>4. u[<<x + 1, y>>] = c[<<x + 1, y - 1>>]
        BY <2>3, <3>3, <4>1
      <4> QED
        BY <4>2, <4>3, <4>4
    <3> QED
      BY <3>1, <3>2, <3>3
  <2> QED
    BY <2>2, <2>5 DEF Arrived, m, V
<1>9. CASE dx = -1 /\ dy = -1
  <2>1. u = StepNorth(s, c) /\ m = StepWest(s, u, 1)
    BY <1>1, <1>3, <1>9
  <2>2. DOMAIN m = Cells
    BY <2>1, WindowsAreWhole
  <2>3. ASSUME NEW x \in Span, NEW y \in Span
        PROVE  u[<<x, y>>] = IF y = -Half THEN V(x, y) ELSE c[<<x, y - 1>>]
    BY <2>1, RowsMoveSouth DEF V
  <2>4. ASSUME NEW x \in Span, NEW y \in Span
        PROVE  m[<<x, y>>] = IF x = -Half THEN V(x, y) ELSE
                 IF y + Half >= 1 THEN u[<<x - 1, y>>] ELSE u[<<x, y>>]
    BY <2>1, ColumnsMoveEast DEF V
  <2>5. ASSUME NEW x \in Span, NEW y \in Span, x # 0 \/ y # 0, x + dx # 0 \/ y + dy # 0
        PROVE  m[<<x, y>>] = V(x, y)
    <3>1. CASE x = -Half
      BY <2>4, <3>1
    <3>2. CASE ~(x = -Half) /\ y = -Half
      <4>1. ~(y + Half >= 1)
        BY <3>2, SpanIsAroundZero
      <4> QED
        BY <2>3, <2>4, <3>2, <4>1
    <3>3. CASE ~(x = -Half) /\ y # -Half
      <4>1. /\ x - 1 \in Span /\ y - 1 \in Span /\ x \in Int /\ y \in Int
            /\ y + Half >= 1
        BY <3>3, SpanIsAroundZero
      <4>2. c[<<x - 1, y - 1>>] = V(x, y)
        BY <1>2, <1>9, <2>5, <4>1
      <4>3. m[<<x, y>>] = u[<<x - 1, y>>]
        BY <2>4, <3>3, <4>1
      <4>4. u[<<x - 1, y>>] = c[<<x - 1, y - 1>>]
        BY <2>3, <3>3, <4>1
      <4> QED
        BY <4>2, <4>3, <4>4
    <3> QED
      BY <3>1, <3>2, <3>3
  <2> QED
    BY <2>2, <2>5 DEF Arrived, m, V
<1> QED
  BY <1>4, <1>5, <1>6, <1>7, <1>8, <1>9

-----------------------------------------------------------------------------
(* A step of the monster.                                                  *)

\* A tile answers the same as long as nothing has come to it or gone from it.
LEMMA AnswerStays ==
  ASSUME NEW s, NEW t, NEW p, s.guest = t.guest, s.thing = t.thing,
         s.ignoreFieldDamage = t.ignoreFieldDamage,
         p # s.monster, p # t.monster
  PROVE  MayEnter(s, p) = MayEnter(t, p)
  BY DEF MayEnter

LEMMA ShiftsAreWindows ==
  ASSUME NEW s, NEW c \in [Cells -> BOOLEAN], NEW from \in Int
  PROVE  /\ StepNorth(s, c) \in [Cells -> BOOLEAN] /\ StepSouth(s, c) \in [Cells -> BOOLEAN]
         /\ StepEast(s, c, from) \in [Cells -> BOOLEAN]
         /\ StepWest(s, c, from) \in [Cells -> BOOLEAN]
<1>1. \A d \in Cells :
         /\ d[2] # -Half => <<d[1], d[2] - 1>> \in Cells
         /\ d[2] # Half => <<d[1], d[2] + 1>> \in Cells
         /\ d[1] # -Half => <<d[1] - 1, d[2]>> \in Cells
         /\ d[1] # Half => <<d[1] + 1, d[2]>> \in Cells
  BY CellsArePairs, SpanIsAroundZero
<1>2. \A d \in Cells : MayEnter(s, CellAt(s, d)) \in BOOLEAN
  BY AnswersAreBoolean
<1>3. StepNorth(s, c) \in [Cells -> BOOLEAN]
  BY <1>1, <1>2 DEF StepNorth
<1>4. StepSouth(s, c) \in [Cells -> BOOLEAN]
  BY <1>1, <1>2 DEF StepSouth
<1>5. StepEast(s, c, from) \in [Cells -> BOOLEAN]
  BY <1>1, <1>2 DEF StepEast
<1>6. StepWest(s, c, from) \in [Cells -> BOOLEAN]
  BY <1>1, <1>2 DEF StepWest
<1> QED
  BY <1>3, <1>4, <1>5, <1>6

LEMMA UpdatesAreWindows ==
  ASSUME NEW s, NEW c \in [Cells -> BOOLEAN], NEW p
  PROVE  UpdateTileCache(s, c, p) \in [Cells -> BOOLEAN]
<1>1. MayEnter(s, p) \in BOOLEAN
  BY AnswersAreBoolean
<1> QED
  BY <1>1 DEF UpdateTileCache

LEMMA ShiftedIsWindow ==
  ASSUME NEW s, NEW c \in [Cells -> BOOLEAN], NEW old, old[2] \in Int, s.monster[2] \in Int
  PROVE  Shifted(s, c, old) \in [Cells -> BOOLEAN]
<1>1. Abs(old[2] - s.monster[2]) \in Int
  BY AbsOfInt
<1>2. UpDown(s, c, old) \in [Cells -> BOOLEAN]
  <2>1. StepNorth(s, c) \in [Cells -> BOOLEAN] /\ StepSouth(s, c) \in [Cells -> BOOLEAN]
    BY <1>1, ShiftsAreWindows
  <2>2. UpDown(s, c, old) \in {StepNorth(s, c), StepSouth(s, c), c}
    BY DEF UpDown
  <2> QED
    BY <2>1, <2>2
<1>3. LeftRight(s, UpDown(s, c, old), old) \in [Cells -> BOOLEAN]
  <2> DEFINE u == UpDown(s, c, old)
             from == Abs(old[2] - s.monster[2])
  <2>1. StepEast(s, u, from) \in [Cells -> BOOLEAN] /\ StepWest(s, u, from) \in [Cells -> BOOLEAN]
    BY <1>1, <1>2, ShiftsAreWindows
  <2>2. LeftRight(s, u, old) \in {StepEast(s, u, from), StepWest(s, u, from), u}
    BY DEF LeftRight
  <2> QED
    BY <1>2, <2>1, <2>2
<1> QED
  BY <1>3, UpdatesAreWindows DEF Shifted

\* A window that was right is right after a step that does not spoil it.
LEMMA StepKeepsWindow ==
  ASSUME WalkCacheTypeOK, Current, scene.monster # None,
         NEW pos \in Tiles, pos # scene.monster,
         Beside(scene.monster, pos), ~Southward(scene.monster, pos),
         NEW s, s = [scene EXCEPT !.monster = pos]
  PROVE  \A d \in Cells \ {<<0, 0>>} :
            Shifted(s, cache, scene.monster)[d] = MayEnter(s, CellAt(s, d))
<1> DEFINE o == scene.monster
           dx == pos[1] - o[1]
           dy == pos[2] - o[2]
           m == LeftRight(s, UpDown(s, cache, o), o)
<1>1. /\ o \in Tiles /\ s.monster = pos /\ s.guest = scene.guest
      /\ s.thing = scene.thing /\ s.ignoreFieldDamage = scene.ignoreFieldDamage
      /\ scene.monster = o
  BY DEF WalkCacheTypeOK
<1>2. /\ o[1] \in Int /\ o[2] \in Int /\ o[3] \in Int /\ o = <<o[1], o[2], o[3]>>
      /\ pos[1] \in Int /\ pos[2] \in Int /\ pos[3] \in Int
      /\ pos = <<pos[1], pos[2], pos[3]>>
  BY <1>1, TilesAreTriples
<1>3. /\ pos[3] = o[3] /\ dx \in {-1, 0, 1} /\ dy \in {-1, 0, 1}
      /\ dx # 0 \/ dy # 0
      /\ dx = 0 \/ dy # 1
      /\ pos[1] = o[1] + dx /\ pos[2] = o[2] + dy
  <2>1. Abs(o[1] - pos[1]) <= 1 /\ Abs(o[2] - pos[2]) <= 1 /\ pos[3] = o[3]
    BY <1>1 DEF Beside
  <2>2. dx \in {-1, 0, 1} /\ dy \in {-1, 0, 1}
    BY <1>2, <2>1, AbsOfInt
  <2>3. dx # 0 \/ dy # 0
    BY <1>1, <1>2, <2>1
  <2>4. dx = 0 \/ dy # 1
    BY <1>1, <1>2 DEF Southward
  <2> QED
    BY <1>2, <2>1, <2>2, <2>3, <2>4
<1> HIDE DEF o, dx, dy
<1>4. ASSUME NEW x \in Span, NEW y \in Span, NEW v \in Span, NEW w \in Span,
             v = x + dx, w = y + dy, v # 0 \/ w # 0, x # 0 \/ y # 0
      PROVE  cache[<<v, w>>] = MayEnter(s, CellAt(s, <<x, y>>))
  <2>1. <<v, w>> \in Cells \ {<<0, 0>>}
    BY <1>4, CellsArePairs
  <2>2. cache[<<v, w>>] = MayEnter(scene, CellAt(scene, <<v, w>>))
    BY <2>1 DEF Current
  <2>3. x \in Int /\ y \in Int /\ v \in Int /\ w \in Int
    BY SpanIsAroundZero
  <2>4. CellAt(scene, <<v, w>>) = <<o[1] + v, o[2] + w, o[3]>>
    BY <1>1 DEF CellAt
  <2>5. CellAt(s, <<x, y>>) = <<pos[1] + x, pos[2] + y, pos[3]>>
    BY <1>1 DEF CellAt
  <2>6. o[1] + v = pos[1] + x /\ o[2] + w = pos[2] + y
    BY <1>2, <1>3, <1>4, <2>3
  <2>7. CellAt(scene, <<v, w>>) = CellAt(s, <<x, y>>)
    BY <1>3, <2>4, <2>5, <2>6
  <2>8. CellAt(s, <<x, y>>) # o
    <3>1. o[1] + v # o[1] \/ o[2] + w # o[2]
      BY <1>2, <1>4, <2>3
    <3> QED
      BY <1>2, <3>1, <2>4, <2>7
  <2>9. CellAt(s, <<x, y>>) # pos
    <3>1. pos[1] + x # pos[1] \/ pos[2] + y # pos[2]
      BY <1>2, <1>4, <2>3
    <3> QED
      BY <1>2, <3>1, <2>5
  <2>10. MayEnter(s, CellAt(s, <<x, y>>)) = MayEnter(scene, CellAt(s, <<x, y>>))
    BY <1>1, <2>8, <2>9, AnswerStays
  <2> QED
    BY <2>2, <2>7, <2>10
<1>5. Awaits(s, cache, dx, dy)
  BY <1>4 DEF Awaits
<1>6. s.monster[1] = o[1] + dx /\ s.monster[2] = o[2] + dy
  BY <1>1, <1>3
<1>7. Arrived(s, m, dx, dy)
  <2>1. PICK a \in {-1, 0, 1} : a = dx
    BY <1>3
  <2>2. PICK b \in {-1, 0, 1} : b = dy
    BY <1>3
  <2>3. PICK c : c = o
    OBVIOUS
  <2>4. /\ c[1] \in Int /\ c[2] \in Int /\ s.monster[1] = c[1] + a /\ s.monster[2] = c[2] + b
        /\ a # 0 \/ b # 0
        /\ a = 0 \/ b # 1
        /\ Awaits(s, cache, a, b)
    BY <1>2, <1>3, <1>5, <1>6, <2>1, <2>2, <2>3
  <2>5. Arrived(s, LeftRight(s, UpDown(s, cache, c), c), a, b)
    BY <2>4, WindowMoves
  <2> QED
    BY <2>1, <2>2, <2>3, <2>5
<1> HIDE DEF m
<1>8. /\ o[3] = s.monster[3] /\ Offset(s, o) = <<0 - dx, 0 - dy>>
      /\ (0 - dx) \in Span /\ (0 - dy) \in Span /\ <<0 - dx, 0 - dy>> \in Cells
  <2>1. o[1] - s.monster[1] = 0 - dx /\ o[2] - s.monster[2] = 0 - dy
    <3>1. dx \in Int /\ dy \in Int
      BY <1>3
    <3>2. \A a, b, e \in Int : b = a + e => a - b = 0 - e
      OBVIOUS
    <3>3. s.monster[1] \in Int /\ s.monster[2] \in Int
      BY <1>2, <1>6, <3>1
    <3> QED
      BY <1>2, <1>6, <3>1, <3>2, <3>3
  <2>2. (0 - dx) \in Span /\ (0 - dy) \in Span
    <3>1. (0 - dx) \in {-1, 0, 1} /\ (0 - dy) \in {-1, 0, 1}
      BY <1>3
    <3> QED
      BY <3>1, SpanIsAroundZero
  <2> QED
    BY <1>1, <1>3, <2>1, <2>2, CellsArePairs DEF Offset
<1>9. Shifted(s, cache, o) = [m EXCEPT ![<<0 - dx, 0 - dy>>] = MayEnter(s, o)]
  BY <1>8 DEF Shifted, UpdateTileCache, m
<1>10. CellAt(s, <<0 - dx, 0 - dy>>) = o
  <2>1. s.monster[1] + (0 - dx) = o[1] /\ s.monster[2] + (0 - dy) = o[2]
    BY <1>2, <1>3, <1>6
  <2> QED
    BY <1>2, <1>8, <2>1 DEF CellAt
<1>11. ASSUME NEW d \in Cells \ {<<0, 0>>}
       PROVE  Shifted(s, cache, o)[d] = MayEnter(s, CellAt(s, d))
  <2>1. CASE d = <<0 - dx, 0 - dy>>
    BY <1>7, <1>8, <1>9, <1>10, <2>1 DEF Arrived
  <2>2. CASE d # <<0 - dx, 0 - dy>>
    <3>1. PICK x, y \in Span : d = <<x, y>>
      BY CellsArePairs
    <3>2. (x # 0 \/ y # 0) /\ (x + dx # 0 \/ y + dy # 0)
      <4>1. x \in Int /\ y \in Int /\ dx \in Int /\ dy \in Int
        BY <1>3, SpanIsAroundZero
      <4>2. x # 0 - dx \/ y # 0 - dy
        BY <2>2, <3>1
      <4>3. (x + dx = 0 => x = 0 - dx) /\ (y + dy = 0 => y = 0 - dy)
        BY <4>1
      <4> QED
        BY <3>1, <4>2, <4>3
    <3>3. m[<<x, y>>] = MayEnter(s, CellAt(s, <<x, y>>))
      BY <1>7, <3>2 DEF Arrived
    <3> QED
      BY <1>7, <1>9, <2>2, <3>1, <3>3 DEF Arrived
  <2> QED
    BY <2>1, <2>2
<1> QED
  BY <1>11 DEF o

-----------------------------------------------------------------------------
(* The other ways the window changes.                                      *)

Scenes ==
    [monster : Tiles \cup {None}, guest : Tiles \cup {None},
     thing : [Tiles -> Ground], ignoreFieldDamage : BOOLEAN]

\* A window that is read as a whole is right.
LEMMA ReadIsRight ==
  ASSUME NEW s, ReadAll(s)
  PROVE  /\ scene' = s /\ Current' /\ cache' \in [Cells -> BOOLEAN]
         /\ slid' = FALSE
<1>1. scene' = s /\ cache' = [d \in Cells |-> MayEnter(s, CellAt(s, d))] /\ slid' = FALSE
  BY DEF ReadAll, UpdateMapCache
<1>2. cache' \in [Cells -> BOOLEAN]
  BY <1>1, AnswersAreBoolean
<1>3. ASSUME NEW d \in Cells \ {<<0, 0>>}
      PROVE  cache'[d] = MayEnter(scene', CellAt(scene', d))
  BY <1>1
<1>4. Current'
  BY <1>3 DEF Current
<1> QED
  BY <1>1, <1>2, <1>4

\* A window is right that has been told of all that has changed.
LEMMA ToldIsRight ==
  ASSUME WalkCacheInv, NEW s, NEW positions, Told(s, positions),
         s.monster = scene.monster,
         \A p : p \notin positions => MayEnter(s, p) = MayEnter(scene, p)
  PROVE  /\ scene' = s /\ cache' \in [Cells -> BOOLEAN] /\ WindowAgrees'
         /\ UNCHANGED <<isMapLoaded, randomStepping, slid>>
<1>1. /\ scene' = s /\ UNCHANGED <<isMapLoaded, randomStepping, slid>>
      /\ cache \in [Cells -> BOOLEAN]
  BY DEF Told, WalkCacheInv, WalkCacheTypeOK
<1>2. CASE s.monster = None \/ ~isMapLoaded
  <2>1. cache' = cache
    BY <1>2 DEF Told
  <2> QED
    BY <1>1, <1>2, <2>1 DEF WindowAgrees
<1>3. CASE s.monster # None /\ isMapLoaded
  <2>1. cache' = [d \in Cells |-> IF CellAt(s, d) \in positions
                                  THEN MayEnter(s, CellAt(s, d)) ELSE cache[d]]
    BY <1>3 DEF Told
  <2>2. cache' \in [Cells -> BOOLEAN]
    BY <1>1, <2>1, AnswersAreBoolean
  <2>3. ASSUME ~slid, NEW d \in Cells \ {<<0, 0>>}
        PROVE  cache'[d] = MayEnter(s, CellAt(s, d))
    <3>1. CellAt(s, d) = CellAt(scene, d)
      BY DEF CellAt
    <3>2. cache[d] = MayEnter(scene, CellAt(scene, d))
      BY <1>3, <2>3 DEF WalkCacheInv, WindowAgrees, Current
    <3> QED
      BY <2>1, <3>1, <3>2
  <2>4. ~slid => Current'
    BY <1>1, <2>3 DEF Current
  <2> QED
    BY <1>1, <2>2, <2>4 DEF WindowAgrees
<1> QED
  BY <1>2, <1>3

-----------------------------------------------------------------------------
(* The invariant.                                                          *)

LEMMA WalkCacheStarts == WalkCacheInit => WalkCacheInv
<1> SUFFICES ASSUME WalkCacheInit PROVE WalkCacheInv
  OBVIOUS
<1>1. scene \in Scenes
  BY DEF WalkCacheInit, Beginning, Scenes, Ground
<1>2. cache \in [Cells -> BOOLEAN]
  BY DEF WalkCacheInit
<1>3. isMapLoaded \in BOOLEAN /\ randomStepping \in BOOLEAN /\ slid \in BOOLEAN
  BY DEF WalkCacheInit
<1>4. scene.monster = None
  BY DEF WalkCacheInit, Beginning
<1> QED
  BY <1>1, <1>2, <1>3, <1>4 DEF WalkCacheInv, WalkCacheTypeOK, WindowAgrees, Scenes

\* What an action must show when it reads the window as a whole.
LEMMA ReadingKeeps ==
  ASSUME NEW s \in Scenes, ReadAll(s), isMapLoaded' \in BOOLEAN, randomStepping' \in BOOLEAN
  PROVE  WalkCacheInv'
<1>1. /\ scene' = s /\ Current' /\ cache' \in [Cells -> BOOLEAN] /\ slid' = FALSE
  BY ReadIsRight
<1>2. slid' \in BOOLEAN
  BY <1>1
<1> QED
  BY <1>1, <1>2 DEF WalkCacheInv, WalkCacheTypeOK, WindowAgrees, Scenes

LEMMA MonsterKeeps ==
  ASSUME WalkCacheInv, NEW pos \in Tiles,
         \/ PlaceMonster(pos, TRUE) \/ PlaceMonster(pos, FALSE) \/ RemoveMonster \/ Think
         \/ Teleport(pos) \/ Stroll \/ FollowPath(TRUE) \/ FollowPath(FALSE) \/ HurtStrolling
         \/ Burn(TRUE) \/ Burn(FALSE)
  PROVE  WalkCacheInv'
<1>0. /\ scene \in Scenes /\ cache \in [Cells -> BOOLEAN]
      /\ isMapLoaded \in BOOLEAN /\ randomStepping \in BOOLEAN /\ slid \in BOOLEAN
  BY DEF WalkCacheInv, WalkCacheTypeOK, Scenes
<1>1. CASE PlaceMonster(pos, FALSE)
  <2> DEFINE s == [scene EXCEPT !.monster = pos, !.ignoreFieldDamage = FALSE]
  <2>1. s \in Scenes
    BY <1>0 DEF Scenes
  <2>2. ReadAll(s) /\ isMapLoaded' = TRUE /\ randomStepping' = FALSE
    BY <1>1 DEF PlaceMonster
  <2> HIDE DEF s
  <2> QED
    BY <2>1, <2>2, ReadingKeeps
<1>2. CASE PlaceMonster(pos, TRUE)
  <2>1. /\ scene' = [scene EXCEPT !.monster = pos, !.ignoreFieldDamage = FALSE]
        /\ cache' = [d \in Cells |-> FALSE] /\ isMapLoaded' = FALSE
    BY <1>2 DEF PlaceMonster
  <2>2. scene' \in Scenes
    BY <1>0, <2>1 DEF Scenes
  <2>3. cache' \in [Cells -> BOOLEAN]
    BY <2>1
  <2>4. isMapLoaded' \in BOOLEAN /\ randomStepping' \in BOOLEAN /\ slid' \in BOOLEAN
    BY <1>2 DEF PlaceMonster
  <2> QED
    BY <2>1, <2>2, <2>3, <2>4 DEF WalkCacheInv, WalkCacheTypeOK, WindowAgrees, Scenes
<1>3. CASE RemoveMonster
  <2>1. /\ scene' = [scene EXCEPT !.monster = None, !.ignoreFieldDamage = FALSE]
        /\ cache' = [d \in Cells |-> FALSE] /\ isMapLoaded' = FALSE
    BY <1>3 DEF RemoveMonster
  <2>2. scene' \in Scenes
    BY <1>0, <2>1 DEF Scenes
  <2>3. cache' \in [Cells -> BOOLEAN]
    BY <2>1
  <2>4. isMapLoaded' \in BOOLEAN /\ randomStepping' \in BOOLEAN /\ slid' \in BOOLEAN
    BY <1>3 DEF RemoveMonster
  <2> QED
    BY <2>1, <2>2, <2>3, <2>4 DEF WalkCacheInv, WalkCacheTypeOK, WindowAgrees, Scenes
<1>4. CASE Think
  <2>1. ReadAll(scene) /\ isMapLoaded' \in BOOLEAN /\ randomStepping' \in BOOLEAN
    BY <1>0, <1>4 DEF Think
  <2> QED
    BY <1>0, <2>1, ReadingKeeps
<1>5. CASE Teleport(pos)
  <2> DEFINE s == [scene EXCEPT !.monster = pos]
  <2>1. s \in Scenes
    BY <1>0 DEF Scenes
  <2>2. isMapLoaded' = isMapLoaded /\ randomStepping' = randomStepping
    BY <1>5 DEF Teleport
  <2>3. CASE isMapLoaded
    <3>1. ReadAll(s)
      BY <1>5, <2>3 DEF Teleport
    <3>2. isMapLoaded' \in BOOLEAN /\ randomStepping' \in BOOLEAN
      BY <1>0, <2>2
    <3> HIDE DEF s
    <3> QED
      BY <2>1, <3>1, <3>2, ReadingKeeps
  <2>4. CASE ~isMapLoaded
    <3>1. scene' = s /\ cache' = cache /\ slid' = slid
      BY <1>5, <2>4 DEF Teleport
    <3> HIDE DEF s
    <3>2. ~isMapLoaded' /\ scene' \in Scenes
      BY <2>1, <2>2, <2>4, <3>1
    <3> QED
      BY <1>0, <2>2, <3>1, <3>2 DEF WalkCacheInv, WalkCacheTypeOK, WindowAgrees, Scenes
  <2> QED
    BY <2>3, <2>4
<1>6. CASE Stroll
  <2>1. UNCHANGED <<scene, cache, isMapLoaded, slid>> /\ randomStepping' \in BOOLEAN
    BY <1>6 DEF Stroll
  <2>2. WindowAgrees'
    BY <2>1 DEF WalkCacheInv, WindowAgrees, Current
  <2> QED
    BY <1>0, <2>1, <2>2 DEF WalkCacheInv, WalkCacheTypeOK, Scenes
<1>7. ASSUME FollowPath(TRUE) \/ FollowPath(FALSE)
      PROVE  WalkCacheInv'
  <2>1. isMapLoaded' \in BOOLEAN /\ randomStepping' \in BOOLEAN /\ isMapLoaded' = isMapLoaded
    BY <1>0, <1>7 DEF FollowPath
  <2>2. CASE ReadAll([scene EXCEPT !.ignoreFieldDamage = FALSE])
    <3>1. [scene EXCEPT !.ignoreFieldDamage = FALSE] \in Scenes
      BY <1>0 DEF Scenes
    <3> QED
      BY <2>1, <2>2, <3>1, ReadingKeeps
  <2>3. CASE UNCHANGED <<scene, cache, slid>>
    <3>1. WindowAgrees'
      BY <2>1, <2>3 DEF WalkCacheInv, WindowAgrees, Current
    <3> QED
      BY <1>0, <2>1, <2>3, <3>1 DEF WalkCacheInv, WalkCacheTypeOK, Scenes
  <2> QED
    BY <1>7, <2>2, <2>3 DEF FollowPath
<1>8. CASE HurtStrolling
  <2>1. /\ ReadAll([scene EXCEPT !.ignoreFieldDamage = TRUE])
        /\ isMapLoaded' \in BOOLEAN /\ randomStepping' \in BOOLEAN
    BY <1>0, <1>8 DEF HurtStrolling
  <2>2. [scene EXCEPT !.ignoreFieldDamage = TRUE] \in Scenes
    BY <1>0 DEF Scenes
  <2> QED
    BY <2>1, <2>2, ReadingKeeps
<1>9. ASSUME NEW ends \in BOOLEAN, Burn(ends)
      PROVE  WalkCacheInv'
  <2>1. /\ ReadAll([scene EXCEPT !.ignoreFieldDamage = @ /\ ~ends])
        /\ isMapLoaded' \in BOOLEAN /\ randomStepping' \in BOOLEAN
    BY <1>0, <1>9 DEF Burn
  <2>2. [scene EXCEPT !.ignoreFieldDamage = @ /\ ~ends] \in Scenes
    BY <1>0 DEF Scenes
  <2> QED
    BY <2>1, <2>2, ReadingKeeps
<1> QED
  BY <1>1, <1>2, <1>3, <1>4, <1>5, <1>6, <1>7, <1>8, <1>9

LEMMA StepKeeps ==
  ASSUME WalkCacheInv, NEW pos \in Tiles, Step(pos)
  PROVE  WalkCacheInv'
<1> DEFINE s == [scene EXCEPT !.monster = pos]
<1>0. /\ scene \in Scenes /\ cache \in [Cells -> BOOLEAN] /\ WalkCacheTypeOK
      /\ isMapLoaded \in BOOLEAN /\ randomStepping \in BOOLEAN /\ slid \in BOOLEAN
  BY DEF WalkCacheInv, WalkCacheTypeOK, Scenes
<1>1. /\ scene.monster # None /\ scene.monster \in Tiles /\ pos # scene.monster
      /\ Beside(scene.monster, pos)
  BY <1>0 DEF Step, MayBeMoved, Scenes
<1>2. /\ scene' = s /\ isMapLoaded' = isMapLoaded /\ randomStepping' = randomStepping
      /\ cache' = IF isMapLoaded THEN Shifted(s, cache, scene.monster) ELSE cache
      /\ slid' = (slid \/ (isMapLoaded /\ Southward(scene.monster, pos)))
  BY DEF Step
<1>3. s \in Scenes /\ s.monster = pos
  BY <1>0 DEF Scenes
<1>4. slid' \in BOOLEAN
  BY <1>0, <1>2 DEF Southward
<1>5. cache' \in [Cells -> BOOLEAN]
  <2>1. scene.monster[2] \in Int /\ s.monster[2] \in Int
    BY <1>1, <1>3, TilesAreTriples
  <2>2. Shifted(s, cache, scene.monster) \in [Cells -> BOOLEAN]
    BY <1>0, <2>1, ShiftedIsWindow
  <2> QED
    BY <1>0, <1>2, <2>2
<1>6. ASSUME isMapLoaded, ~slid'
      PROVE  Current'
  <2>1. ~slid /\ ~Southward(scene.monster, pos)
    BY <1>2, <1>6
  <2>2. Current
    BY <1>1, <1>6, <2>1 DEF WalkCacheInv, WindowAgrees
  <2>3. \A d \in Cells \ {<<0, 0>>} :
           Shifted(s, cache, scene.monster)[d] = MayEnter(s, CellAt(s, d))
    BY <1>0, <1>1, <2>1, <2>2, StepKeepsWindow
  <2>4. cache' = Shifted(s, cache, scene.monster)
    BY <1>2, <1>6
  <2> HIDE DEF s
  <2> QED
    BY <1>2, <2>3, <2>4 DEF Current
<1> HIDE DEF s
<1> QED
  BY <1>0, <1>2, <1>3, <1>4, <1>5, <1>6 DEF WalkCacheInv, WalkCacheTypeOK, WindowAgrees, Scenes

\* What a step of another creature or a change of a tile must show.
LEMMA TellingKeeps ==
  ASSUME WalkCacheInv, NEW s \in Scenes, NEW positions, Told(s, positions),
         s.monster = scene.monster,
         \A p : p \notin positions => MayEnter(s, p) = MayEnter(scene, p)
  PROVE  WalkCacheInv'
<1>1. /\ scene' = s /\ cache' \in [Cells -> BOOLEAN] /\ WindowAgrees'
      /\ UNCHANGED <<isMapLoaded, randomStepping, slid>>
  BY ToldIsRight
<1> QED
  BY <1>1 DEF WalkCacheInv, WalkCacheTypeOK, Scenes

LEMMA OthersKeep ==
  ASSUME WalkCacheInv, NEW pos \in Tiles, NEW g \in Ground,
         GuestAppears(pos) \/ GuestMoves(pos) \/ GuestGoes \/ TileChanges(pos, g)
  PROVE  WalkCacheInv'
<1>0. scene \in Scenes
  BY DEF WalkCacheInv, WalkCacheTypeOK, Scenes
<1>1. ASSUME NEW q \in Tiles \cup {None}, NEW positions,
             Told([scene EXCEPT !.guest = q], positions),
             scene.guest \in positions \cup {None}, q \in positions \cup {None}
      PROVE  WalkCacheInv'
  <2> DEFINE s == [scene EXCEPT !.guest = q]
  <2>1. /\ s \in Scenes /\ s.monster = scene.monster /\ s.thing = scene.thing
        /\ s.guest = q /\ s.ignoreFieldDamage = scene.ignoreFieldDamage
    BY <1>0 DEF Scenes
  <2>2. Told(s, positions)
    BY <1>1
  <2> HIDE DEF s
  <2>3. ASSUME NEW p, p \notin positions
        PROVE  MayEnter(s, p) = MayEnter(scene, p)
    <3>1. p \in Tiles => p # None
      BY WalkCacheAssumption
    <3>2. p \in Tiles => p # q /\ p # scene.guest
      BY <1>1, <2>3, <3>1
    <3> QED
      BY <2>1, <3>2 DEF MayEnter
  <2> QED
    BY <2>1, <2>2, <2>3, TellingKeeps
<1>2. CASE GuestAppears(pos)
  BY <1>1, <1>2 DEF GuestAppears
<1>3. CASE GuestMoves(pos)
  BY <1>1, <1>3 DEF GuestMoves
<1>4. CASE GuestGoes
  BY <1>1, <1>4 DEF GuestGoes
<1>5. CASE TileChanges(pos, g)
  <2> DEFINE s == [scene EXCEPT !.thing[pos] = g]
  <2>1. /\ s \in Scenes /\ s.monster = scene.monster /\ s.guest = scene.guest
        /\ s.ignoreFieldDamage = scene.ignoreFieldDamage
        /\ \A p \in Tiles \ {pos} : s.thing[p] = scene.thing[p]
    BY <1>0 DEF Scenes
  <2>2. Told(s, {pos})
    BY <1>5 DEF TileChanges
  <2> HIDE DEF s
  <2>3. ASSUME NEW p, p \notin {pos}
        PROVE  MayEnter(s, p) = MayEnter(scene, p)
    BY <2>1, <2>3 DEF MayEnter
  <2> QED
    BY <2>1, <2>2, <2>3, TellingKeeps
<1> QED
  BY <1>2, <1>3, <1>4, <1>5

LEMMA WalkCacheKeeps == WalkCacheSpec => []WalkCacheInv
<1>1. WalkCacheInv /\ WalkCacheNext => WalkCacheInv'
  <2> SUFFICES ASSUME WalkCacheInv, WalkCacheNext
               PROVE  WalkCacheInv'
    OBVIOUS
  <2>1. ASSUME NEW pos \in Tiles
        PROVE  /\ \A startup \in BOOLEAN : PlaceMonster(pos, startup) => WalkCacheInv'
               /\ RemoveMonster \/ Think \/ Stroll \/ HurtStrolling => WalkCacheInv'
               /\ \A flag \in BOOLEAN : FollowPath(flag) \/ Burn(flag) => WalkCacheInv'
               /\ Step(pos) \/ Teleport(pos) => WalkCacheInv'
               /\ GuestAppears(pos) \/ GuestMoves(pos) \/ GuestGoes => WalkCacheInv'
               /\ \A g \in Ground : TileChanges(pos, g) => WalkCacheInv'
    <3>1. "floor" \in Ground
      BY DEF Ground
    <3> QED
      BY <3>1, MonsterKeeps, StepKeeps, OthersKeep
  <2>2. CASE Tiles = {}
    <3>1. scene.monster = None /\ scene.guest = None
      BY <2>2 DEF WalkCacheInv, WalkCacheTypeOK
    <3> QED
      BY <2>2, <3>1 DEF WalkCacheNext, RemoveMonster, Think, Stroll, FollowPath,
                        HurtStrolling, Burn, GuestGoes
  <2> QED
    BY <2>1, <2>2 DEF WalkCacheNext
<1>2. WalkCacheInv /\ UNCHANGED walkVars => WalkCacheInv'
  BY DEF WalkCacheInv, WalkCacheTypeOK, WindowAgrees, Current, walkVars
<1> QED
  BY <1>1, <1>2, WalkCacheStarts, PTL DEF WalkCacheSpec

-----------------------------------------------------------------------------
(* Theorems.                                                               *)

\* The scene and the window have their types.
THEOREM WalkCacheTypeCorrect == WalkCacheSpec => []WalkCacheTypeOK
<1>1. WalkCacheInv => WalkCacheTypeOK
  BY DEF WalkCacheInv
<1> QED
  BY <1>1, WalkCacheKeeps, PTL

\* For any map and any size of the window: a window that has been read says of
\* every cell but the monster's own what its tile would answer, however the
\* monster steps, is pushed, teleported, burnt or loses its way, and whatever
\* comes, moves, goes or changes around it; but for what its steps to the
\* south-east and south-west spoil (Creature::onCreatureMove, ::updateMapCache,
\* ::updateTileCache).
THEOREM WindowsAgreeWithMap == WalkCacheSpec => []WindowAgrees
<1>1. WalkCacheInv => WindowAgrees
  BY DEF WalkCacheInv
<1> QED
  BY <1>1, WalkCacheKeeps, PTL

-----------------------------------------------------------------------------
(* Spectators: leaves and their corners.                                    *)

\* Induction over the natural numbers, for a set of them: otherwise the numbers up
\* to one that is missing could be put, one to one, into one place less.
LEMMA Induction ==
  ASSUME NEW P \in SUBSET Nat, 0 \in P, \A n \in P : n + 1 \in P
  PROVE  P = Nat
<1> SUFFICES ASSUME NEW k \in Nat, k \notin P
             PROVE  FALSE
  OBVIOUS
<1> DEFINE f == [n \in 0 .. k |-> IF n \in P THEN n + 1 ELSE n]
<1>1. f \in [0 .. k -> 1 .. k]
  OBVIOUS
<1>2. \A m, n \in 0 .. k : f[m] = f[n] => m = n
  OBVIOUS
<1>3. /\ IsFiniteSet(0 .. k) /\ Cardinality(0 .. k) = k + 1
      /\ IsFiniteSet(1 .. k) /\ Cardinality(1 .. k) = k
  <2>1. 0 \in Int /\ 1 \in Int /\ k \in Int
    OBVIOUS
  <2> QED
    BY <2>1, FS_Interval
<1> HIDE DEF f
<1>4. Cardinality(1 .. k) < Cardinality(0 .. k)
  BY <1>3
<1>5. \E m, n \in 0 .. k : m # n /\ f[m] = f[n]
  BY <1>1, <1>3, <1>4, FS_PigeonHole
<1> QED
  BY <1>2, <1>5

LEMMA Width == FloorSize \in Nat /\ FloorSize > 0
  BY SpectatorsAssumption

\* A corner is a multiple of the width of a leaf, the last one before a place.
LEMMA CornerIsMultiple ==
  ASSUME NEW i \in Nat
  PROVE  \E q \in Nat :
           /\ Corner(i) = FloorSize * q
           /\ FloorSize * q <= i /\ i < FloorSize * q + FloorSize
<1>1. PICK q \in Nat : q = i \div FloorSize
  BY Width
<1>2. PICK r \in 0 .. FloorSize - 1 : r = i % FloorSize
  BY Width
<1>3. i = FloorSize * q + r
  BY <1>1, <1>2, Width
<1>4. Corner(i) = i - r
  BY <1>2 DEF Corner
<1> QED
  BY <1>3, <1>4, Width

\* Of two leaves the one whose end lies behind the other's start is not before it.
LEMMA MultiplesInOrder ==
  ASSUME NEW a \in Nat, NEW b \in Nat, FloorSize * a < FloorSize * b + FloorSize
  PROVE  a <= b
  BY Width

LEMMA MultiplesBetween ==
  ASSUME NEW a \in Nat, NEW b \in Nat, a <= b
  PROVE  (FloorSize * b - FloorSize * a) \div FloorSize = b - a
<1>1. PICK c \in Nat : b = a + c
  <2>1. b - a \in Nat /\ b = a + (b - a)
    OBVIOUS
  <2> QED
    BY <2>1
<1>2. FloorSize * b - FloorSize * a = FloorSize * c
  BY <1>1, Width
<1>3. (FloorSize * c) \div FloorSize = c
  BY Width
<1> QED
  BY <1>1, <1>2, <1>3

\* Between the first column and the last there is the one of a place.
LEMMA ColumnOfPlace ==
  ASSUME NEW a \in Nat, NEW i \in Nat, NEW b \in Nat, a <= i, i <= b
  PROVE  \E n \in 0 .. (Corner(b) - Corner(a)) \div FloorSize :
           Corner(i) = Corner(a) + n * FloorSize
<1>1. PICK qa \in Nat :
         /\ Corner(a) = FloorSize * qa
         /\ FloorSize * qa <= a /\ a < FloorSize * qa + FloorSize
  BY CornerIsMultiple
<1>2. PICK qi \in Nat :
         /\ Corner(i) = FloorSize * qi
         /\ FloorSize * qi <= i /\ i < FloorSize * qi + FloorSize
  BY CornerIsMultiple
<1>3. PICK qb \in Nat :
         /\ Corner(b) = FloorSize * qb
         /\ FloorSize * qb <= b /\ b < FloorSize * qb + FloorSize
  BY CornerIsMultiple
<1>4. qa <= qi
  <2>1. FloorSize * qa < FloorSize * qi + FloorSize
    BY <1>1, <1>2, Width
  <2> QED
    BY <2>1, MultiplesInOrder
<1>5. qi <= qb
  <2>1. FloorSize * qi < FloorSize * qb + FloorSize
    BY <1>2, <1>3, Width
  <2> QED
    BY <2>1, MultiplesInOrder
<1>6. (Corner(b) - Corner(a)) \div FloorSize = qb - qa
  <2>1. qa <= qb
    BY <1>4, <1>5
  <2> QED
    BY <1>1, <1>3, <2>1, MultiplesBetween
<1>7. PICK n \in Nat : qi = qa + n
  <2>1. qi - qa \in Nat /\ qi = qa + (qi - qa)
    BY <1>4
  <2> QED
    BY <2>1
<1>8. n \in 0 .. qb - qa
  BY <1>5, <1>7
<1>9. Corner(i) = Corner(a) + n * FloorSize
  BY <1>1, <1>2, <1>7, Width
<1> QED
  BY <1>6, <1>8, <1>9

LEMMA CornersAreNatural ==
  ASSUME NEW i \in Nat
  PROVE  Corner(i) \in Nat
  BY CornerIsMultiple, Width

-----------------------------------------------------------------------------
(* The walk along the links.                                              *)

NextTo(l, dx, dy) == GetLeaf(l[1] + dx, l[2] + dy)

Linked ==
    \A l \in leaves : leafE[l] = NextTo(l, FloorSize, 0) /\ leafS[l] = NextTo(l, 0, FloorSize)

\* The link of a leaf that is there leads to what a search would find.
LEMMA StepsSouth ==
  ASSUME Linked, NEW x \in Nat, NEW y \in Nat, NEW n \in Nat,
         GetLeaf(x, y + n * FloorSize) # None
  PROVE  leafS[GetLeaf(x, y + n * FloorSize)] = GetLeaf(x, y + (n + 1) * FloorSize)
<1>1. PICK a \in Nat : a = y + n * FloorSize
  BY Width
<1>2. y + (n + 1) * FloorSize = a + FloorSize
  BY <1>1, Width
<1>3. <<x, a>> \in leaves /\ GetLeaf(x, a) = <<x, a>>
  BY <1>1 DEF GetLeaf
<1>4. leafS[<<x, a>>] = GetLeaf(x + 0, a + FloorSize)
  BY <1>3 DEF Linked, NextTo
<1>5. x + 0 = x
  OBVIOUS
<1> QED
  BY <1>1, <1>2, <1>3, <1>4, <1>5

\* A way along links that lead from each leaf that is there to the next.
Way(h, K, at, next) ==
    [i \in 0 .. K |-> IF i = 0 THEN at[0]
                      ELSE IF h[i - 1] # None THEN next[h[i - 1]] ELSE at[i]]

\* There is one: the way that looks up every place, since links lead nowhere else.
LEMMA WayExists ==
  ASSUME NEW K \in Int, NEW at, NEW next,
         \A i \in Nat : at[i] # None => next[at[i]] = at[i + 1]
  PROVE  \E h : h = Way(h, K, at, next)
<1> DEFINE g == [i \in 0 .. K |-> at[i]]
<1>1. ASSUME NEW i \in 0 .. K
      PROVE  at[i] = IF i = 0 THEN at[0] ELSE IF g[i - 1] # None THEN next[g[i - 1]] ELSE at[i]
  <2>1. CASE i = 0
    BY <2>1
  <2>2. CASE i # 0
    <3>1. PICK j \in Nat : i = j + 1
      <4>1. i - 1 \in Nat /\ i = (i - 1) + 1
        BY <2>2
      <4> QED
        BY <4>1
    <3>2. i - 1 = j /\ g[j] = at[j]
      BY <3>1
    <3>3. at[j] # None => next[at[j]] = at[i]
      BY <3>1
    <3> QED
      BY <2>2, <3>2, <3>3
  <2> QED
    BY <2>1, <2>2
<1>2. g = Way(g, K, at, next)
  BY <1>1 DEF Way
<1> QED
  BY <1>2

\* Whichever it is, each of its steps is the look-up of that place.
LEMMA WayIsStraight ==
  ASSUME NEW K \in Int, NEW at, NEW next, NEW w, w = Way(w, K, at, next),
         \A i \in Nat : at[i] # None => next[at[i]] = at[i + 1]
  PROVE  \A n \in 0 .. K : w[n] = at[n]
<1>1. PICK P \in SUBSET Nat : \A i \in Nat : i \in P <=> (i \in 0 .. K => w[i] = at[i])
  <2>1. {i \in Nat : i \in 0 .. K => w[i] = at[i]} \in SUBSET Nat
    OBVIOUS
  <2> QED
    BY <2>1
<1>2. 0 \in P
  BY <1>1 DEF Way
<1>3. \A i \in P : i + 1 \in P
  <2> SUFFICES ASSUME NEW i \in P, i + 1 \in 0 .. K PROVE w[i + 1] = at[i + 1]
    BY <1>1
  <2>1. i \in Nat /\ i \in 0 .. K /\ (i + 1) - 1 = i /\ i + 1 # 0
    BY <1>1
  <2>2. w[i] = at[i]
    BY <1>1, <2>1
  <2>3. w[i + 1] = IF w[i] # None THEN next[w[i]] ELSE at[i + 1]
    BY <2>1 DEF Way
  <2> QED
    BY <2>1, <2>2, <2>3
<1> QED
  BY <1>1, <1>2, <1>3, Induction

\* The columns of the walk.
LEMMA WalkSouth ==
  ASSUME Linked, NEW x \in Nat, NEW y \in Nat, NEW to \in Nat
  PROVE  /\ DOMAIN Southwards(x, y, to) = 0 .. (to - y) \div FloorSize
         /\ \A n \in 0 .. (to - y) \div FloorSize :
              Southwards(x, y, to)[n] = GetLeaf(x, y + n * FloorSize)
<1> DEFINE body(h) == [i \in 0 .. (to - y) \div FloorSize |->
             IF i = 0 THEN GetLeaf(x, y)
             ELSE IF h[i - 1] # None THEN leafS[h[i - 1]]
             ELSE GetLeaf(x, y + i * FloorSize)]
           at == [i \in Nat |-> GetLeaf(x, y + i * FloorSize)]
           w == CHOOSE h : h = body(h)
<1>1. Southwards(x, y, to) = w
  BY DEF Southwards
<1>2. PICK K \in Int : K = (to - y) \div FloorSize
  BY Width
<1>3. \A i \in Nat : at[i] # None => leafS[at[i]] = at[i + 1]
  BY StepsSouth
<1>4. at[0] = GetLeaf(x, y) /\ \A i \in Nat : at[i] = GetLeaf(x, y + i * FloorSize)
  <2>1. y + 0 * FloorSize = y
    BY Width
  <2> QED
    BY <2>1
<1> HIDE DEF at
<1>5. ASSUME NEW h
      PROVE  body(h) = Way(h, K, at, leafS)
  BY <1>2, <1>4 DEF Way
<1> HIDE DEF body
<1>6. \E h : h = body(h)
  BY <1>3, <1>5, WayExists
<1>7. w = body(w)
  BY <1>6
<1> HIDE DEF w
<1>8. w = Way(w, K, at, leafS)
  BY <1>5, <1>7
<1>9. \A i \in 0 .. K : w[i] = at[i]
  BY <1>3, <1>8, WayIsStraight
<1>10. DOMAIN w = 0 .. K
  BY <1>8 DEF Way
<1> QED
  BY <1>1, <1>2, <1>4, <1>9, <1>10

LEMMA StepsEast ==
  ASSUME Linked, NEW x \in Nat, NEW y \in Nat, NEW n \in Nat,
         GetLeaf(x + n * FloorSize, y) # None
  PROVE  leafE[GetLeaf(x + n * FloorSize, y)] = GetLeaf(x + (n + 1) * FloorSize, y)
<1>1. PICK a \in Nat : a = x + n * FloorSize
  BY Width
<1>2. x + (n + 1) * FloorSize = a + FloorSize
  BY <1>1, Width
<1>3. <<a, y>> \in leaves /\ GetLeaf(a, y) = <<a, y>>
  BY <1>1 DEF GetLeaf
<1>4. leafE[<<a, y>>] = GetLeaf(a + FloorSize, y + 0)
  BY <1>3 DEF Linked, NextTo
<1>5. y + 0 = y
  OBVIOUS
<1> QED
  BY <1>1, <1>2, <1>3, <1>4, <1>5

\* The rows of the walk.
LEMMA WalkEast ==
  ASSUME Linked, NEW x \in Nat, NEW y \in Nat, NEW to \in Nat, NEW l
  PROVE  l \in Eastwards(GetLeaf(x, y), x, y, to)
           <=> /\ l # None
               /\ \E n \in 0 .. (to - x) \div FloorSize : l = GetLeaf(x + n * FloorSize, y)
<1> DEFINE body(h) == [i \in 0 .. (to - x) \div FloorSize |->
             IF i = 0 THEN GetLeaf(x, y)
             ELSE IF h[i - 1] # None THEN leafE[h[i - 1]]
             ELSE GetLeaf(x + i * FloorSize, y)]
           at == [i \in Nat |-> GetLeaf(x + i * FloorSize, y)]
           w == CHOOSE h : h = body(h)
<1>1. Eastwards(GetLeaf(x, y), x, y, to) = {w[i] : i \in DOMAIN w} \ {None}
  BY DEF Eastwards
<1>2. PICK K \in Int : K = (to - x) \div FloorSize
  BY Width
<1>3. \A i \in Nat : at[i] # None => leafE[at[i]] = at[i + 1]
  BY StepsEast
<1>4. at[0] = GetLeaf(x, y) /\ \A i \in Nat : at[i] = GetLeaf(x + i * FloorSize, y)
  <2>1. x + 0 * FloorSize = x
    BY Width
  <2> QED
    BY <2>1
<1> HIDE DEF at
<1>5. ASSUME NEW h
      PROVE  body(h) = Way(h, K, at, leafE)
  BY <1>2, <1>4 DEF Way
<1> HIDE DEF body
<1>6. \E h : h = body(h)
  BY <1>3, <1>5, WayExists
<1>7. w = body(w)
  BY <1>6
<1> HIDE DEF w
<1>8. w = Way(w, K, at, leafE)
  BY <1>5, <1>7
<1>9. \A i \in 0 .. K : w[i] = at[i]
  BY <1>3, <1>8, WayIsStraight
<1>10. DOMAIN w = 0 .. K
  BY <1>8 DEF Way
<1> QED
  BY <1>1, <1>2, <1>4, <1>9, <1>10

\* The walk meets the leaves of a rectangle that are there, and no others.
LEMMA Meets ==
  ASSUME Linked, NEW x \in Nat, NEW y \in Nat, NEW tox \in Nat, NEW toy \in Nat, NEW l
  PROVE  l \in Met(x, y, tox, toy)
           <=> /\ l # None
               /\ \E m \in 0 .. (toy - y) \div FloorSize, n \in 0 .. (tox - x) \div FloorSize :
                    l = GetLeaf(x + n * FloorSize, y + m * FloorSize)
<1> DEFINE column == Southwards(x, y, toy)
           Row(m) == Eastwards(column[m], x, y + m * FloorSize, tox)
<1>1. l \in Met(x, y, tox, toy) <=> \E m \in DOMAIN column : l \in Row(m)
  BY DEF Met
<1>2. DOMAIN column = 0 .. (toy - y) \div FloorSize
  BY WalkSouth
<1>3. ASSUME NEW m \in 0 .. (toy - y) \div FloorSize
      PROVE  l \in Row(m)
               <=> /\ l # None
                   /\ \E n \in 0 .. (tox - x) \div FloorSize :
                        l = GetLeaf(x + n * FloorSize, y + m * FloorSize)
  <2>1. PICK row \in Nat : row = y + m * FloorSize
    BY Width
  <2>2. Row(m) = Eastwards(GetLeaf(x, row), x, row, tox)
    <3>1. column[m] = GetLeaf(x, y + m * FloorSize)
      BY WalkSouth
    <3> HIDE DEF column
    <3> QED
      BY <2>1, <3>1
  <2> QED
    BY <2>1, <2>2, WalkEast
<1> HIDE DEF column, Row
<1> QED
  BY <1>1, <1>2, <1>3

-----------------------------------------------------------------------------
(* Everybody in range is found.                                            *)

\* The floors that are seen are an interval.
LEMMA Floors ==
  ASSUME NEW z \in 0 .. 15, NEW floors, floors = FloorsSeen(z) \/ floors = {z}
  PROVE  \E low, high \in 0 .. 15 : floors = low .. high /\ low <= high
<1>1. CASE floors = {z}
  <2>1. floors = z .. z
    BY <1>1
  <2> QED
    BY <2>1
<1>2. ASSUME NEW low \in 0 .. 15, NEW high \in 0 .. 15, low <= high, FloorsSeen(z) = low .. high
      PROVE  floors = FloorsSeen(z)
               => \E l, h \in 0 .. 15 : floors = l .. h /\ l <= h
  BY <1>2
<1>3. CASE z > 7
  <2> DEFINE low == IF z < 2 THEN 0 ELSE z - 2
             high == IF z + 2 > 15 THEN 15 ELSE z + 2
  <2>1. low \in 0 .. 15 /\ high \in 0 .. 15 /\ low <= high
    BY <1>3
  <2>2. FloorsSeen(z) = low .. high
    BY <1>3 DEF FloorsSeen
  <2> HIDE DEF low, high
  <2> QED
    BY <1>1, <1>2, <2>1, <2>2
<1>4. CASE z = 6
  <2>1. FloorsSeen(z) = 0 .. 8
    BY <1>4 DEF FloorsSeen
  <2>2. 0 \in 0 .. 15 /\ 8 \in 0 .. 15 /\ 0 <= 8
    OBVIOUS
  <2> QED
    BY <1>1, <1>2, <2>1, <2>2
<1>5. CASE z = 7
  <2>1. FloorsSeen(z) = 0 .. 9
    BY <1>5 DEF FloorsSeen
  <2>2. 0 \in 0 .. 15 /\ 9 \in 0 .. 15 /\ 0 <= 9
    OBVIOUS
  <2> QED
    BY <1>1, <1>2, <2>1, <2>2
<1>6. CASE z < 6
  <2>1. ~ (z > 7) /\ z # 6 /\ z # 7
    BY <1>6
  <2>2. FloorsSeen(z) = 0 .. 7
    BY <2>1 DEF FloorsSeen
  <2>3. 0 \in 0 .. 15 /\ 7 \in 0 .. 15 /\ 0 <= 7
    OBVIOUS
  <2> QED
    BY <1>1, <1>2, <2>2, <2>3
<1> QED
  BY <1>3, <1>4, <1>5, <1>6

LEMMA Extremes ==
  ASSUME NEW low \in Int, NEW high \in Int, low <= high
  PROVE  Lowest(low .. high) = low /\ Highest(low .. high) = high
<1>1. Lowest(low .. high) \in low .. high /\ \A j \in low .. high : Lowest(low .. high) <= j
  <2>1. \E i \in low .. high : \A j \in low .. high : i <= j
    OBVIOUS
  <2> QED
    BY <2>1 DEF Lowest
<1>2. Highest(low .. high) \in low .. high /\ \A j \in low .. high : Highest(low .. high) >= j
  <2>1. \E i \in low .. high : \A j \in low .. high : i >= j
    OBVIOUS
  <2> QED
    BY <2>1 DEF Highest
<1> QED
  BY <1>1, <1>2

LEMMA Sight == Viewport \in Nat
  BY SpectatorsAssumption

LEMMA NotBelowZero ==
  ASSUME NEW i \in Int
  PROVE  /\ NotNegative(i) \in Nat /\ i <= NotNegative(i)
         /\ \A j \in Nat : i <= j => NotNegative(i) <= j
  BY DEF NotNegative

\* The walk starts and ends at the leaves of two places, between which are all that
\* are in range.
LEMMA CornersOfWalk ==
  ASSUME NEW center \in Nat \X Nat \X (0 .. 15), NEW floors,
         floors = FloorsSeen(center[3]) \/ floors = {center[3]}, NEW i \in 1 .. 2
  PROVE  \E a, b \in Nat :
           /\ FirstCorner(center, i, floors) = Corner(a)
           /\ LastCorner(center, i, floors) = Corner(b)
           /\ \A p \in Nat, f \in floors :
                p \in center[i] - Viewport + center[3] - f .. center[i] + Viewport + center[3] - f
                  => a <= p /\ p <= b
<1>1. PICK z \in 0 .. 15 : z = center[3]
  OBVIOUS
<1>2. PICK c \in Nat : c = center[i]
  OBVIOUS
<1>3. PICK low, high \in 0 .. 15 : floors = low .. high /\ low <= high
  BY <1>1, Floors
<1>4. Lowest(floors) = low /\ Highest(floors) = high
  BY <1>3, Extremes
<1>5. PICK west \in Int : west = c - Viewport + z - high
  BY Sight
<1>6. PICK east \in Int : east = c + Viewport + z - low
  BY Sight
<1>7. PICK a \in Nat : a = NotNegative(west)
  BY NotBelowZero
<1>8. PICK b \in Nat : b = NotNegative(east)
  BY NotBelowZero
<1>9. FirstCorner(center, i, floors) = Corner(a) /\ LastCorner(center, i, floors) = Corner(b)
  BY <1>1, <1>2, <1>4, <1>5, <1>6, <1>7, <1>8 DEF FirstCorner, LastCorner
<1>10. ASSUME NEW p \in Nat, NEW f \in low .. high,
              p \in c - Viewport + z - f .. c + Viewport + z - f
       PROVE  a <= p /\ p <= b
  <2>1. west <= p /\ p <= east
    BY <1>5, <1>6, <1>10, Sight
  <2> QED
    BY <1>7, <1>8, <2>1, NotBelowZero
<1>11. \A p \in Nat, f \in floors :
          p \in center[i] - Viewport + center[3] - f .. center[i] + Viewport + center[3] - f
            => a <= p /\ p <= b
  BY <1>1, <1>2, <1>3, <1>10
<1> QED
  BY <1>9, <1>11

\* Between the first corner of the walk and the last there is that of every place in range.
LEMMA CornerInRange ==
  ASSUME NEW center \in Nat \X Nat \X (0 .. 15), NEW pos \in Nat \X Nat \X (0 .. 15),
         NEW floors, floors = FloorsSeen(center[3]) \/ floors = {center[3]},
         InRange(center, pos, floors), NEW i \in 1 .. 2
  PROVE  \E n \in 0 .. (LastCorner(center, i, floors)
                        - FirstCorner(center, i, floors)) \div FloorSize :
           Corner(pos[i]) = FirstCorner(center, i, floors) + n * FloorSize
<1>1. PICK a, b \in Nat :
         /\ FirstCorner(center, i, floors) = Corner(a)
         /\ LastCorner(center, i, floors) = Corner(b)
         /\ \A p \in Nat, f \in floors :
              p \in center[i] - Viewport + center[3] - f .. center[i] + Viewport + center[3] - f
                => a <= p /\ p <= b
  BY CornersOfWalk
<1>2. PICK p \in Nat : p = pos[i]
  OBVIOUS
<1>3. pos[3] \in floors
      /\ p \in center[i] - Viewport + center[3] - pos[3]
                .. center[i] + Viewport + center[3] - pos[3]
  BY <1>2 DEF InRange
<1>4. a <= p /\ p <= b
  BY <1>1, <1>3
<1>5. \E n \in 0 .. (Corner(b) - Corner(a)) \div FloorSize :
          Corner(p) = Corner(a) + n * FloorSize
  BY <1>4, ColumnOfPlace
<1> QED
  BY <1>1, <1>2, <1>5

\* The walk meets leaves that are there, and of those the ones of all places in range.
LEMMA WalkMeets ==
  ASSUME Linked, None \notin Nat \X Nat, leaves \subseteq Nat \X Nat,
         NEW center \in Nat \X Nat \X (0 .. 15), NEW floors,
         floors = FloorsSeen(center[3]) \/ floors = {center[3]}
  PROVE  LET met == Met(FirstCorner(center, 1, floors), FirstCorner(center, 2, floors),
                        LastCorner(center, 1, floors), LastCorner(center, 2, floors))
         IN  /\ met \subseteq leaves
             /\ \A pos \in Nat \X Nat \X (0 .. 15) :
                  InRange(center, pos, floors) /\ LeafOf(pos) \in leaves => LeafOf(pos) \in met
<1> DEFINE met == Met(FirstCorner(center, 1, floors), FirstCorner(center, 2, floors),
                      LastCorner(center, 1, floors), LastCorner(center, 2, floors))
<1>1. \A i \in 1 .. 2 : /\ FirstCorner(center, i, floors) \in Nat
                        /\ LastCorner(center, i, floors) \in Nat
  BY CornersOfWalk, CornersAreNatural
<1>2. PICK x \in Nat : x = FirstCorner(center, 1, floors)
  BY <1>1
<1>3. PICK y \in Nat : y = FirstCorner(center, 2, floors)
  BY <1>1
<1>4. PICK tox \in Nat : tox = LastCorner(center, 1, floors)
  BY <1>1
<1>5. PICK toy \in Nat : toy = LastCorner(center, 2, floors)
  BY <1>1
<1>6. met = Met(x, y, tox, toy)
  BY <1>2, <1>3, <1>4, <1>5
<1> HIDE DEF met
<1>7. ASSUME NEW l \in met
      PROVE  l \in leaves
  <2>1. l \in Met(x, y, tox, toy)
    BY <1>6, <1>7
  <2>2. l # None
        /\ \E m \in 0 .. (toy - y) \div FloorSize, n \in 0 .. (tox - x) \div FloorSize :
             l = GetLeaf(x + n * FloorSize, y + m * FloorSize)
    BY <2>1, Meets
  <2>3. PICK i, j : l = GetLeaf(i, j)
    BY <2>2
  <2> QED
    BY <2>2, <2>3 DEF GetLeaf
<1>8. ASSUME NEW pos \in Nat \X Nat \X (0 .. 15),
             InRange(center, pos, floors), LeafOf(pos) \in leaves
      PROVE  LeafOf(pos) \in met
  <2>1. PICK n \in 0 .. (tox - x) \div FloorSize : Corner(pos[1]) = x + n * FloorSize
    BY <1>2, <1>4, <1>8, CornerInRange
  <2>2. PICK m \in 0 .. (toy - y) \div FloorSize : Corner(pos[2]) = y + m * FloorSize
    BY <1>3, <1>5, <1>8, CornerInRange
  <2>3. LeafOf(pos) = <<x + n * FloorSize, y + m * FloorSize>>
    BY <2>1, <2>2 DEF LeafOf
  <2>4. LeafOf(pos) = GetLeaf(x + n * FloorSize, y + m * FloorSize) /\ LeafOf(pos) # None
    BY <1>8, <2>3 DEF GetLeaf
  <2> QED
    BY <1>6, <2>4, Meets
<1> QED
  BY <1>7, <1>8 DEF met

-----------------------------------------------------------------------------
(* The invariant.                                                          *)

\* Every leaf lists those who are on it, and every creature on the map is on a leaf.
Listed ==
    /\ DOMAIN listed = leaves
    /\ \A l \in leaves : \A c :
         c \in listed[l] <=> c \in Beings /\ position[c] # None /\ LeafOf(position[c]) = l
    /\ \A c \in Beings : position[c] # None => LeafOf(position[c]) \in leaves

LEMMA CornerOfCorner ==
  ASSUME NEW pos \in Nat \X Nat \X (0 .. 15)
  PROVE  LeafOf(pos) \in Nat \X Nat
<1>1. Corner(pos[1]) \in Nat /\ Corner(pos[2]) \in Nat
  BY CornersAreNatural
<1> QED
  BY <1>1 DEF LeafOf

\* With leaves that are linked and lists that are kept, nobody is missed.
LEMMA Found ==
  ASSUME SpectatorsTypeOK, Linked, Listed, None \notin Nat \X Nat
  PROVE  NobodyMissed
<1>1. leaves \subseteq Nat \X Nat
  <2>1. \A l \in Leaves : l \in Nat \X Nat
    BY CornerOfCorner, SpectatorsAssumption DEF Leaves
  <2> QED
    BY <2>1 DEF SpectatorsTypeOK
<1>2. ASSUME NEW center \in Places, NEW floors,
             floors = FloorsSeen(center[3]) \/ floors = {center[3]}, NEW c
      PROVE  c \in WhoIsFound(center, floors) <=> c \in Seeing(center, floors)
  <2> DEFINE met == Met(FirstCorner(center, 1, floors), FirstCorner(center, 2, floors),
                        LastCorner(center, 1, floors), LastCorner(center, 2, floors))
  <2>1. center \in Nat \X Nat \X (0 .. 15)
    BY SpectatorsAssumption
  <2>2. /\ met \subseteq leaves
        /\ \A pos \in Nat \X Nat \X (0 .. 15) :
             InRange(center, pos, floors) /\ LeafOf(pos) \in leaves => LeafOf(pos) \in met
    BY <1>1, <1>2, <2>1, WalkMeets
  <2>3. c \in WhoIsFound(center, floors)
          <=> (\E l \in met : c \in listed[l]) /\ InRange(center, position[c], floors)
    BY DEF WhoIsFound
  <2> HIDE DEF met
  <2>4. c \in Beings /\ position[c] # None => position[c] \in Nat \X Nat \X (0 .. 15)
    BY SpectatorsAssumption DEF SpectatorsTypeOK
  <2> QED
    BY <2>2, <2>3, <2>4 DEF Listed, Seeing
<1>3. ASSUME NEW center \in Places, NEW floors,
             floors = FloorsSeen(center[3]) \/ floors = {center[3]}
      PROVE  WhoIsFound(center, floors) = Seeing(center, floors)
  <2>1. \A c : c \in WhoIsFound(center, floors) <=> c \in Seeing(center, floors)
    BY <1>2, <1>3
  <2> QED
    BY <2>1, SetExtensionality
<1> QED
  BY <1>3 DEF NobodyMissed

-----------------------------------------------------------------------------
(* Every handler keeps it.                                                 *)

SpectatorsInv ==
    /\ SpectatorsTypeOK /\ Linked /\ Listed /\ KeptIsFresh
    /\ IsFiniteSet(DOMAIN spectatorCache) /\ IsFiniteSet(DOMAIN playersCache)

\* A kept answer is about a place, within the bound, and names creatures.
Answers(cached) ==
    /\ DOMAIN cached \subseteq Places
    /\ Cardinality(DOMAIN cached) <= MaxCached
    /\ \A pos \in DOMAIN cached : cached[pos] \subseteq Beings
    /\ IsFiniteSet(DOMAIN cached)

\* Nothing is kept after a clearance, and one answer more after a search.
LEMMA NoAnswers == Answers(Nothing) /\ \A pos : pos \notin DOMAIN Nothing
<1>1. DOMAIN Nothing = {}
  BY DEF Nothing
<1>2. IsFiniteSet({}) /\ Cardinality({}) = 0
  BY FS_EmptySet
<1> QED
  BY <1>1, <1>2, SpectatorsAssumption DEF Answers

LEMMA OneMore ==
  ASSUME NEW cached, Answers(cached), NEW pos \in Places, NEW those \in SUBSET Beings,
         pos \notin DOMAIN cached, Cardinality(DOMAIN cached) < MaxCached
  PROVE  /\ Answers(With(cached, pos, those))
         /\ DOMAIN With(cached, pos, those) = DOMAIN cached \cup {pos}
         /\ With(cached, pos, those)[pos] = those
         /\ \A p \in DOMAIN cached : With(cached, pos, those)[p] = cached[p]
<1>1. /\ DOMAIN With(cached, pos, those) = DOMAIN cached \cup {pos}
      /\ With(cached, pos, those)[pos] = those
      /\ \A p \in DOMAIN cached : With(cached, pos, those)[p] = cached[p]
  BY DEF With
<1>2. IsFiniteSet(DOMAIN cached)
  BY DEF Answers
<1>3. /\ IsFiniteSet(DOMAIN cached \cup {pos})
      /\ Cardinality(DOMAIN cached \cup {pos}) = Cardinality(DOMAIN cached) + 1
      /\ Cardinality(DOMAIN cached) \in Nat
  BY <1>2, FS_AddElement, FS_CardinalityType
<1>4. Cardinality(DOMAIN cached \cup {pos}) <= MaxCached
  BY <1>3, SpectatorsAssumption
<1> QED
  BY <1>1, <1>3, <1>4 DEF Answers

\* The map's half of the invariant, and that of what is kept.
OnTheMap ==
    /\ leaves \subseteq Leaves
    /\ leafE \in [leaves -> Leaves \cup {None}]
    /\ leafS \in [leaves -> Leaves \cup {None}]
    /\ listed \in [leaves -> SUBSET Beings]
    /\ position \in [Beings -> Places \cup {None}]
    /\ Linked /\ Listed

Kept == Answers(spectatorCache) /\ Answers(playersCache) /\ KeptIsFresh

LEMMA Halves == SpectatorsInv <=> OnTheMap /\ Kept
  BY DEF SpectatorsInv, SpectatorsTypeOK, OnTheMap, Kept, Answers

\* Nobody is on the map in the beginning.
LEMMA SpectatorsStart == SpectatorsInit => SpectatorsInv
<1> SUFFICES ASSUME SpectatorsInit PROVE OnTheMap /\ Kept
  BY Halves
<1>1. Kept
  BY NoAnswers DEF SpectatorsInit, Kept, KeptIsFresh
<1>2. OnTheMap
  BY DEF SpectatorsInit, OnTheMap, Linked, Listed, Nothing
<1> QED
  BY <1>1, <1>2

\* A new leaf is linked with those around it, and lists nobody.
LEMMA SetTileKeepsMap ==
  ASSUME OnTheMap, NEW pos \in Places, SetTile(pos)
  PROVE  OnTheMap'
<1> DEFINE new == LeafOf(pos)
           all == leaves \cup {new}
           next(l, dx, dy) == IF <<l[1] + dx, l[2] + dy>> \in all
                              THEN <<l[1] + dx, l[2] + dy>> ELSE None
<1>1. /\ new \notin leaves /\ leaves' = all
      /\ leafE' = [l \in all |-> IF l = new \/ next(l, FloorSize, 0) = new
                                 THEN next(l, FloorSize, 0) ELSE leafE[l]]
      /\ leafS' = [l \in all |-> IF l = new \/ next(l, 0, FloorSize) = new
                                 THEN next(l, 0, FloorSize) ELSE leafS[l]]
      /\ listed' = [l \in all |-> IF l = new THEN {} ELSE listed[l]]
      /\ position' = position
  BY DEF SetTile
<1>2. new \in Leaves /\ all \subseteq Leaves
  BY DEF Leaves, OnTheMap
<1>3. \A l, dx, dy : NextTo(l, dx, dy)' = next(l, dx, dy)
  BY <1>1 DEF NextTo, GetLeaf
<1>4. \A l, dx, dy : next(l, dx, dy) \in Leaves \cup {None}
  BY <1>2
<1>5. \A l, dx, dy : next(l, dx, dy) # new => next(l, dx, dy) = NextTo(l, dx, dy)
  BY DEF NextTo, GetLeaf
<1> HIDE DEF next, new, all
<1>6. \A l \in all : l # new => l \in leaves
  BY DEF all
<1>7. leafE' \in [all -> Leaves \cup {None}] /\ leafS' \in [all -> Leaves \cup {None}]
  BY <1>1, <1>4, <1>6 DEF OnTheMap
<1>8. listed' \in [all -> SUBSET Beings]
  BY <1>1, <1>6 DEF OnTheMap
<1>9. Linked'
  BY <1>1, <1>3, <1>5, <1>6 DEF OnTheMap, Linked
<1>10. Listed'
  <2>1. ASSUME NEW l \in all, NEW c
        PROVE  c \in listed'[l] <=> c \in Beings /\ position[c] # None /\ LeafOf(position[c]) = l
    <3>1. CASE l = new
      BY <1>1, <3>1 DEF OnTheMap, Listed
    <3>2. CASE l # new
      BY <1>1, <1>6, <3>2 DEF OnTheMap, Listed
    <3> QED
      BY <3>1, <3>2
  <2>2. \A c \in Beings : position[c] # None => LeafOf(position[c]) \in all
    BY DEF OnTheMap, Listed, all
  <2>3. DOMAIN listed' = all
    BY <1>1
  <2> QED
    BY <1>1, <2>1, <2>2, <2>3 DEF Listed, LeafOf, Corner
<1> QED
  BY <1>1, <1>2, <1>7, <1>8, <1>9, <1>10 DEF OnTheMap

\* The links are those of leaves that stay as they are.
LEMMA LinksStay ==
  ASSUME Linked, UNCHANGED <<leaves, leafE, leafS>>
  PROVE  Linked'
<1>1. \A l, dx, dy : NextTo(l, dx, dy)' = NextTo(l, dx, dy)
  BY DEF NextTo, GetLeaf
<1> QED
  BY <1>1 DEF Linked

LEMMA LeafStays == \A pos : LeafOf(pos)' = LeafOf(pos)
  BY DEF LeafOf, Corner

\* A creature comes to a place, or to none, and the lists follow.
Relisted(c, to) ==
    \A l \in leaves : \A b :
       b \in listed'[l] <=> IF b = c THEN to # None /\ LeafOf(to) = l ELSE b \in listed[l]

\* Whoever comes, moves or goes is listed where he is.
LEMMA GoesOnMap ==
  ASSUME OnTheMap, NEW c \in Beings, NEW to \in Places \cup {None}, to # None => Tiled(to),
         position' = [position EXCEPT ![c] = to], UNCHANGED <<leaves, leafE, leafS>>,
         listed' \in [leaves -> SUBSET Beings], Relisted(c, to)
  PROVE  OnTheMap'
<1>1. position' \in [Beings -> Places \cup {None}] /\ position'[c] = to
      /\ \A b \in Beings : b # c => position'[b] = position[b]
  BY DEF OnTheMap
<1>2. ASSUME NEW l \in leaves, NEW b
      PROVE  b \in listed'[l] <=> b \in Beings /\ position'[b] # None /\ LeafOf(position'[b]) = l
  <2>1. b \in listed'[l] <=> IF b = c THEN to # None /\ LeafOf(to) = l ELSE b \in listed[l]
    BY DEF Relisted
  <2>2. b \in listed[l] <=> b \in Beings /\ position[b] # None /\ LeafOf(position[b]) = l
    BY DEF OnTheMap, Listed
  <2> QED
    BY <1>1, <2>1, <2>2
<1>3. ASSUME NEW b \in Beings, position'[b] # None
      PROVE  LeafOf(position'[b]) \in leaves
  <2>1. CASE b = c
    BY <1>1, <1>3, <2>1 DEF Tiled
  <2>2. CASE b # c
    BY <1>1, <1>3, <2>2 DEF OnTheMap, Listed
  <2> QED
    BY <2>1, <2>2
<1>4. Listed'
  BY <1>2, <1>3, LeafStays DEF Listed
<1>5. Linked'
  BY LinksStay DEF OnTheMap
<1> QED
  BY <1>1, <1>4, <1>5 DEF OnTheMap

\* What is kept of the others is still so after a creature came, moved or went.
LEMMA ForgottenInTime ==
  ASSUME Kept, position \in [Beings -> Places \cup {None}],
         NEW c \in Beings, NEW to, position' = [position EXCEPT ![c] = to], ClearCaches(c)
  PROVE  Kept'
<1>1. spectatorCache' = Nothing
  BY DEF ClearCaches
<1>2. Answers(spectatorCache)'
  <2>1. Answers(spectatorCache')
    BY <1>1, NoAnswers
  <2> QED
    BY <2>1 DEF Answers
<1>3. \A pos \in DOMAIN spectatorCache' :
         spectatorCache'[pos] = Seeing(pos, FloorsSeen(pos[3]))'
  BY <1>1, NoAnswers
<1>4. CASE c \in Players
  <2>1. playersCache' = Nothing
    BY <1>4 DEF ClearCaches
  <2>2. Answers(playersCache')
    BY <2>1, NoAnswers
  <2>3. \A pos \in DOMAIN playersCache' :
           playersCache'[pos] = Seeing(pos, FloorsSeen(pos[3]))' \cap Players
    BY <2>1, NoAnswers
  <2> QED
    BY <1>2, <1>3, <2>2, <2>3 DEF Kept, KeptIsFresh, FloorsSeen, Answers
<1>5. CASE c \notin Players
  <2>1. playersCache' = playersCache
    BY <1>5 DEF ClearCaches
  <2>2. \A b \in Players : b \in Beings /\ position'[b] = position[b]
    BY <1>5 DEF Beings
  <2>3. ASSUME NEW pos
        PROVE  Seeing(pos, FloorsSeen(pos[3]))' \cap Players
                 = Seeing(pos, FloorsSeen(pos[3])) \cap Players
    <3>1. FloorsSeen(pos[3])' = FloorsSeen(pos[3])
      BY DEF FloorsSeen
    <3> DEFINE floors == FloorsSeen(pos[3])
    <3> HIDE DEF floors
    <3>2. ASSUME NEW b \in Players
          PROVE  b \in Seeing(pos, floors)' <=> b \in Seeing(pos, floors)
      BY <2>2 DEF Seeing, InRange
    <3> QED
      BY <3>1, <3>2 DEF floors
  <2> QED
    BY <1>2, <1>3, <2>1, <2>3 DEF Kept, KeptIsFresh, FloorsSeen, Answers
<1> QED
  BY <1>4, <1>5

\* The handlers one by one.
LEMMA PlaceKeeps ==
  ASSUME OnTheMap, Kept, NEW c \in Beings, NEW pos \in Places, PlaceOnMap(c, pos)
  PROVE  OnTheMap' /\ Kept'
<1>1. /\ position[c] = None /\ Tiled(pos)
      /\ position' = [position EXCEPT ![c] = pos]
      /\ listed' = [listed EXCEPT ![LeafOf(pos)] = @ \cup {c}]
      /\ ClearCaches(c)
      /\ UNCHANGED <<leaves, leafE, leafS>>
  BY DEF PlaceOnMap
<1>2. pos # None
  BY SpectatorsAssumption
<1>3. listed \in [leaves -> SUBSET Beings] /\ LeafOf(pos) \in leaves
  BY <1>1 DEF OnTheMap, Tiled
<1>4. listed' \in [leaves -> SUBSET Beings]
  BY <1>1, <1>3
<1>5. ASSUME NEW l \in leaves, NEW b
      PROVE  b \in listed'[l] <=> IF b = c THEN pos # None /\ LeafOf(pos) = l ELSE b \in listed[l]
  <2>1. c \notin listed[l]
    BY <1>1 DEF OnTheMap, Listed
  <2>2. listed'[l] = IF l = LeafOf(pos) THEN listed[l] \cup {c} ELSE listed[l]
    BY <1>1, <1>3
  <2> QED
    BY <1>2, <2>1, <2>2
<1>6. Relisted(c, pos)
  BY <1>5 DEF Relisted
<1>7. OnTheMap'
  BY <1>1, <1>4, <1>6, GoesOnMap
<1>8. Kept'
  BY <1>1, ForgottenInTime DEF OnTheMap
<1> QED
  BY <1>7, <1>8

LEMMA MoveKeeps ==
  ASSUME OnTheMap, Kept, NEW c \in Beings, NEW pos \in Places, MoveOnMap(c, pos)
  PROVE  OnTheMap' /\ Kept'
<1> DEFINE old == LeafOf(position[c])
           new == LeafOf(pos)
<1>1. /\ position[c] # None /\ Tiled(pos)
      /\ position' = [position EXCEPT ![c] = pos]
      /\ listed' = IF old = new THEN listed
                   ELSE [listed EXCEPT ![old] = @ \ {c}, ![new] = @ \cup {c}]
      /\ ClearCaches(c)
      /\ UNCHANGED <<leaves, leafE, leafS>>
  BY DEF MoveOnMap
<1>2. pos # None
  BY SpectatorsAssumption
<1>3. listed \in [leaves -> SUBSET Beings] /\ new \in leaves /\ old \in leaves
  BY <1>1 DEF OnTheMap, Listed, Tiled
<1>4. \A l \in leaves : c \in listed[l] <=> l = old
  BY <1>1 DEF OnTheMap, Listed
<1> HIDE DEF old
<1>5. listed' \in [leaves -> SUBSET Beings]
  BY <1>1, <1>3
<1>6. ASSUME NEW l \in leaves, NEW b
      PROVE  b \in listed'[l] <=> IF b = c THEN pos # None /\ new = l ELSE b \in listed[l]
  <2>1. CASE old = new
    BY <1>1, <1>2, <1>4, <2>1
  <2>2. CASE old # new
    <3>1. listed'[l] = IF l = new THEN listed[l] \cup {c}
                       ELSE IF l = old THEN listed[l] \ {c} ELSE listed[l]
      BY <1>1, <1>3, <2>2
    <3> QED
      BY <1>2, <1>4, <2>2, <3>1
  <2> QED
    BY <2>1, <2>2
<1>7. Relisted(c, pos)
  BY <1>6 DEF Relisted
<1>8. OnTheMap'
  BY <1>1, <1>5, <1>7, GoesOnMap
<1>9. Kept'
  BY <1>1, ForgottenInTime DEF OnTheMap
<1> QED
  BY <1>8, <1>9

LEMMA TakeOffKeeps ==
  ASSUME OnTheMap, Kept, NEW c \in Beings, TakeOffMap(c)
  PROVE  OnTheMap' /\ Kept'
<1> DEFINE old == LeafOf(position[c])
<1>1. /\ position[c] # None
      /\ position' = [position EXCEPT ![c] = None]
      /\ listed' = [listed EXCEPT ![old] = @ \ {c}]
      /\ ClearCaches(c)
      /\ UNCHANGED <<leaves, leafE, leafS>>
  BY DEF TakeOffMap
<1>2. listed \in [leaves -> SUBSET Beings] /\ old \in leaves
  BY <1>1 DEF OnTheMap, Listed
<1>3. \A l \in leaves : c \in listed[l] <=> l = old
  BY <1>1 DEF OnTheMap, Listed
<1> HIDE DEF old
<1>4. listed' \in [leaves -> SUBSET Beings]
  BY <1>1, <1>2
<1>5. ASSUME NEW l \in leaves, NEW b
      PROVE  b \in listed'[l] <=> IF b = c THEN None # None /\ LeafOf(None) = l ELSE b \in listed[l]
  <2>1. listed'[l] = IF l = old THEN listed[l] \ {c} ELSE listed[l]
    BY <1>1, <1>2
  <2> QED
    BY <1>3, <2>1
<1>6. Relisted(c, None)
  BY <1>5 DEF Relisted
<1>7. OnTheMap'
  BY <1>1, <1>4, <1>6, GoesOnMap
<1>8. Kept'
  BY <1>1, ForgottenInTime DEF OnTheMap
<1> QED
  BY <1>7, <1>8

\* Who is seen depends on the positions alone.
LEMMA SeenStay ==
  ASSUME UNCHANGED position, NEW pos
  PROVE  Seeing(pos, FloorsSeen(pos[3]))' = Seeing(pos, FloorsSeen(pos[3]))
  BY DEF Seeing, FloorsSeen, InRange

LEMMA MapStays ==
  ASSUME OnTheMap, UNCHANGED <<leaves, leafE, leafS, listed, position>>
  PROVE  OnTheMap'
<1>1. Linked'
  BY LinksStay DEF OnTheMap
<1>2. Listed'
  BY LeafStays DEF OnTheMap, Listed
<1> QED
  BY <1>1, <1>2 DEF OnTheMap

LEMMA AskAllKeeps ==
  ASSUME OnTheMap, Kept, NEW pos \in Places, AskAll(pos)
  PROVE  OnTheMap' /\ Kept'
<1>1. OnTheMap'
  BY MapStays DEF AskAll
<1> DEFINE those == WhoIsFound(pos, FloorsSeen(pos[3]))
<1>2. those = Seeing(pos, FloorsSeen(pos[3]))
  <2>1. NobodyMissed
    BY Halves, Found, SpectatorsAssumption DEF SpectatorsInv
  <2> QED
    BY <2>1 DEF NobodyMissed
<1>3. those \subseteq Beings
  BY <1>2 DEF Seeing
<1>4. /\ spectatorCache' = IF pos \in DOMAIN spectatorCache THEN spectatorCache
                           ELSE With(spectatorCache, pos, those)
      /\ UNCHANGED <<playersCache, position>>
      /\ pos \in DOMAIN spectatorCache \/ Cardinality(DOMAIN spectatorCache) < MaxCached
  BY DEF AskAll, GetSpectators
<1> HIDE DEF those
<1>5. Answers(spectatorCache')
  BY <1>3, <1>4, OneMore DEF Kept
<1>6. \A p \in DOMAIN spectatorCache' : spectatorCache'[p] = Seeing(p, FloorsSeen(p[3]))
  <2>1. CASE pos \in DOMAIN spectatorCache
    BY <1>4, <2>1 DEF Kept, KeptIsFresh
  <2>2. CASE pos \notin DOMAIN spectatorCache
    <3>1. /\ DOMAIN spectatorCache' = DOMAIN spectatorCache \cup {pos}
          /\ spectatorCache'[pos] = those
          /\ \A p \in DOMAIN spectatorCache : spectatorCache'[p] = spectatorCache[p]
      <4>1. spectatorCache' = With(spectatorCache, pos, those)
        BY <1>4, <2>2
      <4>2. pos \notin DOMAIN spectatorCache /\ Cardinality(DOMAIN spectatorCache) < MaxCached
        BY <1>4, <2>2
      <4>3. Answers(spectatorCache) /\ those \in SUBSET Beings
        BY <1>3 DEF Kept
      <4>4. /\ DOMAIN With(spectatorCache, pos, those) = DOMAIN spectatorCache \cup {pos}
            /\ With(spectatorCache, pos, those)[pos] = those
            /\ \A p \in DOMAIN spectatorCache :
                 With(spectatorCache, pos, those)[p] = spectatorCache[p]
        BY <4>2, <4>3, OneMore
      <4> QED
        BY <4>1, <4>4
    <3>2. \A p \in DOMAIN spectatorCache : spectatorCache[p] = Seeing(p, FloorsSeen(p[3]))
      BY DEF Kept, KeptIsFresh
    <3> QED
      BY <1>2, <3>1, <3>2
  <2> QED
    BY <2>1, <2>2
<1>7. Answers(playersCache')
      /\ \A p \in DOMAIN playersCache' : playersCache'[p] = Seeing(p, FloorsSeen(p[3])) \cap Players
  BY <1>4 DEF Kept, KeptIsFresh
<1>8. KeptIsFresh'
  BY <1>4, <1>6, <1>7, SeenStay DEF KeptIsFresh
<1>9. Kept'
  BY <1>5, <1>7, <1>8 DEF Kept, Answers
<1> QED
  BY <1>1, <1>9

LEMMA AskPlayersKeeps ==
  ASSUME OnTheMap, Kept, NEW pos \in Places, AskPlayers(pos)
  PROVE  OnTheMap' /\ Kept'
<1>1. OnTheMap'
  BY MapStays DEF AskPlayers
<1> DEFINE those == WhoIsFound(pos, FloorsSeen(pos[3])) \cap Players
<1>2. those = Seeing(pos, FloorsSeen(pos[3])) \cap Players
  <2>1. NobodyMissed
    BY Halves, Found, SpectatorsAssumption DEF SpectatorsInv
  <2> QED
    BY <2>1 DEF NobodyMissed
<1>3. those \subseteq Beings
  BY <1>2 DEF Seeing
<1>4. /\ playersCache' = IF pos \in DOMAIN playersCache \cup DOMAIN spectatorCache THEN playersCache
                         ELSE With(playersCache, pos, those)
      /\ UNCHANGED <<spectatorCache, position>>
      /\ pos \in DOMAIN playersCache \/ Cardinality(DOMAIN playersCache) < MaxCached
  BY DEF AskPlayers, GetPlayers
<1> HIDE DEF those
<1>5. Answers(playersCache')
  BY <1>3, <1>4, OneMore DEF Kept
<1>6. \A p \in DOMAIN playersCache' : playersCache'[p] = Seeing(p, FloorsSeen(p[3])) \cap Players
  <2>1. CASE playersCache' = playersCache
    BY <2>1 DEF Kept, KeptIsFresh
  <2>2. CASE playersCache' # playersCache
    <3>1. /\ DOMAIN playersCache' = DOMAIN playersCache \cup {pos}
          /\ playersCache'[pos] = those
          /\ \A p \in DOMAIN playersCache : playersCache'[p] = playersCache[p]
      <4>1. playersCache' = With(playersCache, pos, those)
        BY <1>4, <2>2
      <4>2. pos \notin DOMAIN playersCache /\ Cardinality(DOMAIN playersCache) < MaxCached
        BY <1>4, <2>2
      <4>3. Answers(playersCache) /\ those \in SUBSET Beings
        BY <1>3 DEF Kept
      <4>4. /\ DOMAIN With(playersCache, pos, those) = DOMAIN playersCache \cup {pos}
            /\ With(playersCache, pos, those)[pos] = those
            /\ \A p \in DOMAIN playersCache : With(playersCache, pos, those)[p] = playersCache[p]
        BY <4>2, <4>3, OneMore
      <4> QED
        BY <4>1, <4>4
    <3>2. \A p \in DOMAIN playersCache : playersCache[p] = Seeing(p, FloorsSeen(p[3])) \cap Players
      BY DEF Kept, KeptIsFresh
    <3> QED
      BY <1>2, <3>1, <3>2
  <2> QED
    BY <2>1, <2>2
<1>7. Answers(spectatorCache')
      /\ \A p \in DOMAIN spectatorCache' : spectatorCache'[p] = Seeing(p, FloorsSeen(p[3]))
  BY <1>4 DEF Kept, KeptIsFresh
<1>8. KeptIsFresh'
  BY <1>4, <1>6, <1>7, SeenStay DEF KeptIsFresh
<1>9. Kept'
  BY <1>5, <1>7, <1>8 DEF Kept, Answers
<1> QED
  BY <1>1, <1>9

LEMMA KeptStays ==
  ASSUME Kept, UNCHANGED <<position, spectatorCache, playersCache>>
  PROVE  Kept'
<1>1. KeptIsFresh'
  BY SeenStay DEF Kept, KeptIsFresh
<1> QED
  BY <1>1 DEF Kept, Answers

\* Every step keeps the invariant.
LEMMA SpectatorsKeep == SpectatorsInv /\ [SpectatorsNext]_spectVars => SpectatorsInv'
<1> SUFFICES ASSUME OnTheMap, Kept, [SpectatorsNext]_spectVars
             PROVE  OnTheMap' /\ Kept'
  <2>1. SpectatorsInv' <=> OnTheMap' /\ Kept'
    BY DEF SpectatorsInv, SpectatorsTypeOK, OnTheMap, Kept, Answers
  <2> QED
    BY <2>1, Halves
<1>1. ASSUME NEW pos \in Places, SetTile(pos)
      PROVE  OnTheMap' /\ Kept'
  <2>1. UNCHANGED <<position, spectatorCache, playersCache>>
    BY <1>1 DEF SetTile
  <2> QED
    BY <1>1, <2>1, SetTileKeepsMap, KeptStays
<1>2. ASSUME NEW pos \in Places, AskAll(pos)
      PROVE  OnTheMap' /\ Kept'
  BY <1>2, AskAllKeeps
<1>3. ASSUME NEW pos \in Places, AskPlayers(pos)
      PROVE  OnTheMap' /\ Kept'
  BY <1>3, AskPlayersKeeps
<1>4. ASSUME NEW c \in Beings, NEW pos \in Places, PlaceOnMap(c, pos)
      PROVE  OnTheMap' /\ Kept'
  BY <1>4, PlaceKeeps
<1>5. ASSUME NEW c \in Beings, NEW pos \in Places, MoveOnMap(c, pos)
      PROVE  OnTheMap' /\ Kept'
  BY <1>5, MoveKeeps
<1>6. ASSUME NEW c \in Beings, TakeOffMap(c)
      PROVE  OnTheMap' /\ Kept'
  BY <1>6, TakeOffKeeps
<1>7. CASE UNCHANGED spectVars
  BY <1>7, MapStays, KeptStays DEF spectVars
<1> QED
  BY <1>1, <1>2, <1>3, <1>4, <1>5, <1>6, <1>7 DEF SpectatorsNext

LEMMA SpectatorsStay == SpectatorsSpec => []SpectatorsInv
  BY SpectatorsStart, SpectatorsKeep, PTL DEF SpectatorsSpec

\* Type correctness of the map's leaves, their lists and the answers that are kept.
THEOREM SpectatorsTypeCorrect == SpectatorsSpec => []SpectatorsTypeOK
<1>1. SpectatorsInv => SpectatorsTypeOK
  BY DEF SpectatorsInv
<1> QED
  BY <1>1, SpectatorsStay, PTL

\* However the tiles were made and whoever came, moved or went, the search of
\* Map::getSpectators finds all the creatures that see a place and no others, and
\* what it keeps is what it would find again.
THEOREM EverybodyIsFound == SpectatorsSpec => []SpectatorsAgree
<1>1. SpectatorsInv => SpectatorsAgree
  BY Found, SpectatorsAssumption DEF SpectatorsInv, SpectatorsAgree
<1> QED
  BY <1>1, SpectatorsStay, PTL

=============================================================================
