----------------------------- MODULE WalkCache -----------------------------
(***************************************************************************)
(* The walk cache of a monster, creature.cpp: a window of the map around   *)
(* it that says where it may walk, so that the search for a path need not  *)
(* ask every tile.  The window moves along with the monster, cell by cell, *)
(* and is told of what appears, moves and goes within it.                  *)
(*                                                                         *)
(* A scene is all that a tile's answer depends on.  The window of the code *)
(* is as wide as what a tile tells its spectators, so that everything      *)
(* within it is told.  Not modelled: players who turn into ghosts, which   *)
(* no cache is told of, and monsters that push items or creatures.         *)
(***************************************************************************)
EXTENDS Integers, NoValue

CONSTANTS
    Tiles,      \* the positions <<x, y, z>> where there is a tile
    Half        \* maxWalkCacheWidth and maxWalkCacheHeight

ASSUME WalkCacheAssumption ==
    /\ Half \in Nat \ {0}
    /\ Tiles \subseteq Int \X Int \X Int
    /\ None \notin Tiles

VARIABLES
    scene,      \* where the monster and another creature are, what lies on
                \* each tile, and whether the monster heeds fire
    cache,      \* localMapCache: <<dx, dy>> -> may walk there
    isMapLoaded,
    randomStepping,
    slid        \* a step to the south-east or south-west was taken since the
                \* window was last read as a whole

walkVars == <<scene, cache, isMapLoaded, randomStepping, slid>>

\* What a tile may hold: nothing but its ground, not even that, what nobody can
\* pass, or a field of fire.
Ground == {"floor", "void", "solid", "fire"}

Cells == (-Half .. Half) \X (-Half .. Half)

WalkCacheTypeOK ==
    /\ scene \in [monster : Tiles \cup {None}, guest : Tiles \cup {None},
                  thing : [Tiles -> Ground], ignoreFieldDamage : BOOLEAN]
    /\ cache \in [Cells -> BOOLEAN]
    /\ isMapLoaded \in BOOLEAN /\ randomStepping \in BOOLEAN /\ slid \in BOOLEAN

-----------------------------------------------------------------------------
(* What the window says.                                                   *)

\* queryAdd(monster, FLAG_PATHFINDING | FLAG_IGNOREFIELDDAMAGE): there is
\* ground, no creature and nothing solid, and no fire that it heeds.
MayEnter(s, pos) ==
    /\ pos \in Tiles
    /\ pos \notin {s.monster, s.guest}
    /\ \/ s.thing[pos] = "floor"
       \/ s.thing[pos] = "fire" /\ s.ignoreFieldDamage

Abs(i) == IF i < 0 THEN -i ELSE i

CellAt(s, d) == <<s.monster[1] + d[1], s.monster[2] + d[2], s.monster[3]>>
Offset(s, pos) == <<pos[1] - s.monster[1], pos[2] - s.monster[2]>>

UpdateMapCache(s) == [d \in Cells |-> MayEnter(s, CellAt(s, d))]

\* Within the window, and on the floor of the monster.
UpdateTileCache(s, c, pos) ==
    IF pos[3] = s.monster[3] /\ Offset(s, pos) \in Cells
    THEN [c EXCEPT ![Offset(s, pos)] = MayEnter(s, pos)]
    ELSE c

\* A step to the north: every row becomes that to the south of it, and the
\* first is read anew.  The others likewise.
StepNorth(s, c) ==
    [d \in Cells |-> IF d[2] = -Half THEN MayEnter(s, CellAt(s, d))
                                     ELSE c[<<d[1], d[2] - 1>>]]

StepSouth(s, c) ==
    [d \in Cells |-> IF d[2] = Half THEN MayEnter(s, CellAt(s, d))
                                    ELSE c[<<d[1], d[2] + 1>>]]

\* The columns move in the rows from `from` on, counted from the north: the
\* distance of the rows, which is meant to leave out the row just read.  It is
\* never negative, so that a step to the south leaves out the other end.
StepEast(s, c, from) ==
    [d \in Cells |-> IF d[1] = Half THEN MayEnter(s, CellAt(s, d))
                     ELSE IF d[2] + Half >= from THEN c[<<d[1] + 1, d[2]>>]
                     ELSE c[d]]

StepWest(s, c, from) ==
    [d \in Cells |-> IF d[1] = -Half THEN MayEnter(s, CellAt(s, d))
                     ELSE IF d[2] + Half >= from THEN c[<<d[1] - 1, d[2]>>]
                     ELSE c[d]]

UpDown(s, c, old) ==
    CASE old[2] > s.monster[2] -> StepNorth(s, c)
      [] old[2] < s.monster[2] -> StepSouth(s, c)
      [] OTHER -> c

LeftRight(s, c, old) ==
    CASE old[1] < s.monster[1] -> StepEast(s, c, Abs(old[2] - s.monster[2]))
      [] old[1] > s.monster[1] -> StepWest(s, c, Abs(old[2] - s.monster[2]))
      [] OTHER -> c

\* Mutant: the tile that was left is not read.
ShiftedOnly(s, c, old) == LeftRight(s, UpDown(s, c, old), old)

\* The monster has taken a step from old.
Shifted(s, c, old) ==
    UpdateTileCache(s, LeftRight(s, UpDown(s, c, old), old), old)

Beside(p, q) == p[3] = q[3] /\ Abs(p[1] - q[1]) <= 1 /\ Abs(p[2] - q[2]) <= 1

Southward(old, new) == old[2] < new[2] /\ old[1] # new[1]

-----------------------------------------------------------------------------
(* The monster.                                                            *)

Beginning ==
    [monster |-> None, guest |-> None, thing |-> [p \in Tiles |-> "floor"],
     ignoreFieldDamage |-> FALSE]

WalkCacheInit ==
    /\ scene = Beginning
    /\ cache = [d \in Cells |-> FALSE]
    /\ isMapLoaded = FALSE
    /\ randomStepping = FALSE
    /\ slid = FALSE

\* The window is read as a whole.
ReadAll(s) ==
    /\ scene' = s
    /\ cache' = UpdateMapCache(s)
    /\ slid' = FALSE

\* A monster is made and placed.  Those of the server's start are placed
\* without anybody being told, themselves included: the window is read when
\* they first think.
PlaceMonster(pos, startup) ==
    /\ scene.monster = None
    /\ MayEnter(scene, pos)
    /\ LET s == [scene EXCEPT !.monster = pos, !.ignoreFieldDamage = FALSE] IN
       IF startup
       THEN /\ scene' = s
            /\ cache' = [d \in Cells |-> FALSE]
            /\ slid' = FALSE
       ELSE ReadAll(s)
    /\ isMapLoaded' = ~startup
    /\ randomStepping' = FALSE

RemoveMonster ==
    /\ scene.monster # None
    /\ scene' = [scene EXCEPT !.monster = None, !.ignoreFieldDamage = FALSE]
    /\ cache' = [d \in Cells |-> FALSE]
    /\ isMapLoaded' = FALSE
    /\ randomStepping' = FALSE
    /\ slid' = FALSE

\* Creature::onThink.
Think ==
    /\ scene.monster # None
    /\ ~isMapLoaded /\ ~randomStepping
    /\ ReadAll(scene)
    /\ isMapLoaded' = TRUE
    /\ UNCHANGED randomStepping

MayBeMoved(pos) ==
    /\ scene.monster # None
    /\ pos \in Tiles \ {scene.monster, scene.guest}
    /\ scene.thing[pos] # "solid"

\* A step or a push to a tile beside it that has ground.
Step(pos) ==
    /\ MayBeMoved(pos)
    /\ Beside(scene.monster, pos) /\ scene.thing[pos] # "void"
    /\ LET s == [scene EXCEPT !.monster = pos] IN
       /\ scene' = s
       /\ cache' = IF isMapLoaded THEN Shifted(s, cache, scene.monster) ELSE cache
       /\ slid' = (slid \/ (isMapLoaded /\ Southward(scene.monster, pos)))
    /\ UNCHANGED <<isMapLoaded, randomStepping>>

\* All other moves are teleports for the map, and so is one that asks for it.
Teleport(pos) ==
    /\ MayBeMoved(pos)
    /\ LET s == [scene EXCEPT !.monster = pos] IN
       IF isMapLoaded THEN ReadAll(s) ELSE scene' = s /\ UNCHANGED <<cache, slid>>
    /\ UNCHANGED <<isMapLoaded, randomStepping>>

\* Monster::getNextStep, which a thought has scheduled: it strolls, or has a path
\* again; a path that has ended makes it heed fire again.
Stroll ==
    /\ scene.monster # None /\ isMapLoaded
    /\ randomStepping' = TRUE
    /\ UNCHANGED <<scene, cache, isMapLoaded, slid>>

FollowPath(ended) ==
    /\ scene.monster # None /\ isMapLoaded
    /\ randomStepping' = FALSE
    /\ IF ended /\ scene.ignoreFieldDamage
       THEN ReadAll([scene EXCEPT !.ignoreFieldDamage = FALSE])
       ELSE UNCHANGED <<scene, cache, slid>>
    /\ UNCHANGED isMapLoaded

\* Mutant: the window is not read when the answers change.
HurtUnread ==
    /\ scene.monster # None
    /\ randomStepping
    /\ scene' = [scene EXCEPT !.ignoreFieldDamage = TRUE]
    /\ UNCHANGED <<cache, isMapLoaded, randomStepping, slid>>

\* Monster::drainHealth: hurt while it strolls, it stops heeding fire.
HurtStrolling ==
    /\ scene.monster # None
    /\ randomStepping
    /\ ReadAll([scene EXCEPT !.ignoreFieldDamage = TRUE])
    /\ UNCHANGED <<isMapLoaded, randomStepping>>

\* onAddCondition and onEndCondition of fire, energy and poison.  Bound: of
\* monsters that have thought before.
Burn(ends) ==
    /\ scene.monster # None /\ isMapLoaded
    /\ ReadAll([scene EXCEPT !.ignoreFieldDamage = @ /\ ~ends])
    /\ UNCHANGED <<isMapLoaded, randomStepping>>

-----------------------------------------------------------------------------
(* What else happens, and the monster is told of.                          *)

\* The cells of the positions are read in the new scene s.
Told(s, positions) ==
    /\ scene' = s
    /\ cache' = IF s.monster = None \/ ~isMapLoaded THEN cache
                ELSE [d \in Cells |-> IF CellAt(s, d) \in positions
                                      THEN MayEnter(s, CellAt(s, d)) ELSE cache[d]]
    /\ UNCHANGED <<isMapLoaded, randomStepping, slid>>

\* onCreatureAppear, onRemoveCreature and onCreatureMove of another creature.
GuestAppears(pos) ==
    /\ scene.guest = None
    /\ MayEnter(scene, pos)
    /\ Told([scene EXCEPT !.guest = pos], {pos})

GuestMoves(pos) ==
    /\ scene.guest # None
    /\ pos \in Tiles \ {scene.monster, scene.guest}
    /\ scene.thing[pos] # "solid"
    /\ Told([scene EXCEPT !.guest = pos], {pos, scene.guest})

GuestGoes ==
    /\ scene.guest # None
    /\ Told([scene EXCEPT !.guest = None], {scene.guest})

\* onAddTileItem, onUpdateTileItem and onRemoveTileItem: all that the tiles of
\* the model hold stands in the way, or is the ground.
TileChanges(pos, g) ==
    /\ scene.thing[pos] # g /\ "floor" \in {scene.thing[pos], g}
    /\ \A q \in Tiles \ {pos} : scene.thing[q] = "floor"
    /\ Told([scene EXCEPT !.thing[pos] = g], {pos})

\* Bound: of a window that was spoiled, only the next step is followed, to
\* where it is read anew.
Followed == slid => ~slid'

WalkCacheNext ==
    /\ \/ \E pos \in Tiles, startup \in BOOLEAN : PlaceMonster(pos, startup)
       \/ RemoveMonster
       \/ Think
       \/ \E pos \in Tiles : Step(pos) \/ Teleport(pos)
       \/ Stroll
       \/ \E ended \in BOOLEAN : FollowPath(ended)
       \/ HurtStrolling
       \/ \E ends \in BOOLEAN : Burn(ends)
       \/ \E pos \in Tiles : GuestAppears(pos) \/ GuestMoves(pos)
       \/ GuestGoes
       \/ \E pos \in Tiles, g \in Ground : TileChanges(pos, g)
    /\ Followed

WalkCacheSpec == WalkCacheInit /\ [][WalkCacheNext]_walkVars

-----------------------------------------------------------------------------
(* Properties.                                                             *)

\* Every cell says what its tile would answer.  The monster's own is not read.
Current ==
    \A d \in Cells \ {<<0, 0>>} : cache[d] = MayEnter(scene, CellAt(scene, d))

\* The window agrees with the map, however the monster and what is around it
\* have moved, but for what steps to the south-east and south-west spoil.
WindowAgrees == scene.monster # None /\ isMapLoaded /\ ~slid => Current

=============================================================================
