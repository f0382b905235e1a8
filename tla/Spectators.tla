---------------------------- MODULE Spectators ----------------------------
(***************************************************************************)
(* Who sees a place: map.cpp.  The map is cut into squares, leaves, that   *)
(* are made when their first tile is, know the leaves south and east of    *)
(* them, and list the creatures on them.  getSpectators walks the leaves   *)
(* along these links, and keeps what it found for the ranges of the        *)
(* client's screen until a creature comes, moves or goes.                  *)
(*                                                                         *)
(* The lists of players are those of the creatures, less the others.  Not  *)
(* modelled: the tree above the leaves, which is a function from places to *)
(* leaves, and ranges other than those of the screen.                      *)
(***************************************************************************)
EXTENDS Integers, FiniteSets, NoValue

CONSTANTS
    Players,    \* creatures that are players
    Monsters,   \* and that are not
    Places,     \* positions <<x, y, z>> with tiles, or with tiles to come
    FloorSize,  \* the width of a leaf
    Viewport,   \* maxViewportX and maxViewportY
    MaxCached   \* bound: places with an answer that is kept

ASSUME SpectatorsAssumption ==
    /\ FloorSize \in Nat \ {0}
    /\ Viewport \in Nat /\ MaxCached \in Nat
    /\ Players \cap Monsters = {}
    /\ Places \subseteq Nat \X Nat \X (0 .. 15)
    /\ None \notin Places /\ None \notin Nat \X Nat

VARIABLES
    leaves,         \* the leaves that exist, by their north-western corner
    leafE, leafS,   \* the links of each
    listed,         \* creature_list of each
    position,       \* where each creature is, None off the map
    spectatorCache, \* place -> those who see it
    playersCache    \* playersSpectatorCache

spectVars ==
    <<leaves, leafE, leafS, listed, position, spectatorCache, playersCache>>

Beings == Players \cup Monsters

Corner(i) == i - (i % FloorSize)
LeafOf(pos) == <<Corner(pos[1]), Corner(pos[2])>>
Leaves == {LeafOf(pos) : pos \in Places}

SpectatorsTypeOK ==
    /\ leaves \subseteq Leaves
    /\ leafE \in [leaves -> Leaves \cup {None}]
    /\ leafS \in [leaves -> Leaves \cup {None}]
    /\ listed \in [leaves -> SUBSET Beings]
    /\ position \in [Beings -> Places \cup {None}]
    /\ \A cached \in {spectatorCache, playersCache} :
         /\ DOMAIN cached \subseteq Places
         /\ Cardinality(DOMAIN cached) <= MaxCached
         /\ \A pos \in DOMAIN cached : cached[pos] \subseteq Beings

-----------------------------------------------------------------------------
(* The walk.                                                               *)

GetLeaf(x, y) == IF <<x, y>> \in leaves THEN <<x, y>> ELSE None

\* The floors that are seen from floor z: down to the ninth from the ground,
\* two each way below it.
FloorsSeen(z) ==
    CASE z > 7 -> (IF z < 2 THEN 0 ELSE z - 2) .. (IF z + 2 > 15 THEN 15 ELSE z + 2)
      [] z = 6 -> 0 .. 8
      [] z = 7 -> 0 .. 9
      [] OTHER -> 0 .. 7

Lowest(S) == CHOOSE i \in S : \A j \in S : i <= j
Highest(S) == CHOOSE i \in S : \A j \in S : i >= j
NotNegative(i) == IF i < 0 THEN 0 ELSE i

\* A place on another floor is seen shifted by the distance of the floors.
InRange(center, pos, floors) ==
    /\ pos[3] \in floors
    /\ \A i \in 1 .. 2 :
         pos[i] \in center[i] - Viewport + center[3] - pos[3]
                    .. center[i] + Viewport + center[3] - pos[3]

FirstCorner(center, i, floors) ==
    Corner(NotNegative(center[i] - Viewport + center[3] - Highest(floors)))
LastCorner(center, i, floors) ==
    Corner(NotNegative(center[i] + Viewport + center[3] - Lowest(floors)))

\* The leaves met from the i-th column or row on: along the link of a leaf that
\* is there, by a search from one that is not.
Southwards(x, y, to) ==
    LET leaf[n \in 0 .. (to - y) \div FloorSize] ==
          IF n = 0 THEN GetLeaf(x, y)
          ELSE IF leaf[n - 1] # None THEN leafS[leaf[n - 1]]
          ELSE GetLeaf(x, y + n * FloorSize)
    IN  leaf

Eastwards(first, x, y, to) ==
    LET leaf[n \in 0 .. (to - x) \div FloorSize] ==
          IF n = 0 THEN first
          ELSE IF leaf[n - 1] # None THEN leafE[leaf[n - 1]]
          ELSE GetLeaf(x + n * FloorSize, y)
    IN  {leaf[n] : n \in DOMAIN leaf} \ {None}

Met(x, y, tox, toy) ==
    LET column == Southwards(x, y, toy) IN
    UNION {Eastwards(column[n], x, y + n * FloorSize, tox) : n \in DOMAIN column}

\* getSpectatorsInternal, of all creatures.
WhoIsFound(center, floors) ==
    {c \in UNION {listed[l] : l \in Met(FirstCorner(center, 1, floors), FirstCorner(center, 2, floors),
                                        LastCorner(center, 1, floors), LastCorner(center, 2, floors))} :
       InRange(center, position[c], floors)}

-----------------------------------------------------------------------------
(* The answers that are kept.                                              *)

With(cached, pos, those) ==
    [p \in DOMAIN cached \cup {pos} |-> IF p = pos THEN those ELSE cached[p]]

Nothing == [p \in {} |-> {}]

\* getSpectators over all floors with the ranges of the screen.
GetSpectators(pos) ==
    /\ spectatorCache' = IF pos \in DOMAIN spectatorCache THEN spectatorCache
                         ELSE With(spectatorCache, pos, WhoIsFound(pos, FloorsSeen(pos[3])))
    /\ UNCHANGED playersCache

\* Of the players only: what is kept of all creatures serves as well.
GetPlayers(pos) ==
    /\ playersCache' = IF pos \in DOMAIN playersCache \cup DOMAIN spectatorCache
                       THEN playersCache
                       ELSE With(playersCache, pos,
                                 WhoIsFound(pos, FloorsSeen(pos[3])) \cap Players)
    /\ UNCHANGED spectatorCache

\* Mutant: only the answers of all creatures are dropped.
ClearSpectators(c) ==
    /\ spectatorCache' = Nothing
    /\ UNCHANGED playersCache

\* A tile is left, entered or given the creature: what was kept is dropped, of
\* players if it is one.
ClearCaches(c) ==
    /\ spectatorCache' = Nothing
    /\ playersCache' = IF c \in Players THEN Nothing ELSE playersCache

-----------------------------------------------------------------------------
(* The handlers.                                                           *)

SpectatorsInit ==
    /\ leaves = {}
    /\ leafE = Nothing /\ leafS = Nothing /\ listed = Nothing
    /\ position = [c \in Beings |-> None]
    /\ spectatorCache = Nothing /\ playersCache = Nothing

Tiled(pos) == LeafOf(pos) \in leaves

\* Mutant: the leaf to the west is not told.
SetTileUnlinked(pos) ==
    LET new == LeafOf(pos)
        all == leaves \cup {new}
        next(l, dx, dy) == LET n == <<l[1] + dx, l[2] + dy>> IN
                           IF n \in all THEN n ELSE None
    IN  /\ new \notin leaves
        /\ leaves' = all
        /\ leafE' = [l \in all |-> IF l = new THEN next(l, FloorSize, 0) ELSE leafE[l]]
        /\ leafS' = [l \in all |-> IF l = new \/ next(l, 0, FloorSize) = new
                                   THEN next(l, 0, FloorSize) ELSE leafS[l]]
        /\ listed' = [l \in all |-> IF l = new THEN {} ELSE listed[l]]
        /\ UNCHANGED <<position, spectatorCache, playersCache>>

\* Map::setTile: the first tile of a leaf makes it, and links it both ways.
SetTile(pos) ==
    LET new == LeafOf(pos)
        all == leaves \cup {new}
        next(l, dx, dy) == LET n == <<l[1] + dx, l[2] + dy>> IN
                           IF n \in all THEN n ELSE None
    IN  /\ new \notin leaves
        /\ leaves' = all
        /\ leafE' = [l \in all |-> IF l = new \/ next(l, FloorSize, 0) = new
                                   THEN next(l, FloorSize, 0) ELSE leafE[l]]
        /\ leafS' = [l \in all |-> IF l = new \/ next(l, 0, FloorSize) = new
                                   THEN next(l, 0, FloorSize) ELSE leafS[l]]
        /\ listed' = [l \in all |-> IF l = new THEN {} ELSE listed[l]]
        /\ UNCHANGED <<position, spectatorCache, playersCache>>

\* Map::placeCreature.
PlaceOnMap(c, pos) ==
    /\ position[c] = None /\ Tiled(pos)
    /\ position' = [position EXCEPT ![c] = pos]
    /\ listed' = [listed EXCEPT ![LeafOf(pos)] = @ \cup {c}]
    /\ ClearCaches(c)
    /\ UNCHANGED <<leaves, leafE, leafS>>

\* Map::moveCreature.  Those who see either place are found before, and what
\* that leaves is dropped with the rest.
MoveOnMap(c, pos) ==
    /\ position[c] # None /\ Tiled(pos) /\ pos # position[c]
    /\ position' = [position EXCEPT ![c] = pos]
    /\ LET old == LeafOf(position[c])
           new == LeafOf(pos)
       IN  listed' = IF old = new THEN listed
                     ELSE [listed EXCEPT ![old] = @ \ {c}, ![new] = @ \cup {c}]
    /\ ClearCaches(c)
    /\ UNCHANGED <<leaves, leafE, leafS>>

\* Tile::removeCreature, in Game::removeCreature.
TakeOffMap(c) ==
    /\ position[c] # None
    /\ position' = [position EXCEPT ![c] = None]
    /\ listed' = [listed EXCEPT ![LeafOf(position[c])] = @ \ {c}]
    /\ ClearCaches(c)
    /\ UNCHANGED <<leaves, leafE, leafS>>

\* Something happens at a place, and those who see it are told: everybody, such
\* as after a creature was placed, or players only.
AskAll(pos) ==
    /\ Tiled(pos)
    /\ pos \in DOMAIN spectatorCache \/ Cardinality(DOMAIN spectatorCache) < MaxCached
    /\ GetSpectators(pos)
    /\ UNCHANGED <<leaves, leafE, leafS, listed, position>>

AskPlayers(pos) ==
    /\ Tiled(pos)
    /\ pos \in DOMAIN playersCache \/ Cardinality(DOMAIN playersCache) < MaxCached
    /\ GetPlayers(pos)
    /\ UNCHANGED <<leaves, leafE, leafS, listed, position>>

SpectatorsNext ==
    \/ \E pos \in Places : SetTile(pos) \/ AskAll(pos) \/ AskPlayers(pos)
    \/ \E c \in Beings, pos \in Places : PlaceOnMap(c, pos) \/ MoveOnMap(c, pos)
    \/ \E c \in Beings : TakeOffMap(c)

SpectatorsSpec == SpectatorsInit /\ [][SpectatorsNext]_spectVars

-----------------------------------------------------------------------------
(* Properties.                                                             *)

Seeing(center, floors) ==
    {c \in Beings : position[c] # None /\ InRange(center, position[c], floors)}

\* The walk along the links meets everybody in range, in whatever order the
\* leaves were made, on the floor alone and over all floors that are seen.
NobodyMissed ==
    \A pos \in Places : \A floors \in {FloorsSeen(pos[3]), {pos[3]}} :
       WhoIsFound(pos, floors) = Seeing(pos, floors)

\* What is kept is what would be found now.
KeptIsFresh ==
    /\ \A pos \in DOMAIN spectatorCache :
         spectatorCache[pos] = Seeing(pos, FloorsSeen(pos[3]))
    /\ \A pos \in DOMAIN playersCache :
         playersCache[pos] = Seeing(pos, FloorsSeen(pos[3])) \cap Players

\* Whoever sees a place is told of what happens there, and nobody else.
SpectatorsAgree == NobodyMissed /\ KeptIsFresh

=============================================================================
