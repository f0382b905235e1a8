------------------------------- MODULE Paths -------------------------------
(***************************************************************************)
(* The search for a path: Map::getPathMatching, AStarNodes, the condition  *)
(* FrozenPathingConditionCall that says where a path may end, and the line *)
(* of sight it asks for.  One step is one turn of the loop.                *)
(*                                                                         *)
(* Whether a tile may be entered is what canWalkTo says of it (WalkCache). *)
(* Nodes of equal cost are taken in the order of their making; here in any *)
(* order.  allowDiagonal and keepDistance keep their defaults, as in every *)
(* search of the code.                                                     *)
(***************************************************************************)
EXTENDS Integers, Sequences, FiniteSets, NoValue

CONSTANTS
    Area,       \* the positions <<x, y>> of the map
    Begin,      \* where the creature stands
    Rough,      \* the positions where there may be a wall
    Odd,        \* those of them where there may be something else
    Goals,      \* the positions it may want to reach
    Searches,   \* parameters of searches: records as FindPathParams
    MaxNodes,   \* MAX_NODES
    MaxClosed   \* the limit of closed nodes where no distance limits a search

ASSUME PathsAssumption ==
    /\ Area \subseteq Nat \X Nat
    /\ Begin \in Area /\ Rough \subseteq Area \ {Begin} /\ Odd \subseteq Rough
    /\ Goals \subseteq Area
    /\ MaxNodes \in Nat /\ MaxClosed \in Nat
    /\ Searches \subseteq [minTargetDist : Nat, maxTargetDist : Nat, maxSearchDist : Nat,
                           fullPathSearch : BOOLEAN, clearSight : BOOLEAN]

VARIABLES
    ground,     \* what is on each tile
    goal,       \* targetPos
    fpp,        \* the parameters of the search
    cost,       \* f of each node that was made
    parent,
    open,       \* the nodes that are open
    endPos,     \* where the best path so far ends, or None
    bestMatch,
    phase,      \* "searching", "failed" or "found"
    dirList     \* the directions of the path that was found

searchVars ==
    <<ground, goal, fpp, cost, parent, open, endPos, bestMatch, phase, dirList>>

\* A wall, water that can be seen over, a tile with a creature that can be
\* pushed, and one with a field that the creature does not heed.
Kinds == {"floor", "wall", "water", "crowd", "field"}

Eight == ((-1 .. 1) \X (-1 .. 1)) \ {<<0, 0>>}
Plus(p, e) == <<p[1] + e[1], p[2] + e[2]>>
Away(i) == IF i < 0 THEN -i ELSE i
Distance(p, q) ==
    IF Away(p[1] - q[1]) > Away(p[2] - q[2]) THEN Away(p[1] - q[1]) ELSE Away(p[2] - q[2])

Enterable(p) == p \in Area /\ ground[p] \notin {"wall", "water"}

PathsTypeOK ==
    /\ ground \in [Area -> Kinds]
    /\ goal \in Area /\ fpp \in Searches
    /\ DOMAIN cost \subseteq Area /\ DOMAIN parent = DOMAIN cost
    /\ open \subseteq DOMAIN cost
    /\ Cardinality(DOMAIN cost) <= MaxNodes
    /\ endPos \in DOMAIN cost \cup {None}
    /\ bestMatch \in 0 .. fpp.maxTargetDist
    /\ phase \in {"searching", "failed", "found"}
    /\ dirList \in Seq(Eight)

-----------------------------------------------------------------------------
(* Sight.                                                                  *)

\* The tiles strictly between the ends, one for each step along the longer
\* axis; the other coordinate is rounded down, a tenth added.
Between(a, b, long, short) ==
    LET d == b[long] - a[long]
        at(i) == a[short] + ((10 * (i - a[long]) * (b[short] - a[short]) + d) \div (10 * d))
    IN  {IF long = 1 THEN <<i, at(i)>> ELSE <<at(i), i>> : i \in a[long] + 1 .. b[long] - 1}

\* checkSteepLine and checkSlightLine, from the lower coordinate to the higher.
SightLine(a, b) ==
    LET long == IF Away(b[2] - a[2]) > Away(b[1] - a[1]) THEN 2 ELSE 1 IN
    IF a[long] > b[long] THEN Between(b, a, long, 3 - long)
                         ELSE Between(a, b, long, 3 - long)

\* isTileClear: where there is no tile, nothing is in the way.
SightClear(a, b) ==
    \/ Distance(a, b) < 2
    \/ \A p \in SightLine(a, b) : p \in Area => ground[p] # "wall"

-----------------------------------------------------------------------------
(* Where a path may end.                                                   *)

\* isInRange.  A search that is not full keeps to the side of the goal where
\* the creature is.
InRangeOf(p) ==
    \A i \in 1 .. 2 :
       LET side == Begin[i] - goal[i] IN
       p[i] \in goal[i] - (IF fpp.fullPathSearch \/ side <= 0 THEN fpp.maxTargetDist ELSE 0)
            .. goal[i] + (IF fpp.fullPathSearch \/ side >= 0 THEN fpp.maxTargetDist ELSE 0)

\* The condition, but for the distance it has already found.
Suitable(p) ==
    /\ InRangeOf(p)
    /\ fpp.clearSight => SightClear(p, goal)
    /\ Distance(goal, p) \in fpp.minTargetDist .. fpp.maxTargetDist

\* operator(): the wanted distance, or a better one than before.
Matches(p) ==
    /\ Suitable(p)
    /\ \/ fpp.maxTargetDist = 1
       \/ Distance(goal, p) = fpp.maxTargetDist
       \/ Distance(goal, p) > bestMatch

\* What bestMatch becomes.
MatchOf(p) ==
    IF fpp.maxTargetDist = 1 THEN bestMatch
    ELSE IF Distance(goal, p) = fpp.maxTargetDist THEN 0
    ELSE Distance(goal, p)

-----------------------------------------------------------------------------
(* The nodes.                                                              *)

\* Mutant: nor beside itself, seen from the parent.
DirectionsAhead(n) ==
    IF parent[n] = None THEN Eight
    ELSE {e \in Eight : LET back == <<parent[n][1] - n[1], parent[n][2] - n[2]>> IN
                        Away(e[1] - back[1]) + Away(e[2] - back[2]) > 2}

\* All around the first node; from another, not to its parent nor to what the
\* parent has beside it (dirNeighbors).
Directions(n) ==
    IF parent[n] = None THEN Eight
    ELSE {e \in Eight : LET back == <<parent[n][1] - n[1], parent[n][2] - n[2]>> IN
                        Away(e[1] - back[1]) + Away(e[2] - back[2]) > 1}

WithinSearch(p) ==
    fpp.maxSearchDist # 0 => Distance(Begin, p) <= fpp.maxSearchDist

\* The neighbours of n that are looked at: those with a node, and those that
\* may be entered.
Neighbours(n) ==
    {p \in {Plus(n, e) : e \in Directions(n)} :
       WithinSearch(p) /\ (p \in DOMAIN cost \/ Enterable(p))}

MapWalkCost(n, p) == IF n[1] # p[1] /\ n[2] # p[2] THEN 25 ELSE 10

TileWalkCost(p) ==
    CASE ground[p] = "crowd" -> 30
      [] ground[p] = "field" -> 180
      [] OTHER -> 0

NewCost(n, p) == cost[n] + MapWalkCost(n, p) + TileWalkCost(p)

Better(n) ==
    {p \in Neighbours(n) : p \in DOMAIN cost => NewCost(n, p) < cost[p]}

\* getBestNode.
BestNodes == {n \in open : \A m \in open : cost[n] <= cost[m]}

\* The directions from the first node to p, along the parents.
Walk(p) ==
    LET up == [q \in DOMAIN parent \cup {None} |-> IF q = None THEN None ELSE parent[q]]
        chain[n \in 0 .. Cardinality(DOMAIN parent)] ==
          IF n = 0 THEN p ELSE up[chain[n - 1]]
        length == CHOOSE n \in DOMAIN chain : chain[n] = Begin
        heading(from, to) == <<to[1] - from[1], to[2] - from[2]>>
    IN  [i \in 1 .. length |-> heading(chain[length - i + 1], chain[length - i])]

-----------------------------------------------------------------------------
(* The search.                                                             *)

PathsInit ==
    /\ \E walls \in SUBSET Rough : \E odd \in SUBSET (Odd \ walls) :
         \E k \in Kinds \ {"wall", "floor"} :
            ground = [p \in Area |-> IF p \in walls THEN "wall"
                                     ELSE IF p \in odd THEN k ELSE "floor"]
    /\ goal \in Goals /\ fpp \in Searches
    /\ cost = [p \in {Begin} |-> 0]
    /\ parent = [p \in {Begin} |-> None]
    /\ open = {Begin}
    /\ endPos = None /\ bestMatch = 0
    /\ phase = "searching" /\ dirList = <<>>

ClosedNodes == Cardinality(DOMAIN cost \ open)

MayGoOn == fpp.maxSearchDist # 0 \/ ClosedNodes < MaxClosed

\* The loop is left: what was found, if anything.
Finish ==
    /\ phase = "searching"
    /\ ~MayGoOn \/ open = {}
    /\ IF endPos = None
       THEN phase' = "failed" /\ UNCHANGED dirList
       ELSE phase' = "found" /\ dirList' = Walk(endPos)
    /\ UNCHANGED <<ground, goal, fpp, cost, parent, open, endPos, bestMatch>>

\* The node is where the path should end.
Arrive(n) ==
    /\ phase = "searching" /\ MayGoOn
    /\ n \in BestNodes
    /\ Matches(n) /\ MatchOf(n) = 0
    /\ endPos' = n /\ bestMatch' = 0
    /\ phase' = "found" /\ dirList' = Walk(n)
    /\ UNCHANGED <<ground, goal, fpp, cost, parent, open>>

\* Its neighbours are looked at, and it is closed; those that are reached at
\* less cost have it for a parent, and are opened again.  When the nodes are
\* used up the others are not looked at, and the search fails if nothing has
\* been found.
Expand(n) ==
    /\ phase = "searching" /\ MayGoOn
    /\ n \in BestNodes
    /\ ~(Matches(n) /\ MatchOf(n) = 0)
    /\ endPos' = IF Matches(n) THEN n ELSE endPos
    /\ bestMatch' = IF Matches(n) THEN MatchOf(n) ELSE bestMatch
    /\ \E taken \in SUBSET Better(n) :
         LET all == DOMAIN cost \cup taken
             usedUp == taken # Better(n)
         IN  /\ Cardinality(all) <= MaxNodes
             /\ usedUp => Cardinality(all) = MaxNodes /\ ~(Better(n) \subseteq all)
             /\ cost' = [p \in all |-> IF p \in taken THEN NewCost(n, p) ELSE cost[p]]
             /\ parent' = [p \in all |-> IF p \in taken THEN n ELSE parent[p]]
             /\ open' = (open \ {n}) \cup taken
             /\ phase' = IF usedUp /\ endPos' = None THEN "failed" ELSE phase
    /\ UNCHANGED <<ground, goal, fpp, dirList>>

PathsNext ==
    \/ Finish
    \/ \E n \in open : Arrive(n) \/ Expand(n)

PathsSpec == PathsInit /\ [][PathsNext]_searchVars

-----------------------------------------------------------------------------
(* Properties.                                                             *)

\* The tiles that may be stood on within the search, and a step between them.
Walkable == {p \in Area : p = Begin \/ (Enterable(p) /\ WithinSearch(p))}

StepCost(p, q) ==
    (IF p[1] # q[1] /\ p[2] # q[2] THEN 25 ELSE 10) +
    (IF ground[q] = "crowd" THEN 30 ELSE IF ground[q] = "field" THEN 180 ELSE 0)

\* No path to q costs less than bound[q]: it is nothing where the creature
\* stands, and no step makes it grow by more than the step costs.
IsLowerBound(bound) ==
    /\ bound[Begin] = 0
    /\ \A p, q \in Walkable : Distance(p, q) = 1 => bound[q] <= bound[p] + StepCost(p, q)

\* Where the directions lead, step by step.
Trace(steps) ==
    LET at[i \in 0 .. Len(steps)] == IF i = 0 THEN Begin ELSE Plus(at[i - 1], steps[i])
    IN  at

\* The directions lead, over tiles that may be entered and at the cost of the
\* node, to the place found, where the search may end.
LeadsThere ==
    \E at \in {Trace(dirList)} :
      /\ \A i \in DOMAIN at : at[i] \in Walkable
      /\ \A i \in 1 .. Len(dirList) : cost[at[i]] >= cost[at[i - 1]] + StepCost(at[i - 1], at[i])
      /\ at[Len(dirList)] = endPos
      /\ Suitable(endPos)

\* There is no cheaper way there, nor to any other place that would do as well.
NoneCheaper ==
    LET bound == [p \in Walkable |-> IF p \in DOMAIN cost /\ cost[p] < cost[endPos]
                                 THEN cost[p] ELSE cost[endPos]]
    IN  /\ IsLowerBound(bound)
        /\ \A p \in Walkable : cost[endPos] > bound[p] =>
             ~(Suitable(p) /\ Distance(goal, p) = Distance(goal, endPos))

\* All that can be reached was, and at the least cost.
Exhausted ==
    /\ open = {}
    /\ \A p \in DOMAIN cost, q \in Walkable :
         Distance(p, q) = 1 => q \in DOMAIN cost /\ cost[q] <= cost[p] + StepCost(p, q)

\* Neither the nodes nor the turns were used up.
NotCutShort == Cardinality(DOMAIN cost) < MaxNodes /\ MayGoOn

\* A path that is found leads to where the search was to end, over tiles that
\* may be entered.  At the wanted distance it is the cheapest; or else, if the
\* search was not cut short, there is no place at a better distance; and it
\* fails only if no place would do.
PathsAgree ==
    /\ phase = "found" => LeadsThere
    /\ phase = "found" /\ bestMatch = 0 /\ Cardinality(DOMAIN cost) < MaxNodes => NoneCheaper
    /\ phase # "searching" /\ NotCutShort /\ (phase = "found" => bestMatch # 0) =>
         /\ Exhausted
         /\ \A p \in DOMAIN cost : Suitable(p) =>
              phase = "found" /\ Distance(goal, p) <= Distance(goal, endPos)

=============================================================================
