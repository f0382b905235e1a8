----------------------------- MODULE MCThreads -----------------------------
(***************************************************************************)
(* The threads: the dispatcher and what runs beside it, the database       *)
(* worker, the scheduler and a network connection.  And the map that the   *)
(* dispatcher's tasks work on: who sees a place, where a monster thinks it *)
(* may walk, and which way it takes.  They share no state, so that a       *)
(* behaviour of all of them is an interleaving of one of each; here one of *)
(* them moves in a behaviour and the others rest.                          *)
(***************************************************************************)
EXTENDS Dispatcher, DatabaseTasks, Scheduler, Connection,
        Spectators, WalkCache, Paths

-----------------------------------------------------------------------------
(* Values of the constants.                                                *)

\* Spectators: places on three leaves in a row and on one to the south, of two
\* floors.
MCPlaces == {<<1, 1, 7>>, <<3, 1, 7>>, <<5, 1, 7>>, <<2, 2, 7>>, <<4, 3, 6>>}

\* WalkCache: two columns of tiles on one floor, fewer than the window has, and
\* one tile above.
MCTiles == ((0 .. 1) \X (0 .. 2) \X {7}) \cup {<<1, 1, 6>>}

\* Paths: a room of twelve tiles, half of which may have a wall, and one of them
\* something else.  A wall on the far side hides the goal; nine nodes and seven
\* turns are too few for some of the searches.
MCArea == (1 .. 4) \X (1 .. 3)
MCBegin == <<1, 1>>
MCRough == {<<1, 2>>, <<2, 1>>, <<2, 2>>, <<2, 3>>, <<3, 2>>, <<3, 3>>}
MCOdd == {<<3, 2>>}
MCGoals == {<<4, 1>>, <<4, 3>>}
MCSearches == {
    [minTargetDist |-> 1, maxTargetDist |-> 1, maxSearchDist |-> 3,
     fullPathSearch |-> TRUE, clearSight |-> TRUE],
    [minTargetDist |-> 1, maxTargetDist |-> 2, maxSearchDist |-> 3,
     fullPathSearch |-> FALSE, clearSight |-> TRUE],
    [minTargetDist |-> 0, maxTargetDist |-> 1, maxSearchDist |-> 0,
     fullPathSearch |-> TRUE, clearSight |-> TRUE]}

-----------------------------------------------------------------------------
VARIABLE moving

threadVars == <<dispatcherVars, dbVars, schedVars, connVars>>
mapVars == <<spectVars, walkVars, searchVars>>

Init ==
    /\ moving \in {"dispatcher", "database", "scheduler", "connection",
                   "spectators", "walk cache", "paths"}
    /\ DispatcherInit /\ DatabaseInit /\ SchedulerInit /\ ConnectionInit
    /\ moving # "scheduler" => lastEventId = 0
    /\ SpectatorsInit /\ WalkCacheInit
    /\ PathsInit
    /\ moving # "paths" => /\ ground = [p \in Area |-> "floor"]
                           /\ goal = <<4, 1>> /\ fpp.maxTargetDist = 2

DispatcherMoves ==
    /\ moving = "dispatcher" /\ DispatcherNext
    /\ UNCHANGED <<moving, dbVars, schedVars, connVars, mapVars>>

DatabaseMoves ==
    /\ moving = "database" /\ DatabaseNext
    /\ UNCHANGED <<moving, dispatcherVars, schedVars, connVars, mapVars>>

SchedulerMoves ==
    /\ moving = "scheduler" /\ SchedulerNext
    /\ UNCHANGED <<moving, dispatcherVars, dbVars, connVars, mapVars>>

ConnectionMoves ==
    /\ moving = "connection" /\ ConnectionNext
    /\ UNCHANGED <<moving, dispatcherVars, dbVars, schedVars, mapVars>>

SpectatorsMove ==
    /\ moving = "spectators" /\ SpectatorsNext
    /\ UNCHANGED <<moving, walkVars, searchVars, threadVars>>

WalkCacheMoves ==
    /\ moving = "walk cache" /\ WalkCacheNext
    /\ UNCHANGED <<moving, spectVars, searchVars, threadVars>>

PathsMove ==
    /\ moving = "paths" /\ PathsNext
    /\ UNCHANGED <<moving, spectVars, walkVars, threadVars>>

Next ==
    \/ DispatcherMoves \/ DatabaseMoves \/ SchedulerMoves \/ ConnectionMoves
    \/ SpectatorsMove \/ WalkCacheMoves \/ PathsMove

Fairness ==
    \/ moving = "dispatcher" /\ DispatcherFairness
    \/ moving = "database" /\ DatabaseFairness
    \/ moving = "scheduler" /\ SchedulerFairness
    \/ moving = "connection" /\ ConnectionFairness
    \/ moving \in {"spectators", "walk cache", "paths"}

Spec == Init /\ [][Next]_<<moving, threadVars, mapVars>> /\ Fairness

-----------------------------------------------------------------------------
\* The variables of the four components keep their types.
ThreadsTypeOK ==
    /\ DispatcherTypeOK /\ DatabaseTypeOK /\ SchedulerTypeOK /\ ConnectionTypeOK
    /\ SpectatorsTypeOK /\ WalkCacheTypeOK /\ PathsTypeOK

=============================================================================
