----------------------------- MODULE MCLiveness -----------------------------
(***************************************************************************)
(* What must come to an end, or happen again and again: the sessions of a  *)
(* character, creatures, the server, the blocks of a spawn, and what has   *)
(* its time, each under the fairness of its module.  They share no state:  *)
(* one of them moves in a behaviour.                                       *)
(***************************************************************************)
EXTENDS Session, Creatures, Server, Spawns, Calendar

\* A global event that thinks, and one of a script that runs at an hour; a raid
\* of two events.
MCKind == [e \in Event |-> IF e = "hunt" THEN "timer" ELSE "think"]
MCLength == [r \in Raids |-> 2]

VARIABLE moving

liveVars == <<moving, sessVars, creatureVars, serverVars, spawnVars, calVars>>

Init ==
    /\ moving \in {"session", "creatures", "server", "spawns", "calendar"}
    /\ SessionInit /\ CreaturesInit /\ ServerInit /\ CalendarInit
    /\ SpawnsInit /\ (moving # "spawns" => ~missed)

SessionMoves ==
    /\ moving = "session" /\ SessionNext
    /\ UNCHANGED <<moving, creatureVars, serverVars, spawnVars, calVars>>

CreaturesMove ==
    /\ moving = "creatures" /\ CreaturesNext
    /\ UNCHANGED <<moving, sessVars, serverVars, spawnVars, calVars>>

ServerMoves ==
    /\ moving = "server" /\ ServerNext
    /\ UNCHANGED <<moving, sessVars, creatureVars, spawnVars, calVars>>

SpawnsMove ==
    /\ moving = "spawns" /\ SpawnsNext
    /\ UNCHANGED <<moving, sessVars, creatureVars, serverVars, calVars>>

CalendarMoves ==
    /\ moving = "calendar" /\ CalendarNext
    /\ UNCHANGED <<moving, sessVars, creatureVars, serverVars, spawnVars>>

Next == SessionMoves \/ CreaturesMove \/ ServerMoves \/ SpawnsMove \/ CalendarMoves

Fairness ==
    \/ moving = "session" /\ SessionFairness
    \/ moving = "creatures" /\ CreaturesFairness
    \/ moving = "server" /\ ServerFairness
    \/ moving = "spawns" /\ SpawnsFairness
    \/ moving = "calendar" /\ CalendarFairness

Spec == Init /\ [][Next]_liveVars /\ Fairness

\* Type correctness of what is checked in no other run.
LivenessTypeOK == SpawnsTypeOK /\ CalendarTypeOK

\* Nobody is left behind: a character without a client leaves, and a creature
\* that is removed is freed.
NobodyIsLeft == AbandonedLeaves /\ RemovedIsFreed

\* What has its time comes: the blocks of a spawn have their monsters again, and
\* events and raids are run.
TimeIsKept == BlocksRefill /\ CalendarKept

=============================================================================
