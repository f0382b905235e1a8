-------------------------------- MODULE Spawns --------------------------------
(***************************************************************************)
(* A spawn (src/src/spawn.cpp): blocks, each of which has a monster of its *)
(* own that comes back some time after it has gone, unless a player is     *)
(* near.  A timer looks after the blocks; it ends when as many monsters    *)
(* are listed as there are blocks, and begins with the next that goes.  A  *)
(* monster that has strayed out of the zone is listed under 0 and leaves   *)
(* its block to another.                                                   *)
(***************************************************************************)
EXTENDS Naturals, FiniteSets

CONSTANTS
    Blocks,         (* spawnMap: the blocks are numbered from 1          *)
    RateSpawn,      (* RATE_SPAWN: how many come at a check              *)
    MaxGone,        (* bound: monsters that are removed                  *)
    MaxStrays       (* bound: monsters that stray                        *)

ASSUME SpawnsAssumption ==
    Blocks \in Nat \ {0} /\ RateSpawn \in Nat \ {0} /\ MaxGone \in Nat /\ MaxStrays \in Nat

Block == 1..Blocks

VARIABLES
    listed0,        (* what is listed under 0: alive, and removed        *)
    block,          (* of each block: no monster, one that is in the     *)
                    (* zone, out of it, or removed                       *)
    rested,         (* blocks whose interval has passed                  *)
    near,           (* blocks with players near                          *)
    checking,       (* checkSpawnEvent is pending                        *)
    missed,         (* a monster did not come at the startup             *)
    gone, strayed   (* counted for the bounds                            *)

spawnVars == <<listed0, block, rested, near, checking, missed, gone, strayed>>

SpawnsTypeOK ==
    /\ listed0 \in [alive : 0..MaxStrays, removed : 0..MaxStrays]
    /\ block \in [Block -> {"none", "in", "out", "removed"}]
    /\ rested \subseteq Block /\ near \subseteq Block
    /\ checking \in BOOLEAN /\ missed \in BOOLEAN
    /\ gone \in 0..MaxGone /\ strayed \in 0..MaxStrays

\* Spawn::startup: no check is begun for a monster that finds no place.
SpawnsInit ==
    /\ listed0 = [alive |-> 0, removed |-> 0]
    /\ \E failed \in SUBSET Block :
          /\ block = [b \in Block |-> IF b \in failed THEN "none" ELSE "in"]
          /\ missed = (failed # {})
    /\ rested = {} /\ near = {} /\ checking = FALSE /\ gone = 0 /\ strayed = 0

\* startSpawnCheck, from Monster::onRemoveCreature
StartSpawnCheck == checking' = TRUE /\ missed' = FALSE

\* Mutant: the end of a monster begins no check.
MonsterGoesUnseen(b) ==
    /\ block[b] \in {"in", "out"} /\ gone < MaxGone /\ gone' = gone + 1
    /\ block' = [block EXCEPT ![b] = "removed"]
    /\ UNCHANGED <<listed0, rested, near, checking, missed, strayed>>

MonsterGoes(b) ==
    /\ block[b] \in {"in", "out"} /\ gone < MaxGone /\ gone' = gone + 1
    /\ block' = [block EXCEPT ![b] = "removed"]
    /\ StartSpawnCheck /\ UNCHANGED <<listed0, rested, near, strayed>>

StrayGoes ==
    /\ listed0.alive > 0
    /\ listed0' = [alive |-> listed0.alive - 1, removed |-> listed0.removed + 1]
    /\ StartSpawnCheck /\ UNCHANGED <<block, rested, near, gone, strayed>>

Strays(b) ==
    /\ block[b] = "in" /\ strayed < MaxStrays /\ strayed' = strayed + 1
    /\ block' = [block EXCEPT ![b] = "out"]
    /\ UNCHANGED <<listed0, rested, near, checking, missed, gone>>

ComesHome(b) ==
    /\ block[b] = "out" /\ block' = [block EXCEPT ![b] = "in"]
    /\ UNCHANGED <<listed0, rested, near, checking, missed, gone, strayed>>

TimePasses(b) ==
    /\ b \notin rested /\ rested' = rested \cup {b}
    /\ UNCHANGED <<listed0, block, near, checking, missed, gone, strayed>>

PlayerComes(b) ==
    /\ near' = near \cup {b} /\ b \notin near
    /\ UNCHANGED <<listed0, block, rested, checking, missed, gone, strayed>>

PlayerLeaves(b) ==
    /\ near' = near \ {b} /\ b \in near
    /\ UNCHANGED <<listed0, block, rested, checking, missed, gone, strayed>>

-----------------------------------------------------------------------------
\* cleanup
Tidied == [b \in Block |-> IF block[b] \in {"out", "removed"} THEN "none" ELSE block[b]]

\* Mutant: what is listed under 0 is not erased when it is listed again.
StraysListedAgain == 2 * listed0.alive + Cardinality({b \in Block : block[b] = "out"})

StraysListed == listed0.alive + Cardinality({b \in Block : block[b] = "out"})

\* The blocks that are tried: in order, until RateSpawn monsters have come.  One
\* with a player near fails, and waits for its interval again.
Tried ==
    LET due == {b \in rested : Tidied[b] = "none"}
        before(b) == {c \in due \ near : c < b}
    IN  {b \in due : Cardinality(before(b)) < RateSpawn}

CheckSpawn ==
    /\ checking
    /\ block' = [b \in Block |-> IF b \in Tried \ near THEN "in" ELSE Tidied[b]]
    /\ rested' = rested \ Tried
    /\ listed0' = [alive |-> StraysListed, removed |-> 0]
    /\ checking' = (StraysListed + Cardinality({b \in Block : block'[b] # "none"}) < Blocks)
    /\ UNCHANGED <<near, missed, gone, strayed>>

SpawnsNext ==
    \/ CheckSpawn \/ StrayGoes
    \/ \E b \in Block :
          \/ MonsterGoes(b) \/ Strays(b) \/ ComesHome(b)
          \/ TimePasses(b) \/ PlayerComes(b) \/ PlayerLeaves(b)

\* The scheduler's events come, and time passes.
SpawnsFairness ==
    WF_spawnVars(CheckSpawn) /\ \A b \in Block : WF_spawnVars(TimePasses(b))

SpawnsSpec == SpawnsInit /\ [][SpawnsNext]_spawnVars /\ SpawnsFairness

-----------------------------------------------------------------------------
\* A block from which players stay away has a monster again and again, however
\* monsters went, strayed and were kept from coming: the timer does not end too
\* early.  Only a stray monster that lives stands for that of a block, and one that
\* did not come at the startup is missed until the next of the spawn goes.
BlocksRefill ==
    \A b \in Block :
        <>[](b \notin near) =>
            []<>(block[b] \in {"in", "out"} \/ listed0.alive > 0 \/ missed)

=============================================================================
