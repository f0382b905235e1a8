----------------------------- MODULE Creatures -----------------------------
(***************************************************************************)
(* The life of creatures (src/src/game.cpp, src/src/creature.cpp,          *)
(* src/src/monster.cpp): they are placed on the map, come in sight of one  *)
(* another, become summons, think when their turn in the check lists       *)
(* comes, fall asleep, die in a later task, are removed, and are deleted   *)
(* when the last of the counted references is gone.  Attacked creatures    *)
(* and masters are referred to without being counted.  Handlers call one   *)
(* another, so each is an operator on the world w.                         *)
(***************************************************************************)
EXTENDS Integers, FiniteSets, FiniteSetsExt, Functions, NoValue

CONSTANTS
    Player,
    Wild,           (* monsters that a spawn makes                       *)
    Familiar        (* monsters that a monster makes as summons          *)

Monster == Wild \cup Familiar
Creature == Player \cup Monster

ASSUME CreatureAssumption ==
    Player \cap Monster = {} /\ Wild \cap Familiar = {} /\ None \notin Creature

VARIABLES
    life,           (* new, placed, removed or freed                     *)
    alive,          (* health above 0                                    *)
    dying,          (* executeDeath tasks in the dispatcher's queue      *)
    check, listed,  (* creatureCheck, inCheckCreaturesVector             *)
    refs,           (* referenceCounter                                  *)
    release,        (* how often in ToReleaseCreatures                   *)
    master, summons,
    targets, friends,   (* of monsters                                   *)
    attacked,
    spawned,        (* monsters in the spawnedMap of a spawn             *)
    sees            (* who is in view of whom                            *)

creatureVars == <<life, alive, dying, check, listed, refs, release, master, summons,
                  targets, friends, attacked, spawned, sees>>

CreaturesTypeOK ==
    /\ life \in [Creature -> {"new", "placed", "removed", "freed"}]
    /\ {alive, check, listed} \subseteq [Creature -> BOOLEAN]
    /\ {dying, refs, release} \subseteq [Creature -> Nat]
    /\ {master, attacked} \subseteq [Creature -> Creature \cup {None}]
    /\ {summons, sees} \subseteq [Creature -> SUBSET Creature]
    /\ {targets, friends} \subseteq [Monster -> SUBSET Creature]
    /\ spawned \subseteq Monster

CreaturesInit ==
    /\ life = [c \in Creature |-> "new"]
    /\ alive = [c \in Creature |-> TRUE]
    /\ dying = [c \in Creature |-> 0]
    /\ check = [c \in Creature |-> FALSE] /\ listed = check
    /\ refs = dying /\ release = dying
    /\ master = [c \in Creature |-> None] /\ attacked = master
    /\ summons = [c \in Creature |-> {}] /\ sees = summons
    /\ targets = [m \in Monster |-> {}] /\ friends = targets
    /\ spawned = {}

World == [life |-> life, alive |-> alive, dying |-> dying, check |-> check,
          listed |-> listed, refs |-> refs, release |-> release, master |-> master,
          summons |-> summons, targets |-> targets, friends |-> friends,
          attacked |-> attacked, spawned |-> spawned, sees |-> sees]

\* Do Op next, in the world w; and Op(w, x) for each x of S, in some order.
Then(w, Op(_)) == CHOOSE v \in {Op(u) : u \in {w}} : TRUE

ForEach(Op(_, _), w, S) ==
    LET f[T \in SUBSET S] ==
          IF T = {} THEN w
          ELSE LET x == CHOOSE y \in T : TRUE
               IN  Then(f[T \ {x}], LAMBDA v : Op(v, x))
    IN  f[S]

-----------------------------------------------------------------------------
(* Deletion.  The mutants of this module are named for what they get wrong *)
(* and stand before the definition they change.                            *)

\* The counted references that d holds to c.
Holds(w, d, c) ==
    (IF w.master[c] = d THEN 1 ELSE 0)
      + (IF d \in Monster /\ c \in w.targets[d] THEN 1 ELSE 0)
      + (IF d \in Monster /\ c \in w.friends[d] THEN 1 ELSE 0)

HeldBy(w, D, c) == MapThenSumSet(LAMBDA d : Holds(w, d, c), D)

\* Creatures whose counter reaches 0, with those that only they hold.
Doomed(w) ==
    LET D[n \in 0 .. Cardinality(Creature)] ==
          IF n = 0 THEN {}
          ELSE LET E == D[n - 1] IN
               {c \in Creature : /\ w.life[c] \in {"placed", "removed"}
                                 /\ w.refs[c] = HeldBy(w, E, c)}
    IN  D[Cardinality(Creature)]

\* ~Creature, ~Monster: the summons and the lists are let go.
Freed(w) ==
    LET D == Doomed(w) IN
    IF D = {} THEN w ELSE
    [w EXCEPT
       !.life = [c \in Creature |-> IF c \in D THEN "freed" ELSE w.life[c]],
       !.refs = [c \in Creature |-> w.refs[c] - HeldBy(w, D, c)],
       !.attacked = [c \in Creature |-> IF w.master[c] \in D \/ c \in D THEN None
                                        ELSE w.attacked[c]],
       !.master = [c \in Creature |-> IF w.master[c] \in D \/ c \in D THEN None
                                      ELSE w.master[c]],
       !.summons = [c \in Creature |-> IF c \in D THEN {} ELSE w.summons[c]],
       !.targets = [m \in Monster |-> IF m \in D THEN {} ELSE w.targets[m]],
       !.friends = [m \in Monster |-> IF m \in D THEN {} ELSE w.friends[m]]]

\* The end of every handler: what nobody holds any more is gone.
Becomes(w) ==
    \E v \in {Freed(u) : u \in {w}} :
    /\ life' = v.life /\ alive' = v.alive /\ dying' = v.dying
    /\ check' = v.check /\ listed' = v.listed
    /\ refs' = v.refs /\ release' = v.release
    /\ master' = v.master /\ summons' = v.summons
    /\ targets' = v.targets /\ friends' = v.friends
    /\ attacked' = v.attacked /\ spawned' = v.spawned /\ sees' = v.sees

\* ReleaseCreature, and cleanup, which drops the references released so far.
Release(w, c) == [w EXCEPT !.release[c] = @ + 1]

Cleaned(w) ==
    [w EXCEPT !.refs = [c \in Creature |-> @[c] - w.release[c]],
              !.release = [c \in Creature |-> 0]]

-----------------------------------------------------------------------------
(* The check lists, and the lists of a monster.                            *)

\* addCreatureCheck.
CheckAdded(w, c) ==
    IF w.listed[c] THEN [w EXCEPT !.check[c] = TRUE]
    ELSE [w EXCEPT !.check[c] = TRUE, !.listed[c] = TRUE, !.refs[c] = @ + 1]

\* removeCreatureCheck: the next round takes the creature out of its list.
CheckRemoved(w, c) == IF w.listed[c] THEN [w EXCEPT !.check[c] = FALSE] ELSE w

\* clearTargetList, clearFriendList.
Cleared(w, m) ==
    [w EXCEPT !.refs = [c \in Creature |-> @[c] - (IF c \in w.targets[m] THEN 1 ELSE 0)
                                                - (IF c \in w.friends[m] THEN 1 ELSE 0)],
              !.targets[m] = {}, !.friends[m] = {}]

FriendAdded(w, m, c) ==
    IF c \in w.friends[m] THEN w
    ELSE [w EXCEPT !.friends[m] = @ \cup {c}, !.refs[c] = @ + 1]

FriendRemoved(w, m, c) ==
    IF c \in w.friends[m] THEN [w EXCEPT !.friends[m] = @ \ {c}, !.refs[c] = @ - 1] ELSE w

TargetAdded(w, m, c) ==
    IF c \in w.targets[m] THEN w
    ELSE [w EXCEPT !.targets[m] = @ \cup {c}, !.refs[c] = @ + 1]

\* The reference is dropped, whether there was one or not.
TargetRemovedTwice(w, m, c) == [w EXCEPT !.targets[m] = @ \ {c}, !.refs[c] = @ - 1]

TargetRemoved(w, m, c) ==
    IF c \in w.targets[m] THEN [w EXCEPT !.targets[m] = @ \ {c}, !.refs[c] = @ - 1] ELSE w

ServesPlayer(w, m) == w.master[m] \in Player

IsFriend(w, m, c) ==
    IF ServesPlayer(w, m) THEN w.master[m] \in {c, w.master[c]}
                          ELSE c \in Monster /\ w.master[c] = None

IsOpponent(w, m, c) ==
    IF ServesPlayer(w, m) THEN c # w.master[m]
                          ELSE c \in Player \/ w.master[c] \in Player

\* setIdle, which neither wakes nor puts to sleep the removed and the dead.
IdleSet(w, m, idle) ==
    IF w.life[m] = "removed" \/ ~w.alive[m] THEN w
    ELSE IF idle THEN CheckRemoved(Cleared(w, m), m) ELSE CheckAdded(w, m)

\* updateIdleStatus; aggressive conditions are left out.
IdleUpdated(w, m) == IdleSet(w, m, w.master[m] = None /\ w.targets[m] = {})

\* onCreatureFound, of a creature in view.
Found(w, m, c) ==
    Then(IF IsFriend(w, m, c) THEN FriendAdded(w, m, c) ELSE w, LAMBDA v :
    Then(IF IsOpponent(v, m, c) THEN TargetAdded(v, m, c) ELSE v, LAMBDA u :
         IdleUpdated(u, m)))

\* onCreatureLeave: what c is now decides from which list it is taken.
LeftSight(w, m, c) ==
    Then(IF IsFriend(w, m, c) THEN FriendRemoved(w, m, c) ELSE w, LAMBDA v :
         IF ~IsOpponent(v, m, c) THEN v
         ELSE Then(TargetRemoved(v, m, c), LAMBDA u : IdleUpdated(u, m)))

\* updateTargetList: the dead and those out of view go, those in view come.
TargetsUpdated(w, m) ==
    LET gone == {c \in Creature : ~w.alive[c] \/ c \notin w.sees[m]}
        Forget(v, c) == TargetRemoved(FriendRemoved(v, m, c), m, c)
    IN  Then(ForEach(Forget, w, gone), LAMBDA v :
             ForEach(LAMBDA u, c : Found(u, m, c), v, w.sees[m]))

\* onCreatureDisappear, of the creature that d attacks.
Unseen(w, d, c) == IF w.attacked[d] = c THEN [w EXCEPT !.attacked[d] = None] ELSE w

-----------------------------------------------------------------------------
(* Masters, placing, moving, removing.                                     *)

\* setMaster.
MasterSet(w, c, m) ==
    IF m = None /\ w.master[c] = None THEN w
    ELSE [w EXCEPT !.master[c] = m,
                   !.summons = [d \in Creature |-> IF d = m THEN @[d] \cup {c}
                                                   ELSE @[d] \ {c}],
                   !.refs[c] = @ + (IF m = None THEN 0 ELSE 1)
                                 - (IF w.master[c] = None THEN 0 ELSE 1)]

\* From now on c is in view of the creatures of S and of no others.
InView(w, c, S) ==
    [w EXCEPT !.sees = [d \in Creature |-> IF d = c THEN S
                                           ELSE IF d \in S THEN @[d] \cup {c}
                                           ELSE @[d] \ {c}]]

\* onCreatureAppear, of c itself and of a creature that sees it.
Appeared(w, c, d) ==
    IF d \notin Monster THEN w
    ELSE IF d = c THEN Then(TargetsUpdated(w, c), LAMBDA v : IdleUpdated(v, c))
    ELSE Found(w, d, c)

\* placeCreature; the reference that postAddNotification takes and releases,
\* which is dropped at the next cleanup, is left out.
Placed(w, c, S) ==
    Then(InView([w EXCEPT !.life[c] = "placed", !.refs[c] = 1], c, S), LAMBDA v :
    Then(ForEach(LAMBDA x, d : Appeared(x, c, d), v, S \cup {c}), LAMBDA u :
         CheckAdded(u, c)))

\* onRemoveCreature, of c itself and of a creature that sees it.
Disappeared(w, c, d) ==
    Then(Unseen(w, d, c), LAMBDA v :
         IF d \notin Monster THEN v
         ELSE IF d = c THEN IdleSet(v, c, TRUE) ELSE LeftSight(v, d, c))

\* The map lets go of c, and so does a master who stays.
TakenOff(w, c) ==
    LET mst == w.master[c]
        v == IF mst # None /\ w.life[mst] = "placed" THEN MasterSet(w, c, None) ELSE w
    IN  Then(InView([v EXCEPT !.life[c] = "removed"], c, {}), LAMBDA u :
             CheckRemoved(Release(u, c), c))

\* The spectators are not told.
RemovedAloneQuietly(w, c) == IF w.life[c] # "placed" THEN w ELSE TakenOff(w, c)

\* removeCreature up to the summons; a creature that is removed is left alone.
RemovedAlone(w, c) ==
    IF w.life[c] # "placed" THEN w
    ELSE Then(ForEach(LAMBDA x, d : Disappeared(x, c, d), w, w.sees[c] \cup {c}), LAMBDA v :
              TakenOff(v, c))

\* removeCreature: the summons go after it, each with summons of its own.
Removed(w, c) ==
    LET WithSummons(v, d) == Then(RemovedAlone(v, d), LAMBDA u :
                                  ForEach(RemovedAlone, u, u.summons[d]))
    IN  IF w.life[c] # "placed" THEN w
        ELSE Then(RemovedAlone(w, c), LAMBDA v : ForEach(WithSummons, v, v.summons[c]))

\* onCreatureMove for d: c, which was in view or not, now is or not.
MoveSeen(w, c, d, was, is) ==
    Then(IF is THEN w ELSE Unseen(Unseen(w, d, c), c, d), LAMBDA v :
         IF d \notin Monster THEN v
         ELSE Then(IF is /\ ~was THEN Found(v, d, c)
                   ELSE IF was /\ ~is THEN LeftSight(v, d, c) ELSE v, LAMBDA u :
                   IdleUpdated(u, d)))

\* c moves and is then in view of S; its summons D are left too far behind.
Moved(w, c, S, D) ==
    LET Seen(v, d) == MoveSeen(v, c, d, d \in w.sees[c], d \in S)
    IN  Then(ForEach(Seen, InView(w, c, S), S \cup w.sees[c]), LAMBDA v :
        Then(ForEach(Removed, v, D), LAMBDA u :
             IF c \in Monster THEN Appeared(u, c, c) ELSE u))

\* changeHealth to 0: the death is a task of its own.
Killed(w, c) == [w EXCEPT !.alive[c] = FALSE, !.dying[c] = @ + 1]

\* Monster::death: the summons die too and have no master any more.
SummonsKilled(w, m) ==
    LET Orphan(v, c) == [Killed(v, c) EXCEPT !.master[c] = None, !.refs[c] = @ - 1]
    IN  Then(ForEach(Orphan, w, w.summons[m]), LAMBDA v : [v EXCEPT !.summons[m] = {}])

\* setAttackedCreature, which a master passes on to its summons.
AttackSet(w, c, d) ==
    [w EXCEPT !.attacked = [x \in Creature |->
        IF x = c THEN d
        ELSE IF x \notin w.summons[c] THEN @[x]
        ELSE IF d \in w.sees[x] THEN d ELSE None]]

\* onDeath of a monster.
MonsterDied(w, m) ==
    Then(AttackSet(w, m, None), LAMBDA v :
    Then(SummonsKilled(v, m), LAMBDA u :
    Then(MasterSet(Cleared(u, m), m, None), LAMBDA x : Removed(x, m))))

\* onDeath of a player, who is healed and removed.
PlayerDied(w, p) == Removed([w EXCEPT !.alive[p] = TRUE], p)

-----------------------------------------------------------------------------
(* Handlers.                                                               *)

Here == {c \in Creature : life[c] = "placed"}

Login(p, S) ==
    /\ life[p] = "new"
    /\ Becomes(Placed(World, p, S))

\* spawnMonster, which keeps a reference of its own.
Spawn(m, S) ==
    /\ life[m] = "new"
    /\ Becomes([Placed(World, m, S) EXCEPT !.spawned = @ \cup {m}, !.refs[m] = @ + 1])

\* onThinkDefense: a monster that is no summon makes one.
Summon(m, c, S) ==
    /\ life[c] = "new" /\ m \in Here
    /\ alive[m] /\ check[m] /\ master[m] = None
    /\ Becomes(Then(Placed(World, c, S), LAMBDA w : MasterSet(w, c, m)))

\* Creature:addSummon of a script.
Convince(p, m) ==
    /\ {p, m} \subseteq Here
    /\ alive[m] /\ master[m] = None
    /\ m \in sees[p]
    /\ Becomes(MasterSet(AttackSet(World, m, None), m, p))

Move(c, S, D) ==
    /\ c \in Here /\ alive[c]
    /\ S # sees[c]
    /\ Becomes(Moved(World, c, S, D))

\* The attacker sees a target that is dead but not yet removed, too.
Attack(c, d) ==
    /\ c \in Here /\ alive[c] /\ d \in sees[c] /\ attacked[c] # d
    /\ c \in Monster => d \in targets[c]
    /\ Becomes(AttackSet(World, c, d))

\* combatChangeHealth does nothing to a creature without health.
Kill(c) ==
    /\ c \in Here /\ alive[c]
    /\ Becomes(Killed(World, c))

\* executeDeath finds the creature by its id, and so only as long as it is
\* placed.  A player who dies in an arena is healed and sent home instead.
ExecuteDeath(c) ==
    /\ dying[c] > 0
    /\ LET w == [World EXCEPT !.dying[c] = @ - 1]
       IN  \/ c \notin Here /\ Becomes(w)
           \/ c \in Here \cap Monster /\ Becomes(MonsterDied(w, c))
           \/ c \in Here \cap Player /\ Becomes(PlayerDied(w, c))
           \/ /\ c \in Here \cap Player
              /\ \E S \in SUBSET (Here \ {c}) : \E D \in SUBSET (summons[c] \ S) :
                   Becomes(Moved([w EXCEPT !.alive[c] = TRUE], c, S, D))

\* A logout, a script or the end of a spawn's zone.
RemoveFromMap(c) ==
    /\ c \in Here
    /\ Becomes(Removed(World, c))

\* checkCreatures, for the list that holds B: monsters fall asleep or not,
\* those of T since they have strayed and are sent home; creatures that have
\* nothing to do any more leave the list.
CheckCreatures(B) ==
    /\ B # {}
    /\ LET thinking == {m \in B \cap Monster : check[m] /\ alive[m]}
           Drop(w, c) == Release([w EXCEPT !.listed[c] = FALSE], c)
       IN  \E T \in SUBSET (thinking \cap spawned) :
             LET Think(w, m) == IF m \in T THEN IdleSet(w, m, TRUE) ELSE IdleUpdated(w, m)
             IN  Becomes(Then(ForEach(Think, World, thinking), LAMBDA w :
                         Then(ForEach(Drop, w, {c \in B : ~w.check[c]}), Cleaned)))

\* Spawn::cleanup, of a monster that is removed.
SpawnCleanup(m) ==
    /\ m \in spawned /\ life[m] = "removed"
    /\ Becomes([World EXCEPT !.spawned = @ \ {m}, !.refs[m] = @ - 1])

\* checkDecay cleans up as well.
CheckDecay ==
    /\ \E c \in Creature : release[c] > 0
    /\ Becomes(Cleaned(World))

CreaturesNext ==
    \/ \E S \in SUBSET Here :
         \/ \E p \in Player : Login(p, S)
         \/ \E m \in Wild : Spawn(m, S)
         \/ \E m \in S \cap Monster, c \in Familiar : Summon(m, c, S)
         \/ \E c \in Here \ S : \E D \in SUBSET (summons[c] \ S) : Move(c, S, D)
    \/ \E c \in Creature : Kill(c) \/ ExecuteDeath(c) \/ RemoveFromMap(c)
    \/ \E c, d \in Here : Attack(c, d)
    \/ \E p \in Player, m \in Monster : Convince(p, m)
    \/ \E B \in SUBSET {c \in Creature : listed[c]} : CheckCreatures(B)
    \/ \E m \in Wild : SpawnCleanup(m)
    \/ CheckDecay

CreaturesSpec == CreaturesInit /\ [][CreaturesNext]_creatureVars

\* checkCreatures, checkSpawn and checkDecay are scheduled for ever.
CreaturesFairness ==
    /\ \A c \in Creature : WF_creatureVars(listed[c] /\ CheckCreatures({c}))
    /\ \A m \in Wild : WF_creatureVars(SpawnCleanup(m))
    /\ WF_creatureVars(CheckDecay)

-----------------------------------------------------------------------------
(* Properties.                                                             *)

Exists(c) == life[c] \in {"placed", "removed"}

\* The counter of every creature is the number of references to it, which
\* are counted in a dozen places: on the map or released, in a check list,
\* with a spawn, for its master, and in the lists of monsters.
CountsAgree ==
    \A c \in Creature : Exists(c) =>
        refs[c] = release[c]
                    + Cardinality({x \in {1} : life[c] = "placed"})
                    + Cardinality({x \in {1} : listed[c]})
                    + Cardinality({x \in {1} : c \in spawned})
                    + HeldBy(World, {d \in Creature \cup {None} : d # None}, c)

\* Nothing refers to a creature that is deleted, counted or not; who is
\* attacked is in sight, and the master of a summon is on the map.
NothingDangles ==
    /\ \A c \in Creature : life[c] = "freed" =>
        /\ ~listed[c] /\ c \notin spawned /\ release[c] = 0
        /\ \A d \in Creature : Exists(d) =>
             /\ c # master[d] /\ c \notin summons[d]
             /\ life[d] = "placed" => c # attacked[d]
             /\ d \in Monster => c \notin targets[d] \cup friends[d]
    /\ \A c \in Here :
         /\ attacked[c] # None => attacked[c] \in sees[c]
         /\ master[c] # None => master[c] \in Here /\ c \in summons[master[c]]

\* A monster that has somebody to attack, or is a summon, is not asleep, and
\* neither is a player; but a summon of a spawn is when it is sent home.
AwakeWhenNeeded ==
    \A c \in Here : c \in Player \/ (alive[c] /\ (targets[c] # {} \/ (master[c] # None /\ c \notin spawned)))
                      => listed[c] /\ check[c]

\* At once: every reference is counted, and none to what is deleted; and who has
\* something to do is awake (Monster::updateIdleStatus, Game::addCreatureCheck).
ReferencesAgree == CountsAgree /\ NothingDangles /\ AwakeWhenNeeded

\* A creature that is removed is deleted in the end, unless another that
\* still exists holds it.  (The two may hold each other: a summon that has
\* listed its later master as a target, and dies as the master leaves.)
RemovedIsFreed ==
    \A c \in Creature : life[c] = "removed" ~>
        life[c] = "freed" \/ \E d \in Creature : Exists(d) /\ Holds(World, d, c) > 0

=============================================================================
