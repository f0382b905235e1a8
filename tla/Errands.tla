------------------------------- MODULE Errands -------------------------------
(***************************************************************************)
(* A player who walks (src/src/creature.cpp, src/src/player.cpp) and what  *)
(* is put off until he has arrived or rested (src/src/game.cpp): the event *)
(* of the next step, the list of steps, the task to be done at its end,    *)
(* the task to be done after a rest, and the creature that is followed.    *)
(* The map is abstracted: whether something is near, whether there is a    *)
(* way, and how a step ends is open each time.  An errand whose event has  *)
(* expired when it is cancelled is carried out nevertheless: that is as if *)
(* the player asked again.                                                 *)
(***************************************************************************)
EXTENDS Naturals, NoValue

CONSTANTS
    MaxWay,         (* the longest way                                   *)
    MaxAsked,       (* how often something happens to the player         *)
    MaxPending      (* walks that wait in the dispatcher; walk events    *)
                    (* that are pending without being named              *)

ASSUME ErrandsAssumption == {MaxWay, MaxAsked, MaxPending} \subseteq Nat /\ MaxWay > 0

\* In which order distance and rest are tested.
Order == {"distance first", "rest first", "distance only"}
Task == Order \cup {None}
Outcome == {"moves", "fails", "teleports"}

VARIABLES
    mover,          (* what Creature and Player keep                     *)
    autoWalks,      (* tasks of playerAutoWalk that wait in the dispatcher *)
    errands,        (* how much has happened                             *)
    hindered,       (* history: the walk to the present errand was       *)
    raced           (* stopped or refused; a walk event was stopped late *)

errandVars == <<mover, autoWalks, errands, hindered, raced>>

ErrandsTypeOK ==
    /\ mover \in [listWalkDir : 0..MaxWay,
                  eventWalk : {"none", "waiting", "expired"},
                  others : 0..MaxPending,     \* walk events that eventWalk does not name
                  cancelNextWalk : BOOLEAN,
                  delayed : BOOLEAN,        \* the last step is not over
                  movementBlocked : BOOLEAN, still : BOOLEAN, \* getSpeed() <= 0
                  followCreature : BOOLEAN,
                  walkTask : Task, walkTaskEvent : Task, actionTaskEvent : Task,
                  tired : BOOLEAN]          \* nextAction is to come
    /\ autoWalks \in 0..MaxPending /\ errands \in 0..MaxAsked
    /\ hindered \in BOOLEAN /\ raced \in BOOLEAN

ErrandsInit ==
    /\ mover = [listWalkDir |-> 0, eventWalk |-> "none", others |-> 0,
                cancelNextWalk |-> FALSE, delayed |-> FALSE,
                movementBlocked |-> FALSE, still |-> FALSE, followCreature |-> FALSE,
                walkTask |-> None, walkTaskEvent |-> None, actionTaskEvent |-> None,
                tired |-> FALSE]
    /\ autoWalks = 0 /\ errands = 0 /\ hindered = FALSE /\ raced = FALSE

-----------------------------------------------------------------------------
(* What the methods make of a mover.                                       *)

\* setNextWalkActionTask
WalkActionTask(m, t) == [m EXCEPT !.walkTaskEvent = None, !.walkTask = t]

\* setNextActionTask
ActionTask(m, t) == [m EXCEPT !.actionTaskEvent = t]

\* stopEventWalk: an event that has expired is only forgotten.
EventStopped(m) ==
    [m EXCEPT !.eventWalk = "none",
              !.others = IF m.eventWalk = "expired" THEN @ + 1 ELSE @]

WalkAborted(m) == WalkActionTask([m EXCEPT !.listWalkDir = 0], None)

WalkComplete(m) ==
    IF m.walkTask = None THEN m
    ELSE [m EXCEPT !.walkTaskEvent = m.walkTask, !.walkTask = None]

\* The first half of onWalk: the next step is taken, if the last one is over; or
\* there is none.
SteppedForgetful(m, outcome) ==
    IF m.delayed THEN m
    ELSE IF m.listWalkDir = 0 THEN EventStopped(m)
    ELSE LET n == [ActionTask(m, None) EXCEPT !.listWalkDir = @ - 1, !.tired = TRUE,
                                              !.delayed = outcome # "fails"]
         IN  IF outcome = "teleports" THEN EventStopped(n) ELSE n

Stepped(m, outcome) ==
    IF m.delayed THEN m
    ELSE IF m.listWalkDir = 0 THEN WalkComplete(EventStopped(m))
    ELSE LET n == [ActionTask(m, None) EXCEPT !.listWalkDir = @ - 1, !.tired = TRUE,
                                              !.delayed = outcome # "fails"]
         IN  IF outcome = "teleports" THEN EventStopped(n) ELSE n

\* addEventWalk: the first step is taken at once (checkCreatureWalk).
EventAdded(m, firstStep, outcome) ==
    LET n == [m EXCEPT !.cancelNextWalk = FALSE] IN
    IF n.still \/ n.eventWalk # "none" THEN n
    ELSE [(IF firstStep /\ ~n.delayed THEN Stepped(n, outcome) ELSE n)
              EXCEPT !.eventWalk = "waiting"]

\* onWalk, of an event that eventWalk names ("running") or of another.
Walked(m, outcome) ==
    LET n == Stepped(m, outcome)
        c == IF n.cancelNextWalk THEN [WalkAborted(n) EXCEPT !.cancelNextWalk = FALSE] ELSE n
    IN  IF c.eventWalk = "none" THEN c
        ELSE EventAdded([c EXCEPT !.eventWalk = "none",
                                  !.others = IF c.eventWalk = "running" THEN @ ELSE @ + 1],
                        FALSE, outcome)

\* startAutoWalk, along a list of n steps.
AutoWalked(m, n, outcome) ==
    IF m.movementBlocked THEN m
    ELSE EventAdded([m EXCEPT !.listWalkDir = n], n = 1, outcome)

-----------------------------------------------------------------------------
Asks == errands < MaxAsked /\ errands' = errands + 1

\* The mover is n after this; something on the way to an errand kept it from
\* walking, if so.
MoverIs(n, kept) ==
    /\ n.others <= MaxPending
    /\ mover' = n
    /\ hindered' = (n.walkTask # None /\ (hindered \/ kept))

CannotWalk(m) == m.movementBlocked \/ m.still

\* An errand, asked for or put off before, whose task is t.  Far from its place
\* the player is sent there, if there is a way; tired, he rests first.
Carry(m, t, near, way) ==
    LET far == ~near /\ (t = "rest first" => ~m.tired)
        rests == m.tired /\ (t = "rest first" \/ (t = "distance first" /\ near))
        done == IF t = "distance only" THEN m ELSE [m EXCEPT !.actionTaskEvent = None]
        before == IF t = "rest first" THEN done ELSE m
    IN  IF far THEN
          /\ way => autoWalks < MaxPending
          /\ mover' = IF way THEN WalkActionTask(before, t) ELSE before
          /\ autoWalks' = IF way THEN autoWalks + 1 ELSE autoWalks
          /\ hindered' = (hindered /\ ~way)
        ELSE /\ UNCHANGED <<autoWalks, hindered>>
             /\ mover' = IF rests THEN ActionTask(m, t)
                         ELSE [done EXCEPT !.tired = (t = "distance first") \/ @]

AskFor(t) ==
    /\ Asks
    /\ \E near, way \in BOOLEAN : Carry(mover, t, near, way)
    /\ UNCHANGED raced

\* What a player asks for.
UseItem == AskFor("distance first")
UseItemEx == AskFor("distance first")
UseWithCreature == AskFor("distance first")
MoveAnItem == AskFor("rest first")
MoveCreature == AskFor("rest first")
RotateItem == AskFor("distance only")
WrapItem == AskFor("distance only")
BrowseField == AskFor("distance only")
RequestTrade == AskFor("distance only")

\* playerMoveThing, of a creature next to the player: after a second.
MoveNeighbour ==
    /\ Asks /\ mover' = ActionTask(mover, "rest first")
    /\ UNCHANGED <<autoWalks, hindered, raced>>

\* The task is carried out: after the walk, or after the rest.
WalkTaskRuns ==
    /\ mover.walkTaskEvent # None
    /\ \E near, way \in BOOLEAN :
          Carry([mover EXCEPT !.walkTaskEvent = None], mover.walkTaskEvent, near, way)
    /\ UNCHANGED <<errands, raced>>

ActionTaskRuns ==
    /\ mover.actionTaskEvent # None
    /\ \E near, way \in BOOLEAN :
          Carry([mover EXCEPT !.actionTaskEvent = None], mover.actionTaskEvent, near, way)
    /\ UNCHANGED <<errands, raced>>

-----------------------------------------------------------------------------
(* Walking.                                                                *)

\* playerAutoWalk, of an errand or of the player's own accord: n steps.
AutoWalk(n, outcome) ==
    /\ MoverIs(AutoWalked(mover, n, outcome), CannotWalk(mover) \/ outcome = "teleports")
    /\ UNCHANGED raced

AutoWalkTask ==
    /\ autoWalks > 0 /\ autoWalks' = autoWalks - 1
    /\ \E n \in 1..MaxWay, outcome \in Outcome : AutoWalk(n, outcome)
    /\ UNCHANGED errands

PlayerAutoWalk ==
    /\ Asks /\ \E n \in 1..MaxWay, outcome \in Outcome : AutoWalk(n, outcome)
    /\ UNCHANGED autoWalks

\* playerMove, in one direction.
PlayerMove ==
    /\ Asks /\ ~mover.movementBlocked
    /\ \E outcome \in Outcome :
          MoverIs(AutoWalked(WalkActionTask(mover, None), 1, outcome), FALSE)
    /\ UNCHANGED <<autoWalks, raced>>

\* playerStopAutoWalk: the player stops after the next step, if he walks.
StopAutoWalk ==
    /\ Asks /\ mover' = [mover EXCEPT !.cancelNextWalk = TRUE]
    /\ UNCHANGED <<autoWalks, hindered, raced>>

WalkExpires ==
    /\ mover.eventWalk = "waiting"
    /\ mover' = [mover EXCEPT !.eventWalk = "expired"]
    /\ UNCHANGED <<autoWalks, errands, hindered, raced>>

\* checkCreatureWalk
CheckWalk ==
    /\ mover.eventWalk = "expired"
    /\ \E outcome \in Outcome :
          MoverIs(Walked([mover EXCEPT !.eventWalk = "running"], outcome), outcome = "teleports")
    /\ UNCHANGED <<autoWalks, errands, raced>>

CheckStrayWalk ==
    /\ mover.others > 0
    /\ \E outcome \in Outcome :
          MoverIs(Walked([mover EXCEPT !.others = @ - 1], outcome), outcome = "teleports")
    /\ UNCHANGED <<autoWalks, errands, raced>>

RestOver ==
    /\ \/ mover.delayed /\ mover' = [mover EXCEPT !.delayed = FALSE]
       \/ mover.tired /\ mover' = [mover EXCEPT !.tired = FALSE]
    /\ UNCHANGED <<autoWalks, errands, hindered, raced>>

-----------------------------------------------------------------------------
(* Following, and what happens to the player.                              *)

\* setFollowCreature, of another creature than before.
Follow ==
    /\ Asks
    /\ mover' = [(IF mover.listWalkDir > 0 THEN WalkAborted(mover) ELSE mover)
                    EXCEPT !.followCreature = TRUE]
    /\ hindered' = (hindered /\ mover'.walkTask # None)
    /\ UNCHANGED <<autoWalks, raced>>

\* setFollowCreature(nullptr): onFollowCreature stops the walk.
Unfollow ==
    /\ Asks /\ mover' = [mover EXCEPT !.followCreature = FALSE, !.cancelNextWalk = TRUE]
    /\ UNCHANGED <<autoWalks, hindered, raced>>

\* goToFollowCreature: not while there is an errand to walk to.
GoToFollow(n) ==
    /\ mover.followCreature /\ mover.walkTask = None
    /\ \E outcome \in Outcome :
          MoverIs(IF n = 0 THEN [mover EXCEPT !.listWalkDir = 0]
                  ELSE AutoWalked([mover EXCEPT !.listWalkDir = n], n, outcome), FALSE)
    /\ UNCHANGED <<autoWalks, errands, raced>>

\* setMovementBlocked
BlockMovement(state) ==
    /\ Asks
    /\ mover' = [mover EXCEPT !.movementBlocked = state, !.cancelNextWalk = TRUE]
    /\ UNCHANGED <<autoWalks, hindered, raced>>

\* setSpeed, to nothing and back.
Slow ==
    /\ Asks /\ ~mover.still
    /\ MoverIs([EventStopped(mover) EXCEPT !.still = TRUE, !.cancelNextWalk = TRUE], TRUE)
    /\ raced' = (raced \/ mover.eventWalk = "expired")
    /\ UNCHANGED autoWalks

Quicken ==
    /\ Asks /\ mover.still
    /\ LET m == [mover EXCEPT !.still = FALSE] IN
       MoverIs(IF m.listWalkDir > 0 THEN EventAdded(m, FALSE, "moves") ELSE m, FALSE)
    /\ UNCHANGED <<autoWalks, raced>>

\* onCreatureMove, when somebody else teleports the player.
Teleport ==
    /\ Asks
    /\ MoverIs([EventStopped(mover) EXCEPT !.delayed = TRUE], TRUE)
    /\ raced' = (raced \/ mover.eventWalk = "expired")
    /\ UNCHANGED autoWalks

ErrandsNext ==
    \/ UseItem \/ UseItemEx \/ UseWithCreature \/ MoveAnItem \/ MoveCreature
    \/ RotateItem \/ WrapItem \/ BrowseField \/ RequestTrade \/ MoveNeighbour
    \/ WalkTaskRuns \/ ActionTaskRuns
    \/ AutoWalkTask \/ PlayerAutoWalk \/ PlayerMove \/ StopAutoWalk
    \/ WalkExpires \/ CheckWalk \/ CheckStrayWalk \/ RestOver
    \/ Follow \/ Unfollow \/ Slow \/ Quicken \/ Teleport
    \/ \E n \in 0..MaxWay : GoToFollow(n)
    \/ \E state \in BOOLEAN : BlockMovement(state)

ErrandsSpec == ErrandsInit /\ [][ErrandsNext]_errandVars

-----------------------------------------------------------------------------
(* Properties.                                                             *)

\* An errand that is to be done at the end of a walk (Player::walkTask) has a
\* walk before it: a walk event, or a task that starts one; it is stranded, and
\* with it following, only when the player could not walk when he set out, was
\* slowed to a halt or was teleported on the way.
ErrandIsWalkedTo ==
    mover.walkTask # None =>
        mover.eventWalk # "none" \/ autoWalks > 0 \/ hindered

\* There is one walk event at a time, however walks are started, stopped and
\* started again, but for one that had expired when it was stopped.
OneWalkEvent == mover.others > 0 => raced

\* The two at once.
ErrandsAttended == ErrandIsWalkedTo /\ OneWalkEvent

=============================================================================
