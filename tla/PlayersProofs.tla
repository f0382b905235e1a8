--------------------------- MODULE PlayersProofs ---------------------------
(***************************************************************************)
(* Proofs about the players in the game: the errands they walk to, the     *)
(* channels they hear, who is let in and stored by a server that is closed *)
(* or shut down, and what their fights leave of marks, for any number of   *)
(* players, parties, channels, steps, events, blows, tasks and failures.   *)
(***************************************************************************)
EXTENDS Errands, Chat, Server, Fights, FiniteSetTheorems, SequenceTheorems, TLAPS

-----------------------------------------------------------------------------
(* Errands.                                                                *)

\* A mover between the calls that make up a step: its walk event may be running,
\* and nothing limits those that it does not name.
Mover ==
    [listWalkDir : 0..MaxWay,
     eventWalk : {"none", "waiting", "expired", "running"},
     others : Nat,
     cancelNextWalk : BOOLEAN, delayed : BOOLEAN, movementBlocked : BOOLEAN,
     still : BOOLEAN, followCreature : BOOLEAN,
     walkTask : Task, walkTaskEvent : Task, actionTaskEvent : Task,
     tired : BOOLEAN]

\* Who cannot move has no walk event: setSpeed stops it.
StillIsStopped == mover.still => mover.eventWalk = "none"

ErrandsInv == ErrandsTypeOK /\ ErrandsAttended /\ StillIsStopped

\* What two movers have in common that a step of the walk does not change.
Alike(m, n) ==
    /\ n.still = m.still /\ n.movementBlocked = m.movementBlocked
    /\ n.cancelNextWalk = m.cancelNextWalk
    /\ n.walkTask \in {m.walkTask, None}

LEMMA MaxWayIsNatural == MaxWay \in Nat /\ MaxPending \in Nat /\ MaxAsked \in Nat
  BY ErrandsAssumption

LEMMA StoppingTheEvent ==
  ASSUME NEW m \in Mover
  PROVE  /\ EventStopped(m) \in Mover /\ EventStopped(m).eventWalk = "none"
         /\ m.eventWalk # "expired" => EventStopped(m).others = m.others
         /\ Alike(m, EventStopped(m)) /\ EventStopped(m).walkTask = m.walkTask
<1>1. m.others \in Nat /\ m.others + 1 \in Nat
  BY DEF Mover
<1>2. PICK k \in Nat : /\ EventStopped(m) = [m EXCEPT !.eventWalk = "none", !.others = k]
                       /\ m.eventWalk # "expired" => k = m.others
  BY <1>1 DEF EventStopped
<1> QED
  BY <1>2 DEF Mover, Alike

LEMMA CompletingTheWalk ==
  ASSUME NEW m \in Mover
  PROVE  /\ WalkComplete(m) \in Mover /\ WalkComplete(m).eventWalk = m.eventWalk
         /\ WalkComplete(m).others = m.others /\ Alike(m, WalkComplete(m))
         /\ WalkComplete(m).walkTask = None
<1>1. CASE m.walkTask = None
  BY <1>1 DEF WalkComplete, Alike
<1>2. CASE m.walkTask # None
  <2>1. WalkComplete(m) = [m EXCEPT !.walkTaskEvent = m.walkTask, !.walkTask = None]
    BY <1>2 DEF WalkComplete
  <2>2. m.walkTask \in Task /\ None \in Task
    BY DEF Mover, Task
  <2>3. WalkComplete(m) \in Mover
    BY <2>1, <2>2 DEF Mover
  <2> QED
    BY <2>1, <2>3 DEF Mover, Alike
<1> QED
  BY <1>1, <1>2

LEMMA AbortingTheWalk ==
  ASSUME NEW m \in Mover
  PROVE  /\ WalkAborted(m) \in Mover /\ WalkAborted(m).eventWalk = m.eventWalk
         /\ WalkAborted(m).others = m.others /\ WalkAborted(m).still = m.still
         /\ WalkAborted(m).walkTask = None
<1> DEFINE b == [m EXCEPT !.listWalkDir = 0]
<1>1. 0 \in 0..MaxWay /\ None \in Task
  BY MaxWayIsNatural DEF Task
<1>2. b \in Mover /\ b.still = m.still /\ b.others = m.others /\ b.eventWalk = m.eventWalk
  BY <1>1 DEF Mover
<1>3. WalkAborted(m) = [b EXCEPT !.walkTaskEvent = None, !.walkTask = None]
  BY DEF WalkAborted, WalkActionTask
<1> HIDE DEF b
<1> QED
  BY <1>1, <1>2, <1>3 DEF Mover

\* The step that is taken while the list is not empty.
Taken(m, outcome) ==
    [ActionTask(m, None) EXCEPT !.listWalkDir = @ - 1, !.tired = TRUE,
                                !.delayed = outcome # "fails"]

LEMMA TakingAStep ==
  ASSUME NEW m \in Mover, NEW outcome \in Outcome, m.listWalkDir # 0
  PROVE  /\ Taken(m, outcome) \in Mover /\ Taken(m, outcome).eventWalk = m.eventWalk
         /\ Taken(m, outcome).others = m.others /\ Alike(m, Taken(m, outcome))
         /\ Taken(m, outcome).walkTask = m.walkTask
<1>1. m.listWalkDir - 1 \in 0..MaxWay
  BY MaxWayIsNatural DEF Mover
<1>2. (outcome # "fails") \in BOOLEAN
  OBVIOUS
<1> QED
  BY <1>1, <1>2 DEF Mover, Taken, ActionTask, Alike, Task

\* What onWalk's first half may do to the walk: it goes on, ends and with it the
\* walk task, or is broken off by a teleport.
LEMMA SteppingOn ==
  ASSUME NEW m \in Mover, NEW outcome \in Outcome
  PROVE  /\ Stepped(m, outcome) \in Mover /\ Alike(m, Stepped(m, outcome))
         /\ m.eventWalk # "expired" => Stepped(m, outcome).others = m.others
         /\ \/ Stepped(m, outcome).eventWalk = m.eventWalk
            \/ /\ Stepped(m, outcome).eventWalk = "none"
               /\ Stepped(m, outcome).walkTask = None \/ outcome = "teleports"
<1>1. CASE m.delayed
  BY <1>1 DEF Stepped, Alike
<1>2. CASE ~m.delayed /\ m.listWalkDir = 0
  <2>1. Stepped(m, outcome) = WalkComplete(EventStopped(m))
    BY <1>2 DEF Stepped
  <2> QED
    BY <2>1, StoppingTheEvent, CompletingTheWalk DEF Alike
<1>3. CASE ~m.delayed /\ m.listWalkDir # 0
  <2>1. Stepped(m, outcome) = IF outcome = "teleports" THEN EventStopped(Taken(m, outcome))
                              ELSE Taken(m, outcome)
    BY <1>3 DEF Stepped, Taken
  <2> QED
    BY <1>3, <2>1, StoppingTheEvent, TakingAStep DEF Alike
<1> QED
  BY <1>1, <1>2, <1>3

\* addEventWalk: there is a walk event after it, unless the mover cannot move.
LEMMA AddingTheEvent ==
  ASSUME NEW m \in Mover, NEW outcome \in Outcome, NEW firstStep \in BOOLEAN
  PROVE  LET n == EventAdded(m, firstStep, outcome) IN
         /\ n \in Mover /\ n.still = m.still /\ n.walkTask \in {m.walkTask, None}
         /\ n.others = m.others
         /\ n.eventWalk = IF ~m.still /\ m.eventWalk = "none" THEN "waiting"
                          ELSE m.eventWalk
<1> DEFINE r == [m EXCEPT !.cancelNextWalk = FALSE]
           b == IF firstStep /\ ~r.delayed THEN Stepped(r, outcome) ELSE r
<1>1. /\ r \in Mover /\ r.still = m.still /\ r.eventWalk = m.eventWalk
      /\ r.others = m.others /\ r.walkTask = m.walkTask
  BY DEF Mover
<1>2. EventAdded(m, firstStep, outcome) =
        IF r.still \/ r.eventWalk # "none" THEN r ELSE [b EXCEPT !.eventWalk = "waiting"]
  BY DEF EventAdded
<1> HIDE DEF r
<1>3. CASE r.still \/ r.eventWalk # "none"
  BY <1>1, <1>2, <1>3
<1>4. CASE ~r.still /\ r.eventWalk = "none"
  <2>1. /\ b \in Mover /\ b.still = m.still /\ b.others = m.others
        /\ b.walkTask \in {m.walkTask, None}
    BY <1>1, <1>4, SteppingOn DEF Alike
  <2> HIDE DEF b
  <2>2. LET n == [b EXCEPT !.eventWalk = "waiting"] IN
        /\ n \in Mover /\ n.still = b.still /\ n.others = b.others
        /\ n.walkTask = b.walkTask /\ n.eventWalk = "waiting"
    BY <2>1 DEF Mover
  <2> QED
    BY <1>1, <1>2, <1>4, <2>1, <2>2
<1> QED
  BY <1>3, <1>4

\* onWalk: the walk goes on, unless it has ended, or was broken off.
LEMMA Walking ==
  ASSUME NEW m \in Mover, NEW outcome \in Outcome
  PROVE  LET w == Walked(m, outcome) IN
         /\ w \in Mover /\ w.still = m.still /\ w.walkTask \in {m.walkTask, None}
         /\ m.eventWalk = "running" => w.others = m.others
         /\ \/ w.eventWalk = "waiting" /\ ~m.still
            \/ /\ w.eventWalk = "none"
               /\ m.still \/ m.eventWalk = "none" \/ w.walkTask = None \/ outcome = "teleports"
<1> DEFINE n == Stepped(m, outcome)
           a == [WalkAborted(n) EXCEPT !.cancelNextWalk = FALSE]
           c == IF n.cancelNextWalk THEN a ELSE n
           k == IF c.eventWalk = "running" THEN c.others ELSE c.others + 1
           r == [c EXCEPT !.eventWalk = "none", !.others = k]
<1>1. /\ n \in Mover /\ n.still = m.still /\ n.walkTask \in {m.walkTask, None}
      /\ m.eventWalk # "expired" => n.others = m.others
      /\ \/ n.eventWalk = m.eventWalk
         \/ n.eventWalk = "none" /\ (n.walkTask = None \/ outcome = "teleports")
  BY SteppingOn DEF Alike
<1> HIDE DEF n
<1>2. /\ a \in Mover /\ a.still = n.still /\ a.others = n.others
      /\ a.eventWalk = n.eventWalk /\ a.walkTask = None
  <2> DEFINE e == WalkAborted(n)
  <2>1. /\ e \in Mover /\ e.still = n.still /\ e.others = n.others
        /\ e.eventWalk = n.eventWalk /\ e.walkTask = None
    BY <1>1, AbortingTheWalk
  <2> HIDE DEF e
  <2>2. a = [e EXCEPT !.cancelNextWalk = FALSE]
    BY DEF e
  <2> HIDE DEF a
  <2> QED
    BY <2>1, <2>2 DEF Mover
<1> HIDE DEF a
<1>3. /\ c \in Mover /\ c.still = m.still /\ c.walkTask \in {m.walkTask, None}
      /\ c.others = n.others /\ c.eventWalk = n.eventWalk
      /\ c.walkTask = n.walkTask \/ c.walkTask = None
  BY <1>1, <1>2
<1>4. Walked(m, outcome) = IF c.eventWalk = "none" THEN c ELSE EventAdded(r, FALSE, outcome)
  BY DEF Walked, n, a
<1> HIDE DEF c
<1>5. CASE c.eventWalk = "none"
  BY <1>1, <1>3, <1>4, <1>5
<1>6. CASE c.eventWalk # "none"
  <2>1. k \in Nat /\ (c.eventWalk = "running" => k = c.others)
    BY <1>3 DEF Mover
  <2> HIDE DEF k
  <2>2. /\ r \in Mover /\ r.still = c.still /\ r.others = k /\ r.eventWalk = "none"
        /\ r.walkTask = c.walkTask
    BY <1>3, <2>1 DEF Mover
  <2> HIDE DEF r
  <2> DEFINE w == EventAdded(r, FALSE, outcome)
  <2>3. /\ w \in Mover /\ w.still = r.still /\ w.walkTask \in {r.walkTask, None}
        /\ w.others = r.others
        /\ w.eventWalk = IF ~r.still /\ r.eventWalk = "none" THEN "waiting" ELSE r.eventWalk
    BY <2>2, AddingTheEvent
  <2> HIDE DEF w
  <2>4. Walked(m, outcome) = w
    BY <1>4, <1>6 DEF w
  <2>5. w.eventWalk = IF m.still THEN "none" ELSE "waiting"
    BY <1>3, <2>2, <2>3
  <2>6. m.eventWalk = "running" => w.others = m.others
    BY <1>1, <1>3, <1>6, <2>1, <2>2, <2>3
  <2>7. w \in Mover /\ w.still = m.still /\ w.walkTask \in {m.walkTask, None}
    BY <1>3, <2>2, <2>3
  <2> QED
    BY <2>4, <2>5, <2>6, <2>7
<1> QED
  BY <1>5, <1>6

\* startAutoWalk: who can walk has a walk event after it.
LEMMA SettingOut ==
  ASSUME NEW m \in Mover, NEW n \in 1..MaxWay, NEW outcome \in Outcome
  PROVE  LET w == AutoWalked(m, n, outcome) IN
         /\ w \in Mover /\ w.still = m.still /\ w.walkTask \in {m.walkTask, None}
         /\ w.others = m.others
         /\ w.eventWalk = IF ~CannotWalk(m) /\ m.eventWalk = "none" THEN "waiting"
                          ELSE m.eventWalk
<1>1. CASE m.movementBlocked
  BY <1>1 DEF AutoWalked, CannotWalk
<1>2. CASE ~m.movementBlocked
  <2> DEFINE r == [m EXCEPT !.listWalkDir = n]
             w == EventAdded(r, n = 1, outcome)
  <2>1. /\ r \in Mover /\ r.still = m.still /\ r.others = m.others
        /\ r.walkTask = m.walkTask /\ r.eventWalk = m.eventWalk
    BY MaxWayIsNatural DEF Mover
  <2>2. AutoWalked(m, n, outcome) = w
    BY <1>2 DEF AutoWalked
  <2> HIDE DEF r
  <2>3. (n = 1) \in BOOLEAN
    OBVIOUS
  <2>4. /\ w \in Mover /\ w.still = r.still /\ w.walkTask \in {r.walkTask, None}
        /\ w.others = r.others
        /\ w.eventWalk = IF ~r.still /\ r.eventWalk = "none" THEN "waiting" ELSE r.eventWalk
    BY <2>1, <2>3, AddingTheEvent
  <2> HIDE DEF w
  <2> QED
    BY <1>2, <2>1, <2>2, <2>4 DEF CannotWalk
<1> QED
  BY <1>1, <1>2

\* The invariant, from what a step makes of each variable.
LEMMA ErrandsHold ==
  ASSUME mover' \in Mover, mover'.eventWalk # "running", mover'.others <= MaxPending,
         autoWalks' \in 0..MaxPending, errands' \in 0..MaxAsked,
         hindered' \in BOOLEAN, raced' \in BOOLEAN,
         mover'.walkTask # None => mover'.eventWalk # "none" \/ autoWalks' > 0 \/ hindered',
         mover'.others > 0 => raced',
         mover'.still => mover'.eventWalk = "none"
  PROVE  ErrandsInv'
<1>1. mover'.others \in 0..MaxPending /\ mover'.eventWalk \in {"none", "waiting", "expired"}
  BY MaxWayIsNatural DEF Mover
<1>2. ErrandsTypeOK'
  BY <1>1 DEF ErrandsTypeOK, Mover
<1>3. ErrandsAttended' /\ StillIsStopped'
  BY DEF ErrandsAttended, ErrandIsWalkedTo, OneWalkEvent, StillIsStopped
<1> QED
  BY <1>2, <1>3 DEF ErrandsInv

LEMMA ErrandsFacts ==
  ASSUME ErrandsInv
  PROVE  /\ mover \in Mover /\ mover.eventWalk \in {"none", "waiting", "expired"}
         /\ mover.others \in 0..MaxPending /\ autoWalks \in 0..MaxPending
         /\ errands \in 0..MaxAsked /\ hindered \in BOOLEAN /\ raced \in BOOLEAN
         /\ mover.walkTask # None => mover.eventWalk # "none" \/ autoWalks > 0 \/ hindered
         /\ mover.others > 0 => raced
         /\ mover.still => mover.eventWalk = "none"
<1>1. mover \in Mover
  BY MaxWayIsNatural DEF ErrandsInv, ErrandsTypeOK, Mover
<1> QED
  BY <1>1 DEF ErrandsInv, ErrandsTypeOK, ErrandsAttended, ErrandIsWalkedTo, OneWalkEvent,
              StillIsStopped

LEMMA AsksAreCounted ==
  ASSUME ErrandsInv, Asks \/ errands' = errands
  PROVE  errands' \in 0..MaxAsked
<1>1. errands \in 0..MaxAsked
  BY ErrandsFacts
<1>2. CASE Asks
  BY <1>1, <1>2, MaxWayIsNatural DEF Asks
<1>3. CASE errands' = errands
  BY <1>1, <1>3
<1> QED
  BY <1>2, <1>3

LEMMA MoverSettles ==
  ASSUME ErrandsInv, NEW n \in Mover, NEW kept \in BOOLEAN, MoverIs(n, kept),
         n.eventWalk # "running",
         autoWalks' \in 0..MaxPending, errands' \in 0..MaxAsked, raced' \in BOOLEAN,
         n.walkTask # None => n.eventWalk # "none" \/ autoWalks' > 0 \/ hindered \/ kept,
         n.others > 0 => raced',
         n.still => n.eventWalk = "none"
  PROVE  ErrandsInv'
<1>1. /\ mover' = n /\ n.others <= MaxPending
      /\ hindered' = (n.walkTask # None /\ (hindered \/ kept))
  BY DEF MoverIs
<1>2. hindered \in BOOLEAN
  BY ErrandsFacts
<1>3. hindered' \in BOOLEAN
  BY <1>1, <1>2
<1>4. n.walkTask # None => n.eventWalk # "none" \/ autoWalks' > 0 \/ hindered'
  BY <1>1
<1> QED
  BY <1>1, <1>3, <1>4, ErrandsHold

\* A step after which the same events are pending, or fewer.
LEMMA QuietKeeps ==
  ASSUME ErrandsInv, mover' \in Mover,
         mover'.eventWalk = mover.eventWalk, mover'.others = mover.others,
         mover'.still = mover.still, mover'.walkTask \in {mover.walkTask, None},
         autoWalks' = autoWalks, errands' \in 0..MaxAsked, raced' = raced,
         hindered' \in BOOLEAN, mover'.walkTask # None => hindered' = hindered
  PROVE  ErrandsInv'
<1>1. raced' \in BOOLEAN /\ autoWalks' \in 0..MaxPending
  BY ErrandsFacts
<1>2. /\ mover'.eventWalk # "running" /\ mover'.others <= MaxPending
      /\ mover'.others > 0 => raced'
      /\ mover'.still => mover'.eventWalk = "none"
  BY ErrandsFacts, MaxWayIsNatural
<1>3. mover'.walkTask # None => mover'.eventWalk # "none" \/ autoWalks' > 0 \/ hindered'
  BY ErrandsFacts
<1> QED
  BY <1>1, <1>2, <1>3, ErrandsHold

-----------------------------------------------------------------------------
(* The steps of errands.                                                   *)

\* A mover that has only forgotten an errand that is being carried out.
SameWalk(m) ==
    /\ m \in Mover /\ m.eventWalk = mover.eventWalk /\ m.others = mover.others
    /\ m.still = mover.still /\ m.walkTask = mover.walkTask

LEMMA CarryingKeeps ==
  ASSUME ErrandsInv, NEW m, SameWalk(m), NEW t \in Task,
         NEW near \in BOOLEAN, NEW way \in BOOLEAN, Carry(m, t, near, way),
         errands' \in 0..MaxAsked, raced' = raced
  PROVE  ErrandsInv'
<1> DEFINE far == ~near /\ (t = "rest first" => ~m.tired)
           rests == m.tired /\ (t = "rest first" \/ (t = "distance first" /\ near))
           done == IF t = "distance only" THEN m ELSE [m EXCEPT !.actionTaskEvent = None]
           before == IF t = "rest first" THEN done ELSE m
           last == [done EXCEPT !.tired = (t = "distance first") \/ @]
<1>0. None \in Task
  BY DEF Task
<1>1. SameWalk(done) /\ SameWalk(before)
  BY <1>0 DEF SameWalk, Mover
<1>2. SameWalk(ActionTask(m, t))
  BY DEF SameWalk, Mover, ActionTask
<1>3. SameWalk(last)
  <2> HIDE DEF done
  <2>1. ((t = "distance first") \/ done.tired) \in BOOLEAN
    BY <1>1 DEF SameWalk, Mover
  <2> QED
    BY <1>1, <2>1 DEF SameWalk, Mover
<1>4. /\ WalkActionTask(before, t) \in Mover
      /\ WalkActionTask(before, t).eventWalk = mover.eventWalk
      /\ WalkActionTask(before, t).others = mover.others
      /\ WalkActionTask(before, t).still = mover.still
  <2> HIDE DEF before
  <2> QED
    BY <1>0, <1>1 DEF SameWalk, Mover, WalkActionTask
<1>5. \/ /\ autoWalks' = autoWalks /\ hindered' = hindered
         /\ mover' \in {before, ActionTask(m, t), last}
      \/ /\ autoWalks < MaxPending /\ autoWalks' = autoWalks + 1 /\ hindered' = FALSE
         /\ mover' = WalkActionTask(before, t)
  <2>1. CASE far
    <3>1. CASE way
      BY <2>1, <3>1 DEF Carry
    <3>2. CASE ~way
      <4>1. hindered' = hindered
        BY <2>1, <3>2, ErrandsFacts DEF Carry
      <4> QED
        BY <2>1, <3>2, <4>1 DEF Carry
    <3> QED
      BY <3>1, <3>2
  <2>2. CASE ~far
    <3>1. autoWalks' = autoWalks /\ hindered' = hindered
      BY <2>2 DEF Carry
    <3>2. mover' = IF rests THEN ActionTask(m, t) ELSE last
      BY <2>2 DEF Carry
    <3> HIDE DEF rests, last, before, done, far
    <3> QED
      BY <3>1, <3>2
  <2> QED
    BY <2>1, <2>2
<1> HIDE DEF before, last, done
<1>6. CASE /\ autoWalks' = autoWalks /\ hindered' = hindered
           /\ mover' \in {before, ActionTask(m, t), last}
  <2>1. SameWalk(mover')
    BY <1>1, <1>2, <1>3, <1>6
  <2> QED
    BY <1>6, <2>1, ErrandsFacts, ErrandsHold DEF SameWalk
<1>7. CASE /\ autoWalks < MaxPending /\ autoWalks' = autoWalks + 1 /\ hindered' = FALSE
           /\ mover' = WalkActionTask(before, t)
  <2>1. autoWalks' \in 0..MaxPending /\ autoWalks' > 0 /\ hindered' \in BOOLEAN
    <3>1. autoWalks \in 0..MaxPending /\ autoWalks < MaxPending /\ autoWalks' = autoWalks + 1
      BY <1>7, ErrandsFacts
    <3>2. autoWalks' \in 0..MaxPending /\ autoWalks' > 0
      BY <3>1, MaxWayIsNatural
    <3>3. hindered' \in BOOLEAN
      BY <1>7
    <3> QED
      BY <3>2, <3>3
  <2> QED
    BY <1>4, <1>7, <2>1, ErrandsFacts, ErrandsHold
<1> QED
  BY <1>5, <1>6, <1>7

\* What a player asks for, and what was put off.
LEMMA AskingKeeps ==
  ASSUME ErrandsInv,
         \/ \E t \in Order : AskFor(t)
         \/ MoveNeighbour \/ WalkTaskRuns \/ ActionTaskRuns
  PROVE  ErrandsInv'
<1>1. /\ mover \in Mover /\ SameWalk(mover) /\ Order \subseteq Task /\ None \in Task
  BY ErrandsFacts DEF SameWalk, Task
<1>2. errands' \in 0..MaxAsked
  BY AsksAreCounted DEF AskFor, MoveNeighbour, WalkTaskRuns, ActionTaskRuns
<1>3. ASSUME NEW t \in Order, AskFor(t)
      PROVE  ErrandsInv'
  BY <1>1, <1>2, <1>3, CarryingKeeps DEF AskFor
<1>4. CASE MoveNeighbour
  <2>1. /\ mover' = [mover EXCEPT !.actionTaskEvent = "rest first"]
        /\ UNCHANGED <<autoWalks, hindered, raced>>
    BY <1>4 DEF MoveNeighbour, ActionTask
  <2>2. SameWalk(mover')
    <3>1. "rest first" \in Task
      BY DEF Task, Order
    <3> QED
      BY <1>1, <2>1, <3>1 DEF SameWalk, Mover
  <2>3. /\ mover' \in Mover /\ mover'.eventWalk = mover.eventWalk
        /\ mover'.others = mover.others /\ mover'.still = mover.still
        /\ mover'.walkTask = mover.walkTask
    BY <2>2 DEF SameWalk
  <2>4. hindered' \in BOOLEAN
    BY <2>1, ErrandsFacts
  <2> QED
    BY <1>2, <2>1, <2>3, <2>4, QuietKeeps
<1>5. CASE WalkTaskRuns
  <2> DEFINE m == [mover EXCEPT !.walkTaskEvent = None]
  <2>1. SameWalk(m) /\ mover.walkTaskEvent \in Task
    BY <1>1 DEF SameWalk, Mover
  <2>2. PICK near, way \in BOOLEAN : Carry(m, mover.walkTaskEvent, near, way)
    BY <1>5 DEF WalkTaskRuns
  <2>3. raced' = raced
    BY <1>5 DEF WalkTaskRuns
  <2> HIDE DEF m
  <2> QED
    BY <1>2, <2>1, <2>2, <2>3, CarryingKeeps
<1>6. CASE ActionTaskRuns
  <2> DEFINE m == [mover EXCEPT !.actionTaskEvent = None]
  <2>1. SameWalk(m) /\ mover.actionTaskEvent \in Task
    BY <1>1 DEF SameWalk, Mover
  <2>2. PICK near, way \in BOOLEAN : Carry(m, mover.actionTaskEvent, near, way)
    BY <1>6 DEF ActionTaskRuns
  <2>3. raced' = raced
    BY <1>6 DEF ActionTaskRuns
  <2> HIDE DEF m
  <2> QED
    BY <1>2, <2>1, <2>2, <2>3, CarryingKeeps
<1> QED
  BY <1>3, <1>4, <1>5, <1>6

\* The player sets out.
LEMMA SettingOutKeeps ==
  ASSUME ErrandsInv, AutoWalkTask \/ PlayerAutoWalk \/ PlayerMove
  PROVE  ErrandsInv'
<1>1. mover \in Mover /\ raced' = raced /\ raced' \in BOOLEAN
  BY ErrandsFacts DEF AutoWalkTask, PlayerAutoWalk, PlayerMove, AutoWalk
<1>2. autoWalks' \in 0..MaxPending /\ errands' \in 0..MaxAsked
  <2>1. errands' \in 0..MaxAsked
    BY AsksAreCounted DEF AutoWalkTask, PlayerAutoWalk, PlayerMove
  <2>2. autoWalks' = autoWalks \/ (autoWalks > 0 /\ autoWalks' = autoWalks - 1)
    BY DEF AutoWalkTask, PlayerAutoWalk, PlayerMove
  <2>3. autoWalks \in 0..MaxPending
    BY ErrandsFacts
  <2> QED
    BY <2>1, <2>2, <2>3, MaxWayIsNatural
<1>3. ASSUME NEW n \in 1..MaxWay, NEW outcome \in Outcome, AutoWalk(n, outcome)
      PROVE  ErrandsInv'
  <2> DEFINE w == AutoWalked(mover, n, outcome)
             kept == CannotWalk(mover) \/ outcome = "teleports"
  <2>1. MoverIs(w, kept) /\ kept \in BOOLEAN
    BY <1>3 DEF AutoWalk
  <2>2. /\ w \in Mover /\ w.still = mover.still /\ w.others = mover.others
        /\ w.eventWalk = IF ~CannotWalk(mover) /\ mover.eventWalk = "none" THEN "waiting"
                         ELSE mover.eventWalk
    BY <1>1, SettingOut
  <2> HIDE DEF w
  <2>3. w.eventWalk # "running" /\ (w.still => w.eventWalk = "none")
    BY <2>2, ErrandsFacts DEF CannotWalk
  <2>4. w.eventWalk # "none" \/ kept
    BY <2>2
  <2>5. w.others > 0 => raced'
    BY <1>1, <2>2, ErrandsFacts
  <2> HIDE DEF kept
  <2> QED
    BY <1>1, <1>2, <2>1, <2>2, <2>3, <2>4, <2>5, MoverSettles
<1>4. CASE PlayerMove
  <2> DEFINE m == WalkActionTask(mover, None)
  <2>1. PICK outcome \in Outcome : MoverIs(AutoWalked(m, 1, outcome), FALSE)
    BY <1>4 DEF PlayerMove
  <2>2. /\ m \in Mover /\ m.still = mover.still /\ m.others = mover.others
        /\ m.eventWalk = mover.eventWalk /\ m.walkTask = None
    BY <1>1 DEF WalkActionTask, Mover, Task
  <2> HIDE DEF m
  <2> DEFINE w == AutoWalked(m, 1, outcome)
  <2>3. 1 \in 1..MaxWay
    BY MaxWayIsNatural, ErrandsAssumption
  <2>4. /\ w \in Mover /\ w.still = m.still /\ w.others = m.others
        /\ w.walkTask \in {m.walkTask, None}
        /\ w.eventWalk = IF ~CannotWalk(m) /\ m.eventWalk = "none" THEN "waiting"
                         ELSE m.eventWalk
    BY <2>2, <2>3, SettingOut
  <2> HIDE DEF w
  <2>5. w.eventWalk # "running" /\ (w.still => w.eventWalk = "none") /\ w.walkTask = None
    BY <2>2, <2>4, ErrandsFacts DEF CannotWalk
  <2>6. w.others > 0 => raced'
    BY <1>1, <2>2, <2>4, ErrandsFacts
  <2>7. MoverIs(w, FALSE) /\ FALSE \in BOOLEAN
    BY <2>1 DEF w
  <2> QED
    BY <1>1, <1>2, <2>4, <2>5, <2>6, <2>7, MoverSettles
<1> QED
  BY <1>3, <1>4 DEF AutoWalkTask, PlayerAutoWalk

LEMMA WaitingKeeps ==
  ASSUME ErrandsInv,
         \/ StopAutoWalk \/ RestOver \/ Unfollow \/ Follow \/ WalkExpires
         \/ BlockMovement(TRUE) \/ BlockMovement(FALSE)
  PROVE  ErrandsInv'
<1>1. mover \in Mover /\ hindered \in BOOLEAN /\ raced \in BOOLEAN
  BY ErrandsFacts
<1>2. errands' \in 0..MaxAsked
  BY AsksAreCounted DEF StopAutoWalk, RestOver, Unfollow, Follow, WalkExpires, BlockMovement
<1>3. ASSUME NEW state \in BOOLEAN, StopAutoWalk \/ Unfollow \/ RestOver \/ BlockMovement(state)
      PROVE  ErrandsInv'
  <2>1. UNCHANGED <<autoWalks, hindered, raced>>
    BY <1>3 DEF StopAutoWalk, RestOver, Unfollow, BlockMovement
  <2>2. /\ mover' \in Mover
        /\ mover'.eventWalk = mover.eventWalk /\ mover'.others = mover.others
        /\ mover'.still = mover.still /\ mover'.walkTask = mover.walkTask
    <3>1. \/ mover' = [mover EXCEPT !.cancelNextWalk = TRUE]
          \/ mover' = [mover EXCEPT !.delayed = FALSE]
          \/ mover' = [mover EXCEPT !.tired = FALSE]
          \/ mover' = [mover EXCEPT !.followCreature = FALSE, !.cancelNextWalk = TRUE]
          \/ mover' = [mover EXCEPT !.movementBlocked = state, !.cancelNextWalk = TRUE]
      BY <1>3 DEF StopAutoWalk, RestOver, Unfollow, BlockMovement
    <3> QED
      BY <1>1, <3>1 DEF Mover
  <2> QED
    BY <1>1, <1>2, <2>1, <2>2, QuietKeeps
<1>4. CASE Follow
  <2> DEFINE m == IF mover.listWalkDir > 0 THEN WalkAborted(mover) ELSE mover
  <2>1. /\ mover' = [m EXCEPT !.followCreature = TRUE]
        /\ hindered' = (hindered /\ mover'.walkTask # None)
        /\ UNCHANGED <<autoWalks, raced>>
    BY <1>4 DEF Follow
  <2>2. /\ WalkAborted(mover) \in Mover
        /\ WalkAborted(mover).eventWalk = mover.eventWalk
        /\ WalkAborted(mover).others = mover.others
        /\ WalkAborted(mover).still = mover.still /\ WalkAborted(mover).walkTask = None
    BY <1>1, AbortingTheWalk
  <2>3. /\ m \in Mover /\ m.eventWalk = mover.eventWalk /\ m.others = mover.others
        /\ m.still = mover.still /\ m.walkTask \in {mover.walkTask, None}
    BY <1>1, <2>2
  <2> HIDE DEF m
  <2>4. /\ mover' \in Mover
        /\ mover'.eventWalk = mover.eventWalk /\ mover'.others = mover.others
        /\ mover'.still = mover.still /\ mover'.walkTask \in {mover.walkTask, None}
    BY <2>1, <2>3 DEF Mover
  <2>5. hindered' \in BOOLEAN /\ (mover'.walkTask # None => hindered' = hindered)
    BY <1>1, <2>1
  <2> QED
    BY <1>2, <2>1, <2>4, <2>5, QuietKeeps
<1>5. CASE WalkExpires
  <2>1. /\ mover.eventWalk = "waiting" /\ mover' = [mover EXCEPT !.eventWalk = "expired"]
        /\ UNCHANGED <<autoWalks, hindered, raced>>
    BY <1>5 DEF WalkExpires
  <2>2. /\ mover' \in Mover /\ mover'.eventWalk = "expired" /\ mover'.others = mover.others
        /\ mover'.still = mover.still
    BY <1>1, <2>1 DEF Mover
  <2>3. ~mover'.still /\ mover'.others <= MaxPending /\ (mover'.others > 0 => raced')
    BY <2>1, <2>2, ErrandsFacts, MaxWayIsNatural
  <2>4. autoWalks' \in 0..MaxPending /\ hindered' \in BOOLEAN /\ raced' \in BOOLEAN
    BY <2>1, ErrandsFacts
  <2> QED
    BY <1>2, <2>2, <2>3, <2>4, ErrandsHold
<1> QED
  BY <1>3, <1>4, <1>5

\* The walk event is due.
LEMMA CheckingKeeps ==
  ASSUME ErrandsInv, CheckWalk \/ CheckStrayWalk
  PROVE  ErrandsInv'
<1>1. mover \in Mover /\ UNCHANGED <<autoWalks, errands, raced>>
  BY ErrandsFacts DEF CheckWalk, CheckStrayWalk
<1>2. autoWalks' \in 0..MaxPending /\ errands' \in 0..MaxAsked /\ raced' \in BOOLEAN
  BY <1>1, ErrandsFacts
<1>3. CASE CheckWalk
  <2> DEFINE m == [mover EXCEPT !.eventWalk = "running"]
  <2>1. PICK outcome \in Outcome : MoverIs(Walked(m, outcome), outcome = "teleports")
    BY <1>3 DEF CheckWalk
  <2>2. /\ m \in Mover /\ m.eventWalk = "running" /\ m.others = mover.others
        /\ m.still = mover.still /\ mover.eventWalk = "expired"
    BY <1>1, <1>3 DEF Mover, CheckWalk
  <2> HIDE DEF m
  <2> DEFINE w == Walked(m, outcome)
             kept == outcome = "teleports"
  <2>3. /\ w \in Mover /\ w.still = m.still
        /\ m.eventWalk = "running" => w.others = m.others
        /\ \/ w.eventWalk = "waiting" /\ ~m.still
           \/ /\ w.eventWalk = "none"
              /\ m.still \/ m.eventWalk = "none" \/ w.walkTask = None \/ kept
    BY <2>2, Walking
  <2>4. MoverIs(w, kept) /\ kept \in BOOLEAN
    BY <2>1
  <2> HIDE DEF w, kept
  <2>5. ~mover.still
    BY <2>2, ErrandsFacts
  <2>6. w.eventWalk # "running" /\ (w.still => w.eventWalk = "none")
    BY <2>2, <2>3, <2>5
  <2>7. w.others > 0 => raced'
    BY <1>1, <2>2, <2>3, ErrandsFacts
  <2>8. w.walkTask # None => w.eventWalk # "none" \/ kept
    BY <2>2, <2>3, <2>5
  <2> QED
    BY <1>2, <2>3, <2>4, <2>6, <2>7, <2>8, MoverSettles
<1>4. CASE CheckStrayWalk
  <2> DEFINE m == [mover EXCEPT !.others = @ - 1]
  <2>1. PICK outcome \in Outcome : MoverIs(Walked(m, outcome), outcome = "teleports")
    BY <1>4 DEF CheckStrayWalk
  <2>2. /\ m \in Mover /\ m.eventWalk = mover.eventWalk /\ m.walkTask = mover.walkTask
        /\ m.still = mover.still
    <3>1. mover.others > 0 /\ mover.others \in Nat
      BY <1>1, <1>4 DEF Mover, CheckStrayWalk
    <3>2. mover.others - 1 \in Nat
      BY <3>1
    <3> QED
      BY <1>1, <3>2 DEF Mover
  <2> HIDE DEF m
  <2> DEFINE w == Walked(m, outcome)
             kept == outcome = "teleports"
  <2>3. /\ w \in Mover /\ w.still = m.still /\ w.walkTask \in {m.walkTask, None}
        /\ \/ w.eventWalk = "waiting" /\ ~m.still
           \/ /\ w.eventWalk = "none"
              /\ m.still \/ m.eventWalk = "none" \/ w.walkTask = None \/ kept
    BY <2>2, Walking
  <2>4. MoverIs(w, kept) /\ kept \in BOOLEAN
    BY <2>1
  <2> HIDE DEF w, kept
  <2>5. w.eventWalk # "running" /\ (w.still => w.eventWalk = "none")
    BY <2>2, <2>3
  <2>6. raced'
    BY <1>1, <1>4, ErrandsFacts DEF CheckStrayWalk
  <2>7. w.walkTask # None => w.eventWalk # "none" \/ autoWalks' > 0 \/ hindered \/ kept
    BY <1>1, <2>2, <2>3, ErrandsFacts
  <2> QED
    BY <1>2, <2>3, <2>4, <2>5, <2>6, <2>7, MoverSettles
<1> QED
  BY <1>3, <1>4

\* Somebody follows, is slowed or is sent elsewhere.
LEMMA HappeningsKeep ==
  ASSUME ErrandsInv,
         (\E n \in 0..MaxWay : GoToFollow(n)) \/ Slow \/ Quicken \/ Teleport
  PROVE  ErrandsInv'
<1>1. /\ mover \in Mover /\ autoWalks' = autoWalks /\ TRUE \in BOOLEAN /\ FALSE \in BOOLEAN
  BY ErrandsFacts DEF GoToFollow, Slow, Quicken, Teleport
<1>2. autoWalks' \in 0..MaxPending /\ errands' \in 0..MaxAsked
  BY <1>1, ErrandsFacts, AsksAreCounted DEF GoToFollow, Slow, Quicken, Teleport
<1>3. ASSUME NEW n \in 0..MaxWay, GoToFollow(n)
      PROVE  ErrandsInv'
  <2> DEFINE m == [mover EXCEPT !.listWalkDir = n]
             z == [mover EXCEPT !.listWalkDir = 0]
  <2>1. /\ mover.walkTask = None /\ raced' = raced /\ raced' \in BOOLEAN
    BY <1>3, ErrandsFacts DEF GoToFollow
  <2>2. PICK outcome \in Outcome :
           MoverIs(IF n = 0 THEN z ELSE AutoWalked(m, n, outcome), FALSE)
    BY <1>3 DEF GoToFollow
  <2>3. /\ z \in Mover /\ z.eventWalk = mover.eventWalk /\ z.others = mover.others
        /\ z.still = mover.still /\ z.walkTask = None
    BY <1>1, <2>1, MaxWayIsNatural DEF Mover
  <2>4. /\ m \in Mover /\ m.eventWalk = mover.eventWalk /\ m.others = mover.others
        /\ m.still = mover.still /\ m.walkTask = None
    BY <1>1, <2>1, MaxWayIsNatural DEF Mover
  <2> HIDE DEF m, z
  <2> DEFINE w == AutoWalked(m, n, outcome)
  <2>5. ASSUME n # 0
        PROVE  /\ w \in Mover /\ w.still = mover.still /\ w.others = mover.others
               /\ w.walkTask = None
               /\ w.eventWalk = IF ~CannotWalk(m) /\ m.eventWalk = "none" THEN "waiting"
                                ELSE m.eventWalk
    <3>1. n \in 1..MaxWay
      BY <2>5, MaxWayIsNatural
    <3> QED
      BY <2>4, <3>1, SettingOut
  <2> DEFINE v == IF n = 0 THEN z ELSE w
  <2>6. /\ v \in Mover /\ v.still = mover.still /\ v.others = mover.others
        /\ v.walkTask = None
        /\ v.eventWalk = mover.eventWalk \/ (v.eventWalk = "waiting" /\ ~mover.still)
    BY <2>3, <2>4, <2>5 DEF CannotWalk
  <2>7. MoverIs(v, FALSE)
    BY <2>2
  <2> HIDE DEF v
  <2>8. /\ v.eventWalk # "running" /\ (v.still => v.eventWalk = "none")
        /\ v.others > 0 => raced'
    BY <2>1, <2>6, ErrandsFacts
  <2> QED
    BY <1>1, <1>2, <2>1, <2>6, <2>7, <2>8, MoverSettles
<1>4. ASSUME Slow \/ Teleport
      PROVE  ErrandsInv'
  <2> DEFINE e == EventStopped(mover)
  <2>1. /\ e \in Mover /\ e.eventWalk = "none"
        /\ mover.eventWalk # "expired" => e.others = mover.others
    BY <1>1, StoppingTheEvent
  <2> HIDE DEF e
  <2>2. PICK n : /\ MoverIs(n, TRUE)
                 /\ \/ n = [e EXCEPT !.still = TRUE, !.cancelNextWalk = TRUE]
                    \/ n = [e EXCEPT !.delayed = TRUE]
    BY <1>4 DEF Slow, Teleport, e
  <2>3. n \in Mover /\ n.eventWalk = "none" /\ n.others = e.others
    BY <2>1, <2>2 DEF Mover
  <2>4. raced' = (raced \/ mover.eventWalk = "expired") /\ raced' \in BOOLEAN
    BY <1>4, ErrandsFacts DEF Slow, Teleport
  <2>5. n.others > 0 => raced'
    BY <2>1, <2>3, <2>4, ErrandsFacts
  <2> QED
    BY <1>1, <1>2, <2>2, <2>3, <2>4, <2>5, MoverSettles
<1>5. CASE Quicken
  <2> DEFINE m == [mover EXCEPT !.still = FALSE]
             w == EventAdded(m, FALSE, "moves")
             n == IF m.listWalkDir > 0 THEN w ELSE m
  <2>1. /\ m \in Mover /\ m.still = FALSE /\ m.others = mover.others
        /\ m.walkTask = mover.walkTask /\ m.eventWalk = mover.eventWalk
    BY <1>1 DEF Mover
  <2>2. MoverIs(n, FALSE) /\ raced' = raced
    BY <1>5 DEF Quicken
  <2> HIDE DEF m
  <2>3. "moves" \in Outcome
    BY DEF Outcome
  <2>4. /\ w \in Mover /\ w.still = m.still /\ w.walkTask \in {m.walkTask, None}
        /\ w.others = m.others
        /\ w.eventWalk = IF ~m.still /\ m.eventWalk = "none" THEN "waiting" ELSE m.eventWalk
    BY <1>1, <2>1, <2>3, AddingTheEvent
  <2> HIDE DEF w
  <2>5. /\ n \in Mover /\ n.still = FALSE /\ n.others = mover.others
        /\ n.walkTask \in {mover.walkTask, None}
        /\ n.eventWalk \in {mover.eventWalk, "waiting"}
    BY <2>1, <2>4
  <2> HIDE DEF n
  <2>6. n.eventWalk # "running" /\ (n.others > 0 => raced') /\ raced' \in BOOLEAN
    BY <2>2, <2>5, ErrandsFacts
  <2>7. n.walkTask # None => n.eventWalk # "none" \/ autoWalks' > 0 \/ hindered
    BY <1>1, <2>5, ErrandsFacts
  <2>8. ~n.still
    BY <2>5
  <2> QED
    BY <1>1, <1>2, <2>2, <2>5, <2>6, <2>7, <2>8, MoverSettles
<1> QED
  BY <1>3, <1>4, <1>5

LEMMA ErrandsKeep == ErrandsSpec => []ErrandsInv
<1>1. ErrandsInit => ErrandsInv
  <2> SUFFICES ASSUME ErrandsInit PROVE ErrandsInv
    OBVIOUS
  <2>1. 0 \in 0..MaxWay /\ 0 \in 0..MaxPending /\ 0 \in 0..MaxAsked /\ None \in Task
    BY MaxWayIsNatural DEF Task
  <2>2. ErrandsTypeOK
    BY <2>1 DEF ErrandsInit, ErrandsTypeOK
  <2>3. ErrandsAttended /\ StillIsStopped
    BY DEF ErrandsInit, ErrandsAttended, ErrandIsWalkedTo, OneWalkEvent, StillIsStopped
  <2> QED
    BY <2>2, <2>3 DEF ErrandsInv
<1>2. ErrandsInv /\ ErrandsNext => ErrandsInv'
  <2> SUFFICES ASSUME ErrandsInv, ErrandsNext PROVE ErrandsInv'
    OBVIOUS
  <2>1. CASE \/ UseItem \/ UseItemEx \/ UseWithCreature \/ MoveAnItem \/ MoveCreature
             \/ RotateItem \/ WrapItem \/ BrowseField \/ RequestTrade \/ MoveNeighbour
             \/ WalkTaskRuns \/ ActionTaskRuns
    BY <2>1, AskingKeeps DEF UseItem, UseItemEx, UseWithCreature, MoveAnItem, MoveCreature,
         RotateItem, WrapItem, BrowseField, RequestTrade, Order
  <2>2. CASE AutoWalkTask \/ PlayerAutoWalk \/ PlayerMove
    BY <2>2, SettingOutKeeps
  <2>3. CASE \/ StopAutoWalk \/ RestOver \/ Unfollow \/ Follow \/ WalkExpires
             \/ \E state \in BOOLEAN : BlockMovement(state)
    BY <2>3, WaitingKeeps
  <2>4. CASE CheckWalk \/ CheckStrayWalk
    BY <2>4, CheckingKeeps
  <2>5. CASE (\E n \in 0..MaxWay : GoToFollow(n)) \/ Slow \/ Quicken \/ Teleport
    BY <2>5, HappeningsKeep
  <2> QED
    BY <2>1, <2>2, <2>3, <2>4, <2>5 DEF ErrandsNext
<1>3. ErrandsInv /\ UNCHANGED errandVars => ErrandsInv'
  BY DEF ErrandsInv, ErrandsTypeOK, ErrandsAttended, ErrandIsWalkedTo, OneWalkEvent,
         StillIsStopped, errandVars
<1> QED
  BY <1>1, <1>2, <1>3, PTL DEF ErrandsSpec

-----------------------------------------------------------------------------
(* Channels.                                                               *)

Row == [here : BOOLEAN, group : Group \cup {None}, tabs : SUBSET ChannelId]
Key == {"normal"} \cup Group \cup Place

\* The parts of AllAreHere and PrivateIsPrivate, for one channel and one player each.
UsersAreHere == \A k \in Key, p \in Talker : p \in users[k] => talker[p].here
InvitedAreHere == \A i \in Place, p \in Talker : p \in invites[i] => talker[p].here
UsersAreInvited == \A i \in Place, p \in Talker : p \in users[i] => IsInvited(i, p)
UsersAreShown == \A i \in Place, p \in Talker : p \in users[i] <=> i \in talker[p].tabs
OwnersHear == \A i \in Place : owner[i] # None => owner[i] \in users[i]
FreeIsEmpty == \A i \in Place : owner[i] = None => invites[i] = {}
OwnsOne == \A i, j \in Place : owner[i] # None /\ owner[i] = owner[j] => i = j

PlacesInv ==
    UsersAreInvited /\ UsersAreShown /\ OwnersHear /\ FreeIsEmpty /\ OwnsOne

ChatInv == ChatTypeOK /\ UsersAreHere /\ InvitedAreHere /\ PlacesInv /\ PartyIsHeard

LEMMA ChannelsAreDistinct ==
  /\ "normal" \notin Place /\ "party" \notin Place /\ "normal" \notin Group
  /\ None \notin Place /\ None \notin Group /\ None \notin Talker
  /\ \A i \in Place : i \notin Group
  /\ MayOwn \subseteq Talker /\ MaxChats \in Nat
  BY ChatAssumption

LEMMA ChatFacts ==
  ASSUME ChatInv
  PROVE  /\ talker \in [Talker -> Row] /\ mayJoin \subseteq Talker
         /\ users \in [Key -> SUBSET Talker] /\ partyChannels \subseteq Group
         /\ owner \in [Place -> Talker \cup {None}] /\ invites \in [Place -> SUBSET Talker]
         /\ chats \in 0..MaxChats
  BY DEF ChatInv, ChatTypeOK, Row, Key

LEMMA ChatsAreCounted ==
  ASSUME ChatInv, Chats \/ chats' = chats
  PROVE  chats' \in 0..MaxChats
  BY ChatFacts, ChannelsAreDistinct DEF Chats

\* Each player owns one channel at most.
LEMMA OneChannelEach ==
  ASSUME OwnsOne, NEW p \in Talker
  PROVE  Cardinality(PrivateOf(p)) <= 1
<1>1. \A i, j \in PrivateOf(p) : i = j
  BY ChannelsAreDistinct DEF OwnsOne, PrivateOf
<1>2. CASE PrivateOf(p) = {}
  BY <1>2, FS_EmptySet
<1>3. CASE PrivateOf(p) # {}
  <2>1. PICK i : PrivateOf(p) = {i}
    BY <1>1, <1>3
  <2>2. Cardinality({i}) = 1
    BY FS_Singleton, Zenon
  <2> QED
    BY <2>1, <2>2
<1> QED
  BY <1>2, <1>3

LEMMA ChatAgrees == ChatInv => ChannelsAgree
<1> SUFFICES ASSUME ChatInv PROVE ChannelsAgree
  OBVIOUS
<1>1. ASSUME NEW i \in Place
      PROVE  /\ users[i] \subseteq {p \in Talker : IsInvited(i, p)}
             /\ users[i] = {p \in Talker : i \in talker[p].tabs}
             /\ owner[i] # None => owner[i] \in users[i]
             /\ owner[i] = None => invites[i] = {}
  <2>1. users[i] \subseteq Talker
    BY ChatFacts DEF Key
  <2> QED
    BY <2>1 DEF ChatInv, PlacesInv, UsersAreInvited, UsersAreShown, OwnersHear, FreeIsEmpty
<1>2. PrivateIsPrivate
  BY <1>1, OneChannelEach DEF PrivateIsPrivate, ChatInv, PlacesInv
<1>3. DOMAIN users = Key
  BY ChatFacts
<1>4. \A k \in DOMAIN users : \A p \in users[k] : Here(p)
  BY <1>3, ChatFacts DEF ChatInv, UsersAreHere, Here
<1>5. \A i \in Place : \A p \in invites[i] : Here(p)
  BY ChatFacts DEF ChatInv, InvitedAreHere, Here
<1> QED
  BY <1>2, <1>4, <1>5 DEF ChannelsAgree, AllAreHere, ChatInv

\* Steps that give nobody a channel and take none away.
LEMMA PlacesStay ==
  ASSUME ChatInv, UNCHANGED <<owner, invites>>, \A i \in Place : users'[i] = users[i],
         \A p \in Talker, i \in Place : i \in talker'[p].tabs <=> i \in talker[p].tabs
  PROVE  PlacesInv'
<1>1. UsersAreInvited' /\ OwnersHear' /\ FreeIsEmpty' /\ OwnsOne'
  BY DEF ChatInv, PlacesInv, UsersAreInvited, OwnersHear, FreeIsEmpty, OwnsOne, IsInvited
<1>2. UsersAreShown'
  BY DEF ChatInv, PlacesInv, UsersAreShown
<1> QED
  BY <1>1, <1>2 DEF PlacesInv

LEMMA PartiesKeep ==
  ASSUME ChatInv, NEW p \in Talker, NEW g,
         \/ LogIn(p) \/ ChangeRight(p) \/ RequestChannels(p) \/ LeaveGroup(p)
         \/ (g \in Group /\ EnterGroup(p, g)) \/ Disband(g)
  PROVE  ChatInv'
<1>0. /\ UNCHANGED <<users, owner, invites>>
      /\ talker \in [Talker -> Row] /\ users \in [Key -> SUBSET Talker]
  BY ChatFacts DEF LogIn, ChangeRight, RequestChannels, LeaveGroup, EnterGroup, Disband
<1>1. /\ mayJoin' \subseteq Talker /\ partyChannels' \subseteq Group /\ chats' \in 0..MaxChats
  <2>1. chats' \in 0..MaxChats
    BY ChatsAreCounted DEF LogIn, ChangeRight, RequestChannels, LeaveGroup, EnterGroup, Disband
  <2>2. mayJoin' \subseteq Talker
    BY ChatFacts DEF LogIn, ChangeRight, RequestChannels, LeaveGroup, EnterGroup, Disband
  <2>3. partyChannels' = partyChannels \/ (/\ talker[p].group \notin {None}
                                           /\ partyChannels' = partyChannels \cup {talker[p].group})
    BY DEF LogIn, ChangeRight, RequestChannels, LeaveGroup, EnterGroup, Disband
  <2>4. partyChannels' \subseteq Group
    BY <1>0, <2>3, ChatFacts DEF Row
  <2> QED
    BY <2>1, <2>2, <2>4
\* What becomes of each player.
<1>2. \A q \in Talker :
        /\ talker'[q] \in Row
        /\ talker[q].here => talker'[q].here
        /\ \A i \in Place : i \in talker'[q].tabs <=> i \in talker[q].tabs
        /\ "party" \in talker'[q].tabs =>
             "party" \in talker[q].tabs /\ talker'[q].group = talker[q].group
  <2>1. CASE LogIn(p)
    BY <1>0, <2>1 DEF LogIn, Row
  <2>2. CASE ChangeRight(p) \/ RequestChannels(p)
    BY <1>0, <2>2 DEF ChangeRight, RequestChannels
  <2>3. CASE LeaveGroup(p)
    BY <1>0, <2>3, ChannelsAreDistinct DEF LeaveGroup, Closed, Row
  <2>4. CASE g \in Group /\ EnterGroup(p, g)
    BY <1>0, <2>4 DEF EnterGroup, Row, ChatInv, PartyIsHeard
  <2>5. CASE Disband(g)
    BY <1>0, <2>5, ChannelsAreDistinct DEF Disband, Closed, Row, Members
  <2> QED
    BY <2>1, <2>2, <2>3, <2>4, <2>5
<1>3. talker' \in [Talker -> Row]
  <2>1. \E f : talker' = [q \in Talker |-> f[q]]
    BY <1>0 DEF LogIn, ChangeRight, RequestChannels, LeaveGroup, EnterGroup, Disband, Closed
  <2> QED
    BY <1>2, <2>1
<1>4. ChatTypeOK'
  <2>1. /\ users' \in [Key -> SUBSET Talker] /\ owner' \in [Place -> Talker \cup {None}]
        /\ invites' \in [Place -> SUBSET Talker]
    BY <1>0, ChatFacts
  <2> QED
    BY <1>1, <1>3, <2>1 DEF ChatTypeOK, Row, Key
<1>5. UsersAreHere' /\ InvitedAreHere'
  BY <1>0, <1>2 DEF ChatInv, UsersAreHere, InvitedAreHere
<1>6. PartyIsHeard'
  BY <1>0, <1>2 DEF ChatInv, PartyIsHeard
<1>7. PlacesInv'
  BY <1>0, <1>2, <1>3, PlacesStay
<1> QED
  BY <1>4, <1>5, <1>6, <1>7 DEF ChatInv

\* What is found for a client's channel.
LEMMA FindingTheChannel ==
  ASSUME ChatInv, NEW p \in Talker, NEW c \in ChannelId, ChannelOf(p, c) # None
  PROVE  /\ ChannelOf(p, c) \in Key
         /\ c \in Place => ChannelOf(p, c) = c /\ IsInvited(c, p)
         /\ ChannelOf(p, c) \in Place => ChannelOf(p, c) = c
         /\ ChannelOf(p, c) \in Group <=> c = "party"
         /\ c = "party" => ChannelOf(p, c) = talker[p].group
<1>1. partyChannels \subseteq Group
  BY ChatFacts
<1>2. CASE c = "normal"
  BY <1>2, ChannelsAreDistinct DEF ChannelOf, Key
<1>3. CASE c = "party"
  BY <1>1, <1>3, ChannelsAreDistinct DEF ChannelOf, Key
<1>4. CASE c \in Place
  BY <1>4, ChannelsAreDistinct DEF ChannelOf, Key
<1> QED
  BY <1>2, <1>3, <1>4 DEF ChannelId

LEMMA OpeningKeeps ==
  ASSUME ChatInv, NEW p \in Talker, NEW c \in ChannelId, OpenChannel(p, c)
  PROVE  ChatInv'
<1> DEFINE k == ChannelOf(p, c)
<1>1. /\ talker[p].here /\ k # None
      /\ users' = [users EXCEPT ![k] = @ \cup {p}] /\ talker' = Opened(talker, p, c)
      /\ UNCHANGED <<mayJoin, partyChannels, owner, invites>> /\ Chats
  BY DEF OpenChannel, Here
<1>2. /\ k \in Key /\ (c \in Place => k = c /\ IsInvited(c, p)) /\ (k \in Place => k = c)
      /\ c = "party" => k = talker[p].group
  BY <1>1, FindingTheChannel
<1>3. c = "party" => talker[p].group # None
  BY <1>1, <1>2
<1> HIDE DEF k
<1>4. /\ users' \in [Key -> SUBSET Talker]
      /\ \A j \in Key, q \in Talker : q \in users'[j] <=> q \in users[j] \/ (q = p /\ j = k)
  BY <1>1, <1>2, ChatFacts
<1>5. talker' \in [Talker -> Row]
  BY <1>1, ChatFacts DEF Opened, Row
<1>6. \A q \in Talker :
        /\ talker'[q].here = talker[q].here /\ talker'[q].group = talker[q].group
        /\ \A d \in ChannelId : d \in talker'[q].tabs <=> d \in talker[q].tabs \/ (q = p /\ d = c)
  BY <1>1, ChatFacts DEF Opened, Row
<1>7. ChatTypeOK'
  <2>1. chats' \in 0..MaxChats
    BY <1>1, ChatsAreCounted
  <2> QED
    BY <1>1, <1>4, <1>5, <2>1, ChatFacts DEF ChatTypeOK, Row, Key
<1>8. UsersAreHere' /\ InvitedAreHere'
  BY <1>1, <1>4, <1>6 DEF ChatInv, UsersAreHere, InvitedAreHere
<1>9. PlacesInv'
  <2>1. \A i \in Place : i \in Key /\ i \in ChannelId
    BY DEF Key, ChannelId
  <2>2. UsersAreInvited'
    BY <1>1, <1>2, <1>4, <2>1 DEF ChatInv, PlacesInv, UsersAreInvited, IsInvited
  <2>3. UsersAreShown'
    BY <1>2, <1>4, <1>6, <2>1 DEF ChatInv, PlacesInv, UsersAreShown
  <2>4. OwnersHear' /\ FreeIsEmpty' /\ OwnsOne'
    BY <1>1, <1>4, <2>1, ChatFacts, ChannelsAreDistinct
       DEF ChatInv, PlacesInv, OwnersHear, FreeIsEmpty, OwnsOne
  <2> QED
    BY <2>2, <2>3, <2>4 DEF PlacesInv
<1>10. PartyIsHeard'
  <2> SUFFICES ASSUME NEW q \in Talker, "party" \in talker'[q].tabs
               PROVE  talker'[q].group # None /\ q \in users'[talker'[q].group]
    BY DEF PartyIsHeard
  <2>1. "party" \in ChannelId
    BY DEF ChannelId
  <2>2. talker[q].group # None /\ (q \in users[talker[q].group] \/ (q = p /\ k = talker[q].group))
    BY <1>2, <1>3, <1>6, <2>1 DEF ChatInv, PartyIsHeard
  <2>3. talker[q].group \in Key
    BY <2>2, ChatFacts DEF Row, Key
  <2> QED
    BY <1>4, <1>6, <2>2, <2>3
<1> QED
  BY <1>7, <1>8, <1>9, <1>10 DEF ChatInv

LEMMA CreatingKeeps ==
  ASSUME ChatInv, NEW p \in Talker, CreatePrivateChannel(p)
  PROVE  ChatInv'
<1>1. PICK i \in Place :
         /\ owner[i] = None /\ owner' = [owner EXCEPT ![i] = p]
         /\ users' = [users EXCEPT ![i] = {p}] /\ talker' = Opened(talker, p, i)
  BY DEF CreatePrivateChannel
<1>2. /\ talker[p].here /\ PrivateOf(p) = {} /\ Chats
      /\ UNCHANGED <<mayJoin, partyChannels, invites>>
  BY DEF CreatePrivateChannel, Here
<1>3. /\ i \in Key /\ i # "party" /\ i \notin Group /\ invites[i] = {}
      /\ \A q \in Talker : q \notin users[i]
      /\ \A j \in Place : owner[j] # p /\ j \in Key
  BY <1>1, <1>2, ChannelsAreDistinct
     DEF ChatInv, PlacesInv, FreeIsEmpty, UsersAreInvited, IsInvited, PrivateOf, Key
<1>4. /\ users' \in [Key -> SUBSET Talker]
      /\ \A j \in Key, q \in Talker : q \in users'[j] <=> q \in users[j] \/ (q = p /\ j = i)
  BY <1>1, <1>3, ChatFacts
<1>5. talker' \in [Talker -> Row]
  BY <1>1, ChatFacts DEF Opened, Row, ChannelId
<1>6. \A q \in Talker :
        /\ talker'[q].here = talker[q].here /\ talker'[q].group = talker[q].group
        /\ \A d \in ChannelId : d \in talker'[q].tabs <=> d \in talker[q].tabs \/ (q = p /\ d = i)
  BY <1>1, ChatFacts DEF Opened, Row
<1>7. /\ owner' \in [Place -> Talker \cup {None}]
      /\ \A j \in Place : owner'[j] = IF j = i THEN p ELSE owner[j]
  BY <1>1, ChatFacts
<1>8. ChatTypeOK'
  <2>1. chats' \in 0..MaxChats
    BY <1>2, ChatsAreCounted
  <2> QED
    BY <1>2, <1>4, <1>5, <1>7, <2>1, ChatFacts DEF ChatTypeOK, Row, Key
<1>9. UsersAreHere' /\ InvitedAreHere'
  BY <1>2, <1>4, <1>6 DEF ChatInv, UsersAreHere, InvitedAreHere
<1>10. PlacesInv'
  <2>1. UsersAreInvited'
    BY <1>2, <1>3, <1>4, <1>7, ChannelsAreDistinct
       DEF ChatInv, PlacesInv, UsersAreInvited, IsInvited
  <2>2. UsersAreShown'
    BY <1>3, <1>4, <1>6 DEF ChatInv, PlacesInv, UsersAreShown, ChannelId
  <2>3. OwnersHear' /\ FreeIsEmpty'
    BY <1>2, <1>3, <1>4, <1>7, ChatFacts DEF ChatInv, PlacesInv, OwnersHear, FreeIsEmpty
  <2>4. OwnsOne'
    BY <1>3, <1>7 DEF ChatInv, PlacesInv, OwnsOne
  <2> QED
    BY <2>1, <2>2, <2>3, <2>4 DEF PlacesInv
<1>11. PartyIsHeard'
  <2>1. "party" \in ChannelId
    BY DEF ChannelId
  <2>2. \A q \in Talker : talker[q].group # None => talker[q].group \in Key
    BY ChatFacts DEF Row, Key
  <2> QED
    BY <1>3, <1>4, <1>6, <2>1, <2>2 DEF ChatInv, PartyIsHeard
<1> QED
  BY <1>8, <1>9, <1>10, <1>11 DEF ChatInv

LEMMA InvitingKeeps ==
  ASSUME ChatInv, NEW p \in Talker, NEW q \in Talker, ChannelInvite(p, q)
  PROVE  ChatInv'
<1>1. PICK i \in PrivateOf(p) : invites' = [invites EXCEPT ![i] = @ \cup {q}]
  BY DEF ChannelInvite
<1>2. /\ i \in Place /\ owner[i] # None /\ talker[q].here /\ Chats
      /\ UNCHANGED <<talker, mayJoin, users, partyChannels, owner>>
  BY <1>1, ChannelsAreDistinct DEF ChannelInvite, PrivateOf, Here
<1>3. /\ invites' \in [Place -> SUBSET Talker]
      /\ \A j \in Place, r \in Talker : r \in invites'[j] <=> r \in invites[j] \/ (r = q /\ j = i)
      /\ \A j \in Place : j # i => invites'[j] = invites[j]
  BY <1>1, <1>2, ChatFacts
<1>4. ChatTypeOK'
  <2>1. chats' \in 0..MaxChats
    BY <1>2, ChatsAreCounted
  <2> QED
    BY <1>2, <1>3, <2>1, ChatFacts DEF ChatTypeOK, Row, Key
<1>5. UsersAreHere' /\ InvitedAreHere'
  BY <1>2, <1>3 DEF ChatInv, UsersAreHere, InvitedAreHere
<1>6. PlacesInv'
  <2>1. UsersAreInvited'
    <3>1. \A j \in Place : invites[j] \subseteq invites'[j]
      BY <1>3, ChatFacts
    <3> QED
      BY <1>2, <3>1 DEF ChatInv, PlacesInv, UsersAreInvited, IsInvited
  <2>2. UsersAreShown' /\ OwnersHear' /\ OwnsOne'
    BY <1>2 DEF ChatInv, PlacesInv, UsersAreShown, OwnersHear, OwnsOne
  <2>3. FreeIsEmpty'
    BY <1>2, <1>3 DEF ChatInv, PlacesInv, FreeIsEmpty
  <2> QED
    BY <2>1, <2>2, <2>3 DEF PlacesInv
<1>7. PartyIsHeard'
  BY <1>2 DEF ChatInv, PartyIsHeard
<1> QED
  BY <1>4, <1>5, <1>6, <1>7 DEF ChatInv

LEMMA ExcludingKeeps ==
  ASSUME ChatInv, NEW p \in Talker, NEW q \in Talker, ChannelExclude(p, q)
  PROVE  ChatInv'
<1>1. PICK i \in PrivateOf(p) :
         /\ invites' = [invites EXCEPT ![i] = @ \ {q}]
         /\ users' = [users EXCEPT ![i] = @ \ {q}] /\ talker' = Closed(talker, {q}, i)
  BY DEF ChannelExclude
<1>2. /\ i \in Place /\ owner[i] = p /\ p # q /\ i \in Key /\ i # "party" /\ i \notin Group
      /\ Chats /\ UNCHANGED <<mayJoin, partyChannels, owner>>
  BY <1>1, ChannelsAreDistinct DEF ChannelExclude, PrivateOf, Key
<1>3. /\ invites' \in [Place -> SUBSET Talker]
      /\ \A j \in Place, r \in Talker :
           r \in invites'[j] <=> r \in invites[j] /\ ~(r = q /\ j = i)
  BY <1>1, <1>2, ChatFacts
<1>4. /\ users' \in [Key -> SUBSET Talker]
      /\ \A k \in Key, r \in Talker : r \in users'[k] <=> r \in users[k] /\ ~(r = q /\ k = i)
  BY <1>1, <1>2, ChatFacts
<1>5. \A r \in Talker :
        /\ talker'[r] \in Row
        /\ talker'[r].here = talker[r].here /\ talker'[r].group = talker[r].group
        /\ \A d \in ChannelId : d \in talker'[r].tabs <=> d \in talker[r].tabs /\ ~(r = q /\ d = i)
  BY <1>1, ChatFacts DEF Closed, Row
<1>6. talker' \in [Talker -> Row]
  BY <1>1, <1>5 DEF Closed
<1>7. ChatTypeOK'
  <2>1. chats' \in 0..MaxChats
    BY <1>2, ChatsAreCounted
  <2> QED
    BY <1>2, <1>3, <1>4, <1>6, <2>1, ChatFacts DEF ChatTypeOK, Row, Key
<1>8. UsersAreHere' /\ InvitedAreHere'
  BY <1>3, <1>4, <1>5 DEF ChatInv, UsersAreHere, InvitedAreHere
<1>9. PlacesInv'
  <2>1. \A j \in Place : j \in Key /\ j \in ChannelId
    BY DEF Key, ChannelId
  <2>2. UsersAreInvited'
    BY <1>2, <1>3, <1>4, <2>1 DEF ChatInv, PlacesInv, UsersAreInvited, IsInvited
  <2>3. UsersAreShown'
    BY <1>4, <1>5, <2>1 DEF ChatInv, PlacesInv, UsersAreShown
  <2>4. OwnersHear' /\ OwnsOne'
    BY <1>2, <1>4, <2>1, ChatFacts DEF ChatInv, PlacesInv, OwnersHear, OwnsOne
  <2>5. FreeIsEmpty'
    BY <1>2, <1>3, ChatFacts DEF ChatInv, PlacesInv, FreeIsEmpty
  <2> QED
    BY <2>2, <2>3, <2>4, <2>5 DEF PlacesInv
<1>10. PartyIsHeard'
  <2>1. "party" \in ChannelId
    BY DEF ChannelId
  <2>2. \A r \in Talker : talker[r].group # None => talker[r].group \in Key
    BY ChatFacts DEF Row, Key
  <2>3. \A r \in Talker : talker[r].group # i
    BY <1>2, ChatFacts, ChannelsAreDistinct DEF Row
  <2> QED
    BY <1>4, <1>5, <2>1, <2>2, <2>3 DEF ChatInv, PartyIsHeard
<1> QED
  BY <1>7, <1>8, <1>9, <1>10 DEF ChatInv

\* The client has closed the tab of a channel that hears him.
LEMMA LeavingKeeps ==
  ASSUME ChatInv, NEW p \in Talker, NEW c \in ChannelId, CloseChannel(p, c),
         ChannelOf(p, c) # None, p \in users[ChannelOf(p, c)]
  PROVE  ChatInv'
<1> DEFINE k == ChannelOf(p, c)
           I == {k} \cap PrivateOf(p)
           t == Closed(talker, {p}, c)
           u == [users EXCEPT ![k] = @ \ {p}]
<1>1. /\ DeletedChannels(t, u, I) /\ UNCHANGED <<chats, mayJoin, partyChannels>>
      /\ invites' = [i \in Place |-> IF i \in I THEN {} ELSE invites[i]]
  BY DEF CloseChannel
<1>2. /\ k \in Key /\ (c \in Place => k = c) /\ (k \in Place => k = c)
      /\ (k \in Group => c = "party")
  BY FindingTheChannel
<1>3. \A i : i \in I <=> i = k /\ i \in Place /\ owner[i] = p
  BY DEF PrivateOf
<1> HIDE DEF k, I
<1>4. /\ u \in [Key -> SUBSET Talker]
      /\ \A j \in Key, q \in Talker : q \in u[j] <=> q \in users[j] /\ ~(q = p /\ j = k)
  BY <1>2, ChatFacts
<1>5. /\ DOMAIN t = Talker
      /\ \A q \in Talker :
        /\ t[q] \in Row /\ t[q].here = talker[q].here /\ t[q].group = talker[q].group
        /\ \A d \in ChannelId : d \in t[q].tabs <=> d \in talker[q].tabs /\ ~(q = p /\ d = c)
  BY ChatFacts DEF Closed, Row
<1> HIDE DEF t, u
<1>6. /\ users' \in [Key -> SUBSET Talker]
      /\ \A j \in Key, q \in Talker : q \in users'[j] <=> q \in u[j] /\ j \notin I
  BY <1>1, <1>4 DEF DeletedChannels
<1>7. /\ talker' \in [Talker -> Row]
      /\ \A q \in Talker :
           /\ talker'[q].here = t[q].here /\ talker'[q].group = t[q].group
           /\ \A d \in ChannelId : d \in talker'[q].tabs <=> d \in t[q].tabs /\ ~(d \in I /\ q \in u[d])
  <2>1. talker' = [q \in Talker |-> [t[q] EXCEPT !.tabs = @ \ {i \in I : q \in u[i]}]]
    BY <1>1 DEF DeletedChannels
  <2> QED
    BY <1>5, <2>1 DEF Row
<1>8. /\ owner' \in [Place -> Talker \cup {None}] /\ invites' \in [Place -> SUBSET Talker]
      /\ \A i \in Place : /\ owner'[i] = IF i \in I THEN None ELSE owner[i]
                          /\ invites'[i] = IF i \in I THEN {} ELSE invites[i]
  BY <1>1, ChatFacts DEF DeletedChannels
<1>9. ChatTypeOK'
  BY <1>1, <1>6, <1>7, <1>8, ChatFacts DEF ChatTypeOK, Row, Key
<1>10. UsersAreHere' /\ InvitedAreHere'
  <2>1. \A q \in Talker : talker'[q].here = talker[q].here
    BY <1>5, <1>7
  <2>2. UsersAreHere'
    BY <1>4, <1>6, <2>1 DEF ChatInv, UsersAreHere
  <2>3. InvitedAreHere'
    BY <1>8, <2>1 DEF ChatInv, InvitedAreHere
  <2> QED
    BY <2>2, <2>3
<1>11. PlacesInv'
  <2>1. \A i \in Place : i \in Key /\ i \in ChannelId
    BY DEF Key, ChannelId
  <2>2. UsersAreInvited'
    BY <1>4, <1>6, <1>8, <2>1 DEF ChatInv, PlacesInv, UsersAreInvited, IsInvited
  <2>3. UsersAreShown'
    <3> SUFFICES ASSUME NEW i \in Place, NEW q \in Talker
                 PROVE  q \in users'[i] <=> i \in talker'[q].tabs
      BY DEF UsersAreShown
    <3>1. q \in users[i] <=> i \in talker[q].tabs
      BY DEF ChatInv, PlacesInv, UsersAreShown
    <3>2. i = k <=> i = c
      BY <1>2
    <3>3. q \in u[i] <=> i \in t[q].tabs
      BY <1>4, <1>5, <2>1, <3>1, <3>2
    <3> QED
      BY <1>6, <1>7, <2>1, <3>3
  <2>4. OwnersHear' /\ FreeIsEmpty'
    BY <1>3, <1>4, <1>6, <1>8, <2>1, ChatFacts DEF ChatInv, PlacesInv, OwnersHear, FreeIsEmpty
  <2>5. OwnsOne'
    BY <1>8 DEF ChatInv, PlacesInv, OwnsOne
  <2> QED
    BY <2>2, <2>3, <2>4, <2>5 DEF PlacesInv
<1>12. PartyIsHeard'
  <2> SUFFICES ASSUME NEW q \in Talker, "party" \in talker'[q].tabs
               PROVE  talker'[q].group # None /\ q \in users'[talker'[q].group]
    BY DEF PartyIsHeard
  <2>1. "party" \in ChannelId
    BY DEF ChannelId
  <2>2. "party" \in talker[q].tabs /\ ~(q = p /\ c = "party")
    BY <1>5, <1>7, <2>1
  <2> DEFINE g == talker[q].group
  <2>3. g # None /\ q \in users[g] /\ talker'[q].group = g
    BY <1>5, <1>7, <2>2 DEF ChatInv, PartyIsHeard
  <2>4. g \in Group /\ g \in Key /\ g \notin Place
    BY <2>3, ChatFacts, ChannelsAreDistinct DEF Row, Key
  <2> HIDE DEF g
  <2>5. g \notin I /\ ~(q = p /\ g = k)
    BY <1>2, <1>3, <2>2, <2>4
  <2> QED
    BY <1>4, <1>6, <2>3, <2>4, <2>5
<1> QED
  BY <1>9, <1>10, <1>11, <1>12 DEF ChatInv

LEMMA ClosingKeeps ==
  ASSUME ChatInv, NEW p \in Talker, NEW c \in ChannelId, CloseChannel(p, c)
  PROVE  ChatInv'
<1> DEFINE k == ChannelOf(p, c)
<1>1. CASE k # None /\ p \in users[k]
  BY <1>1, LeavingKeeps
<1>2. CASE k = None \/ p \notin users[k]
  <2>1. /\ c \in talker[p].tabs /\ talker' = Closed(talker, {p}, c)
        /\ UNCHANGED <<chats, mayJoin, partyChannels, users, owner, invites>>
    BY <1>2 DEF CloseChannel
  <2>2. c \notin Place
    <3> SUFFICES ASSUME c \in Place PROVE FALSE
      OBVIOUS
    <3>1. p \in users[c] /\ IsInvited(c, p)
      BY <2>1 DEF ChatInv, PlacesInv, UsersAreShown, UsersAreInvited
    <3>2. k = c
      BY <3>1, ChannelsAreDistinct DEF ChannelOf
    <3> QED
      BY <1>2, <3>1, <3>2, ChannelsAreDistinct
  <2>3. \A q \in Talker :
          /\ talker'[q] \in Row
          /\ talker'[q].here = talker[q].here /\ talker'[q].group = talker[q].group
          /\ \A d \in ChannelId :
               d \in talker'[q].tabs <=> d \in talker[q].tabs /\ ~(q = p /\ d = c)
    BY <2>1, ChatFacts DEF Closed, Row
  <2>4. talker' \in [Talker -> Row]
    BY <2>1, <2>3 DEF Closed
  <2>5. ChatTypeOK'
    BY <2>1, <2>4, ChatFacts DEF ChatTypeOK, Row, Key
  <2>6. UsersAreHere' /\ InvitedAreHere'
    BY <2>1, <2>3 DEF ChatInv, UsersAreHere, InvitedAreHere
  <2>7. PlacesInv'
    <3>1. \A q \in Talker, i \in Place : i \in talker'[q].tabs <=> i \in talker[q].tabs
      BY <2>2, <2>3 DEF ChannelId
    <3> QED
      BY <2>1, <3>1, PlacesStay
  <2>8. PartyIsHeard'
    <3>1. "party" \in ChannelId
      BY DEF ChannelId
    <3> QED
      BY <2>1, <2>3, <3>1 DEF ChatInv, PartyIsHeard
  <2> QED
    BY <2>5, <2>6, <2>7, <2>8 DEF ChatInv
<1> QED
  BY <1>1, <1>2

\* Who leaves the game or is taken over has no channel and no invitation any more.
LEMMA RemovingKeeps ==
  ASSUME ChatInv, NEW p \in Talker, NEW r \in Row, r.tabs = {},
         RemovedFromAll(p, r), Chats \/ chats' = chats
  PROVE  ChatInv'
<1> DEFINE I == PrivateOf(p)
           t == [talker EXCEPT ![p] = r]
           u == [j \in DOMAIN users |-> users[j] \ {p}]
<1>1. /\ DeletedChannels(t, u, I) /\ UNCHANGED <<mayJoin, partyChannels>>
      /\ invites' = [i \in Place |-> IF owner[i] = p THEN {} ELSE invites[i] \ {p}]
  BY DEF RemovedFromAll
<1>2. \A i : i \in I <=> i \in Place /\ owner[i] = p
  BY DEF PrivateOf
<1> HIDE DEF I
<1>3. /\ u \in [Key -> SUBSET Talker]
      /\ \A j \in Key, q \in Talker : q \in u[j] <=> q \in users[j] /\ q # p
  BY ChatFacts
<1>4. /\ t \in [Talker -> Row] /\ t[p] = r
      /\ \A q \in Talker : q # p => t[q] = talker[q]
  BY ChatFacts
<1> HIDE DEF t, u
<1>5. /\ users' \in [Key -> SUBSET Talker]
      /\ \A j \in Key, q \in Talker : q \in users'[j] <=> q \in u[j] /\ j \notin I
  BY <1>1, <1>3 DEF DeletedChannels
<1>6. /\ talker' \in [Talker -> Row]
      /\ \A q \in Talker :
           /\ talker'[q].here = t[q].here /\ talker'[q].group = t[q].group
           /\ \A d : d \in talker'[q].tabs <=> d \in t[q].tabs /\ ~(d \in I /\ q \in u[d])
  <2>1. talker' = [q \in Talker |-> [t[q] EXCEPT !.tabs = @ \ {i \in I : q \in u[i]}]]
    BY <1>1 DEF DeletedChannels
  <2> QED
    BY <1>4, <2>1 DEF Row
<1>7. /\ owner' \in [Place -> Talker \cup {None}] /\ invites' \in [Place -> SUBSET Talker]
      /\ \A i \in Place : /\ owner'[i] = IF i \in I THEN None ELSE owner[i]
                          /\ invites'[i] = IF i \in I THEN {} ELSE invites[i] \ {p}
  BY <1>1, <1>2, ChatFacts DEF DeletedChannels
<1>8. ChatTypeOK'
  <2>1. chats' \in 0..MaxChats
    BY ChatsAreCounted
  <2> QED
    BY <1>1, <1>5, <1>6, <1>7, <2>1, ChatFacts DEF ChatTypeOK, Row, Key
<1>9. UsersAreHere' /\ InvitedAreHere'
  <2>1. \A q \in Talker : q # p => talker'[q].here = talker[q].here
    BY <1>4, <1>6
  <2>2. UsersAreHere'
    BY <1>3, <1>5, <2>1 DEF ChatInv, UsersAreHere
  <2>3. \A i \in Place, q \in Talker : q \in invites'[i] => q \in invites[i] /\ q # p
    BY <1>2, <1>7
  <2>4. InvitedAreHere'
    BY <2>1, <2>3 DEF ChatInv, InvitedAreHere
  <2> QED
    BY <2>2, <2>4
<1>10. PlacesInv'
  <2>1. \A i \in Place : i \in Key
    BY DEF Key
  <2>2. UsersAreInvited'
    <3> SUFFICES ASSUME NEW i \in Place, NEW q \in Talker, q \in users'[i]
                 PROVE  IsInvited(i, q)'
      BY DEF UsersAreInvited
    <3>1. q \in users[i] /\ q # p /\ i \notin I
      BY <1>3, <1>5, <2>1
    <3>2. IsInvited(i, q)
      BY <3>1 DEF ChatInv, PlacesInv, UsersAreInvited
    <3> QED
      BY <1>7, <3>1, <3>2 DEF IsInvited
  <2>3. UsersAreShown'
    <3> SUFFICES ASSUME NEW i \in Place, NEW q \in Talker
                 PROVE  q \in users'[i] <=> i \in talker'[q].tabs
      BY DEF UsersAreShown
    <3>1. q \in u[i] <=> i \in t[q].tabs
      BY <1>3, <1>4, <2>1 DEF ChatInv, PlacesInv, UsersAreShown
    <3> QED
      BY <1>5, <1>6, <2>1, <3>1
  <2>4. OwnersHear'
    <3> SUFFICES ASSUME NEW i \in Place, owner'[i] # None PROVE owner'[i] \in users'[i]
      BY DEF OwnersHear
    <3>1. i \notin I /\ owner'[i] = owner[i] /\ owner[i] # p /\ owner[i] \in users[i]
      BY <1>2, <1>7 DEF ChatInv, PlacesInv, OwnersHear
    <3> QED
      BY <1>3, <1>5, <2>1, <3>1, ChatFacts
  <2>5. FreeIsEmpty' /\ OwnsOne'
    BY <1>7 DEF ChatInv, PlacesInv, FreeIsEmpty, OwnsOne
  <2> QED
    BY <2>2, <2>3, <2>4, <2>5 DEF PlacesInv
<1>11. PartyIsHeard'
  <2> SUFFICES ASSUME NEW q \in Talker, "party" \in talker'[q].tabs
               PROVE  talker'[q].group # None /\ q \in users'[talker'[q].group]
    BY DEF PartyIsHeard
  <2>1. "party" \in t[q].tabs
    BY <1>6
  <2>2. q # p /\ "party" \in talker[q].tabs
    BY <1>4, <2>1
  <2> DEFINE g == talker[q].group
  <2>3. g # None /\ q \in users[g] /\ talker'[q].group = g
    BY <1>4, <1>6, <2>2 DEF ChatInv, PartyIsHeard
  <2>4. g \in Key /\ g \notin I
    BY <1>2, <2>3, ChatFacts, ChannelsAreDistinct DEF Row, Key
  <2> HIDE DEF g
  <2> QED
    BY <1>3, <1>5, <2>2, <2>3, <2>4
<1> QED
  BY <1>8, <1>9, <1>10, <1>11 DEF ChatInv

LEMMA GoingKeeps ==
  ASSUME ChatInv, NEW p \in Talker, LogOut(p) \/ TakeOver(p)
  PROVE  ChatInv'
<1>1. CASE LogOut(p)
  <2>1. [here |-> FALSE, group |-> None, tabs |-> {}] \in Row
    BY DEF Row
  <2> QED
    BY <1>1, <2>1, RemovingKeeps DEF LogOut
<1>2. CASE TakeOver(p)
  <2>1. [talker[p] EXCEPT !.tabs = {}] \in Row /\ [talker[p] EXCEPT !.tabs = {}].tabs = {}
    BY ChatFacts DEF Row
  <2> QED
    BY <1>2, <2>1, RemovingKeeps DEF TakeOver
<1> QED
  BY <1>1, <1>2

LEMMA ReloadingKeeps ==
  ASSUME ChatInv, NEW S, Reload(S)
  PROVE  ChatInv'
<1>1. /\ UNCHANGED <<talker, mayJoin, partyChannels, owner, invites>> /\ Chats
      /\ users' = [users EXCEPT !["normal"] = @ \ S]
  BY DEF Reload
<1>2. /\ users' \in [Key -> SUBSET Talker]
      /\ \A j \in Key : users'[j] \subseteq users[j] /\ (j # "normal" => users'[j] = users[j])
  BY <1>1, ChatFacts
<1>3. ChatTypeOK'
  <2>1. chats' \in 0..MaxChats
    BY <1>1, ChatsAreCounted
  <2> QED
    BY <1>1, <1>2, <2>1, ChatFacts DEF ChatTypeOK, Row, Key
<1>4. UsersAreHere' /\ InvitedAreHere'
  BY <1>1, <1>2 DEF ChatInv, UsersAreHere, InvitedAreHere
<1>5. PlacesInv'
  <2>1. \A i \in Place : users'[i] = users[i]
    BY <1>2, ChannelsAreDistinct DEF Key
  <2> QED
    BY <1>1, <2>1, PlacesStay
<1>6. PartyIsHeard'
  <2>1. \A q \in Talker : talker[q].group # None =>
          talker[q].group \in Key /\ talker[q].group # "normal"
    BY ChatFacts, ChannelsAreDistinct DEF Row, Key
  <2> QED
    BY <1>1, <1>2, <2>1 DEF ChatInv, PartyIsHeard
<1> QED
  BY <1>3, <1>4, <1>5, <1>6 DEF ChatInv

LEMMA ChatKeeps == ChatSpec => []ChatInv
<1>1. ChatInit => ChatInv
  <2> SUFFICES ASSUME ChatInit PROVE ChatInv
    OBVIOUS
  <2>1. /\ talker \in [Talker -> Row]
        /\ \A p \in Talker : talker[p].tabs = {} /\ talker[p].here
    BY DEF ChatInit, Row
  <2>2. /\ users \in [Key -> SUBSET Talker] /\ \A k \in Key : users[k] = {}
        /\ owner \in [Place -> Talker \cup {None}] /\ \A i \in Place : owner[i] = None
        /\ invites \in [Place -> SUBSET Talker] /\ \A i \in Place : invites[i] = {}
    BY DEF ChatInit, Key
  <2>3. ChatTypeOK
    BY <2>1, <2>2, ChannelsAreDistinct DEF ChatInit, ChatTypeOK, Row, Key
  <2>4. PlacesInv
    <3>1. \A i \in Place : i \in Key
      BY DEF Key
    <3> QED
      BY <2>1, <2>2, <3>1 DEF PlacesInv, UsersAreInvited, UsersAreShown, OwnersHear,
           FreeIsEmpty, OwnsOne
  <2> QED
    BY <2>1, <2>2, <2>3, <2>4 DEF ChatInv, UsersAreHere, InvitedAreHere, PartyIsHeard
<1>2. ChatInv /\ ChatNext => ChatInv'
  <2> SUFFICES ASSUME ChatInv, ChatNext PROVE ChatInv'
    OBVIOUS
  <2>1. ASSUME NEW p \in Talker,
               \/ LogIn(p) \/ ChangeRight(p) \/ RequestChannels(p) \/ LeaveGroup(p)
               \/ \E g \in Group : EnterGroup(p, g)
        PROVE  ChatInv'
    <3>1. CASE LogIn(p) \/ ChangeRight(p) \/ RequestChannels(p) \/ LeaveGroup(p)
      BY <3>1, PartiesKeep
    <3>2. ASSUME NEW g \in Group, EnterGroup(p, g) PROVE ChatInv'
      BY <3>2, PartiesKeep
    <3> QED
      BY <2>1, <3>1, <3>2
  <2>2. ASSUME NEW p \in Talker,
               \/ LogOut(p) \/ TakeOver(p) \/ CreatePrivateChannel(p)
               \/ \E c \in ChannelId : OpenChannel(p, c) \/ CloseChannel(p, c)
               \/ \E q \in Talker : ChannelInvite(p, q) \/ ChannelExclude(p, q)
        PROVE  ChatInv'
    BY <2>2, GoingKeeps, CreatingKeeps, OpeningKeeps, ClosingKeeps, InvitingKeeps,
       ExcludingKeeps
  <2>3. ASSUME NEW g \in Group, Disband(g)
        PROVE  ChatInv'
    <3>1. PICK p \in Talker : TRUE
      BY <2>3 DEF Disband, Members
    <3> QED
      BY <2>3, <3>1, PartiesKeep
  <2>4. ASSUME NEW S \in SUBSET users["normal"], Reload(S)
        PROVE  ChatInv'
    BY <2>4, ReloadingKeeps
  <2> QED
    BY <2>1, <2>2, <2>3, <2>4 DEF ChatNext
<1>3. ChatInv /\ UNCHANGED chatVars => ChatInv'
  BY DEF ChatInv, ChatTypeOK, UsersAreHere, InvitedAreHere, PlacesInv, UsersAreInvited,
         UsersAreShown, OwnersHear, FreeIsEmpty, OwnsOne, PartyIsHeard, IsInvited, chatVars
<1> QED
  BY <1>1, <1>2, <1>3, PTL DEF ChatSpec

-----------------------------------------------------------------------------
(* The server: who is in a game that is closed or shut down, and what is   *)
(* stored of them.                                                         *)

\* Until the loader is done its task is the first, and nothing is refused.
LoadComesFirst ==
    loader \in {"queued", "loading", "listening"} =>
        queue # <<>> /\ Head(queue) = <<"do", "load">> /\ dispatcher = "RUNNING"

\* The main thread goes on when the loader is done or has failed, and serves, for the
\* first time, only when it is done.
StartsInOrder ==
    /\ acceptors => loader \in {"listening", "done"}
    /\ loader \in {"listening", "done"} /\ main \in {"starting", "waiting", "told"} => acceptors
    /\ main \in {"told", "serving", "joining", "exited"} => loader \in {"done", "failed"}
    /\ main = "serving" => loader = "done"
    /\ deathTimer => main = "serving" /\ ~running

\* Before it serves there is nobody in the game.
NobodyYet == loader # "done" \/ main \in {"starting", "waiting", "told"}

\* What a task in the queue tells of the server.
TaskFits(t) ==
    /\ t = <<"do", "shutdown">> => dispatcher # "RUNNING"
    /\ t = <<"do", "terminate">> => dispatcher # "RUNNING" \/ loader = "failed"
    /\ NobodyYet => \A p \in Character : t # <<"login", p>>
TasksFit == \A i \in DOMAIN queue : TaskFits(queue[i])

\* Whatever a player did is stored, or he is in the game, or the database failed; and
\* in a game that is shut down are only those who came late.
StoredOrLate ==
    /\ NobodyYet => online = {} /\ dirty = {}
    /\ dispatcher # "RUNNING" => gameState = "SHUTDOWN" \/ loader = "failed"
    /\ dirty \subseteq online \cup unsaved
    /\ gameState = "SHUTDOWN" => online \subseteq late

ServerInv ==
    /\ ServerTypeOK /\ LoadComesFirst /\ StartsInOrder /\ TasksFit /\ StoredOrLate
    /\ ClosedToOthers

\* The flags, one by one.
Flags ==
    /\ running \in BOOLEAN /\ acceptors \in BOOLEAN /\ deathTimer \in BOOLEAN
    /\ pendingStart \in BOOLEAN /\ timer \in BOOLEAN

LEMMA ServerAgrees == ServerInv => PlayersLeaveInTime
  BY DEF ServerInv, StoredOrLate, StartsInOrder, NobodyYet, PlayersLeaveInTime, ProgressIsKept,
         ServerTypeOK

LEMMA ServerFacts ==
  ASSUME ServerTypeOK
  PROVE  /\ main \in {"starting", "waiting", "told", "serving", "joining", "exited"}
         /\ loader \in {"queued", "loading", "listening", "done", "failed"}
         /\ gameState \in States /\ queue \in Seq(ServerTask)
         /\ dispatcher \in {"RUNNING", "CLOSING", "TERMINATED"}
         /\ running \in BOOLEAN /\ acceptors \in BOOLEAN /\ deathTimer \in BOOLEAN
         /\ pendingStart \in BOOLEAN /\ timer \in BOOLEAN
         /\ port \in {"none", "open", "closed", "deaf"}
         /\ running => main = "serving"
         /\ online \subseteq Character /\ dirty \subseteq Character
         /\ unsaved \subseteq Character /\ late \subseteq Character
         /\ requests \in 0 .. MaxRequests /\ logins \in 0 .. MaxLogins
         /\ failures \in 0 .. MaxFailures
  BY DEF ServerTypeOK

\* A task more, or one less.
LEMMA LongerQueue ==
  ASSUME NEW q \in Seq(ServerTask), NEW t \in ServerTask
  PROVE  /\ Append(q, t) \in Seq(ServerTask) /\ Append(q, t) # <<>>
         /\ q # <<>> => Head(Append(q, t)) = Head(q)
         /\ \A i \in DOMAIN Append(q, t) :
              Append(q, t)[i] = t \/ \E j \in DOMAIN q : Append(q, t)[i] = q[j]
<1>1. /\ Append(q, t) \in Seq(ServerTask) /\ Len(Append(q, t)) = Len(q) + 1
      /\ Append(q, t)[Len(q) + 1] = t
      /\ \A i \in 1..Len(q) : Append(q, t)[i] = q[i]
  OBVIOUS
<1>2. Len(q) \in Nat /\ DOMAIN q = 1..Len(q)
  OBVIOUS
<1>3. DOMAIN Append(q, t) = 1..(Len(q) + 1)
  BY <1>1
<1>4. Append(q, t) # <<>>
  BY AppendProperties
<1>5. ASSUME q # <<>>
      PROVE  Head(Append(q, t)) = Head(q)
  <2>1. Len(q) >= 1 /\ Head(q) = q[1]
    BY <1>5
  <2>2. Append(q, t)[1] = q[1]
    BY <1>1, <2>1
  <2> QED
    BY <1>1, <1>4, <2>1, <2>2
<1> QED
  BY <1>1, <1>2, <1>3, <1>4, <1>5

LEMMA ShorterQueue ==
  ASSUME NEW q \in Seq(ServerTask), q # <<>>
  PROVE  /\ Tail(q) \in Seq(ServerTask) /\ 1 \in DOMAIN q /\ Head(q) = q[1]
         /\ \A i \in DOMAIN Tail(q) : \E j \in DOMAIN q : Tail(q)[i] = q[j]
<1>1. /\ Tail(q) \in Seq(ServerTask) /\ Len(Tail(q)) = Len(q) - 1
      /\ Len(q) \in Nat \ {0} /\ DOMAIN q = 1..Len(q) /\ Head(q) = q[1]
  <2>1. Tail(q) \in Seq(ServerTask) /\ Len(Tail(q)) = Len(q) - 1
    BY HeadTailProperties
  <2>2. Len(q) \in Nat /\ DOMAIN q = 1..Len(q)
    BY LenProperties
  <2>3. Len(q) # 0
    BY EmptySeq
  <2>4. Head(q) = q[1]
    OBVIOUS
  <2> QED
    BY <2>1, <2>2, <2>3, <2>4
<1>2. DOMAIN Tail(q) = 1..(Len(q) - 1) /\ 1 \in DOMAIN q
  BY <1>1
<1>3. \A i \in 1..(Len(q) - 1) : i + 1 \in 1..Len(q) /\ Tail(q)[i] = q[i + 1]
  BY <1>1
<1> QED
  BY <1>1, <1>2, <1>3

LEMMA TasksKeep ==
  ASSUME ServerInv, NEW t \in ServerTask, TaskFits(t)',
         dispatcher # "RUNNING" => dispatcher' # "RUNNING",
         loader = "failed" => loader' = "failed", NobodyYet' => NobodyYet,
         \/ queue' \in {queue, Append(queue, t)}
         \/ queue # <<>> /\ queue' \in {Tail(queue), Append(Tail(queue), t)}
  PROVE  TasksFit' /\ queue' \in Seq(ServerTask)
<1>1. queue \in Seq(ServerTask)
  BY ServerFacts DEF ServerInv
<1>2. /\ queue' \in Seq(ServerTask)
      /\ \A i \in DOMAIN queue' : queue'[i] = t \/ \E j \in DOMAIN queue : queue'[i] = queue[j]
  <2>1. CASE queue' = queue
    BY <1>1, <2>1
  <2>2. CASE queue' = Append(queue, t)
    BY <1>1, <2>2, LongerQueue
  <2>3. CASE queue # <<>> /\ queue' = Tail(queue)
    BY <1>1, <2>3, ShorterQueue
  <2>4. CASE queue # <<>> /\ queue' = Append(Tail(queue), t)
    <3> DEFINE rest == Tail(queue)
    <3>1. rest \in Seq(ServerTask) /\ \A i \in DOMAIN rest : \E j \in DOMAIN queue : rest[i] = queue[j]
      BY <1>1, <2>4, ShorterQueue
    <3>2. queue' = Append(rest, t)
      BY <2>4
    <3> HIDE DEF rest
    <3>3. /\ Append(rest, t) \in Seq(ServerTask)
          /\ \A i \in DOMAIN Append(rest, t) :
               Append(rest, t)[i] = t \/ \E j \in DOMAIN rest : Append(rest, t)[i] = rest[j]
      BY <3>1, LongerQueue
    <3> QED
      BY <3>1, <3>2, <3>3
  <2> QED
    BY <2>1, <2>2, <2>3, <2>4
<1>3. ASSUME NEW j \in DOMAIN queue
      PROVE  TaskFits(queue[j])
  BY DEF ServerInv, TasksFit
<1>4. ASSUME NEW x, TaskFits(x)
      PROVE  TaskFits(x)'
  BY <1>4 DEF TaskFits
<1>5. ASSUME NEW i \in DOMAIN queue'
      PROVE  \E x : x = queue'[i] /\ TaskFits(x)'
  <2>1. CASE queue'[i] = t
    BY <2>1
  <2>2. CASE queue'[i] # t
    <3>1. PICK j \in DOMAIN queue : queue'[i] = queue[j]
      BY <1>2, <1>5, <2>2
    <3>2. PICK x : x = queue[j]
      OBVIOUS
    <3> QED
      BY <1>3, <1>4, <3>1, <3>2
  <2> QED
    BY <2>1, <2>2
<1> QED
  BY <1>2, <1>5 DEF TasksFit

\* A task that never comes into the queue again.
LEMMA NothingAdded == <<"do", "load">> \in ServerTask /\ TaskFits(<<"do", "load">>)'
  BY DEF ServerTask, TaskFits

\* The main thread, and the network where it asks for nothing.
LEMMA ServingKeeps ==
  ASSUME ServerInv,
         \/ MainWaits \/ MainServes \/ ServiceManagerDies \/ MainExits
         \/ AcceptFails \/ StopServer
  PROVE  ServerInv'
<1>1. UNCHANGED <<loader, queue, dispatcher, gameState, online, dirty, unsaved, late>>
  BY DEF MainWaits, MainServes, ServiceManagerDies, MainExits, AcceptFails, StopServer, gameVars
<1>2. ServerTypeOK'
  <2>1. MaxFailures \in Nat /\ MaxRequests \in Nat /\ MaxLogins \in Nat
    BY ServerAssumption
  <2>2. failures' \in 0 .. MaxFailures
    BY <2>1, ServerFacts DEF ServerInv, MainWaits, MainServes, ServiceManagerDies, MainExits,
       AcceptFails, StopServer, budgets
  <2>3. /\ main' \in {"starting", "waiting", "told", "serving", "joining", "exited"}
        /\ port' \in {"none", "open", "closed", "deaf"}
        /\ requests' = requests /\ logins' = logins
    BY ServerFacts DEF ServerInv, MainWaits, MainServes, ServiceManagerDies, MainExits,
       AcceptFails, StopServer, netVars, budgets
  <2>4. Flags' /\ (running' => main' = "serving")
    <3>1. Flags /\ (running => main = "serving") /\ TRUE \in BOOLEAN /\ FALSE \in BOOLEAN
      BY ServerFacts DEF ServerInv, Flags
    <3>2. CASE MainWaits \/ MainServes \/ MainExits \/ StopServer \/ ServiceManagerDies
      <4>1. /\ acceptors' = acceptors /\ pendingStart' = pendingStart /\ timer' = timer
            /\ running' \in {running, TRUE} /\ deathTimer' \in {deathTimer, FALSE}
        BY <3>2 DEF MainWaits, MainServes, MainExits, StopServer, ServiceManagerDies, netVars
      <4>2. running' => main' = "serving"
        BY <3>1, <3>2 DEF MainWaits, MainServes, MainExits, StopServer, ServiceManagerDies, netVars,
           ServerInv, StartsInOrder
      <4> QED
        BY <3>1, <4>1, <4>2 DEF Flags
    <3>3. CASE AcceptFails
      <4>1. running' = running /\ acceptors' = acceptors /\ deathTimer' = deathTimer
        BY <3>3 DEF AcceptFails
      <4>2. \/ pendingStart' = pendingStart /\ timer' = timer
            \/ pendingStart' = TRUE /\ (timer' <=> dispatcher = "RUNNING") /\ timer' \in BOOLEAN
        BY <3>3 DEF AcceptFails
      <4>3. pendingStart' \in BOOLEAN /\ timer' \in BOOLEAN
        BY <3>1, <4>2 DEF Flags
      <4>4. main' = main
        BY <3>3 DEF AcceptFails
      <4> QED
        BY <3>1, <4>1, <4>3, <4>4 DEF Flags
    <3> QED
      BY <3>2, <3>3
  <2> QED
    BY <1>1, <2>2, <2>3, <2>4, ServerFacts DEF ServerInv, ServerTypeOK, Flags
<1>3. StartsInOrder' /\ (NobodyYet' => NobodyYet)
  BY <1>1, ServerFacts DEF ServerInv, StartsInOrder, NobodyYet, MainWaits, MainServes,
     ServiceManagerDies, MainExits, AcceptFails, StopServer, netVars
<1>4. TasksFit'
  BY <1>1, <1>3, NothingAdded, TasksKeep
<1>5. LoadComesFirst' /\ StoredOrLate' /\ ClosedToOthers'
  BY <1>1, <1>3 DEF ServerInv, LoadComesFirst, StoredOrLate, ClosedToOthers
<1> QED
  BY <1>2, <1>3, <1>4, <1>5 DEF ServerInv

\* Tasks are asked for.
LEMMA AddingKeeps ==
  ASSUME ServerInv, NEW t \in ServerTask, TaskFits(t)',
         queue' \in {queue, Append(queue, t)},
         UNCHANGED <<loader, dispatcher, gameVars>>, StartsInOrder',
         NobodyYet' => NobodyYet
  PROVE  /\ queue' \in Seq(ServerTask) /\ TasksFit' /\ LoadComesFirst' /\ StoredOrLate'
         /\ ClosedToOthers'
<1>1. TasksFit' /\ queue' \in Seq(ServerTask)
  BY TasksKeep
<1>2. LoadComesFirst'
  <2>1. queue \in Seq(ServerTask)
    BY ServerFacts DEF ServerInv
  <2> QED
    BY <2>1, LongerQueue DEF ServerInv, LoadComesFirst
<1>3. StoredOrLate' /\ ClosedToOthers'
  BY DEF ServerInv, StoredOrLate, ClosedToOthers, gameVars
<1> QED
  BY <1>1, <1>2, <1>3

LEMMA AsksKeep ==
  ASSUME ServerInv,
         \/ MainRefuses \/ TimerFires
         \/ \E t \in Requests : Ask(t)
         \/ \E p \in Character : AskLogin(p) \/ AskLogout(p)
  PROVE  ServerInv'
<1>1. UNCHANGED <<loader, dispatcher, gameVars>>
  BY DEF MainRefuses, TimerFires, Ask, AskLogin, AskLogout
<1>2. StartsInOrder' /\ (NobodyYet' => NobodyYet)
  <2>1. CASE MainRefuses
    BY <2>1 DEF ServerInv, StartsInOrder, NobodyYet, MainRefuses, netVars
  <2>2. CASE \/ TimerFires \/ (\E t \in Requests : Ask(t))
             \/ \E p \in Character : AskLogin(p) \/ AskLogout(p)
    <3>1. UNCHANGED <<main, loader, acceptors, running, deathTimer>>
      BY <2>2 DEF TimerFires, Ask, AskLogin, AskLogout, netVars
    <3> QED
      BY <3>1 DEF ServerInv, StartsInOrder, NobodyYet
  <2> QED
    BY <2>1, <2>2
<1>3. PICK t \in ServerTask : TaskFits(t)' /\ queue' \in {queue, Append(queue, t)}
  <2>1. CASE MainRefuses
    <3>1. /\ <<"do", "terminate">> \in ServerTask /\ loader' = "failed"
          /\ queue' = Append(queue, <<"do", "terminate">>)
      BY <2>1, ServerFacts DEF MainRefuses, ServerInv, StartsInOrder, ServerTask
    <3>2. TaskFits(<<"do", "terminate">>)'
      BY <3>1 DEF TaskFits
    <3> QED
      BY <3>1, <3>2
  <2>2. CASE TimerFires
    <3>1. <<"do", "open">> \in ServerTask /\ TaskFits(<<"do", "open">>)'
      BY DEF ServerTask, TaskFits
    <3> QED
      BY <2>2, <3>1 DEF TimerFires
  <2>3. ASSUME NEW t \in Requests, Ask(t)
        PROVE  t \in ServerTask /\ TaskFits(t)' /\ queue' \in {queue, Append(queue, t)}
    <3>1. t \in ServerTask /\ TaskFits(t)'
      BY DEF Requests, ServerTask, States, TaskFits
    <3> QED
      BY <2>3, <3>1 DEF Ask
  <2>4. ASSUME NEW p \in Character, AskLogin(p)
        PROVE  \E t \in ServerTask : TaskFits(t)' /\ queue' \in {queue, Append(queue, t)}
    <3>1. ~NobodyYet'
      BY <2>4 DEF AskLogin, ServerInv, StartsInOrder, NobodyYet
    <3>2. <<"login", p>> \in ServerTask /\ TaskFits(<<"login", p>>)'
      BY <3>1 DEF ServerTask, TaskFits
    <3> QED
      BY <2>4, <3>2 DEF AskLogin
  <2>5. ASSUME NEW p \in Character, AskLogout(p)
        PROVE  \E t \in ServerTask : TaskFits(t)' /\ queue' \in {queue, Append(queue, t)}
    <3>1. <<"logout", p>> \in ServerTask /\ TaskFits(<<"logout", p>>)'
      BY DEF ServerTask, TaskFits
    <3> QED
      BY <2>5, <3>1 DEF AskLogout
  <2> QED
    BY <2>1, <2>2, <2>3, <2>4, <2>5
<1>4. /\ queue' \in Seq(ServerTask) /\ TasksFit' /\ LoadComesFirst' /\ StoredOrLate'
      /\ ClosedToOthers'
  BY <1>1, <1>2, <1>3, AddingKeeps
<1>5. ServerTypeOK'
  <2>1. MaxFailures \in Nat /\ MaxRequests \in Nat /\ MaxLogins \in Nat
    BY ServerAssumption
  <2>2. /\ requests' = requests \/ (requests < MaxRequests /\ requests' = requests + 1)
        /\ logins' = logins \/ (logins < MaxLogins /\ logins' = logins + 1)
        /\ failures' = failures
    BY DEF MainRefuses, TimerFires, Ask, AskLogin, AskLogout, budgets
  <2>3. /\ UNCHANGED <<running, acceptors, deathTimer, pendingStart, port>>
        /\ timer' = timer \/ timer' = FALSE
        /\ main' = main \/ (MainRefuses /\ main' = "joining")
    BY DEF MainRefuses, TimerFires, Ask, AskLogin, AskLogout, netVars
  <2>4. /\ requests' \in 0 .. MaxRequests /\ logins' \in 0 .. MaxLogins
        /\ failures' \in 0 .. MaxFailures
    BY <2>1, <2>2, ServerFacts DEF ServerInv
  <2>5. running' => main' = "serving"
    BY <2>3, ServerFacts DEF ServerInv, MainRefuses
  <2>6. timer' \in BOOLEAN /\ main' \in {"starting", "waiting", "told", "serving", "joining", "exited"}
    BY <2>3, ServerFacts DEF ServerInv
  <2> QED
    BY <1>1, <1>4, <2>3, <2>4, <2>5, <2>6, ServerFacts DEF ServerInv, ServerTypeOK, gameVars
<1> QED
  BY <1>2, <1>4, <1>5 DEF ServerInv

\* The dispatcher takes a task that is not the loader's.
LEMMA TaskTaken ==
  ASSUME ServerInv, NEW x, Runs(x), x # <<"do", "load">>,
         NEW t \in ServerTask, TaskFits(t)',
         queue' \in {Tail(queue), Append(Tail(queue), t)},
         UNCHANGED <<main, loader>>,
         dispatcher # "RUNNING" => dispatcher' # "RUNNING"
  PROVE  /\ queue' \in Seq(ServerTask) /\ TasksFit' /\ LoadComesFirst' /\ TaskFits(x)
         /\ (NobodyYet' <=> NobodyYet) /\ loader \in {"done", "failed"}
<1>1. queue # <<>> /\ Head(queue) = x /\ queue \in Seq(ServerTask)
  BY ServerFacts DEF Runs, ServerInv
<1>2. NobodyYet' <=> NobodyYet
  BY DEF NobodyYet
<1>3. TasksFit' /\ queue' \in Seq(ServerTask)
  BY <1>1, <1>2, TasksKeep
<1>4. loader \in {"done", "failed"} /\ LoadComesFirst'
  BY <1>1, ServerFacts DEF ServerInv, LoadComesFirst
<1>5. TaskFits(x)
  BY <1>1, ShorterQueue DEF ServerInv, TasksFit
<1> QED
  BY <1>2, <1>3, <1>4, <1>5

\* The first task is taken and nothing is added.
LEMMA TaskDone ==
  ASSUME ServerInv, NEW x, Runs(x), x # <<"do", "load">>, queue' = Rest,
         UNCHANGED <<main, loader>>,
         dispatcher # "RUNNING" => dispatcher' # "RUNNING"
  PROVE  /\ queue' \in Seq(ServerTask) /\ TasksFit' /\ LoadComesFirst' /\ TaskFits(x)
         /\ (NobodyYet' <=> NobodyYet) /\ loader \in {"done", "failed"}
<1>1. queue' \in {Tail(queue), Append(Tail(queue), <<"do", "load">>)}
  BY DEF Rest
<1> QED
  BY <1>1, NothingAdded, TaskTaken

\* What is left to be shown of a task that leaves the network alone.
LEMMA NetworkStays ==
  ASSUME ServerInv, UNCHANGED <<main, loader, netVars, requests, logins>>,
         queue' \in Seq(ServerTask), gameState' \in States,
         dispatcher' \in {"RUNNING", "CLOSING", "TERMINATED"},
         online' \subseteq Character, dirty' \subseteq Character,
         unsaved' \subseteq Character, late' \subseteq Character,
         failures' \in 0 .. MaxFailures
  PROVE  ServerTypeOK' /\ StartsInOrder'
<1>1. StartsInOrder'
  BY DEF ServerInv, StartsInOrder, netVars
<1>2. {running, acceptors, deathTimer, pendingStart, timer}' \subseteq BOOLEAN
  BY DEF ServerInv, ServerTypeOK, netVars
<1>3. /\ main' \in {"starting", "waiting", "told", "serving", "joining", "exited"}
      /\ loader' \in {"queued", "loading", "listening", "done", "failed"}
      /\ port' \in {"none", "open", "closed", "deaf"}
      /\ requests' \in 0 .. MaxRequests /\ logins' \in 0 .. MaxLogins
      /\ (running' => main' = "serving")
  BY DEF ServerInv, ServerTypeOK, netVars
<1> QED
  BY <1>1, <1>2, <1>3 DEF ServerTypeOK

\* Saving a set of players fails within the bound.
LEMMA FailuresCount ==
  ASSUME ServerInv, NEW who \in SUBSET Character, SavesFail(who)
  PROVE  failures' \in 0 .. MaxFailures
<1>1. IsFiniteSet(who)
  BY ServerAssumption, FS_Subset
<1>2. Cardinality(who) \in Nat
  BY <1>1, FS_CardinalityType
<1>3. MaxFailures \in Nat /\ failures \in 0 .. MaxFailures
  BY ServerAssumption, ServerFacts DEF ServerInv
<1> QED
  BY <1>2, <1>3 DEF SavesFail

\* The tasks that save, clean, open the port, let a player in or out, or change the
\* state: what they make of the game.
LEMMA SavesKeep ==
  ASSUME ServerInv, SaveTask \/ CleanTask
  PROVE  ServerInv'
<1>1. PICK x \in {<<"do", "save">>, <<"do", "clean">>} : Runs(x)
  BY DEF SaveTask, CleanTask
<1>2. /\ queue' = Rest /\ UNCHANGED <<main, loader, dispatcher, netVars, requests, logins>>
      /\ gameState' = AfterMaintain(gameState) /\ UNCHANGED <<online, unsaved, late>>
  BY DEF SaveTask, CleanTask, SaveAll, budgets
<1>3. /\ queue' \in Seq(ServerTask) /\ TasksFit' /\ LoadComesFirst' /\ (NobodyYet' <=> NobodyYet)
  BY <1>1, <1>2, TaskDone
<1>4. /\ failures' \in 0 .. MaxFailures /\ dirty' \subseteq dirty
  <2>1. CASE SaveTask
    <3>1. PICK failed \in SUBSET (online \cap dirty) : SaveAll(failed) /\ SavesFail(failed)
      BY <2>1 DEF SaveTask
    <3>2. failed \in SUBSET Character
      BY ServerFacts DEF ServerInv
    <3> QED
      BY <3>1, <3>2, FailuresCount DEF SaveAll
  <2>2. CASE CleanTask
    BY <2>2, ServerFacts DEF CleanTask, ServerInv, budgets
  <2> QED
    BY <2>1, <2>2
<1>5. gameState' \in States /\ (gameState' \in {"SHUTDOWN", "CLOSED"} => gameState' = gameState)
      /\ (gameState = "SHUTDOWN" => gameState' = "SHUTDOWN")
  BY <1>2, ServerFacts DEF AfterMaintain, States, ServerInv
<1>6. ServerTypeOK' /\ StartsInOrder'
  BY <1>2, <1>3, <1>4, <1>5, ServerFacts, NetworkStays DEF ServerInv
<1>7. StoredOrLate' /\ ClosedToOthers'
  BY <1>2, <1>3, <1>4, <1>5 DEF ServerInv, StoredOrLate, ClosedToOthers
<1> QED
  BY <1>3, <1>6, <1>7 DEF ServerInv

LEMMA LogoutKeeps ==
  ASSUME ServerInv, NEW p \in Character, LogoutTask(p)
  PROVE  ServerInv'
<1>1. PICK failed \in SUBSET (online \cap dirty \cap {p}) :
        Leave(online \cap {p}, failed) /\ SavesFail(failed)
  BY DEF LogoutTask
<1>2. /\ queue' = Rest /\ Runs(<<"logout", p>>)
      /\ UNCHANGED <<main, loader, dispatcher, gameState, late, netVars, requests, logins>>
  BY DEF LogoutTask
<1>3. /\ queue' \in Seq(ServerTask) /\ TasksFit' /\ LoadComesFirst' /\ (NobodyYet' <=> NobodyYet)
  BY <1>2, TaskDone
<1>4. /\ online \subseteq Character /\ dirty \subseteq Character /\ unsaved \subseteq Character
      /\ late \subseteq Character /\ gameState \in States
      /\ dispatcher \in {"RUNNING", "CLOSING", "TERMINATED"}
  BY ServerFacts DEF ServerInv
<1>5. failed \in SUBSET Character
  OBVIOUS
<1>6. failures' \in 0 .. MaxFailures
  BY <1>1, <1>5, FailuresCount
<1>7. /\ online' = online \ (online \cap {p}) /\ dirty' = dirty \ ((online \cap {p}) \ failed)
      /\ unsaved' = unsaved \cup failed
  BY <1>1 DEF Leave
<1>8. ServerTypeOK' /\ StartsInOrder'
  BY <1>2, <1>3, <1>4, <1>5, <1>6, <1>7, NetworkStays
<1>9. /\ online' \subseteq online /\ dirty' \subseteq dirty
      /\ dirty' \subseteq online' \cup unsaved'
  BY <1>7 DEF ServerInv, StoredOrLate
<1>10. StoredOrLate' /\ ClosedToOthers'
  BY <1>2, <1>3, <1>9 DEF ServerInv, StoredOrLate, ClosedToOthers
<1> QED
  BY <1>3, <1>8, <1>10 DEF ServerInv

LEMMA LoginKeeps ==
  ASSUME ServerInv, NEW p \in Character, LoginTask(p)
  PROVE  ServerInv'
<1>1. /\ queue' = Rest /\ Runs(<<"login", p>>)
      /\ UNCHANGED <<main, loader, dispatcher, gameState, netVars, requests, logins, failures>>
  BY DEF LoginTask, gameVars, budgets
<1>2. /\ queue' \in Seq(ServerTask) /\ TasksFit' /\ LoadComesFirst' /\ (NobodyYet' <=> NobodyYet)
      /\ TaskFits(<<"login", p>>)
  BY <1>1, TaskDone
<1>3. ~NobodyYet'
  BY <1>2 DEF TaskFits
<1>4. /\ online \subseteq Character /\ dirty \subseteq Character /\ unsaved \subseteq Character
      /\ late \subseteq Character /\ gameState \in States
      /\ dispatcher \in {"RUNNING", "CLOSING", "TERMINATED"} /\ failures \in 0 .. MaxFailures
  BY ServerFacts DEF ServerInv
<1>5. \/ UNCHANGED <<online, dirty, unsaved, late>>
      \/ /\ gameState \in RefusedIn => p \in AlwaysLogin
         /\ online' = online \cup {p} /\ dirty' = dirty \cup {p}
         /\ unsaved' = unsaved \ {p}
         /\ late' = IF gameState = "SHUTDOWN" THEN late \cup {p} ELSE late
  BY DEF LoginTask, gameVars
<1>6. /\ online' \subseteq Character /\ dirty' \subseteq Character /\ unsaved' \subseteq Character
      /\ late' \subseteq Character
  BY <1>4, <1>5
<1>7. ServerTypeOK' /\ StartsInOrder'
  BY <1>1, <1>2, <1>4, <1>6, NetworkStays
<1>8. /\ dirty' \subseteq online' \cup unsaved'
      /\ gameState = "SHUTDOWN" => online' \subseteq late'
      /\ gameState = "CLOSED" => online' \subseteq AlwaysLogin
  BY <1>5 DEF ServerInv, StoredOrLate, ClosedToOthers, RefusedIn
<1>9. StoredOrLate' /\ ClosedToOthers'
  BY <1>1, <1>3, <1>8 DEF ServerInv, StoredOrLate, ClosedToOthers
<1> QED
  BY <1>2, <1>7, <1>9 DEF ServerInv

LEMMA PlaysKeep ==
  ASSUME ServerInv, NEW p \in Character, Plays(p)
  PROVE  ServerInv'
<1>1. /\ UNCHANGED <<main, loader, queue, dispatcher, gameState, online, unsaved, late, netVars,
                     budgets>>
      /\ dirty' = dirty \cup {p} /\ p \in online
  BY DEF Plays
<1>2. ServerTypeOK' /\ StartsInOrder'
  BY <1>1, ServerFacts, NetworkStays DEF ServerInv, budgets
<1>3. TasksFit'
  BY <1>1, NothingAdded, TasksKeep DEF NobodyYet
<1>4. LoadComesFirst' /\ StoredOrLate' /\ ClosedToOthers'
  BY <1>1 DEF ServerInv, LoadComesFirst, StoredOrLate, NobodyYet, ClosedToOthers
<1> QED
  BY <1>2, <1>3, <1>4 DEF ServerInv

LEMMA OpenKeeps ==
  ASSUME ServerInv, OpenTask
  PROVE  ServerInv'
<1>1. /\ queue' = Rest /\ Runs(<<"do", "open">>)
      /\ UNCHANGED <<main, loader, dispatcher, gameVars, running, acceptors, deathTimer, requests,
                     logins>>
  BY DEF OpenTask
<1>2. /\ queue' \in Seq(ServerTask) /\ TasksFit' /\ LoadComesFirst' /\ (NobodyYet' <=> NobodyYet)
  BY <1>1, TaskDone
<1>3. PICK works \in BOOLEAN : PortFails(works) /\ Open(works) /\ Fails(works)
  BY DEF OpenTask
<1>4. /\ failures' \in 0 .. MaxFailures /\ port' \in {"none", "open", "closed", "deaf"}
  <2>1. MaxFailures \in Nat /\ failures \in 0 .. MaxFailures
    BY ServerAssumption, ServerFacts DEF ServerInv
  <2> QED
    BY <1>3, <2>1 DEF PortFails, Open, Fails
<1>5. pendingStart' \in BOOLEAN /\ timer' \in BOOLEAN
  BY <1>3 DEF Open
<1>6. ServerTypeOK'
  BY <1>1, <1>2, <1>4, <1>5, ServerFacts DEF ServerInv, ServerTypeOK, gameVars
<1>7. StartsInOrder' /\ StoredOrLate' /\ ClosedToOthers'
  BY <1>1, <1>2 DEF ServerInv, StartsInOrder, StoredOrLate, ClosedToOthers, gameVars
<1> QED
  BY <1>2, <1>6, <1>7 DEF ServerInv

LEMMA EndingKeeps ==
  ASSUME ServerInv, ShutdownTask \/ TerminateTask
  PROVE  ServerInv'
<1>1. PICK x \in {<<"do", "shutdown">>, <<"do", "terminate">>} : Runs(x)
  BY DEF ShutdownTask, TerminateTask
<1>2. UNCHANGED <<main, loader, gameVars, port, pendingStart, timer, budgets>>
  BY DEF ShutdownTask, TerminateTask, netVars
<1>3. /\ queue' \in Seq(ServerTask) /\ TasksFit' /\ LoadComesFirst' /\ (NobodyYet' <=> NobodyYet)
      /\ dispatcher' # "RUNNING" => dispatcher # "RUNNING" \/ loader = "failed"
      /\ dispatcher' \in {dispatcher, "TERMINATED"}
  <2>1. CASE ShutdownTask
    <3>1. dispatcher # "RUNNING" /\ UNCHANGED <<main, loader, dispatcher>>
      <4>1. Runs(<<"do", "shutdown">>) /\ UNCHANGED <<main, loader, dispatcher>>
        BY <2>1 DEF ShutdownTask
      <4>2. queue # <<>> /\ Head(queue) = <<"do", "shutdown">> /\ queue \in Seq(ServerTask)
        BY <4>1, ServerFacts DEF Runs, ServerInv
      <4>3. TaskFits(<<"do", "shutdown">>)
        BY <4>2, ShorterQueue DEF ServerInv, TasksFit
      <4> QED
        BY <4>1, <4>3 DEF TaskFits
    <3>2. <<"do", "terminate">> \in ServerTask /\ TaskFits(<<"do", "terminate">>)'
      BY <3>1 DEF ServerTask, TaskFits
    <3>3. queue' \in {Tail(queue), Append(Tail(queue), <<"do", "terminate">>)}
      BY <2>1 DEF ShutdownTask, Rest
    <3> QED
      BY <1>1, <3>1, <3>2, <3>3, TaskTaken
  <2>2. CASE TerminateTask
    <3>1. /\ Runs(<<"do", "terminate">>) /\ queue' = Rest /\ dispatcher' = "TERMINATED"
          /\ UNCHANGED <<main, loader>>
      BY <2>2 DEF TerminateTask
    <3>2. /\ queue' \in Seq(ServerTask) /\ TasksFit' /\ LoadComesFirst'
          /\ (NobodyYet' <=> NobodyYet) /\ TaskFits(<<"do", "terminate">>)
      BY <3>1, TaskDone
    <3> QED
      BY <3>1, <3>2 DEF TaskFits
  <2> QED
    BY <2>1, <2>2
<1>4. /\ running' \in {running, FALSE} /\ acceptors' \in {acceptors, FALSE}
      /\ deathTimer' \in {deathTimer, TRUE}
      /\ \/ UNCHANGED <<running, acceptors, deathTimer>>
         \/ running /\ ~running'
  BY DEF ShutdownTask, TerminateTask, StopServices, netVars
<1>5. Flags'
  BY <1>2, <1>4, ServerFacts DEF ServerInv, Flags
<1>6. ServerTypeOK'
  BY <1>2, <1>3, <1>4, <1>5, ServerFacts DEF ServerInv, ServerTypeOK, Flags, gameVars, budgets
<1>7. StartsInOrder'
  BY <1>2, <1>4, ServerFacts DEF ServerInv, StartsInOrder
<1>8. StoredOrLate' /\ ClosedToOthers'
  BY <1>2, <1>3 DEF ServerInv, StoredOrLate, ClosedToOthers, gameVars
<1> QED
  BY <1>3, <1>6, <1>7, <1>8 DEF ServerInv

\* A state is set.
LEMMA SetKeeps ==
  ASSUME ServerInv, NEW s \in States, SetTask(s)
  PROVE  ServerInv'
<1>1. Runs(<<"set", s>>) /\ SetGameState(s, Rest) /\ UNCHANGED <<main, loader, netVars, requests, logins>>
  BY DEF SetTask
<1>2. /\ online \subseteq Character /\ dirty \subseteq Character /\ unsaved \subseteq Character
      /\ late \subseteq Character /\ gameState \in States
      /\ dispatcher \in {"RUNNING", "CLOSING", "TERMINATED"} /\ failures \in 0 .. MaxFailures
  BY ServerFacts DEF ServerInv
<1>3. CASE /\ UNCHANGED <<dispatcher, online, dirty, unsaved, late, failures>> /\ queue' = Rest
           /\ \/ gameState' = gameState
              \/ /\ gameState # "SHUTDOWN" /\ gameState' = s
                 /\ s \notin {"SHUTDOWN", "CLOSED"}
  <2>1. /\ queue' \in Seq(ServerTask) /\ TasksFit' /\ LoadComesFirst' /\ (NobodyYet' <=> NobodyYet)
        /\ loader \in {"done", "failed"}
    BY <1>1, <1>3, TaskDone
  <2>2. ServerTypeOK' /\ StartsInOrder'
    BY <1>1, <1>2, <1>3, <2>1, NetworkStays
  <2>3. StoredOrLate' /\ ClosedToOthers'
    BY <1>1, <1>3, <2>1 DEF ServerInv, StoredOrLate, ClosedToOthers
  <2> QED
    BY <2>1, <2>2, <2>3 DEF ServerInv
<1>4. CASE gameState # "SHUTDOWN" /\ ShutDown(Rest)
  <2>1. PICK failed \in SUBSET (online \cap dirty) : Leave(online, failed) /\ SavesFail(failed)
    BY <1>4 DEF ShutDown
  <2>2. /\ queue' \in {Tail(queue), Append(Tail(queue), <<"do", "shutdown">>)}
        /\ dispatcher' = "CLOSING" /\ gameState' = "SHUTDOWN" /\ late' = late
    BY <1>4 DEF ShutDown, Rest
  <2>3. <<"do", "shutdown">> \in ServerTask /\ TaskFits(<<"do", "shutdown">>)'
    BY <2>2 DEF ServerTask, TaskFits
  <2>4. /\ queue' \in Seq(ServerTask) /\ TasksFit' /\ LoadComesFirst' /\ (NobodyYet' <=> NobodyYet)
    BY <1>1, <2>2, <2>3, TaskTaken
  <2>5. failed \in SUBSET Character
    BY <1>2
  <2>6. failures' \in 0 .. MaxFailures
    BY <2>1, <2>5, FailuresCount
  <2>7. online' = {} /\ dirty' = dirty \ (online \ failed) /\ unsaved' = unsaved \cup failed
    BY <2>1 DEF Leave
  <2>8. ServerTypeOK' /\ StartsInOrder'
    <3>1. "SHUTDOWN" \in States
      BY DEF States
    <3> QED
      BY <1>1, <1>2, <2>2, <2>4, <2>5, <2>6, <2>7, <3>1, NetworkStays
  <2>9. StoredOrLate' /\ ClosedToOthers'
    BY <2>2, <2>4, <2>7 DEF ServerInv, StoredOrLate, ClosedToOthers
  <2> QED
    BY <2>4, <2>8, <2>9 DEF ServerInv
<1>5. CASE gameState # "SHUTDOWN" /\ Close(Rest)
  <2>1. PICK failed \in SUBSET (online \cap dirty) :
          /\ SavesFail(failed)
          /\ online' = online \ Unwelcome
          /\ dirty' = dirty \ (online \ failed)
          /\ unsaved' = unsaved \cup (failed \cap Unwelcome)
    BY <1>5 DEF Close
  <2>2. queue' = Rest /\ gameState' = "CLOSED" /\ UNCHANGED <<dispatcher, late>>
    BY <1>5 DEF Close
  <2>3. /\ queue' \in Seq(ServerTask) /\ TasksFit' /\ LoadComesFirst' /\ (NobodyYet' <=> NobodyYet)
        /\ loader \in {"done", "failed"}
    BY <1>1, <2>2, TaskDone
  <2>4. failed \in SUBSET Character
    BY <1>2
  <2>5. failures' \in 0 .. MaxFailures
    BY <2>1, <2>4, FailuresCount
  <2>6. ServerTypeOK' /\ StartsInOrder'
    <3>1. "CLOSED" \in States
      BY DEF States
    <3>2. online' \subseteq Character /\ dirty' \subseteq Character /\ unsaved' \subseteq Character
      BY <1>2, <2>1, <2>4
    <3> QED
      BY <1>1, <1>2, <2>2, <2>3, <2>5, <3>1, <3>2, NetworkStays
  <2>7. ClosedToOthers'
    BY <2>1 DEF ClosedToOthers, Unwelcome
  <2>8. StoredOrLate'
    <3>1. dirty' \subseteq online' \cup unsaved'
      BY <2>1 DEF ServerInv, StoredOrLate
    <3>2. online' \subseteq online /\ dirty' \subseteq dirty
      BY <2>1
    <3>3. dispatcher # "RUNNING" => loader = "failed"
      BY <1>5 DEF ServerInv, StoredOrLate
    <3> QED
      BY <1>1, <2>2, <2>3, <3>1, <3>2, <3>3 DEF ServerInv, StoredOrLate
  <2> QED
    BY <2>3, <2>6, <2>7, <2>8 DEF ServerInv
<1>6. \/ queue' = Rest /\ UNCHANGED <<dispatcher, gameState, online, dirty, unsaved, late, failures>>
      \/ gameState # "SHUTDOWN" /\ ShutDown(Rest)
      \/ gameState # "SHUTDOWN" /\ Close(Rest)
      \/ /\ gameState # "SHUTDOWN" /\ s \notin {"SHUTDOWN", "CLOSED"}
         /\ gameState' = s /\ queue' = Rest
         /\ UNCHANGED <<dispatcher, online, dirty, unsaved, late, failures>>
  BY <1>1 DEF SetGameState, gameVars
<1> QED
  BY <1>3, <1>4, <1>5, <1>6

\* The loader's task stays the first until it ends.
LEMMA LoaderKeeps ==
  ASSUME ServerInv, Loader
  PROVE  ServerInv'
<1>1. /\ queue # <<>> /\ Head(queue) = <<"do", "load">> /\ dispatcher = "RUNNING"
      /\ loader \in {"queued", "loading", "listening"} /\ main \in {"starting", "waiting"}
      /\ NobodyYet /\ ~deathTimer /\ ~running
  <2>1. loader \in {"queued", "loading", "listening"}
    BY DEF Loader, LoaderStarts, LoaderFails, LoaderListens, LoaderDone
  <2> QED
    BY <2>1, ServerFacts DEF ServerInv, LoadComesFirst, StartsInOrder, NobodyYet
<1>2. /\ UNCHANGED <<dispatcher, online, dirty, unsaved, late, running, deathTimer, requests, logins>>
      /\ main' = main \/ main' = "told"
      /\ main' = "told" => loader' \in {"done", "failed"}
      /\ loader' \in {"loading", "listening", "done", "failed"}
      /\ acceptors' <=> acceptors \/ loader' = "listening"
      /\ loader' = "listening" => loader = "loading"
      /\ loader' = "done" => loader = "listening"
      /\ loader' \in {"loading", "failed"} => loader \in {"queued", "loading"}
  <2>1. CASE LoaderStarts
    BY <1>1, <2>1 DEF LoaderStarts, netVars, budgets
  <2>2. CASE LoaderFails
    BY <1>1, <2>2 DEF LoaderFails, NotifyMain, gameVars, netVars, budgets
  <2>3. CASE LoaderListens
    BY <1>1, <2>3 DEF LoaderListens
  <2>4. CASE LoaderDone
    BY <1>1, <2>4 DEF LoaderDone, NotifyMain, netVars, budgets
  <2> QED
    BY <2>1, <2>2, <2>3, <2>4 DEF Loader
<1>3. /\ gameState' \in States \ {"CLOSED", "SHUTDOWN"} \/ (loader' = "failed" /\ gameState' = gameState)
      /\ failures' \in 0 .. MaxFailures /\ port' \in {"none", "open", "closed", "deaf"}
  <2>1. MaxFailures \in Nat /\ failures \in 0 .. MaxFailures
    BY ServerAssumption, ServerFacts DEF ServerInv
  <2>2. port \in {"none", "open", "closed", "deaf"}
    BY ServerFacts DEF ServerInv
  <2>3. CASE LoaderStarts \/ LoaderFails \/ LoaderDone
    BY <2>1, <2>2, <2>3 DEF LoaderStarts, LoaderFails, LoaderDone, States, gameVars, netVars, budgets
  <2>4. CASE LoaderListens
    <3>1. PICK works \in BOOLEAN : PortFails(works) /\ Open(works) /\ Fails(works)
      BY <2>4 DEF LoaderListens
    <3> QED
      BY <2>1, <2>4, <3>1 DEF LoaderListens, PortFails, Open, Fails, States
  <2> QED
    BY <2>3, <2>4 DEF Loader
<1>4. Flags'
  <2>1. Flags /\ TRUE \in BOOLEAN
    BY ServerFacts DEF ServerInv, Flags
  <2>2. CASE LoaderStarts \/ LoaderFails \/ LoaderDone
    <3>1. UNCHANGED <<running, acceptors, deathTimer, pendingStart, timer>>
      BY <2>2 DEF LoaderStarts, LoaderFails, LoaderDone, netVars
    <3> QED
      BY <2>1, <3>1 DEF Flags
  <2>3. CASE LoaderListens
    <3>1. PICK works \in BOOLEAN : PortFails(works) /\ Open(works) /\ Fails(works)
      BY <2>3 DEF LoaderListens
    <3>2. pendingStart' \in BOOLEAN /\ timer' \in BOOLEAN
      BY <3>1 DEF Open
    <3>3. acceptors' = TRUE /\ running' = running /\ deathTimer' = deathTimer
      BY <2>3 DEF LoaderListens
    <3> QED
      BY <2>1, <3>2, <3>3 DEF Flags
  <2> QED
    BY <2>2, <2>3 DEF Loader
<1>5. \/ queue' = queue /\ loader' \in {"loading", "listening"}
      \/ queue' = Rest /\ loader' \in {"done", "failed"}
  BY DEF Loader, LoaderStarts, LoaderFails, LoaderListens, LoaderDone
<1>6. TasksFit' /\ queue' \in Seq(ServerTask)
  <2>1. loader # "failed"
    BY <1>1
  <2>2. dispatcher # "RUNNING" => dispatcher' # "RUNNING"
    BY <1>2
  <2>3. \/ queue' \in {queue, Append(queue, <<"do", "load">>)}
        \/ queue # <<>> /\ queue' \in {Tail(queue), Append(Tail(queue), <<"do", "load">>)}
    BY <1>1, <1>5 DEF Rest
  <2> QED
    BY <1>1, <2>1, <2>2, <2>3, NothingAdded, TasksKeep
<1>7. LoadComesFirst'
  BY <1>1, <1>2, <1>5 DEF LoadComesFirst
<1>8. StartsInOrder'
  BY <1>1, <1>2 DEF ServerInv, StartsInOrder
<1>9. ServerTypeOK'
  <2>1. "told" \in {"starting", "waiting", "told", "serving", "joining", "exited"}
    OBVIOUS
  <2>2. gameState' \in States
    BY <1>3, ServerFacts DEF ServerInv
  <2> QED
    BY <1>1, <1>2, <1>3, <1>4, <1>6, <2>2, ServerFacts DEF ServerInv, ServerTypeOK, Flags
<1>10. NobodyYet'
  BY <1>1, <1>2 DEF NobodyYet
<1>11. dirty = {} /\ online = {}
  BY <1>1 DEF ServerInv, StoredOrLate
<1>12. StoredOrLate' /\ ClosedToOthers'
  BY <1>1, <1>2, <1>11 DEF StoredOrLate, ClosedToOthers
<1> QED
  BY <1>6, <1>7, <1>8, <1>9, <1>12 DEF ServerInv

LEMMA ServerKeeps == ServerSpec => []ServerInv
<1>1. ServerInit => ServerInv
  <2> SUFFICES ASSUME ServerInit PROVE ServerInv
    OBVIOUS
  <2>1. ServerTypeOK
    <3>1. queue \in Seq(ServerTask)
      BY DEF ServerInit, ServerTask
    <3>2. requests \in 0 .. MaxRequests /\ logins \in 0 .. MaxLogins /\ failures \in 0 .. MaxFailures
      BY ServerAssumption DEF ServerInit
    <3>3. {running, acceptors, deathTimer, pendingStart, timer} \subseteq BOOLEAN
      BY DEF ServerInit
    <3> QED
      BY <3>1, <3>2, <3>3 DEF ServerInit, ServerTypeOK, States
  <2>2. LoadComesFirst /\ TasksFit
    <3>1. queue = << <<"do", "load">> >> /\ dispatcher = "RUNNING"
      BY DEF ServerInit
    <3>2. queue # <<>> /\ Head(queue) = <<"do", "load">> /\ DOMAIN queue = {1}
      BY <3>1
    <3>3. TaskFits(queue[1])
      BY <3>1 DEF TaskFits
    <3> QED
      BY <3>1, <3>2, <3>3 DEF LoadComesFirst, TasksFit
  <2> QED
    BY <2>1, <2>2 DEF ServerInit, ServerInv, StartsInOrder, NobodyYet, StoredOrLate, ClosedToOthers
<1>2. ServerInv /\ ServerNext => ServerInv'
  <2> SUFFICES ASSUME ServerInv, ServerNext PROVE ServerInv'
    OBVIOUS
  <2>1. CASE MainThread
    BY <2>1, ServingKeeps, AsksKeep DEF MainThread
  <2>2. CASE DispatcherThread
    BY <2>2, LoaderKeeps, SavesKeep, OpenKeeps, EndingKeeps, SetKeeps, LoginKeeps, LogoutKeeps
       DEF DispatcherThread
  <2>3. CASE Environment
    BY <2>3, ServingKeeps, AsksKeep, PlaysKeep DEF Environment
  <2> QED
    BY <2>1, <2>2, <2>3, ServingKeeps, AsksKeep DEF ServerNext
<1>3. ServerInv /\ UNCHANGED serverVars => ServerInv'
  BY DEF ServerInv, ServerTypeOK, LoadComesFirst, StartsInOrder, TasksFit, TaskFits, NobodyYet,
         StoredOrLate, ClosedToOthers, serverVars, gameVars, netVars, budgets
<1> QED
  BY <1>1, <1>2, <1>3, PTL DEF ServerSpec

-----------------------------------------------------------------------------
(* What the proofs come to.                                                *)

\* The walk event of a player, the events he can no longer stop, the steps his client
\* has been told of and the errand he walks to keep to their types, whatever he, the
\* map and the other creatures do (Player::doAutoWalk, Creature::onWalk).
THEOREM ErrandsTypeCorrect == ErrandsSpec => []ErrandsTypeOK
<1>1. ErrandsInv => ErrandsTypeOK
  BY DEF ErrandsInv
<1> QED
  BY <1>1, ErrandsKeep, PTL

\* An errand is not forgotten: while a task waits for the end of a walk there is a walk
\* event, a walk that has still to be begun, or something that hindered the player; and
\* he has one walk event, unless one expired while another was stopped.
THEOREM ErrandsAreAttended == ErrandsSpec => []ErrandsAttended
<1>1. ErrandsInv => ErrandsAttended
  BY DEF ErrandsInv
<1> QED
  BY <1>1, ErrandsKeep, PTL

\* Channels, their users, owners and invitations keep to their types.
THEOREM ChatTypeCorrect == ChatSpec => []ChatTypeOK
<1>1. ChatInv => ChatTypeOK
  BY DEF ChatInv
<1> QED
  BY <1>1, ChatKeeps, PTL

\* Whatever the order in which players open, close, invite, exclude, join parties, log
\* out and are taken over: channels refer to players in the game only, a private channel
\* is heard by its owner and by those invited and shown to exactly them, and a party's
\* channel that a client shows is the one its player hears.
THEOREM ChannelsAlwaysAgree == ChatSpec => []ChannelsAgree
<1> QED
  BY ChatAgrees, ChatKeeps, PTL

\* The server's threads, its game state, the tasks of its dispatcher, its port and the
\* sets of characters keep to their types, and the network runs only while main is in it.
THEOREM ServerTypeCorrect == ServerSpec => []ServerTypeOK
<1>1. ServerInv => ServerTypeOK
  BY DEF ServerInv
<1> QED
  BY <1>1, ServerKeeps, PTL

\* However the loader, signals, scripts, logins and logouts follow each other in the
\* dispatcher: in a game that is closed are only players with the flag, and when the
\* dispatcher has ended everything a player did is stored, unless every try to save him
\* failed or he was let in after the shutdown.
THEOREM PlayersAlwaysLeaveInTime == ServerSpec => []PlayersLeaveInTime
<1> QED
  BY ServerAgrees, ServerKeeps, PTL

-----------------------------------------------------------------------------
(* Fights.                                                                 *)

FighterRecord ==
    [there : BOOLEAN, hp : 0..MaxHealth, fight : BOOLEAN, locked : BOOLEAN,
     victims : SUBSET Fighter, skull : Skulls, frags : Nat,
     damage : [Fighter -> Nat], lastHit : Fighter \cup {None}, dying : Nat,
     loses : BOOLEAN]

FighterStates == [Fighter -> FighterRecord]

\* The marks of one player.
MarksOfFight(r) ==
    r.locked \/ r.skull = "white" \/ r.victims # {} => r.there /\ r.fight

\* Who hit a player last is another one, in the game.
LastHitIsThere(f) ==
    \A v \in Fighter : f[v].lastHit # None =>
        f[v].lastHit # v /\ f[f[v].lastHit].there

\* Of two that a fight has brought together one has begun, and is remembered,
\* or the fight of one is over while the other goes on.
VictimsAreFought ==
    \A k, v \in Fighter : v \in fighters[k].victims =>
        v \in began[k] \/ k \in began[v] \/ v \in ended[k]
BegunIsRemembered ==
    \A k, v \in Fighter : k \in began[v] =>
        k \in fighters[v].victims \/ v \in ended[k]

FightsInv ==
    /\ FightsTypeOK /\ MarksEndWithFight /\ LastHitIsThere(fighters)
    /\ VictimsAreFought /\ BegunIsRemembered

LEMMA FightConstants ==
    /\ None \notin Fighter /\ MaxHealth \in Nat /\ MaxHealth > 0 /\ FragTime \in Nat
    /\ FragTime > 0 /\ MaxBlows \in Nat /\ MaxSteps \in Nat
    /\ KillsToRed \in Nat /\ KillsToBlack \in Nat
  BY FightAssumption

LEMMA GreaterOfTwo ==
  ASSUME NEW a \in Int, NEW b \in Int
  PROVE  Max({a, b}) = IF a >= b THEN a ELSE b
<1>1. \E x \in {a, b} : \A y \in {a, b} : x >= y
  OBVIOUS
<1>2. \A x \in {a, b} : (\A y \in {a, b} : x >= y) => x = (IF a >= b THEN a ELSE b)
  OBVIOUS
<1> QED
  BY <1>1, <1>2 DEF Max

LEMMA LesserOfTwo ==
  ASSUME NEW a \in Int, NEW b \in Int
  PROVE  Min({a, b}) = IF a =< b THEN a ELSE b
<1>1. \E x \in {a, b} : \A y \in {a, b} : x =< y
  OBVIOUS
<1>2. \A x \in {a, b} : (\A y \in {a, b} : x =< y) => x = (IF a =< b THEN a ELSE b)
  OBVIOUS
<1> QED
  BY <1>1, <1>2 DEF Min

\* What a record has besides the marks of a fight is as it was.
SameBody(r, s) ==
    /\ s.there = r.there /\ s.hp = r.hp /\ s.frags = r.frags /\ s.damage = r.damage
    /\ s.lastHit = r.lastHit /\ s.dying = r.dying /\ s.loses = r.loses

\* g is f after a blow of k at v.
WellMarked(f, g, k, v) ==
    /\ g \in FighterStates
    /\ \A p \in Fighter : SameBody(f[p], g[p])
    /\ \A p \in Fighter : MarksOfFight(f[p]) => MarksOfFight(g[p])
    /\ \A p \in Fighter \ {k} : g[p].victims = f[p].victims
    /\ f[k].victims \subseteq g[k].victims /\ g[k].victims \subseteq f[k].victims \cup {v}
    /\ v \notin f[k].victims /\ v \in g[k].victims => v \notin arena /\ ~Allied(k, v)
    /\ v \notin arena /\ ~Allied(k, v) /\ v \notin g[k].victims => k \in f[v].victims

\* f with the record r for k.
Replaced(f, k, r) == [f EXCEPT ![k] = r]

LEMMA ChangedRecord ==
  ASSUME NEW f \in FighterStates, NEW k \in Fighter, NEW r \in FighterRecord,
         NEW g, g = Replaced(f, k, r),
         MarksOfFight(f[k]) => MarksOfFight(r), SameBody(f[k], r)
  PROVE  /\ g \in FighterStates /\ g[k] = r
         /\ \A p \in Fighter \ {k} : g[p] = f[p]
         /\ \A p \in Fighter : SameBody(f[p], g[p])
         /\ \A p \in Fighter : MarksOfFight(f[p]) => MarksOfFight(g[p])
<1>1. g \in FighterStates /\ g[k] = r /\ \A p \in Fighter \ {k} : g[p] = f[p]
  BY DEF FighterStates, Replaced
<1>2. \A p \in Fighter \ {k} : SameBody(f[p], g[p]) /\ (MarksOfFight(f[p]) => MarksOfFight(g[p]))
  BY <1>1 DEF SameBody
<1> QED
  BY <1>1, <1>2

LEMMA BlowMarks ==
  ASSUME NEW f \in FighterStates, NEW k \in Fighter, NEW v \in Fighter, k # v,
         f[k].there, f[v].there
  PROVE  WellMarked(f, Marked(f, k, v), k, v)
<1> DEFINE g == Marked(f, k, v)
           retaliates == f[k].skull = "none" /\ SeenSkull(f, k, v) = "yellow"
           attacks == ~retaliates /\ k \notin f[v].victims
           pale == f[v].skull = "none" /\ f[k].skull = "none"
<1>a. f[k] \in FighterRecord /\ f[v] \in FighterRecord
  BY DEF FighterStates
<1>b. \A p \in Fighter : SameBody(f[p], f[p])
  BY DEF SameBody
<1>1. CASE v \in arena
  <2>1. g = f
    BY <1>1 DEF Marked
  <2> QED
    BY <2>1, <1>1, <1>b DEF WellMarked
<1>2. CASE v \notin arena /\ Allied(k, v)
  <2> DEFINE r == [f[k] EXCEPT !.fight = TRUE]
  <2>1. g = Replaced(f, k, r)
    BY <1>2 DEF Marked, InFight, Replaced
  <2>2. r \in FighterRecord /\ SameBody(f[k], r) /\ r.victims = f[k].victims
        /\ (MarksOfFight(f[k]) => MarksOfFight(r))
    BY <1>a DEF FighterRecord, SameBody, MarksOfFight
  <2> HIDE DEF g, r
  <2>3. g \in FighterStates /\ g[k] = r
         /\ (\A p \in Fighter \ {k} : g[p] = f[p])
         /\ (\A p \in Fighter : SameBody(f[p], g[p]))
         /\ (\A p \in Fighter : MarksOfFight(f[p]) => MarksOfFight(g[p]))
    BY <2>1, <2>2, ChangedRecord
  <2>4. g[k].victims = f[k].victims /\ \A p \in Fighter \ {k} : g[p].victims = f[p].victims
    BY <2>2, <2>3
  <2>5. WellMarked(f, g, k, v)
    BY <2>3, <2>4, <1>2 DEF WellMarked
  <2> QED
    BY <2>5 DEF g
<1>3. CASE v \notin arena /\ ~Allied(k, v)
  <2>1. PICK vs, lo, sk :
          /\ vs = IF retaliates \/ attacks THEN f[k].victims \cup {v} ELSE f[k].victims
          /\ lo = (f[k].locked \/ attacks)
          /\ sk = IF attacks /\ pale THEN "white" ELSE f[k].skull
    OBVIOUS
  <2>2. /\ lo \in BOOLEAN /\ sk \in Skulls /\ vs \in SUBSET Fighter
        /\ (v \notin vs => k \in f[v].victims)
        /\ f[k].victims \subseteq vs /\ vs \subseteq f[k].victims \cup {v}
    BY <2>1, <1>a DEF FighterRecord, Skulls
  <2> DEFINE r == [f[v] EXCEPT !.fight = TRUE]
             h == Replaced(f, v, r)
             s == [f[k] EXCEPT !.fight = TRUE, !.victims = vs, !.locked = lo, !.skull = sk]
  <2>3. g = Replaced(h, k, s)
    BY <1>3, <2>1, <1>a DEF Marked, InFight, FighterStates, FighterRecord, Replaced
  <2>4. r \in FighterRecord /\ SameBody(f[v], r) /\ r.victims = f[v].victims
        /\ (MarksOfFight(f[v]) => MarksOfFight(r))
    BY <1>a DEF FighterRecord, SameBody, MarksOfFight
  <2>5. s \in FighterRecord /\ SameBody(f[k], s) /\ s.victims = vs /\ MarksOfFight(s)
    BY <1>a, <2>2 DEF FighterRecord, SameBody, MarksOfFight
  <2> HIDE DEF g, r, s, retaliates, attacks, pale
  <2>6. h \in FighterStates /\ h[v] = r
         /\ (\A p \in Fighter \ {v} : h[p] = f[p])
         /\ (\A p \in Fighter : SameBody(f[p], h[p]))
         /\ (\A p \in Fighter : MarksOfFight(f[p]) => MarksOfFight(h[p]))
    BY <2>4, ChangedRecord
  <2> HIDE DEF h
  <2>7. g \in FighterStates /\ g[k] = s
         /\ (\A p \in Fighter \ {k} : g[p] = h[p])
         /\ (\A p \in Fighter : SameBody(h[p], g[p]))
         /\ (\A p \in Fighter : MarksOfFight(h[p]) => MarksOfFight(g[p]))
    <3>1. h[k] = f[k] /\ h \in FighterStates
      BY <2>6
    <3>2. SameBody(h[k], s) /\ (MarksOfFight(h[k]) => MarksOfFight(s)) /\ s \in FighterRecord
      BY <2>5, <3>1
    <3> QED
      BY <2>3, <3>1, <3>2, ChangedRecord
  <2>8. \A p \in Fighter : SameBody(f[p], g[p]) /\ (MarksOfFight(f[p]) => MarksOfFight(g[p]))
    BY <2>6, <2>7 DEF SameBody
  <2>9. \A p \in Fighter \ {k} : g[p].victims = f[p].victims
    BY <2>4, <2>6, <2>7
  <2> QED
    BY <1>3, <2>2, <2>5, <2>7, <2>8, <2>9 DEF WellMarked, g
<1> QED
  BY <1>1, <1>2, <1>3

LEMMA ReplacedRecord ==
  ASSUME NEW f \in FighterStates, NEW k \in Fighter, NEW r \in FighterRecord,
         NEW g, g = Replaced(f, k, r)
  PROVE  g \in FighterStates /\ g[k] = r /\ \A p \in Fighter \ {k} : g[p] = f[p]
  BY DEF FighterStates, Replaced

\* g is f when p is in a fight.
LEMMA InFightMarks ==
  ASSUME NEW f \in FighterStates, NEW v \in Fighter
  PROVE  LET g == InFight(f, v) IN
         /\ g \in FighterStates
         /\ \A p \in Fighter : SameBody(f[p], g[p]) /\ g[p].victims = f[p].victims
         /\ \A p \in Fighter : MarksOfFight(f[p]) => MarksOfFight(g[p])
<1> DEFINE g == InFight(f, v)
           r == [f[v] EXCEPT !.fight = TRUE]
<1>1. g = Replaced(f, v, r)
  BY DEF InFight, Replaced
<1>2. f[v] \in FighterRecord
  BY DEF FighterStates
<1>3. r \in FighterRecord /\ SameBody(f[v], r) /\ r.victims = f[v].victims
      /\ (MarksOfFight(f[v]) => MarksOfFight(r))
  BY <1>2 DEF FighterRecord, SameBody, MarksOfFight
<1> HIDE DEF g, r
<1>4. g \in FighterStates /\ g[v] = r
      /\ (\A p \in Fighter \ {v} : g[p] = f[p])
      /\ (\A p \in Fighter : SameBody(f[p], g[p]))
      /\ (\A p \in Fighter : MarksOfFight(f[p]) => MarksOfFight(g[p]))
  BY <1>1, <1>3, ChangedRecord
<1>5. \A p \in Fighter : g[p].victims = f[p].victims
  BY <1>3, <1>4
<1> QED
  BY <1>4, <1>5 DEF g

LEMMA BlowFights ==
  ASSUME NEW f \in FighterStates, NEW k \in Fighter, NEW v \in Fighter, k # v,
         f[k].there, f[v].there
  PROVE  WellMarked(f, Fought(f, k, v), k, v)
<1> DEFINE h == Marked(f, k, v)
           g == InFight(h, v)
<1>1. WellMarked(f, h, k, v)
  BY BlowMarks
<1> HIDE DEF h
<1>2. h \in FighterStates
  BY <1>1 DEF WellMarked
<1>3. /\ g \in FighterStates
      /\ \A p \in Fighter : SameBody(h[p], g[p]) /\ g[p].victims = h[p].victims
      /\ \A p \in Fighter : MarksOfFight(h[p]) => MarksOfFight(g[p])
  BY <1>2, InFightMarks
<1> HIDE DEF g
<1>4. \A p \in Fighter : SameBody(f[p], g[p])
  BY <1>1, <1>3 DEF WellMarked, SameBody
<1>5. WellMarked(f, g, k, v)
  BY <1>1, <1>3, <1>4 DEF WellMarked
<1> QED
  BY <1>5 DEF g, h, Fought

-----------------------------------------------------------------------------
\* The marks of a record are as they were.
SameMarks(r, s) ==
    /\ s.there = r.there /\ s.fight = r.fight /\ s.locked = r.locked
    /\ s.victims = r.victims /\ s.skull = r.skull /\ s.frags = r.frags

\* g is f after v was hurt by k, or by nobody.
WellHurt(f, g, k, v) ==
    /\ g \in FighterStates
    /\ \A p \in Fighter : SameMarks(f[p], g[p])
    /\ \A p \in Fighter \ {v} : g[p].lastHit = f[p].lastHit
    /\ g[v].lastHit \in {f[v].lastHit, k, None}

LEMMA HurtRecord ==
  ASSUME NEW f \in FighterStates, NEW v \in Fighter, NEW k, NEW r \in FighterRecord,
         SameMarks(f[v], r), r.lastHit \in {f[v].lastHit, k, None},
         NEW g, g = Replaced(f, v, r)
  PROVE  WellHurt(f, g, k, v)
<1>1. g \in FighterStates /\ g[v] = r /\ \A p \in Fighter \ {v} : g[p] = f[p]
  BY ReplacedRecord
<1>2. \A p \in Fighter : SameMarks(f[p], g[p])
  BY <1>1 DEF SameMarks
<1> QED
  BY <1>1, <1>2 DEF WellHurt

LEMMA BlameHurts ==
  ASSUME NEW f \in FighterStates, NEW v \in Fighter, NEW k \in Fighter, NEW n \in Nat
  PROVE  WellHurt(f, Blamed(f, v, k, n), k, v)
<1> DEFINE g == Blamed(f, v, k, n)
           d == [f[v].damage EXCEPT ![k] = @ + n]
           r == [f[v] EXCEPT !.damage = d, !.lastHit = k]
<1>1. f[v] \in FighterRecord /\ f[v].damage \in [Fighter -> Nat]
  BY DEF FighterStates, FighterRecord
<1>2. d \in [Fighter -> Nat]
  BY <1>1
<1>3. g = Replaced(f, v, r)
  BY <1>1 DEF Blamed, Replaced, FighterStates, FighterRecord
<1> HIDE DEF d
<1>4. r \in FighterRecord /\ SameMarks(f[v], r) /\ r.lastHit \in {f[v].lastHit, k, None}
  BY <1>1, <1>2 DEF FighterRecord, SameMarks
<1> HIDE DEF g, r
<1>5. WellHurt(f, g, k, v)
  BY <1>3, <1>4, HurtRecord
<1> QED
  BY <1>5 DEF g

LEMMA BlowHurts ==
  ASSUME NEW f \in FighterStates, NEW v \in Fighter, NEW n \in Nat
  PROVE  WellHurt(f, Hurt(f, v, n), None, v)
<1> DEFINE hp == Max({0, f[v].hp - n})
           g == Hurt(f, v, n)
           d == IF hp = 0 THEN f[v].dying + 1 ELSE f[v].dying
           r == [f[v] EXCEPT !.hp = hp, !.dying = d]
<1>1. f[v] \in FighterRecord /\ f[v].hp \in 0..MaxHealth /\ f[v].dying \in Nat
  BY DEF FighterStates, FighterRecord
<1>2. f[v].hp - n \in Int /\ MaxHealth \in Nat
  BY <1>1, FightConstants
<1>3. hp = IF 0 >= f[v].hp - n THEN 0 ELSE f[v].hp - n
  BY <1>2, GreaterOfTwo
<1>4. hp \in 0..MaxHealth
  BY <1>1, <1>2, <1>3
<1>5. g = Replaced(f, v, r)
  BY <1>1 DEF Hurt, Replaced, FighterStates, FighterRecord
<1> HIDE DEF hp
<1>6. r \in FighterRecord /\ r.lastHit = f[v].lastHit
  <2>1. d \in Nat
    BY <1>1
  <2> HIDE DEF d
  <2> QED
    BY <1>1, <1>4, <2>1 DEF FighterRecord
<1>a. SameMarks(f[v], r)
  BY <1>1 DEF FighterRecord, SameMarks
<1> HIDE DEF g, r
<1>7. WellHurt(f, g, None, v)
  <2>1. r.lastHit \in {f[v].lastHit, None, None}
    BY <1>6
  <2> QED
    BY <1>5, <1>6, <1>a, <2>1, HurtRecord
<1> QED
  BY <1>7 DEF g

LEMMA DrainHurts ==
  ASSUME NEW f \in FighterStates, NEW v \in Fighter, NEW n \in Nat,
         NEW k \in Fighter \cup {None}
  PROVE  WellHurt(f, Drained(f, k, v, n), k, v)
<1> DEFINE real == Min({n, f[v].hp})
           h == Hurt(f, v, real)
           g == Drained(f, k, v, n)
<1>1. f[v] \in FighterRecord /\ f[v].hp \in 0..MaxHealth /\ MaxHealth \in Nat
  BY FightConstants DEF FighterStates, FighterRecord
<1>2. real \in Nat
  <2>1. n \in Int /\ f[v].hp \in Int /\ f[v].hp >= 0
    BY <1>1
  <2>2. real = IF n =< f[v].hp THEN n ELSE f[v].hp
    BY <2>1, LesserOfTwo
  <2> QED
    BY <2>1, <2>2
<1>3. WellHurt(f, h, None, v)
  BY <1>2, BlowHurts
<1>4. CASE real = 0
  <2>1. g = f
    BY <1>4 DEF Drained
  <2>2. WellHurt(f, f, k, v)
    BY DEF WellHurt, SameMarks
  <2> QED
    BY <2>1, <2>2
<1>5. CASE real # 0 /\ k = None
  <2> DEFINE r == [h[v] EXCEPT !.lastHit = None]
  <2>1. g = Replaced(h, v, r)
    BY <1>5 DEF Drained, Replaced
  <2> HIDE DEF h
  <2>2. h \in FighterStates
    BY <1>3 DEF WellHurt
  <2>3. r \in FighterRecord /\ SameMarks(h[v], r) /\ r.lastHit = None
    <3>1. PICK x \in FighterRecord : x = h[v]
      BY <2>2 DEF FighterStates
    <3>2. PICK y : y = [x EXCEPT !.lastHit = None]
      OBVIOUS
    <3>3. y \in FighterRecord /\ y.lastHit = None
      BY <3>2 DEF FighterRecord
    <3>4. SameMarks(x, y)
      BY <3>2 DEF FighterRecord, SameMarks
    <3> QED
      BY <3>1, <3>2, <3>3, <3>4
  <2> HIDE DEF g, r
  <2>4. r.lastHit \in {h[v].lastHit, k, None}
    BY <2>3
  <2>5. WellHurt(h, g, k, v)
    BY <2>1, <2>2, <2>3, <2>4, HurtRecord
  <2>6. WellHurt(f, g, k, v)
    BY <1>3, <2>5, <1>5 DEF WellHurt, SameMarks
  <2> QED
    BY <2>6 DEF g
<1>6. CASE real # 0 /\ k \in Fighter
  <2>1. k # None
    BY <1>6, FightConstants
  <2>2. g = Blamed(h, v, k, real)
    BY <1>6, <2>1 DEF Drained
  <2> HIDE DEF h, real
  <2>3. h \in FighterStates
    BY <1>3 DEF WellHurt
  <2>4. WellHurt(h, Blamed(h, v, k, real), k, v)
    BY <1>2, <1>6, <2>3, BlameHurts
  <2>5. WellHurt(h, g, k, v)
    BY <2>2, <2>4
  <2> HIDE DEF g
  <2>6. WellHurt(f, g, k, v)
    BY <1>3, <2>5 DEF WellHurt, SameMarks
  <2> QED
    BY <2>6 DEF g
<1> QED
  BY <1>4, <1>5, <1>6

-----------------------------------------------------------------------------
\* Who may be charged when v dies by the hand of k.
Charged(f, k, v) == v \notin arena /\ v \in f[k].victims /\ k \notin f[v].victims

\* g is f when k has killed v.
WellKilled(f, g, k, v) ==
    /\ g \in FighterStates
    /\ \A p \in Fighter :
         /\ g[p].there = f[p].there /\ g[p].fight = f[p].fight
         /\ g[p].victims = f[p].victims /\ g[p].lastHit = f[p].lastHit
         /\ g[p].damage = f[p].damage /\ g[p].dying = f[p].dying
    /\ \A p \in Fighter : MarksOfFight(f[p]) => MarksOfFight(g[p])
    /\ \A p \in Fighter : g[p].frags > f[p].frags => p = k /\ Charged(f, k, v)

LEMMA KilledRecord ==
  ASSUME NEW f \in FighterStates, NEW k \in Fighter, NEW v \in Fighter,
         NEW p \in Fighter, NEW r \in FighterRecord, NEW g, g = Replaced(f, p, r),
         r.there = f[p].there, r.fight = f[p].fight, r.victims = f[p].victims,
         r.lastHit = f[p].lastHit, r.damage = f[p].damage, r.dying = f[p].dying,
         MarksOfFight(f[p]) => MarksOfFight(r),
         r.frags > f[p].frags => p = k /\ Charged(f, k, v)
  PROVE  WellKilled(f, g, k, v)
<1>1. g \in FighterStates /\ g[p] = r /\ \A q \in Fighter \ {p} : g[q] = f[q]
  BY ReplacedRecord
<1>2. \A q \in Fighter : f[q].frags \in Nat
  BY DEF FighterStates, FighterRecord
<1>3. \A q \in Fighter \ {p} : ~(g[q].frags > f[q].frags)
  BY <1>1, <1>2
<1>4. \A q \in Fighter : g[q].frags > f[q].frags => q = k /\ Charged(f, k, v)
  BY <1>1, <1>3
<1>5. \A q \in Fighter :
         /\ g[q].there = f[q].there /\ g[q].fight = f[q].fight
         /\ g[q].victims = f[q].victims /\ g[q].lastHit = f[q].lastHit
         /\ g[q].damage = f[q].damage /\ g[q].dying = f[q].dying
  BY <1>1
<1>6. \A q \in Fighter : MarksOfFight(f[q]) => MarksOfFight(g[q])
  BY <1>1
<1> QED
  BY <1>1, <1>4, <1>5, <1>6 DEF WellKilled

LEMMA KilledAlike ==
  ASSUME NEW f \in FighterStates, NEW k \in Fighter, NEW v \in Fighter
  PROVE  WellKilled(f, f, k, v)
<1>1. \A q \in Fighter : f[q].frags \in Nat
  BY DEF FighterStates, FighterRecord
<1> QED
  BY <1>1 DEF WellKilled

LEMMA DeathCharges ==
  ASSUME NEW f \in FighterStates, NEW k \in Fighter, NEW v \in Fighter, NEW last \in BOOLEAN,
         last => f[k].there
  PROVE  WellKilled(f, Killed(f, k, v, last), k, v)
<1> DEFINE g == Killed(f, k, v, last)
<1>a. f[k] \in FighterRecord /\ f[v] \in FighterRecord
  BY DEF FighterStates
<1>1. CASE v \in arena
  <2> DEFINE r == [f[v] EXCEPT !.loses = FALSE]
  <2>1. g = Replaced(f, v, r)
    BY <1>1 DEF Killed, Replaced
  <2>2. /\ r \in FighterRecord
        /\ r.there = f[v].there /\ r.fight = f[v].fight /\ r.victims = f[v].victims
        /\ r.lastHit = f[v].lastHit /\ r.damage = f[v].damage /\ r.dying = f[v].dying
        /\ (MarksOfFight(f[v]) => MarksOfFight(r))
        /\ r.frags = f[v].frags /\ f[v].frags \in Nat
    BY <1>a DEF FighterRecord, MarksOfFight
  <2> HIDE DEF g, r
  <2>3. ~(r.frags > f[v].frags)
    BY <2>2
  <2>4. WellKilled(f, g, k, v)
    BY <2>1, <2>2, <2>3, KilledRecord
  <2> QED
    BY <2>4 DEF g
<1>2. CASE v \notin arena /\ (Allied(k, v) \/ v \notin f[k].victims \/ k \in f[v].victims)
  <2>1. g = f
    BY <1>2 DEF Killed
  <2> QED
    BY <2>1, KilledAlike
<1>3. CASE /\ v \notin arena
           /\ ~(Allied(k, v) \/ v \notin f[k].victims \/ k \in f[v].victims)
  <2>1. Charged(f, k, v)
    BY <1>3 DEF Charged
  <2> DEFINE h == IF f[v].skull = "none" THEN Fragged(f, k) ELSE f
  <2>2. WellKilled(f, h, k, v)
    <3>1. CASE f[v].skull = "none"
      <4>1. PICK t, s : /\ t = f[k].frags + FragTime
                        /\ s \in {f[k].skull, "black", "red"}
                        /\ Fragged(f, k) = [f EXCEPT ![k].frags = t, ![k].skull = s]
        BY <1>a DEF Fragged, FighterStates, FighterRecord
      <4>2. t \in Nat
        BY <4>1, <1>a, FightConstants DEF FighterRecord
      <4> DEFINE r == [f[k] EXCEPT !.frags = t, !.skull = s]
      <4>3. h = Replaced(f, k, r)
        BY <3>1, <4>1, <1>a DEF Replaced, FighterStates, FighterRecord
      <4>4. /\ r \in FighterRecord
            /\ r.there = f[k].there /\ r.fight = f[k].fight /\ r.victims = f[k].victims
            /\ r.lastHit = f[k].lastHit /\ r.damage = f[k].damage /\ r.dying = f[k].dying
            /\ (MarksOfFight(f[k]) => MarksOfFight(r))
        BY <4>1, <4>2, <1>a DEF FighterRecord, MarksOfFight, Skulls
      <4> HIDE DEF h, r
      <4> QED
        BY <4>3, <4>4, <2>1, KilledRecord
    <3>2. CASE f[v].skull # "none"
      BY <3>2, KilledAlike
    <3> QED
      BY <3>1, <3>2
  <2>3. g = IF last /\ h[k].fight THEN [h EXCEPT ![k].locked = TRUE] ELSE h
    BY <1>3 DEF Killed
  <2> HIDE DEF h
  <2>4. CASE ~(last /\ h[k].fight)
    <3>1. g = h
      BY <2>3, <2>4
    <3> QED
      BY <2>2, <3>1
  <2>5. CASE last /\ h[k].fight
    <3> DEFINE r == [h[k] EXCEPT !.locked = TRUE]
    <3>1. g = Replaced(h, k, r)
      BY <2>3, <2>5 DEF Replaced
    <3>2. h \in FighterStates /\ h[k].there /\ h[k].fight
      BY <2>2, <2>5 DEF WellKilled
    <3>3. h[k] \in FighterRecord
      BY <3>2 DEF FighterStates
    <3>4. /\ r \in FighterRecord
          /\ r.there = h[k].there /\ r.fight = h[k].fight /\ r.victims = h[k].victims
          /\ r.lastHit = h[k].lastHit /\ r.damage = h[k].damage /\ r.dying = h[k].dying
          /\ MarksOfFight(r)
          /\ r.frags = h[k].frags /\ h[k].frags \in Nat
      BY <3>2, <3>3 DEF FighterRecord, MarksOfFight
    <3> HIDE DEF g, r
    <3>5. ~(r.frags > h[k].frags)
      BY <3>4
    <3>6. WellKilled(h, g, k, v)
      BY <3>1, <3>2, <3>4, <3>5, KilledRecord
    <3>7. g \in FighterStates /\ \A p \in Fighter :
             /\ g[p].there = f[p].there /\ g[p].fight = f[p].fight
             /\ g[p].victims = f[p].victims /\ g[p].lastHit = f[p].lastHit
             /\ g[p].damage = f[p].damage /\ g[p].dying = f[p].dying
      BY <2>2, <3>6 DEF WellKilled
    <3>8. \A p \in Fighter : MarksOfFight(f[p]) => MarksOfFight(g[p])
      BY <2>2, <3>6 DEF WellKilled
    <3>9. \A p \in Fighter : g[p].frags > f[p].frags => p = k /\ Charged(f, k, v)
      <4> SUFFICES ASSUME NEW p \in Fighter, g[p].frags > f[p].frags
                   PROVE  p = k
        BY <2>1
      <4>1. f[p].frags \in Nat /\ g[p].frags \in Nat /\ h[p].frags \in Nat
        BY <3>2, <3>7 DEF FighterStates, FighterRecord
      <4>2. g[p].frags > h[p].frags \/ h[p].frags > f[p].frags
        BY <4>1
      <4> QED
        BY <2>2, <3>6, <4>2 DEF WellKilled
    <3>10. WellKilled(f, g, k, v)
      BY <3>7, <3>8, <3>9 DEF WellKilled
    <3> QED
      BY <3>10 DEF g
  <2> QED
    BY <2>4, <2>5
<1> QED
  BY <1>1, <1>2, <1>3

\* g is f after the death of v has been charged, and those who hurt v let go of it.
WellSlain(f, g, v) ==
    /\ g \in FighterStates
    /\ \A p \in Fighter : g[p].there = f[p].there /\ g[p].fight = f[p].fight
    /\ \A p \in Fighter : g[p].lastHit = f[p].lastHit /\ g[p].dying = f[p].dying
    /\ \A p \in Fighter : g[p].victims \subseteq f[p].victims
    /\ \A p \in Fighter : f[p].victims \subseteq g[p].victims \cup {v}
    /\ \A p \in Fighter : MarksOfFight(f[p]) => MarksOfFight(g[p])
    /\ \A p \in Fighter : g[p].frags > f[p].frags => Charged(f, p, v)

LEMMA DeathSlays ==
  ASSUME NEW f \in FighterStates, NEW v \in Fighter, NEW most \in Fighter \cup {None},
         LastHitIsThere(f), most # None => f[v].damage[most] > 0
  PROVE  WellSlain(f, Slain(f, v, most), v)
<1> DEFINE l == f[v].lastHit
           g == IF l # None THEN Killed(f, l, v, TRUE) ELSE f
           let(p) == p # v /\ f[v].damage[p] > 0
           h == [p \in Fighter |-> IF let(p) THEN [g[p] EXCEPT !.victims = @ \ {v}] ELSE g[p]]
           s == Slain(f, v, most)
<1>a. \A p \in Fighter : f[p] \in FighterRecord /\ f[p].frags \in Nat
  BY DEF FighterStates, FighterRecord
<1>1. WellKilled(f, g, l, v)
  <2>1. CASE l # None
    <3>1. l \in Fighter /\ f[l].there
      BY <2>1, <1>a DEF LastHitIsThere, FighterRecord
    <3>2. TRUE \in BOOLEAN
      OBVIOUS
    <3> HIDE DEF l
    <3>3. WellKilled(f, Killed(f, l, v, TRUE), l, v)
      BY <3>1, <3>2, DeathCharges
    <3> QED
      BY <2>1, <3>3
  <2>2. CASE l = None
    <3>1. g = f
      BY <2>2
    <3>2. WellKilled(f, f, l, v)
      BY <1>a DEF WellKilled
    <3> QED
      BY <3>1, <3>2
  <2> QED
    BY <2>1, <2>2
<1>2. s = IF most \notin {None, l} THEN Killed(h, most, v, FALSE) ELSE h
  BY DEF Slain
<1> HIDE DEF g, s, l, let
<1>3. \A p \in Fighter : g[p] \in FighterRecord
  BY <1>1 DEF WellKilled, FighterStates
<1>4. \A p \in Fighter :
         /\ h[p] \in FighterRecord
         /\ h[p].there = g[p].there /\ h[p].fight = g[p].fight
         /\ h[p].lastHit = g[p].lastHit /\ h[p].dying = g[p].dying
         /\ h[p].frags = g[p].frags
         /\ h[p].victims = (IF let(p) THEN g[p].victims \ {v} ELSE g[p].victims)
         /\ MarksOfFight(g[p]) => MarksOfFight(h[p])
  <2> SUFFICES ASSUME NEW p \in Fighter
               PROVE  /\ h[p] \in FighterRecord
                      /\ h[p].there = g[p].there /\ h[p].fight = g[p].fight
                      /\ h[p].lastHit = g[p].lastHit /\ h[p].dying = g[p].dying
                      /\ h[p].frags = g[p].frags
                      /\ h[p].victims = (IF let(p) THEN g[p].victims \ {v} ELSE g[p].victims)
                      /\ MarksOfFight(g[p]) => MarksOfFight(h[p])
    OBVIOUS
  <2>1. CASE let(p)
    <3>1. h[p] = [g[p] EXCEPT !.victims = g[p].victims \ {v}]
      BY <2>1
    <3> HIDE DEF h
    <3> QED
      BY <2>1, <3>1, <1>3 DEF FighterRecord, MarksOfFight
  <2>2. CASE ~let(p)
    BY <2>2, <1>3
  <2> QED
    BY <2>1, <2>2
<1>5. h \in FighterStates
  BY <1>4 DEF FighterStates
<1> HIDE DEF h
<1>6. WellSlain(f, h, v)
  <2>1. \A p \in Fighter : h[p].frags > f[p].frags => Charged(f, p, v)
    BY <1>1, <1>4 DEF WellKilled
  <2>2. \A p \in Fighter : h[p].victims \subseteq f[p].victims /\ f[p].victims \subseteq h[p].victims \cup {v}
    BY <1>1, <1>4 DEF WellKilled
  <2>3. \A p \in Fighter : MarksOfFight(f[p]) => MarksOfFight(h[p])
    BY <1>1, <1>4 DEF WellKilled
  <2>4. \A p \in Fighter : /\ h[p].there = f[p].there /\ h[p].fight = f[p].fight
                           /\ h[p].lastHit = f[p].lastHit /\ h[p].dying = f[p].dying
    BY <1>1, <1>4 DEF WellKilled
  <2> QED
    BY <1>5, <2>1, <2>2, <2>3, <2>4 DEF WellSlain
<1>7. CASE most \in {None, l}
  <2>1. s = h
    BY <1>2, <1>7
  <2> QED
    BY <2>1, <1>6 DEF s
<1>8. CASE most \notin {None, l}
  <2>1. most \in Fighter /\ f[v].damage[most] > 0
    BY <1>8
  <2>2. FALSE \in BOOLEAN
    OBVIOUS
  <2>3. WellKilled(h, Killed(h, most, v, FALSE), most, v)
    BY <2>1, <2>2, <1>5, DeathCharges
  <2>4. WellKilled(h, s, most, v)
    BY <2>3, <1>2, <1>8
  <2>5. ~Charged(h, most, v)
    <3>1. CASE most = v
      BY <3>1 DEF Charged
    <3>2. CASE most # v
      BY <3>2, <2>1, <1>4 DEF Charged, let
    <3> QED
      BY <3>1, <3>2
  <2>6. \A p \in Fighter : ~(s[p].frags > h[p].frags)
    BY <2>4, <2>5 DEF WellKilled
  <2>7. \A p \in Fighter : s[p].frags \in Nat /\ h[p].frags \in Nat
    BY <2>4, <1>5 DEF WellKilled, FighterStates, FighterRecord
  <2>8. \A p \in Fighter : s[p].frags > f[p].frags => Charged(f, p, v)
    <3> SUFFICES ASSUME NEW p \in Fighter, s[p].frags > f[p].frags
                 PROVE  Charged(f, p, v)
      OBVIOUS
    <3>1. h[p].frags > f[p].frags
      BY <1>a, <2>6, <2>7
    <3> QED
      BY <3>1, <1>6 DEF WellSlain
  <2>9. \A p \in Fighter : /\ s[p].there = f[p].there /\ s[p].fight = f[p].fight
                           /\ s[p].lastHit = f[p].lastHit /\ s[p].dying = f[p].dying
                           /\ s[p].victims = h[p].victims
    BY <2>4, <1>6 DEF WellKilled, WellSlain
  <2>10. \A p \in Fighter : MarksOfFight(f[p]) => MarksOfFight(s[p])
    BY <2>4, <1>6 DEF WellKilled, WellSlain
  <2>11. s \in FighterStates
    BY <2>4 DEF WellKilled
  <2>12. WellSlain(f, s, v)
    BY <1>6, <2>8, <2>9, <2>10, <2>11 DEF WellSlain
  <2> QED
    BY <2>12 DEF s
<1> QED
  BY <1>7, <1>8

-----------------------------------------------------------------------------
\* r after the fight of the player is over, or the player itself has gone.
WellCalmed(r, s) ==
    /\ s \in FighterRecord
    /\ s.there = r.there /\ s.frags = r.frags /\ s.dying = r.dying
    /\ s.lastHit \in {r.lastHit, None}

LEMMA CalmedRecord ==
  ASSUME NEW f \in FighterStates, NEW p \in Fighter
  PROVE  \E c \in FighterRecord :
            /\ Calmed(f, p) = Replaced(f, p, c)
            /\ WellCalmed(f[p], c)
            /\ c.skull = f[p].skull /\ c.fight = f[p].fight
            /\ c.locked = f[p].locked /\ c.victims = f[p].victims
<1>a. f[p] \in FighterRecord
  BY DEF FighterStates
<1>1. CASE f[p].hp > 0
  <2> DEFINE c == [f[p] EXCEPT !.damage = Unhurt, !.lastHit = None]
  <2>1. Unhurt \in [Fighter -> Nat]
    BY DEF Unhurt
  <2>2. /\ c \in FighterRecord /\ WellCalmed(f[p], c)
        /\ c.skull = f[p].skull /\ c.fight = f[p].fight
        /\ c.locked = f[p].locked /\ c.victims = f[p].victims
    BY <2>1, <1>a DEF FighterRecord, WellCalmed
  <2>3. Calmed(f, p) = Replaced(f, p, c)
    BY <1>1, <1>a DEF Calmed, Replaced, FighterStates
  <2> HIDE DEF c
  <2> QED
    BY <2>2, <2>3
<1>2. CASE ~(f[p].hp > 0)
  <2>1. Calmed(f, p) = Replaced(f, p, f[p])
    BY <1>2 DEF Calmed, Replaced, FighterStates
  <2>2. WellCalmed(f[p], f[p])
    BY <1>a DEF WellCalmed
  <2> QED
    BY <2>1, <2>2, <1>a
<1> QED
  BY <1>1, <1>2

LEMMA FightEndedRecord ==
  ASSUME NEW f \in FighterStates, NEW p \in Fighter
  PROVE  LET g == FightEnded(f, p) IN
         /\ g \in FighterStates
         /\ \A q \in Fighter \ {p} : g[q] = f[q]
         /\ WellCalmed(f[p], g[p]) /\ g[p].victims = {} /\ MarksOfFight(g[p])
<1> DEFINE g == FightEnded(f, p)
<1>a. f[p] \in FighterRecord
  BY DEF FighterStates
<1>1. PICK c \in FighterRecord :
         /\ Calmed(f, p) = Replaced(f, p, c)
         /\ WellCalmed(f[p], c) /\ c.skull = f[p].skull
  BY CalmedRecord
<1>2. PICK s : s = IF c.skull \in {"red", "black"} THEN c.skull ELSE "none"
  OBVIOUS
<1> DEFINE r == [c EXCEPT !.fight = FALSE, !.locked = FALSE, !.victims = {}, !.skull = s]
           h == Replaced(f, p, c)
<1>3. h \in FighterStates /\ h[p] = c /\ \A q \in Fighter \ {p} : h[q] = f[q]
  BY <1>1, ReplacedRecord
<1>4. g = Replaced(h, p, r)
  BY <1>1, <1>2, <1>3 DEF FightEnded, Replaced, FighterStates
<1>5. /\ r \in FighterRecord /\ WellCalmed(f[p], r) /\ r.victims = {} /\ MarksOfFight(r)
  BY <1>1, <1>2 DEF FighterRecord, WellCalmed, MarksOfFight, Skulls
<1> HIDE DEF g, h, r
<1>6. g \in FighterStates /\ g[p] = r /\ \A q \in Fighter \ {p} : g[q] = h[q]
  <2>1. PICK u \in FighterRecord : u = r
    BY <1>5
  <2>2. PICK i \in FighterStates : i = h
    BY <1>3
  <2>3. PICK j : j = g
    OBVIOUS
  <2>4. j = Replaced(i, p, u)
    BY <1>4, <2>1, <2>2, <2>3
  <2>5. j \in FighterStates /\ j[p] = u /\ \A q \in Fighter \ {p} : j[q] = i[q]
    BY <2>4, ReplacedRecord
  <2> QED
    BY <2>1, <2>2, <2>3, <2>5
<1> QED
  BY <1>3, <1>5, <1>6 DEF g

LEMMA BuriedRecord ==
  ASSUME NEW f \in FighterStates, NEW v \in Fighter, MarksOfFight(f[v])
  PROVE  LET g == Buried(f, v) IN
         /\ g \in FighterStates
         /\ \A q \in Fighter \ {v} : g[q] = f[q]
         /\ WellCalmed(f[v], g[v]) /\ g[v].victims = {} /\ MarksOfFight(g[v])
<1> DEFINE whole == IF f[v].loses /\ f[v].skull = "black" THEN 1 ELSE MaxHealth
           r == [f[v] EXCEPT !.hp = whole, !.loses = TRUE]
           g == Replaced(f, v, r)
           h == IF g[v].fight THEN FightEnded(g, v) ELSE g
           b == Buried(f, v)
<1>a. f[v] \in FighterRecord /\ whole \in 0..MaxHealth
  BY FightConstants DEF FighterStates
<1>1. b = IF f[v].loses THEN h ELSE Calmed(h, v)
  <2>1. g = [f EXCEPT ![v].hp = whole, ![v].loses = TRUE]
    BY <1>a DEF Replaced, FighterStates, FighterRecord
  <2> HIDE DEF g
  <2> QED
    BY <2>1 DEF Buried
<1> HIDE DEF whole
<1>2. /\ r \in FighterRecord /\ WellCalmed(f[v], r) /\ MarksOfFight(r)
      /\ r.fight = f[v].fight /\ r.victims = f[v].victims
  BY <1>a DEF FighterRecord, WellCalmed, MarksOfFight
<1> HIDE DEF r
<1>3. g \in FighterStates /\ g[v] = r /\ \A q \in Fighter \ {v} : g[q] = f[q]
  BY <1>2, ReplacedRecord
<1> HIDE DEF g
<1>4. /\ h \in FighterStates /\ \A q \in Fighter \ {v} : h[q] = f[q]
      /\ WellCalmed(f[v], h[v]) /\ h[v].victims = {} /\ MarksOfFight(h[v])
  <2>1. CASE g[v].fight
    <3> DEFINE e == FightEnded(g, v)
    <3>1. /\ e \in FighterStates
          /\ \A q \in Fighter \ {v} : e[q] = g[q]
          /\ WellCalmed(g[v], e[v]) /\ e[v].victims = {} /\ MarksOfFight(e[v])
      BY <1>3, FightEndedRecord
    <3>2. h = e
      BY <2>1
    <3> HIDE DEF e, h
    <3>3. WellCalmed(f[v], e[v])
      BY <1>2, <1>3, <3>1 DEF WellCalmed
    <3> QED
      BY <1>3, <3>1, <3>2, <3>3
  <2>2. CASE ~g[v].fight
    <3>1. h = g
      BY <2>2
    <3>2. r.victims = {}
      BY <1>2, <1>3, <2>2 DEF MarksOfFight
    <3> HIDE DEF h
    <3> QED
      BY <1>2, <1>3, <3>1, <3>2
  <2> QED
    BY <2>1, <2>2
<1> HIDE DEF h
<1>5. CASE f[v].loses
  <2>1. b = h
    BY <1>1, <1>5
  <2> QED
    BY <1>4, <2>1 DEF b
<1>6. CASE ~f[v].loses
  <2>1. b = Calmed(h, v)
    BY <1>1, <1>6
  <2>2. PICK c \in FighterRecord :
            /\ Calmed(h, v) = Replaced(h, v, c)
            /\ WellCalmed(h[v], c)
            /\ c.skull = h[v].skull /\ c.fight = h[v].fight
            /\ c.locked = h[v].locked /\ c.victims = h[v].victims
    BY <1>4, CalmedRecord
  <2>3. b = Replaced(h, v, c)
    BY <2>1, <2>2
  <2> HIDE DEF b
  <2>4. b \in FighterStates /\ b[v] = c /\ \A q \in Fighter \ {v} : b[q] = h[q]
    BY <1>4, <2>3, ReplacedRecord
  <2>5. WellCalmed(f[v], c) /\ c.victims = {} /\ MarksOfFight(c)
    BY <1>4, <2>2 DEF WellCalmed, MarksOfFight
  <2> QED
    BY <1>4, <2>4, <2>5 DEF b
<1> QED
  BY <1>5, <1>6

\* g is f when v has gone.
WellTakenOut(f, g, v) ==
    /\ g \in FighterStates
    /\ \A p \in Fighter \ {v} : SameMarks(f[p], g[p]) /\ g[p].dying = f[p].dying
    /\ \A p \in Fighter \ {v} : g[p].lastHit \in {f[p].lastHit, None} \ {v}
    /\ g[v].victims = {} /\ ~g[v].there /\ g[v].lastHit = None /\ g[v].dying = 0
    /\ g[v].frags = f[v].frags /\ MarksOfFight(g[v])

LEMMA TakenOutRecord ==
  ASSUME NEW f \in FighterStates, NEW v \in Fighter
  PROVE  WellTakenOut(f, TakenOut(f, v), v)
<1> DEFINE hp == Max({1, f[v].hp})
           sk == IF f[v].skull \in {"red", "black"} THEN f[v].skull ELSE "none"
           gone == [there |-> FALSE, hp |-> hp, fight |-> f[v].fight, locked |-> FALSE,
                    victims |-> {}, skull |-> sk, frags |-> f[v].frags, damage |-> Unhurt,
                    lastHit |-> None, dying |-> 0, loses |-> TRUE]
           other(p) == [f[p] EXCEPT !.damage = [f[p].damage EXCEPT ![v] = 0],
                                    !.lastHit = IF f[p].lastHit = v THEN None ELSE f[p].lastHit]
           g == TakenOut(f, v)
<1>a. \A p \in Fighter : f[p] \in FighterRecord
  BY DEF FighterStates
<1>1. g = [p \in Fighter |-> IF p = v THEN gone ELSE other(p)]
  BY <1>a DEF TakenOut, FighterRecord
<1>2. hp \in 0..MaxHealth
  <2>1. f[v].hp \in 0..MaxHealth /\ MaxHealth \in Nat /\ MaxHealth > 0
    BY <1>a, FightConstants DEF FighterRecord
  <2>2. 1 \in Int /\ f[v].hp \in Int
    BY <2>1
  <2>3. hp = IF 1 >= f[v].hp THEN 1 ELSE f[v].hp
    BY <2>2, GreaterOfTwo
  <2> QED
    BY <2>1, <2>3
<1> HIDE DEF hp
<1>3. /\ gone \in FighterRecord /\ gone.victims = {} /\ ~gone.there /\ gone.lastHit = None
      /\ gone.dying = 0 /\ gone.frags = f[v].frags /\ MarksOfFight(gone)
  <2>1. Unhurt \in [Fighter -> Nat] /\ sk \in Skulls \ {"white"}
    BY DEF Unhurt, Skulls
  <2> HIDE DEF sk
  <2> QED
    BY <1>2, <2>1, <1>a DEF FighterRecord, MarksOfFight
<1>4. \A p \in Fighter :
         /\ other(p) \in FighterRecord /\ SameMarks(f[p], other(p))
         /\ other(p).dying = f[p].dying /\ other(p).lastHit \in {f[p].lastHit, None} \ {v}
  <2> SUFFICES ASSUME NEW p \in Fighter
               PROVE  /\ other(p) \in FighterRecord /\ SameMarks(f[p], other(p))
                      /\ other(p).dying = f[p].dying
                      /\ other(p).lastHit \in {f[p].lastHit, None} \ {v}
    OBVIOUS
  <2> DEFINE d == [f[p].damage EXCEPT ![v] = 0]
             lh == IF f[p].lastHit = v THEN None ELSE f[p].lastHit
  <2>1. d \in [Fighter -> Nat] /\ lh \in Fighter \cup {None} /\ lh \in {f[p].lastHit, None} \ {v}
    BY <1>a, FightConstants DEF FighterRecord
  <2>2. other(p) = [f[p] EXCEPT !.damage = d, !.lastHit = lh]
    OBVIOUS
  <2> HIDE DEF d, lh, other
  <2> QED
    BY <2>1, <2>2, <1>a DEF FighterRecord, SameMarks
<1> HIDE DEF gone, other, g
<1>5. g[v] = gone /\ \A p \in Fighter \ {v} : g[p] = other(p)
  BY <1>1
<1>6. g \in FighterStates
  BY <1>1, <1>3, <1>4 DEF FighterStates
<1>7. WellTakenOut(f, g, v)
  BY <1>3, <1>4, <1>5, <1>6 DEF WellTakenOut
<1> QED
  BY <1>7 DEF g

-----------------------------------------------------------------------------
LEMMA FightTypes ==
  FightsTypeOK <=> /\ fighters \in FighterStates /\ arena \subseteq Fighter
                   /\ began \in [Fighter -> SUBSET Fighter]
                   /\ ended \in [Fighter -> SUBSET Fighter]
                   /\ blows \in 0..MaxBlows /\ steps \in 0..MaxSteps
  BY DEF FightsTypeOK, FighterStates, FighterRecord

LEMMA FightMarks == MarksEndWithFight <=> \A p \in Fighter : MarksOfFight(fighters[p])
  BY DEF MarksEndWithFight, MarksOfFight

\* What a step leaves of the invariant when it changes no marks and no history.
LEMMA HistoryStays ==
  ASSUME FightsInv, UNCHANGED <<began, ended>>,
         \A p \in Fighter : fighters'[p].victims = fighters[p].victims
  PROVE  VictimsAreFought' /\ BegunIsRemembered'
  BY DEF FightsInv, VictimsAreFought, BegunIsRemembered

LEMMA HistoryEnds ==
  ASSUME FightsInv, NEW p \in Fighter, OverFor(p), fighters'[p].victims = {},
         \A q \in Fighter \ {p} : fighters'[q].victims \subseteq fighters[q].victims,
         \A q \in Fighter \ {p} : fighters[q].victims \subseteq fighters'[q].victims \cup {p}
  PROVE  /\ VictimsAreFought' /\ BegunIsRemembered'
         /\ began' \in [Fighter -> SUBSET Fighter] /\ ended' \in [Fighter -> SUBSET Fighter]
<1> DEFINE foes == began[p] \cup {q \in Fighter : p \in began[q]}
<1>a. /\ fighters \in FighterStates
      /\ began \in [Fighter -> SUBSET Fighter] /\ ended \in [Fighter -> SUBSET Fighter]
      /\ \A q \in Fighter : MarksOfFight(fighters[q])
  BY FightTypes, FightMarks DEF FightsInv
<1>1. /\ began' = [q \in Fighter |-> IF q = p THEN {} ELSE began[q] \ {p}]
      /\ ended' = [q \in Fighter |-> IF q = p THEN {}
                                     ELSE IF q \in foes /\ fighters[q].fight
                                     THEN ended[q] \cup {p} ELSE ended[q]]
  BY DEF OverFor
<1>2. began' \in [Fighter -> SUBSET Fighter] /\ ended' \in [Fighter -> SUBSET Fighter]
  BY <1>1, <1>a
<1>3. /\ began'[p] = {}
      /\ \A q \in Fighter \ {p} : began'[q] = began[q] \ {p}
      /\ \A q \in Fighter \ {p} : ended[q] \subseteq ended'[q]
      /\ \A q \in Fighter \ {p} : q \in foes /\ fighters[q].fight => p \in ended'[q]
  BY <1>1
<1>4. VictimsAreFought'
  <2> SUFFICES ASSUME NEW k \in Fighter, NEW v \in Fighter, v \in fighters'[k].victims
               PROVE  v \in began'[k] \/ k \in began'[v] \/ v \in ended'[k]
    BY DEF VictimsAreFought
  <2>1. k # p /\ v \in fighters[k].victims
    OBVIOUS
  <2>2. v \in began[k] \/ k \in began[v] \/ v \in ended[k]
    BY <2>1 DEF FightsInv, VictimsAreFought
  <2>3. CASE v # p
    BY <2>1, <2>2, <2>3, <1>3
  <2>4. CASE v = p
    <3>1. fighters[k].fight
      BY <2>1, <1>a DEF MarksOfFight
    <3>2. k \in foes \/ v \in ended[k]
      BY <2>2, <2>4
    <3> QED
      BY <2>1, <2>4, <3>1, <3>2, <1>3
  <2> QED
    BY <2>3, <2>4
<1>5. BegunIsRemembered'
  <2> SUFFICES ASSUME NEW k \in Fighter, NEW v \in Fighter, k \in began'[v]
               PROVE  k \in fighters'[v].victims \/ v \in ended'[k]
    BY DEF BegunIsRemembered
  <2>1. v # p /\ k # p /\ k \in began[v]
    BY <1>3
  <2>2. k \in fighters[v].victims \/ v \in ended[k]
    BY <2>1 DEF FightsInv, BegunIsRemembered
  <2> QED
    BY <2>1, <2>2, <1>3
<1> QED
  BY <1>2, <1>4, <1>5

LEMMA BlowKeepsFights ==
  ASSUME FightsInv, NEW k \in Fighter, NEW v \in Fighter, CanStrike(k, v), Began(k, v),
         NEW f, WellMarked(fighters, f, k, v), WellHurt(f, fighters', k, v)
  PROVE  /\ FightsInv'
         /\ \A p \in Fighter : fighters'[p].frags = fighters[p].frags
<1>a. /\ fighters \in FighterStates /\ arena \subseteq Fighter
      /\ began \in [Fighter -> SUBSET Fighter] /\ ended \in [Fighter -> SUBSET Fighter]
      /\ blows \in 0..MaxBlows /\ steps \in 0..MaxSteps
      /\ \A p \in Fighter : MarksOfFight(fighters[p])
      /\ LastHitIsThere(fighters) /\ VictimsAreFought /\ BegunIsRemembered
  BY FightTypes, FightMarks DEF FightsInv
<1>b. /\ k # v /\ fighters[k].there /\ fighters[v].there
      /\ arena' = arena /\ steps' = steps /\ blows' \in 0..MaxBlows
  BY <1>a, FightConstants DEF CanStrike, Present
<1>c. ended' = ended
  BY DEF Began
<1>1. \A p \in Fighter : /\ fighters'[p].there = fighters[p].there
                         /\ fighters'[p].frags = fighters[p].frags
                         /\ fighters'[p].victims = f[p].victims
  BY DEF WellMarked, WellHurt, SameBody, SameMarks
<1>2. \A p \in Fighter : MarksOfFight(fighters'[p])
  BY <1>a DEF WellMarked, WellHurt, SameMarks, MarksOfFight
<1>3. LastHitIsThere(fighters')
  <2>1. \A p \in Fighter \ {v} : fighters'[p].lastHit = fighters[p].lastHit
    BY DEF WellMarked, WellHurt, SameBody
  <2>2. fighters'[v].lastHit \in {fighters[v].lastHit, k, None}
    BY DEF WellMarked, WellHurt, SameBody
  <2>3. \A p \in Fighter : fighters[p].lastHit \in Fighter \cup {None}
    BY <1>a DEF FighterStates, FighterRecord
  <2> QED
    BY <1>a, <1>b, <1>1, <2>1, <2>2, <2>3 DEF LastHitIsThere
<1>4. /\ \A p \in Fighter \ {k} : fighters'[p].victims = fighters[p].victims
      /\ fighters[k].victims \subseteq fighters'[k].victims
      /\ fighters'[k].victims \subseteq fighters[k].victims \cup {v}
      /\ v \notin fighters[k].victims /\ v \in fighters'[k].victims
           => v \notin arena /\ ~Allied(k, v)
      /\ v \notin arena /\ ~Allied(k, v) /\ v \notin fighters'[k].victims
           => k \in fighters[v].victims
  BY <1>1 DEF WellMarked
<1>5. /\ began' \in [Fighter -> SUBSET Fighter]
      /\ \A p \in Fighter \ {k} : began'[p] = began[p]
      /\ began[k] \subseteq began'[k] /\ began'[k] \subseteq began[k] \cup {v}
      /\ v \notin arena /\ ~Allied(k, v) => v \in began'[k] \/ k \in began[v]
      /\ v \notin began[k] /\ v \in began'[k]
           => v \notin arena /\ ~Allied(k, v) /\ k \notin began[v]
  <2>1. CASE v \in arena \/ Allied(k, v) \/ k \in began[v]
    <3>1. began' = began
      BY <2>1 DEF Began
    <3> QED
      BY <2>1, <3>1, <1>a
  <2>2. CASE ~(v \in arena \/ Allied(k, v) \/ k \in began[v])
    <3>1. began' = [began EXCEPT ![k] = began[k] \cup {v}]
      BY <2>2 DEF Began
    <3> QED
      BY <2>2, <3>1, <1>a
  <2> QED
    BY <2>1, <2>2
<1>6. VictimsAreFought'
  <2> SUFFICES ASSUME NEW p \in Fighter, NEW q \in Fighter, q \in fighters'[p].victims
               PROVE  q \in began'[p] \/ p \in began'[q] \/ q \in ended'[p]
    BY DEF VictimsAreFought
  <2>1. CASE q \in fighters[p].victims
    <3>1. q \in began[p] \/ p \in began[q] \/ q \in ended[p]
      BY <2>1, <1>a DEF VictimsAreFought
    <3>2. began[p] \subseteq began'[p] /\ began[q] \subseteq began'[q]
      BY <1>5
    <3> QED
      BY <3>1, <3>2, <1>c
  <2>2. CASE q \notin fighters[p].victims
    <3>1. p = k /\ q = v
      BY <2>2, <1>4
    <3> QED
      BY <2>2, <3>1, <1>b, <1>4, <1>5
  <2> QED
    BY <2>1, <2>2
<1>7. BegunIsRemembered'
  <2> SUFFICES ASSUME NEW p \in Fighter, NEW q \in Fighter, p \in began'[q]
               PROVE  p \in fighters'[q].victims \/ q \in ended'[p]
    BY DEF BegunIsRemembered
  <2>1. CASE p \in began[q]
    <3>1. p \in fighters[q].victims \/ q \in ended[p]
      BY <2>1, <1>a DEF BegunIsRemembered
    <3>2. fighters[q].victims \subseteq fighters'[q].victims
      BY <1>4
    <3> QED
      BY <3>1, <3>2, <1>c
  <2>2. CASE p \notin began[q]
    <3>1. q = k /\ p = v /\ v \notin arena /\ ~Allied(k, v) /\ k \notin began[v]
      BY <2>2, <1>5
    <3>2. CASE v \in fighters'[k].victims
      BY <3>1, <3>2
    <3>3. CASE v \notin fighters'[k].victims
      <4>1. k \in fighters[v].victims
        BY <3>1, <3>3, <1>4
      <4>2. k \in began[v] \/ v \in began[k] \/ k \in ended[v]
        BY <4>1, <1>a DEF VictimsAreFought
      <4> QED
        BY <2>2, <3>1, <4>2, <1>c
    <3> QED
      BY <3>2, <3>3
  <2> QED
    BY <2>1, <2>2
<1>8. FightsTypeOK'
  <2>1. fighters' \in FighterStates
    BY DEF WellHurt
  <2> QED
    BY <2>1, <1>a, <1>b, <1>c, <1>5, FightTypes DEF FightsTypeOK, FighterStates, FighterRecord
<1>9. MarksEndWithFight'
  BY <1>2 DEF MarksEndWithFight, MarksOfFight
<1> QED
  BY <1>1, <1>3, <1>6, <1>7, <1>8, <1>9 DEF FightsInv

LEMMA QuietStep ==
  ASSUME FightsInv, UNCHANGED <<began, ended>>, arena' \subseteq Fighter,
         blows' \in 0..MaxBlows, steps' \in 0..MaxSteps, fighters' \in FighterStates,
         \A p \in Fighter : fighters'[p].victims = fighters[p].victims,
         \A p \in Fighter : MarksOfFight(fighters[p]) => MarksOfFight(fighters'[p]),
         LastHitIsThere(fighters')
  PROVE  FightsInv'
<1>1. FightsTypeOK'
  <2>1. began \in [Fighter -> SUBSET Fighter] /\ ended \in [Fighter -> SUBSET Fighter]
    BY FightTypes DEF FightsInv
  <2> QED
    BY <2>1 DEF FightsTypeOK, FighterStates, FighterRecord
<1>2. MarksEndWithFight'
  BY FightMarks DEF FightsInv, MarksEndWithFight, MarksOfFight
<1>3. VictimsAreFought' /\ BegunIsRemembered'
  BY HistoryStays
<1> QED
  BY <1>1, <1>2, <1>3 DEF FightsInv

\* The record of one player changes, neither victims nor who hit last.
LEMMA QuietRecord ==
  ASSUME FightsInv, UNCHANGED <<began, ended, arena>>,
         blows' \in 0..MaxBlows, steps' \in 0..MaxSteps,
         NEW v \in Fighter, NEW r \in FighterRecord, fighters' = Replaced(fighters, v, r),
         r.victims = fighters[v].victims, fighters[v].there => r.there,
         r.lastHit = fighters[v].lastHit, r.frags =< fighters[v].frags,
         MarksOfFight(fighters[v]) => MarksOfFight(r)
  PROVE  FightsInv' /\ \A p \in Fighter : ~(fighters'[p].frags > fighters[p].frags)
<1>a. fighters \in FighterStates /\ LastHitIsThere(fighters) /\ arena \subseteq Fighter
  BY FightTypes DEF FightsInv
<1>1. /\ fighters' \in FighterStates /\ fighters'[v] = r
      /\ \A p \in Fighter \ {v} : fighters'[p] = fighters[p]
  BY <1>a, ReplacedRecord
<1>2. \A p \in Fighter : fighters[p].frags \in Nat /\ fighters'[p].frags \in Nat
  BY <1>a, <1>1 DEF FighterStates, FighterRecord
<1>3. \A p \in Fighter : ~(fighters'[p].frags > fighters[p].frags)
  BY <1>1, <1>2
<1>4. \A p \in Fighter : fighters'[p].victims = fighters[p].victims
  BY <1>1
<1>5. \A p \in Fighter : MarksOfFight(fighters[p]) => MarksOfFight(fighters'[p])
  BY <1>1
<1>6. LastHitIsThere(fighters')
  <2>1. \A p \in Fighter : fighters'[p].lastHit = fighters[p].lastHit
    BY <1>1
  <2>2. \A p \in Fighter : fighters[p].there => fighters'[p].there
    BY <1>1
  <2>3. \A p \in Fighter : fighters[p].lastHit \in Fighter \cup {None}
    BY <1>a DEF FighterStates, FighterRecord
  <2> QED
    BY <1>a, <2>1, <2>2, <2>3 DEF LastHitIsThere
<1> QED
  BY <1>1, <1>3, <1>4, <1>5, <1>6, <1>a, QuietStep

LEMMA DeathKeepsFights ==
  ASSUME FightsInv, NEW v \in Fighter, NEW most \in Fighter \cup {None},
         ExecuteDeath(v, most)
  PROVE  /\ FightsInv'
         /\ \A p \in Fighter : fighters'[p].frags > fighters[p].frags =>
              /\ Charged(fighters, p, v)
              /\ fighters[v].dying > 0 /\ fighters'[v].dying = 0
<1> DEFINE spared == v \in arena /\ fighters[v].lastHit # None
           f == Slain(fighters, v, most)
           r == [f[v] EXCEPT !.dying = f[v].dying - 1]
           d == Replaced(f, v, r)
           g == Buried(d, v)
<1>a. /\ fighters \in FighterStates /\ arena \subseteq Fighter
      /\ began \in [Fighter -> SUBSET Fighter] /\ ended \in [Fighter -> SUBSET Fighter]
      /\ blows \in 0..MaxBlows /\ steps \in 0..MaxSteps
      /\ \A p \in Fighter : MarksOfFight(fighters[p])
      /\ LastHitIsThere(fighters) /\ VictimsAreFought /\ BegunIsRemembered
  BY FightTypes, FightMarks DEF FightsInv
<1>b. /\ fighters[v].there /\ fighters[v].dying > 0 /\ UNCHANGED <<blows, steps>>
      /\ (most # None => fighters[v].damage[most] > 0)
      /\ OverFor(v)
      /\ arena' \in {arena, arena \ {v}}
  BY DEF ExecuteDeath
<1>1. WellSlain(fighters, f, v)
  BY <1>a, <1>b, DeathSlays
<1>2. f \in FighterStates /\ f[v] \in FighterRecord
  BY <1>1 DEF WellSlain, FighterStates
<1>3. fighters' = IF spared THEN g ELSE TakenOut(g, v)
  <2>1. d = [f EXCEPT ![v].dying = @ - 1]
    BY <1>2 DEF Replaced, FighterStates, FighterRecord
  <2> HIDE DEF d, f
  <2>2. fighters' = IF spared THEN Buried([f EXCEPT ![v].dying = @ - 1], v)
                    ELSE TakenOut(Buried([f EXCEPT ![v].dying = @ - 1], v), v)
    BY DEF ExecuteDeath, f
  <2> QED
    BY <2>1, <2>2
<1> HIDE DEF f
<1>4. /\ r \in FighterRecord /\ MarksOfFight(r)
      /\ r.there = fighters[v].there /\ r.frags = f[v].frags /\ r.lastHit = fighters[v].lastHit
  <2>1. f[v].dying = fighters[v].dying /\ f[v].there = fighters[v].there
        /\ f[v].lastHit = fighters[v].lastHit /\ MarksOfFight(f[v])
    BY <1>1, <1>a DEF WellSlain
  <2>2. f[v].dying - 1 \in Nat
    BY <2>1, <1>2, <1>b DEF FighterRecord
  <2> QED
    BY <2>1, <2>2, <1>2 DEF FighterRecord, MarksOfFight
<1> HIDE DEF r
<1>5. d \in FighterStates /\ d[v] = r /\ \A p \in Fighter \ {v} : d[p] = f[p]
  BY <1>2, <1>4, ReplacedRecord
<1> HIDE DEF d
<1>6. /\ g \in FighterStates
      /\ \A q \in Fighter \ {v} : g[q] = d[q]
      /\ WellCalmed(d[v], g[v]) /\ g[v].victims = {} /\ MarksOfFight(g[v])
  BY <1>4, <1>5, BuriedRecord
<1> HIDE DEF g
<1>7. /\ \A q \in Fighter \ {v} : g[q] = f[q]
      /\ g[v].there /\ g[v].frags = f[v].frags /\ g[v].lastHit \in {fighters[v].lastHit, None}
  BY <1>4, <1>5, <1>6, <1>b DEF WellCalmed
<1>8. LastHitIsThere(g)
  <2>1. \A q \in Fighter : g[q].lastHit \in {fighters[q].lastHit, None}
    BY <1>7, <1>1 DEF WellSlain
  <2>2. \A q \in Fighter : fighters[q].there => g[q].there
    BY <1>7, <1>1 DEF WellSlain
  <2>3. \A q \in Fighter : fighters[q].lastHit \in Fighter \cup {None}
    BY <1>a DEF FighterStates, FighterRecord
  <2> QED
    BY <1>a, <2>1, <2>2, <2>3 DEF LastHitIsThere
<1>9. \A q \in Fighter : MarksOfFight(g[q])
  BY <1>a, <1>1, <1>6, <1>7 DEF WellSlain
<1>10. \A q \in Fighter : g[q].frags > fighters[q].frags => Charged(fighters, q, v)
  BY <1>7, <1>1 DEF WellSlain
<1>11. /\ \A q \in Fighter \ {v} : g[q].victims \subseteq fighters[q].victims
       /\ \A q \in Fighter \ {v} : fighters[q].victims \subseteq g[q].victims \cup {v}
  BY <1>7, <1>1 DEF WellSlain
<1>12. /\ fighters' \in FighterStates /\ LastHitIsThere(fighters')
       /\ \A q \in Fighter : MarksOfFight(fighters'[q])
       /\ \A q \in Fighter : fighters'[q].frags = g[q].frags
       /\ \A q \in Fighter : fighters'[q].victims = g[q].victims
       /\ ~spared => fighters'[v].dying = 0
  <2>1. CASE spared
    <3>1. fighters' = g
      BY <1>3, <2>1
    <3> QED
      BY <2>1, <3>1, <1>6, <1>8, <1>9
  <2>2. CASE ~spared
    <3>1. WellTakenOut(g, fighters', v)
      BY <1>3, <1>6, <2>2, TakenOutRecord
    <3>2. \A q \in Fighter : fighters'[q].frags = g[q].frags
      BY <3>1 DEF WellTakenOut, SameMarks
    <3>3. \A q \in Fighter : fighters'[q].victims = g[q].victims
      BY <3>1, <1>6 DEF WellTakenOut, SameMarks
    <3>4. \A q \in Fighter : MarksOfFight(fighters'[q])
      BY <3>1, <1>9 DEF WellTakenOut, SameMarks, MarksOfFight
    <3>5. LastHitIsThere(fighters')
      <4>1. \A q \in Fighter : fighters'[q].lastHit \in {g[q].lastHit, None} \ {v}
        BY <3>1, FightConstants DEF WellTakenOut
      <4>2. \A q \in Fighter \ {v} : g[q].there => fighters'[q].there
        BY <3>1 DEF WellTakenOut, SameMarks
      <4>3. \A q \in Fighter : g[q].lastHit \in Fighter \cup {None}
        BY <1>6 DEF FighterStates, FighterRecord
      <4> QED
        BY <4>1, <4>2, <4>3, <1>8 DEF LastHitIsThere
    <3> QED
      BY <3>1, <3>2, <3>3, <3>4, <3>5 DEF WellTakenOut
  <2> QED
    BY <2>1, <2>2
<1>13. /\ VictimsAreFought' /\ BegunIsRemembered'
       /\ began' \in [Fighter -> SUBSET Fighter] /\ ended' \in [Fighter -> SUBSET Fighter]
  <2>1. fighters'[v].victims = {}
    BY <1>6, <1>12
  <2>2. \A q \in Fighter \ {v} : fighters'[q].victims \subseteq fighters[q].victims
    BY <1>11, <1>12
  <2>3. \A q \in Fighter \ {v} : fighters[q].victims \subseteq fighters'[q].victims \cup {v}
    BY <1>11, <1>12
  <2> QED
    BY <1>b, <2>1, <2>2, <2>3, HistoryEnds
<1>14. FightsInv'
  <2>1. FightsTypeOK'
    BY <1>12, <1>13, <1>a, <1>b DEF FightsTypeOK, FighterStates, FighterRecord
  <2>2. MarksEndWithFight'
    BY <1>12 DEF MarksEndWithFight, MarksOfFight
  <2> QED
    BY <2>1, <2>2, <1>12, <1>13 DEF FightsInv
<1>15. ASSUME NEW p \in Fighter, fighters'[p].frags > fighters[p].frags
       PROVE  /\ Charged(fighters, p, v)
              /\ fighters[v].dying > 0 /\ fighters'[v].dying = 0
  <2>1. Charged(fighters, p, v)
    BY <1>10, <1>12, <1>15
  <2>2. ~spared
    BY <2>1 DEF Charged
  <2> QED
    BY <2>1, <2>2, <1>12, <1>b
<1> QED
  BY <1>14, <1>15

\* What follows of the invariant, and of who is charged.
ChargedJustly ==
    \A k \in Fighter : fighters'[k].frags > fighters[k].frags =>
        \E v \in began[k] \cup ended[k] : fighters[v].dying > 0 /\ fighters'[v].dying = 0

LEMMA StepKeepsFights ==
  ASSUME FightsInv, FightsNext
  PROVE  FightsInv' /\ ChargedJustly
<1>a. /\ fighters \in FighterStates /\ arena \subseteq Fighter
      /\ began \in [Fighter -> SUBSET Fighter] /\ ended \in [Fighter -> SUBSET Fighter]
      /\ blows \in 0..MaxBlows /\ steps \in 0..MaxSteps
      /\ \A p \in Fighter : MarksOfFight(fighters[p])
      /\ LastHitIsThere(fighters) /\ VictimsAreFought /\ BegunIsRemembered
  BY FightTypes, FightMarks DEF FightsInv
<1>b. \A p \in Fighter : fighters[p] \in FighterRecord /\ fighters[p].frags \in Nat
                         /\ fighters[p].hp \in 0..MaxHealth
  BY <1>a DEF FighterStates, FighterRecord
<1>c. MaxBlows \in Nat /\ MaxSteps \in Nat /\ MaxHealth \in Nat
  BY FightConstants
<1>1. ASSUME NEW k \in Fighter, NEW v \in Fighter, NEW n \in 0..MaxHealth, Strike(k, v, n)
      PROVE  FightsInv' /\ ChargedJustly
  <2> DEFINE f == Fought(fighters, k, v)
  <2>1. CanStrike(k, v) /\ Began(k, v) /\ fighters' = Drained(f, k, v, n)
    BY <1>1 DEF Strike
  <2>2. k # v /\ fighters[k].there /\ fighters[v].there
    BY <2>1 DEF CanStrike, Present
  <2>3. WellMarked(fighters, f, k, v)
    BY <1>a, <2>2, BlowFights
  <2> HIDE DEF f
  <2>4. f \in FighterStates /\ n \in Nat
    BY <2>3, <1>c DEF WellMarked
  <2>5. WellHurt(f, fighters', k, v)
    BY <2>1, <2>4, DrainHurts
  <2>6. FightsInv' /\ \A p \in Fighter : fighters'[p].frags = fighters[p].frags
    BY <2>1, <2>3, <2>5, BlowKeepsFights
  <2> QED
    BY <2>6, <1>b DEF ChargedJustly
<1>2. ASSUME NEW k \in Fighter, NEW v \in Fighter, StrikeShield(k, v, 1)
      PROVE  FightsInv' /\ ChargedJustly
  <2> DEFINE f == Fought(fighters, k, v)
  <2>1. CanStrike(k, v) /\ Began(k, v) /\ fighters' = Blamed(f, v, k, 1)
    BY <1>2 DEF StrikeShield
  <2>2. k # v /\ fighters[k].there /\ fighters[v].there
    BY <2>1 DEF CanStrike, Present
  <2>3. WellMarked(fighters, f, k, v)
    BY <1>a, <2>2, BlowFights
  <2> HIDE DEF f
  <2>4. f \in FighterStates /\ 1 \in Nat
    BY <2>3 DEF WellMarked
  <2>5. WellHurt(f, fighters', k, v)
    BY <2>1, <2>4, BlameHurts
  <2>6. FightsInv' /\ \A p \in Fighter : fighters'[p].frags = fighters[p].frags
    BY <2>1, <2>3, <2>5, BlowKeepsFights
  <2> QED
    BY <2>6, <1>b DEF ChargedJustly
<1>3. ASSUME NEW k \in Fighter, NEW v \in Fighter, Heal(k, v)
      PROVE  FightsInv' /\ ChargedJustly
  <2> DEFINE r == [fighters[v] EXCEPT !.hp = fighters[v].hp + 1]
  <2>1. fighters' = Replaced(fighters, v, r)
    BY <1>3, <1>a DEF Heal, Replaced, FighterStates, FighterRecord
  <2>2. /\ fighters[v].hp \in 1..MaxHealth - 1 /\ UNCHANGED <<began, ended, arena>>
        /\ blows' \in 0..MaxBlows /\ steps' \in 0..MaxSteps
    BY <1>3, <1>a, <1>c DEF Heal
  <2>3. fighters[v].hp + 1 \in 0..MaxHealth
    BY <2>2, <1>c
  <2>4. /\ r \in FighterRecord /\ r.victims = fighters[v].victims
        /\ r.there = fighters[v].there
        /\ r.lastHit = fighters[v].lastHit /\ r.frags =< fighters[v].frags
        /\ MarksOfFight(fighters[v]) => MarksOfFight(r)
    BY <2>3, <1>b DEF FighterRecord, MarksOfFight
  <2> HIDE DEF r
  <2>5. FightsInv' /\ \A p \in Fighter : ~(fighters'[p].frags > fighters[p].frags)
    BY <2>1, <2>2, <2>4, QuietRecord
  <2> QED
    BY <2>5 DEF ChargedJustly
<1>4. ASSUME NEW v \in Fighter, NEW n \in 1..MaxHealth, NEW regained \in 0..1,
             Suffer(v, n, regained)
      PROVE  FightsInv' /\ ChargedJustly
  <2> DEFINE i == InFight(fighters, v)
             f == Drained(i, None, v, n)
             hp == Min({MaxHealth, f[v].hp + regained})
             r == [f[v] EXCEPT !.hp = hp]
  <2>1. /\ fighters[v].there /\ UNCHANGED <<began, ended, arena, steps>>
        /\ blows' \in 0..MaxBlows
        /\ fighters' = [f EXCEPT ![v].hp = hp]
    BY <1>4, <1>a, <1>c DEF Suffer
  <2>2. /\ i \in FighterStates
        /\ \A p \in Fighter : SameBody(fighters[p], i[p]) /\ i[p].victims = fighters[p].victims
        /\ \A p \in Fighter : MarksOfFight(fighters[p]) => MarksOfFight(i[p])
    BY <1>a, InFightMarks
  <2> HIDE DEF i
  <2>3. WellHurt(i, f, None, v)
    BY <2>2, <1>c, DrainHurts
  <2> HIDE DEF f
  <2>4. f \in FighterStates /\ f[v] \in FighterRecord /\ f[v].hp \in 0..MaxHealth
    BY <2>3 DEF WellHurt, FighterStates, FighterRecord
  <2>5. hp \in 0..MaxHealth
    <3>1. f[v].hp + regained \in Int /\ f[v].hp + regained >= 0
      BY <2>4
    <3>2. hp = IF MaxHealth =< f[v].hp + regained THEN MaxHealth ELSE f[v].hp + regained
      BY <3>1, <1>c, LesserOfTwo
    <3> QED
      BY <3>1, <3>2, <1>c
  <2>6. fighters' = Replaced(f, v, r)
    BY <2>1, <2>4 DEF Replaced
  <2> HIDE DEF hp
  <2>7. r \in FighterRecord /\ SameMarks(f[v], r) /\ r.lastHit = f[v].lastHit
    BY <2>4, <2>5 DEF FighterRecord, SameMarks
  <2> HIDE DEF r
  <2>8. /\ fighters' \in FighterStates /\ fighters'[v] = r
        /\ \A p \in Fighter \ {v} : fighters'[p] = f[p]
    BY <2>4, <2>6, <2>7, ReplacedRecord
  <2>9. \A p \in Fighter : SameMarks(i[p], fighters'[p])
    BY <2>3, <2>7, <2>8 DEF WellHurt, SameMarks
  <2>10. \A p \in Fighter : /\ fighters'[p].victims = fighters[p].victims
                            /\ fighters'[p].frags = fighters[p].frags
                            /\ fighters'[p].there = fighters[p].there
    BY <2>2, <2>9 DEF SameMarks, SameBody
  <2>11. \A p \in Fighter : MarksOfFight(fighters[p]) => MarksOfFight(fighters'[p])
    BY <2>2, <2>9 DEF SameMarks, MarksOfFight
  <2>12. LastHitIsThere(fighters')
    <3>1. \A p \in Fighter : fighters'[p].lastHit \in {fighters[p].lastHit, None}
      BY <2>2, <2>3, <2>7, <2>8 DEF WellHurt, SameBody
    <3>2. \A p \in Fighter : fighters[p].lastHit \in Fighter \cup {None}
      BY <1>b DEF FighterRecord
    <3> QED
      BY <1>a, <2>10, <3>1, <3>2 DEF LastHitIsThere
  <2>13. FightsInv'
    BY <1>a, <2>1, <2>8, <2>10, <2>11, <2>12, QuietStep
  <2> QED
    BY <2>10, <2>13, <1>b DEF ChargedJustly
<1>5. ASSUME NEW v \in Fighter, NEW most \in Fighter \cup {None}, ExecuteDeath(v, most)
      PROVE  FightsInv' /\ ChargedJustly
  <2>1. /\ FightsInv'
        /\ \A p \in Fighter : fighters'[p].frags > fighters[p].frags =>
              /\ Charged(fighters, p, v)
              /\ fighters[v].dying > 0 /\ fighters'[v].dying = 0
    BY <1>5, DeathKeepsFights
  <2>2. ASSUME NEW p \in Fighter, Charged(fighters, p, v)
        PROVE  v \in began[p] \cup ended[p]
    <3>1. v \in began[p] \/ p \in began[v] \/ v \in ended[p]
      BY <2>2, <1>a DEF Charged, VictimsAreFought
    <3>2. p \in began[v] => v \in ended[p]
      BY <2>2, <1>a DEF Charged, BegunIsRemembered
    <3> QED
      BY <3>1, <3>2
  <2> QED
    BY <2>1, <2>2 DEF ChargedJustly
<1>6. ASSUME NEW p \in Fighter, FightEnds(p)
      PROVE  FightsInv' /\ ChargedJustly
  <2>1. /\ fighters' \in FighterStates
        /\ \A q \in Fighter \ {p} : fighters'[q] = fighters[q]
        /\ WellCalmed(fighters[p], fighters'[p]) /\ fighters'[p].victims = {}
        /\ MarksOfFight(fighters'[p])
    <3>1. fighters' = FightEnded(fighters, p)
      BY <1>6 DEF FightEnds
    <3> QED
      BY <3>1, <1>a, FightEndedRecord
  <2>2. OverFor(p) /\ UNCHANGED <<arena, blows, steps>>
    BY <1>6 DEF FightEnds
  <2>3. /\ VictimsAreFought' /\ BegunIsRemembered'
        /\ began' \in [Fighter -> SUBSET Fighter] /\ ended' \in [Fighter -> SUBSET Fighter]
    <3>1. /\ \A q \in Fighter \ {p} : fighters'[q].victims \subseteq fighters[q].victims
          /\ \A q \in Fighter \ {p} : fighters[q].victims \subseteq fighters'[q].victims \cup {p}
      BY <2>1
    <3> QED
      BY <2>1, <2>2, <3>1, HistoryEnds
  <2>4. LastHitIsThere(fighters')
    <3>1. \A q \in Fighter : fighters'[q].lastHit \in {fighters[q].lastHit, None}
      BY <2>1 DEF WellCalmed
    <3>2. \A q \in Fighter : fighters'[q].there = fighters[q].there
      BY <2>1 DEF WellCalmed
    <3>3. \A q \in Fighter : fighters[q].lastHit \in Fighter \cup {None}
      BY <1>b DEF FighterRecord
    <3> QED
      BY <1>a, <3>1, <3>2, <3>3 DEF LastHitIsThere
  <2>5. \A q \in Fighter : MarksOfFight(fighters'[q])
    BY <1>a, <2>1
  <2>6. \A q \in Fighter : fighters'[q].frags = fighters[q].frags
    BY <2>1 DEF WellCalmed
  <2>7. FightsInv'
    <3>1. FightsTypeOK'
      BY <1>a, <2>1, <2>2, <2>3 DEF FightsTypeOK, FighterStates, FighterRecord
    <3>2. MarksEndWithFight'
      BY <2>5 DEF MarksEndWithFight, MarksOfFight
    <3> QED
      BY <3>1, <3>2, <2>3, <2>4 DEF FightsInv
  <2> QED
    BY <2>6, <2>7, <1>b DEF ChargedJustly
<1>7. ASSUME NEW p \in Fighter, NEW kicked \in BOOLEAN, LeaveFight(p, kicked)
      PROVE  FightsInv' /\ ChargedJustly
  <2>1. WellTakenOut(fighters, fighters', p)
    <3>1. fighters' = TakenOut(fighters, p)
      BY <1>7 DEF LeaveFight
    <3> QED
      BY <3>1, <1>a, TakenOutRecord
  <2>2. OverFor(p) /\ arena' = arena \ {p} /\ blows' = blows /\ steps' \in 0..MaxSteps
    BY <1>7, <1>a, <1>c DEF LeaveFight
  <2>3. /\ VictimsAreFought' /\ BegunIsRemembered'
        /\ began' \in [Fighter -> SUBSET Fighter] /\ ended' \in [Fighter -> SUBSET Fighter]
    <3>1. /\ \A q \in Fighter \ {p} : fighters'[q].victims \subseteq fighters[q].victims
          /\ \A q \in Fighter \ {p} : fighters[q].victims \subseteq fighters'[q].victims \cup {p}
          /\ fighters'[p].victims = {}
      BY <2>1 DEF WellTakenOut, SameMarks
    <3> QED
      BY <2>2, <3>1, HistoryEnds
  <2>4. LastHitIsThere(fighters')
    <3>1. \A q \in Fighter : fighters'[q].lastHit \in {fighters[q].lastHit, None} \ {p}
      BY <2>1, FightConstants DEF WellTakenOut
    <3>2. \A q \in Fighter \ {p} : fighters'[q].there = fighters[q].there
      BY <2>1 DEF WellTakenOut, SameMarks
    <3>3. \A q \in Fighter : fighters[q].lastHit \in Fighter \cup {None}
      BY <1>b DEF FighterRecord
    <3> QED
      BY <1>a, <3>1, <3>2, <3>3 DEF LastHitIsThere
  <2>5. \A q \in Fighter : MarksOfFight(fighters'[q])
    BY <1>a, <2>1 DEF WellTakenOut, SameMarks, MarksOfFight
  <2>6. \A q \in Fighter : fighters'[q].frags = fighters[q].frags
    BY <2>1 DEF WellTakenOut, SameMarks
  <2>7. FightsInv'
    <3>1. FightsTypeOK'
      BY <1>a, <2>1, <2>2, <2>3 DEF FightsTypeOK, FighterStates, FighterRecord, WellTakenOut
    <3>2. MarksEndWithFight'
      BY <2>5 DEF MarksEndWithFight, MarksOfFight
    <3> QED
      BY <3>1, <3>2, <2>3, <2>4 DEF FightsInv
  <2> QED
    BY <2>6, <2>7, <1>b DEF ChargedJustly
<1>8. ASSUME NEW p \in Fighter, Wait(p)
      PROVE  FightsInv' /\ ChargedJustly
  <2> DEFINE ticks == Max({0, fighters[p].frags - 1})
             sk == IF fighters[p].skull \in {"red", "black"} /\ ticks < 1 /\ ~fighters[p].fight
                   THEN "none" ELSE fighters[p].skull
             r == [fighters[p] EXCEPT !.frags = ticks, !.skull = sk]
  <2>1. ticks \in Nat /\ ticks =< fighters[p].frags
    <3>1. fighters[p].frags - 1 \in Int
      BY <1>b
    <3>2. ticks = IF 0 >= fighters[p].frags - 1 THEN 0 ELSE fighters[p].frags - 1
      BY <3>1, GreaterOfTwo
    <3> QED
      BY <3>2, <1>b
  <2>2. fighters' = Replaced(fighters, p, r)
    BY <1>8, <1>a DEF Wait, SkullChecked, Replaced, FighterStates, FighterRecord
  <2> HIDE DEF ticks
  <2>3. sk \in Skulls /\ (sk = "white" => fighters[p].skull = "white")
    BY <1>b DEF Skulls, FighterRecord
  <2> HIDE DEF sk
  <2>a. /\ r.victims = fighters[p].victims /\ r.there = fighters[p].there
        /\ r.lastHit = fighters[p].lastHit /\ r.frags = ticks
        /\ r.skull = sk /\ r.locked = fighters[p].locked /\ r.fight = fighters[p].fight
    BY <1>b DEF FighterRecord
  <2>b. r \in FighterRecord
    <3>1. fighters[p] \in FighterRecord /\ ticks \in Nat /\ sk \in Skulls
      BY <2>1, <2>3, <1>b
    <3> QED
      BY ONLY <3>1 DEF FighterRecord
  <2>4. /\ r \in FighterRecord /\ r.victims = fighters[p].victims
        /\ r.there = fighters[p].there
        /\ r.lastHit = fighters[p].lastHit /\ r.frags =< fighters[p].frags
        /\ MarksOfFight(fighters[p]) => MarksOfFight(r)
    BY <2>a, <2>b, <2>1, <2>3 DEF MarksOfFight
  <2> HIDE DEF r
  <2>5. /\ UNCHANGED <<began, ended, arena>>
        /\ blows' \in 0..MaxBlows /\ steps' \in 0..MaxSteps
    BY <1>8, <1>a, <1>c DEF Wait
  <2>6. FightsInv' /\ \A q \in Fighter : ~(fighters'[q].frags > fighters[q].frags)
    BY <2>2, <2>4, <2>5, QuietRecord
  <2> QED
    BY <2>6 DEF ChargedJustly
<1>9. ASSUME NEW p \in Fighter, CrossLine(p)
      PROVE  FightsInv' /\ ChargedJustly
  <2>1. /\ UNCHANGED <<fighters, began, ended, blows>> /\ arena' \subseteq Fighter
        /\ steps' \in 0..MaxSteps
    BY <1>9, <1>a, <1>c DEF CrossLine
  <2>2. FightsInv'
    BY <2>1, <1>a, QuietStep
  <2> QED
    BY <2>1, <2>2, <1>b DEF ChargedJustly
<1>10. ASSUME NEW p \in Fighter, NEW n \in 0..1, ComeBack(p, n)
       PROVE  FightsInv' /\ ChargedJustly
  <2> DEFINE ticks == Max({0, fighters[p].frags - n})
             sk == IF fighters[p].frags > n THEN fighters[p].skull ELSE "none"
             r == [fighters[p] EXCEPT !.there = TRUE, !.frags = ticks, !.skull = sk]
  <2>1. ticks \in Nat /\ ticks =< fighters[p].frags
    <3>1. fighters[p].frags - n \in Int
      BY <1>b
    <3>2. ticks = IF 0 >= fighters[p].frags - n THEN 0 ELSE fighters[p].frags - n
      BY <3>1, GreaterOfTwo
    <3> QED
      BY <3>2, <1>b
  <2>2. fighters' = Replaced(fighters, p, r)
    BY <1>10, <1>a DEF ComeBack, Replaced, FighterStates, FighterRecord
  <2> HIDE DEF ticks
  <2>3. sk \in Skulls /\ (sk = "white" => fighters[p].skull = "white")
    BY <1>b DEF Skulls, FighterRecord
  <2> HIDE DEF sk
  <2>a. /\ r.victims = fighters[p].victims /\ r.there
        /\ r.lastHit = fighters[p].lastHit /\ r.frags = ticks
    BY <1>b DEF FighterRecord
  <2>b. r \in FighterRecord
    <3>1. fighters[p] \in FighterRecord /\ ticks \in Nat /\ sk \in Skulls
      BY <2>1, <2>3, <1>b
    <3> QED
      BY ONLY <3>1 DEF FighterRecord
  <2>4. /\ r \in FighterRecord /\ r.victims = fighters[p].victims
        /\ r.there
        /\ r.lastHit = fighters[p].lastHit /\ r.frags =< fighters[p].frags
    BY <2>a, <2>b, <2>1
  <2>5. MarksOfFight(r)
    <3>1. ~fighters[p].there
      BY <1>10 DEF ComeBack
    <3>2. ~fighters[p].locked /\ fighters[p].skull # "white" /\ fighters[p].victims = {}
      BY <3>1, <1>a DEF MarksOfFight
    <3> QED
      BY <3>2, <2>3, <1>b DEF MarksOfFight, FighterRecord
  <2> HIDE DEF r
  <2>6. /\ UNCHANGED <<began, ended, arena>>
        /\ blows' \in 0..MaxBlows /\ steps' \in 0..MaxSteps
    BY <1>10, <1>a DEF ComeBack
  <2>7. FightsInv' /\ \A q \in Fighter : ~(fighters'[q].frags > fighters[q].frags)
    BY <2>2, <2>4, <2>5, <2>6, QuietRecord
  <2> QED
    BY <2>7 DEF ChargedJustly
<1> QED
  BY <1>1, <1>2, <1>3, <1>4, <1>5, <1>6, <1>7, <1>8, <1>9, <1>10 DEF FightsNext

LEMMA FightsAlwaysInOrder == FightsSpec => [](FightsInv) /\ [][ChargedJustly]_fightVars
<1>1. FightsInit => FightsInv
  <2> SUFFICES ASSUME FightsInit
               PROVE  FightsInv
    OBVIOUS
  <2>1. Unhurt \in [Fighter -> Nat] /\ MaxHealth \in 0..MaxHealth /\ 0 \in 0..MaxBlows /\ 0 \in 0..MaxSteps
    BY FightConstants DEF Unhurt
  <2>2. \A p \in Fighter :
           /\ fighters[p] \in FighterRecord /\ MarksOfFight(fighters[p])
           /\ fighters[p].victims = {} /\ fighters[p].lastHit = None
    BY <2>1 DEF FightsInit, FighterRecord, MarksOfFight, Skulls
  <2>3. /\ arena = {} /\ blows = 0 /\ steps = 0
        /\ began = [p \in Fighter |-> {}] /\ ended = [p \in Fighter |-> {}]
        /\ fighters = [p \in Fighter |-> fighters[p]]
    BY DEF FightsInit
  <2>4. FightsTypeOK
    <3>1. fighters \in FighterStates
      BY <2>2, <2>3 DEF FighterStates
    <3> QED
      BY <3>1, <2>1, <2>3, FightTypes
  <2> QED
    BY <2>2, <2>3, <2>4, FightMarks DEF FightsInv, LastHitIsThere, VictimsAreFought, BegunIsRemembered
<1>2. FightsInv /\ [FightsNext]_fightVars => FightsInv'
  <2>1. ASSUME FightsInv, UNCHANGED fightVars
        PROVE  FightsInv'
    BY <2>1 DEF fightVars, FightsInv, FightsTypeOK, MarksEndWithFight, LastHitIsThere,
                VictimsAreFought, BegunIsRemembered
  <2> QED
    BY <2>1, StepKeepsFights
<1>3. FightsInv /\ [FightsNext]_fightVars => [ChargedJustly]_fightVars
  BY StepKeepsFights
<1> QED
  BY <1>1, <1>2, <1>3, PTL DEF FightsSpec

\* The fighters are well formed whatever they do.
THEOREM FightsTypeCorrect == FightsSpec => []FightsTypeOK
<1>1. FightsInv => FightsTypeOK
  BY DEF FightsInv
<1> QED
  BY <1>1, FightsAlwaysInOrder, PTL

\* No mark of a fight outlives it, and nobody is charged with the death of one
\* who attacked first and whose fight has gone on.
THEOREM FightsAlwaysJust == FightsSpec => FightsAreJust
<1>1. FightsInv => MarksEndWithFight
  BY DEF FightsInv
<1>2. FightsSpec => []MarksEndWithFight
  BY <1>1, FightsAlwaysInOrder, PTL
<1>3. FightsSpec => JustKills
  BY FightsAlwaysInOrder DEF JustKills, ChargedJustly
<1> QED
  BY <1>2, <1>3 DEF FightsAreJust

=============================================================================
