------------------------------- MODULE Fights -------------------------------
(***************************************************************************)
(* Fights between players (src/src/player.cpp, src/src/creature.cpp,       *)
(* src/src/combat.cpp, src/src/game.cpp): who has attacked whom, the marks *)
(* of a fight (the INFIGHT condition, the lock out of protection zones,    *)
(* the white skull), damage and who has done it, death in a later task,    *)
(* unjustified kills and the red and black skulls they earn, and what of   *)
(* all this a logout keeps.  A world of type PVP; handlers call one        *)
(* another, so each is an operator on the players f.                       *)
(***************************************************************************)
EXTENDS Integers, FiniteSets, FiniteSetsExt, NoValue

CONSTANTS
    Fighter,        (* the players                                       *)
    Allies,         (* pairs that share a party or a guild               *)
    MaxHealth,
    FragTime,       (* in the units of time of this module               *)
    KillsToRed, KillsToBlack,
    MaxBlows, MaxSteps  (* blows; waits, walks and logouts               *)

ASSUME FightAssumption ==
    /\ None \notin Fighter /\ Allies \subseteq Fighter \X Fighter
    /\ \A pair \in Allies : <<pair[2], pair[1]>> \in Allies
    /\ {MaxHealth, FragTime} \subseteq Nat \ {0}
    /\ {KillsToRed, KillsToBlack, MaxBlows, MaxSteps} \subseteq Nat

VARIABLES
    fighters,       (* what is known of each player                      *)
    arena,          (* who stands in a PVP zone                          *)
    began,          (* history: whom each has attacked first             *)
    ended,          (* history: whose fight is over while each goes on   *)
    blows, steps

fightVars == <<fighters, arena, began, ended, blows, steps>>

Skulls == {"none", "white", "red", "black"}

FightsTypeOK ==
    /\ fighters \in [Fighter ->
          [there : BOOLEAN,           (* in the game                     *)
           hp : 0..MaxHealth,
           fight : BOOLEAN,           (* has the condition INFIGHT       *)
           locked : BOOLEAN,          (* pzLocked                        *)
           victims : SUBSET Fighter,  (* attackedSet                     *)
           skull : Skulls,
           frags : Nat,               (* skullTicks                      *)
           damage : [Fighter -> Nat], (* damageMap                       *)
           lastHit : Fighter \cup {None},
           dying : Nat,               (* executeDeath tasks              *)
           loses : BOOLEAN]]          (* skillLoss                       *)
    /\ arena \subseteq Fighter
    /\ {began, ended} \subseteq [Fighter -> SUBSET Fighter]
    /\ blows \in 0..MaxBlows /\ steps \in 0..MaxSteps

Unhurt == [p \in Fighter |-> 0]

FightsInit ==
    /\ fighters = [p \in Fighter |->
          [there |-> TRUE, hp |-> MaxHealth, fight |-> FALSE, locked |-> FALSE,
           victims |-> {}, skull |-> "none", frags |-> 0, damage |-> Unhurt,
           lastHit |-> None, dying |-> 0, loses |-> TRUE]]
    /\ arena = {}
    /\ began = [p \in Fighter |-> {}] /\ ended = began
    /\ blows = 0 /\ steps = 0

Present(f) == {p \in Fighter : f[p].there}
Allied(p, q) == <<p, q>> \in Allies

-----------------------------------------------------------------------------
(* The marks of a fight.  The mutants of this module are named for what    *)
(* they get wrong and stand before the definition they change.             *)

\* getSkullClient: how p sees q.  Yellow marks one who has attacked p.
SeenSkull(f, p, q) ==
    IF f[q].skull # "none" THEN f[q].skull
    ELSE IF p \in f[q].victims THEN "yellow"
    ELSE IF Allied(p, q) THEN "green"
    ELSE "none"

InFight(f, p) == [f EXCEPT ![p].fight = TRUE]

\* onIdleStatus: of a fight that is over, no damage is remembered.
Calmed(f, p) ==
    IF f[p].hp > 0 THEN [f EXCEPT ![p].damage = Unhurt, ![p].lastHit = None] ELSE f

FightEnded(f, p) ==
    LET g == Calmed(f, p) IN
    [g EXCEPT ![p].fight = FALSE, ![p].locked = FALSE, ![p].victims = {},
              ![p].skull = IF @ \in {"red", "black"} THEN @ ELSE "none"]

\* onAttackedCreature: k attacks v, hit or not.
Marked(f, k, v) ==
    LET retaliates == f[k].skull = "none" /\ SeenSkull(f, k, v) = "yellow"
        attacks == ~retaliates /\ k \notin f[v].victims
        pale == f[v].skull = "none" /\ f[k].skull = "none"
    IN  IF v \in arena THEN f
        ELSE IF Allied(k, v) THEN InFight(f, k)
        ELSE [InFight(InFight(f, v), k) EXCEPT
                ![k].victims = IF retaliates \/ attacks THEN @ \cup {v} ELSE @,
                ![k].locked = @ \/ attacks,
                ![k].skull = IF attacks /\ pale THEN "white" ELSE @]

\* blockHit and setAttackedCreature: and v is attacked.
FoughtBack(f, k, v) == InFight(Marked(f, v, k), v)

Fought(f, k, v) == InFight(Marked(f, k, v), v)

\* isProtected, and combatChangeHealth: who has a black skull may only touch
\* those that are marked for him.
MayTouch(f, k, v) == f[k].skull = "black" => SeenSkull(f, k, v) # "none"

\* changeHealth to 0 queues the death.
Hurt(f, v, n) ==
    LET hp == Max({0, f[v].hp - n}) IN
    [f EXCEPT ![v].hp = hp, ![v].dying = IF hp = 0 THEN @ + 1 ELSE @]

\* addDamagePoints.
Blamed(f, v, k, n) ==
    [f EXCEPT ![v].damage[k] = @ + n, ![v].lastHit = k]

\* drainHealth: by k, or by nobody.
Drained(f, k, v, n) ==
    LET real == Min({n, f[v].hp}) IN
    IF real = 0 THEN f
    ELSE IF k = None THEN [Hurt(f, v, real) EXCEPT ![v].lastHit = None]
    ELSE Blamed(Hurt(f, v, real), v, k, real)

-----------------------------------------------------------------------------
\* Kills.

\* addUnjustifiedDead.
Fragged(f, k) ==
    LET ticks == f[k].frags + FragTime
        over(kills) == kills # 0 /\ ticks > (kills - 1) * FragTime
    IN  [f EXCEPT ![k].frags = ticks,
                  ![k].skull = IF @ # "black" /\ over(KillsToBlack) THEN "black"
                               ELSE IF @ \notin {"red", "black"} /\ over(KillsToRed)
                               THEN "red" ELSE @]

\* onKilledCreature: k has killed v.
Killed(f, k, v, last) ==
    IF v \in arena THEN [f EXCEPT ![v].loses = FALSE]
    ELSE IF Allied(k, v) \/ v \notin f[k].victims \/ k \in f[v].victims THEN f
    ELSE LET g == IF f[v].skull = "none" THEN Fragged(f, k) ELSE f
         IN  IF last /\ g[k].fight THEN [g EXCEPT ![k].locked = TRUE] ELSE g

\* onDeath, as far as the corpse: the last to hit has killed, all who hurt v
\* let go of it, and then whoever did most of the damage has killed as well.
Slain(f, v, most) ==
    LET l == f[v].lastHit
        g == IF l # None THEN Killed(f, l, v, TRUE) ELSE f
        h == [p \in Fighter |-> IF p # v /\ f[v].damage[p] > 0
                                THEN [g[p] EXCEPT !.victims = @ \ {v}] ELSE g[p]]
    IN  IF most \notin {None, l} THEN Killed(h, most, v, FALSE) ELSE h

\* death: what v has lost is left out; it is whole again, and calm.
Buried(f, v) ==
    LET whole == IF f[v].loses /\ f[v].skull = "black" THEN 1 ELSE MaxHealth
        g == [f EXCEPT ![v].hp = whole, ![v].loses = TRUE]
        h == IF g[v].fight THEN FightEnded(g, v) ELSE g
    IN  IF f[v].loses THEN h ELSE Calmed(h, v)

\* removeCreature: v is saved.  Its id is not used again, so what others
\* remember by the id is lost; attackedSet remembers the player's guid.
TakenOut(f, v) ==
    LET g == [p \in Fighter |->
                [f[p] EXCEPT !.damage[v] = 0,
                             !.lastHit = IF @ = v THEN None ELSE @]]
    IN  [g EXCEPT ![v] = [there |-> FALSE, hp |-> Max({1, f[v].hp}),
                          fight |-> f[v].fight, locked |-> FALSE, victims |-> {},
                          skull |-> IF f[v].skull \in {"red", "black"}
                                    THEN f[v].skull ELSE "none",
                          frags |-> f[v].frags, damage |-> Unhurt,
                          lastHit |-> None, dying |-> 0, loses |-> TRUE]]

\* checkSkullTicks.
SkullChecked(f, p, n) ==
    LET ticks == Max({0, f[p].frags - n}) IN
    [f EXCEPT ![p].frags = ticks,
              ![p].skull = IF @ \in {"red", "black"} /\ ticks < 1 /\ ~f[p].fight
                           THEN "none" ELSE @]

-----------------------------------------------------------------------------
\* The fight of p is over; those whom p fought may be in one still.
OverFor(p) ==
    LET foes == began[p] \cup {q \in Fighter : p \in began[q]} IN
    /\ began' = [q \in Fighter |-> IF q = p THEN {} ELSE began[q] \ {p}]
    /\ ended' = [q \in Fighter |-> IF q = p THEN {}
                                   ELSE IF q \in foes /\ fighters[q].fight
                                   THEN ended[q] \cup {p} ELSE ended[q]]

Began(k, v) ==
    /\ began' = IF v \in arena \/ Allied(k, v) \/ k \in began[v] THEN began
                ELSE [began EXCEPT ![k] = @ \cup {v}]
    /\ ended' = ended

CanStrike(k, v) ==
    /\ k # v /\ {k, v} \subseteq Present(fighters) /\ blows < MaxBlows
    /\ MayTouch(fighters, k, v)
    /\ blows' = blows + 1
    /\ UNCHANGED <<arena, steps>>

\* k's blow takes n health of v: none when it is blocked, or k only aims.
Strike(k, v, n) ==
    /\ CanStrike(k, v)
    /\ fighters' = Drained(Fought(fighters, k, v), k, v, n)
    /\ Began(k, v)

\* k's blow is taken by v's magic shield: it costs mana, and counts as damage.
StrikeShield(k, v, n) ==
    /\ CanStrike(k, v)
    /\ fighters' = Blamed(Fought(fighters, k, v), v, k, n)
    /\ Began(k, v)

\* v is hurt by nobody; and may regain health from another condition before the
\* death that this has queued.
Suffer(v, n, regained) ==
    /\ fighters[v].there /\ fighters[v].hp > 0 /\ blows < MaxBlows
    /\ regained > 0 => n >= fighters[v].hp
    /\ LET f == Drained(InFight(fighters, v), None, v, n) IN
       fighters' = [f EXCEPT ![v].hp = Min({MaxHealth, @ + regained})]
    /\ blows' = blows + 1
    /\ UNCHANGED <<arena, began, ended, steps>>

\* k heals v.
Heal(k, v) ==
    /\ {k, v} \subseteq Present(fighters) /\ fighters[v].hp \in 1..MaxHealth - 1
    /\ MayTouch(fighters, k, v) /\ blows < MaxBlows
    /\ fighters' = [fighters EXCEPT ![v].hp = @ + 1]
    /\ blows' = blows + 1
    /\ UNCHANGED <<arena, began, ended, steps>>

\* executeDeath.  who did most of the damage depends on how old it is.
ExecuteDeath(v, most) ==
    /\ fighters[v].there /\ fighters[v].dying > 0
    /\ most # None => fighters[v].damage[most] > 0
    /\ LET spared == v \in arena /\ fighters[v].lastHit # None
           f == Slain(fighters, v, most)
           g == Buried([f EXCEPT ![v].dying = @ - 1], v)
       IN  /\ fighters' = IF spared THEN g ELSE TakenOut(g, v)
           /\ arena' = IF f[v].loses /\ spared THEN arena ELSE arena \ {v}
    /\ OverFor(v)
    /\ UNCHANGED <<blows, steps>>

\* A fight is over when its condition has run out.
FightEnds(p) ==
    /\ fighters[p].there /\ fighters[p].fight /\ fighters[p].hp > 0
    /\ fighters' = FightEnded(fighters, p)
    /\ OverFor(p)
    /\ UNCHANGED <<arena, blows, steps>>

\* Time passes for p, who thinks.
Wait(p) ==
    /\ fighters[p].there /\ fighters[p].hp > 0 /\ steps < MaxSteps
    /\ fighters' = SkullChecked(fighters, p, 1)
    /\ steps' = steps + 1
    /\ UNCHANGED <<arena, began, ended, blows>>

\* p walks into an arena or out of it.
CrossLine(p) ==
    /\ fighters[p].there /\ fighters[p].hp > 0 /\ steps < MaxSteps
    /\ arena' = IF p \in arena THEN arena \ {p} ELSE arena \cup {p}
    /\ steps' = steps + 1
    /\ UNCHANGED <<fighters, began, ended, blows>>

\* p logs out, which it may not in a fight unless in a protection zone, where
\* it may not go while locked; or p's connection is gone, and p is kicked.
LeaveFight(p, kicked) ==
    /\ fighters[p].there /\ steps < MaxSteps
    /\ kicked \/ ~fighters[p].fight \/ ~fighters[p].locked
    /\ fighters' = TakenOut(fighters, p)
    /\ arena' = arena \ {p}
    /\ OverFor(p)
    /\ steps' = steps + 1
    /\ UNCHANGED blows

\* loadPlayer: frags have aged by n, and without any the skull is gone.
ComeBack(p, n) ==
    /\ ~fighters[p].there
    /\ fighters' =
          [fighters EXCEPT
             ![p].there = TRUE,
             ![p].frags = Max({0, @ - n}),
             ![p].skull = IF fighters[p].frags > n THEN @ ELSE "none"]
    /\ UNCHANGED <<arena, began, ended, blows, steps>>

FightsNext ==
    \/ \E k, v \in Fighter :
          \/ \E n \in 0..MaxHealth : Strike(k, v, n)
          \/ StrikeShield(k, v, 1) \/ Heal(k, v)
    \/ \E v \in Fighter :
          \/ \E n \in 1..MaxHealth, regained \in 0..1 : Suffer(v, n, regained)
          \/ \E most \in Fighter \cup {None} : ExecuteDeath(v, most)
    \/ \E p \in Fighter :
          \/ FightEnds(p) \/ Wait(p) \/ CrossLine(p)
          \/ \E kicked \in BOOLEAN : LeaveFight(p, kicked)
          \/ \E n \in 0..1 : ComeBack(p, n)

FightsSpec == FightsInit /\ [][FightsNext]_fightVars

-----------------------------------------------------------------------------
(* What is to be checked.                                                  *)

\* Every mark of a fight ends with it: who is locked out of protection zones
\* (Player::pzLocked), has a white skull, or is remembered as an attacker
\* (attackedSet), has the condition INFIGHT whose end takes these away; out of
\* the game nobody has any.
MarksEndWithFight ==
    \A p \in Fighter :
        LET r == fighters[p] IN
        r.locked \/ r.skull = "white" \/ r.victims # {} => r.there /\ r.fight

\* Only who has begun the fight kills without justification: the skullTicks of
\* k rise (Player::addUnjustifiedDead) only when one dies whom k attacked before
\* being attacked by it, in a fight of both that has gone on since, or one whose
\* fight was over while that of k went on.
JustKills ==
    [][\A k \in Fighter : fighters'[k].frags > fighters[k].frags =>
          \E v \in began[k] \cup ended[k] :
             fighters[v].dying > 0 /\ fighters'[v].dying = 0]_fightVars

\* At once: a fight leaves no mark when it is over, and only who began it, or
\* fought on, is charged with a death.
FightsAreJust == []MarksEndWithFight /\ JustKills

=============================================================================
