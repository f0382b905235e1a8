----------------------------- MODULE Conditions -----------------------------
(***************************************************************************)
(* The conditions of a player (src/src/condition.cpp, src/src/creature.cpp,*)
(* src/src/player.cpp, src/src/movement.cpp): they start, are merged with  *)
(* one of the same type and id, run out at the player's next turn, are     *)
(* dispelled, end with death, are stored at logout and start again at      *)
(* login.  Haste and paralysis drive each other out, but not in the middle *)
(* of a step: then a timer does it.  What a condition changes is kept in   *)
(* sums, and worn items add to the same sums.                              *)
(***************************************************************************)
EXTENDS Integers, Sequences, SequencesExt, FiniteSets, FiniteSetsExt

CONSTANTS
    Castable,        (* conditions that spells and scripts give           *)
    Wear,           (* the items that may be worn, and what they give    *)
    Until,          (* the end of time                                   *)
    MaxGiven        (* how much happens                                  *)

Forever == -1
SpeedType == {"haste", "paralyze"}
CondType == SpeedType \cup {"attributes", "invisible"}
OwnId == {"default", "combat"}      (* ids that are not slots of items    *)

ASSUME ConditionAssumption ==
    /\ \A c \in Castable : /\ c.type \in CondType /\ c.id \in OwnId
                          /\ c.ticks \in Nat \ {0} /\ c.value \in Int
    /\ \A i \in DOMAIN Wear : Wear[i] \in [speed : Int, skill : Int, hides : BOOLEAN]
    /\ DOMAIN Wear \cap OwnId = {} /\ Until \in Nat /\ MaxGiven \in Nat

VARIABLES
    body,           (* the player in the game                            *)
    worn,           (* the items worn, and whether their abilities are on *)
    putOff,         (* forceAddCondition and forceRemoveCondition events *)
    stepping,       (* getWalkDelay() > 0                                *)
    condTime,
    storedConds,    (* what logout stores; None while in the game        *)
    given

condVars == <<body, worn, putOff, stepping, condTime, storedConds, given>>

Cond == [type : CondType, id : OwnId \cup DOMAIN Wear, ends : Int, value : Int]

ConditionsTypeOK ==
    /\ body \in [here : BOOLEAN, conds : Seq(Cond), speed : Int, skill : Int,
                 visible : BOOLEAN]
    /\ worn \subseteq DOMAIN Wear
    /\ \A e \in Range(putOff) :
          e \in [what : {"add", "remove"}, cond : [type : CondType, id : OwnId,
                                                   ticks : Int, value : Int]]
    /\ stepping \in BOOLEAN /\ condTime \in 1..Until
    /\ given \in 0..MaxGiven
    /\ \A i, j \in DOMAIN body.conds :
          i # j => <<body.conds[i].type, body.conds[i].id>>
                      # <<body.conds[j].type, body.conds[j].id>>

Fresh == [here |-> TRUE, conds |-> <<>>, speed |-> 0, skill |-> 0, visible |-> TRUE]

ConditionsInit ==
    /\ body = Fresh /\ worn = {} /\ putOff = <<>> /\ stepping = FALSE
    /\ condTime = 1 /\ storedConds = <<>> /\ given = 0

-----------------------------------------------------------------------------
(* What a condition does.  The mutants of this module are named for what   *)
(* they get wrong and stand before the definition they change.             *)

\* hasCondition: one that has run out does not count, though it is listed.
Has(b, type) ==
    \E c \in Range(b.conds) :
        c.type = type /\ (c.ends >= condTime \/ c.ends = Forever)

\* startCondition; endCondition, once c is off the list.
Applied(b, c) ==
    CASE c.type \in SpeedType -> [b EXCEPT !.speed = @ + c.value]
      [] c.type = "attributes" -> [b EXCEPT !.skill = @ + c.value]
      [] c.type = "invisible" -> [b EXCEPT !.visible = FALSE]

EndedShown(b, c) ==
    CASE c.type \in SpeedType -> [b EXCEPT !.speed = @ - c.value]
      [] c.type = "attributes" -> [b EXCEPT !.skill = @ - c.value]
      [] c.type = "invisible" -> [b EXCEPT !.visible = TRUE]

Ended(b, c) ==
    CASE c.type \in SpeedType -> [b EXCEPT !.speed = @ - c.value]
      [] c.type = "attributes" -> [b EXCEPT !.skill = @ - c.value]
      [] c.type = "invisible" ->
            [b EXCEPT !.visible = \A d \in Range(b.conds) : d.type # "invisible"]

\* The end of a condition with so many ticks left.
EndOf(ticks) ==
    IF ticks = Forever THEN Forever ELSE IF ticks > 0 THEN condTime + ticks ELSE 0

\* updateCondition: new gives old more time.
Prolongs(new, old) ==
    /\ old.ends = Forever => new.ticks <= 0
    /\ new.ticks >= 0 => old.ends = Forever \/ old.ends <= condTime + new.ticks

\* addCondition of the i-th of the list: new is merged with it.  setTicks.
Merged(b, i, new) ==
    LET old == b.conds[i]
        takes == IF new.type \in SpeedType THEN old.ends = Forever => new.ticks <= 0
                 ELSE Prolongs(new, old)
        c == [old EXCEPT !.ends = IF new.ticks = Forever THEN Forever
                                  ELSE condTime + new.ticks,
                         !.value = new.value]
    IN  IF ~takes THEN b
        ELSE IF new.type \in SpeedType \cup {"attributes"}
             THEN Applied(Ended([b EXCEPT !.conds[i] = c], old), c)
             ELSE [b EXCEPT !.conds[i] = c]

Without(b, c) == [b EXCEPT !.conds = SelectSeq(@, LAMBDA d : d # c)]

\* Those of cs leave b, one after the other.
LeftOff(b, cs) == FoldSeq(LAMBDA c, a : Ended(Without(a, c), c), b, cs)

OfType(b, type) == SelectSeq(b.conds, LAMBDA c : c.type = type)

\* What a handler makes of the player and of the events put off.
Result(b, events) == [body |-> b, putOff |-> events]

\* removeCondition(type, force): paralysis is not ended in a step.
RemovedType(r, type, force) ==
    LET cs == OfType(r.body, type) IN
    IF cs = <<>> THEN r
    ELSE IF ~force /\ type = "paralyze" /\ stepping
    THEN Result(r.body, Append(r.putOff,
                   [what |-> "remove",
                    cond |-> [type |-> type, id |-> "default", ticks |-> 0, value |-> 0]]))
    ELSE Result(LeftOff(r.body, cs), r.putOff)

\* onAddCondition.
DrivenOut(r, type) ==
    IF type = "paralyze" /\ Has(r.body, "haste") THEN RemovedType(r, "haste", FALSE)
    ELSE IF type = "haste" /\ Has(r.body, "paralyze")
    THEN RemovedType(r, "paralyze", FALSE) ELSE r

\* Creature::addCondition.
Added(r, new, force) ==
    LET b == r.body
        same == {i \in DOMAIN b.conds :
                    b.conds[i].type = new.type /\ b.conds[i].id = new.id}
        c == [type |-> new.type, id |-> new.id, ends |-> EndOf(new.ticks),
              value |-> new.value]
        started == Applied([b EXCEPT !.conds = Append(@, c)], c)
    IN  IF ~force /\ new.type = "haste" /\ Has(b, "paralyze") /\ stepping
        THEN Result(b, Append(r.putOff, [what |-> "add", cond |-> new]))
        ELSE IF same # {} THEN Result(Merged(b, CHOOSE i \in same : TRUE, new), r.putOff)
        ELSE DrivenOut(Result(started, r.putOff), new.type)

\* Worn: the abilities of item i are switched on or off.
HidesBy(i) == [type |-> "invisible", id |-> i, ticks |-> Forever, value |-> 0]

Equipped(r, i) ==
    LET w == Wear[i]
        q == IF w.hides THEN Added(r, HidesBy(i), FALSE) ELSE r
    IN  [q EXCEPT !.body.speed = @ + w.speed, !.body.skill = @ + w.skill]

Unequipped(r, i) ==
    LET w == Wear[i]
        own == SelectSeq(r.body.conds, LAMBDA c : c.type = "invisible" /\ c.id = i)
        b == IF w.hides THEN LeftOff(r.body, own) ELSE r.body
    IN  Result([b EXCEPT !.speed = @ - w.speed, !.skill = @ - w.skill], r.putOff)

-----------------------------------------------------------------------------
Now == Result(body, putOff)

Becoming(r) == body' = r.body /\ putOff' = r.putOff

\* addCondition, addCombatCondition.
Give(new) ==
    /\ body.here /\ given < MaxGiven
    /\ Becoming(Added(Now, new, FALSE))
    /\ given' = given + 1
    /\ UNCHANGED <<worn, stepping, condTime, storedConds>>

\* removeCondition by a script, or the dispelling of paralysis.
Take(type) ==
    /\ body.here /\ OfType(body, type) # <<>> /\ given < MaxGiven
    /\ Becoming(RemovedType(Now, type, FALSE))
    /\ given' = given + 1
    /\ UNCHANGED <<worn, stepping, condTime, storedConds>>

\* removeCombatCondition: all but those of items end, now or, when the player
\* has just acted, as soon as it may act again.
Dispel(type, busy) ==
    LET own == SelectSeq(OfType(body, type), LAMBDA c : c.id \in OwnId)
        soon == [body EXCEPT !.conds =
                    [i \in DOMAIN body.conds |->
                        IF body.conds[i] \in Range(own)
                        THEN [body.conds[i] EXCEPT !.ends = condTime]
                        ELSE body.conds[i]]]
    IN  /\ body.here /\ type # "paralyze" /\ own # <<>> /\ given < MaxGiven
        /\ body' = IF busy THEN soon ELSE LeftOff(body, own)
        /\ given' = given + 1
        /\ UNCHANGED <<worn, putOff, stepping, condTime, storedConds>>

\* forceAddCondition, forceRemoveCondition: of the events put off, one fires.
Fire(i) ==
    LET e == putOff[i]
        r == Result(body, RemoveAt(putOff, i))
    IN  /\ body.here
        /\ Becoming(IF e.what = "add" THEN Added(r, e.cond, TRUE)
                    ELSE RemovedType(r, e.cond.type, TRUE))
        /\ UNCHANGED <<worn, stepping, condTime, storedConds, given>>

\* executeConditions: those that have run out end.
ExecuteConditions ==
    LET over == SelectSeq(body.conds,
                          LAMBDA c : c.ends # Forever /\ c.ends < condTime)
    IN  /\ body.here /\ over # <<>>
        /\ body' = LeftOff(body, over)
        /\ UNCHANGED <<worn, putOff, stepping, condTime, storedConds, given>>

Step ==
    /\ body.here /\ body.speed > -3
    /\ stepping' = ~stepping
    /\ UNCHANGED <<body, worn, putOff, condTime, storedConds, given>>

TimePasses ==
    /\ condTime < Until
    /\ condTime' = condTime + 1
    /\ UNCHANGED <<body, worn, putOff, stepping, storedConds, given>>

\* EquipItem and DeEquipItem.
Dress(i) ==
    /\ body.here /\ i \notin worn /\ given < MaxGiven
    /\ Becoming(Equipped(Now, i))
    /\ worn' = worn \cup {i}
    /\ given' = given + 1
    /\ UNCHANGED <<stepping, condTime, storedConds>>

Undress(i) ==
    /\ body.here /\ i \in worn
    /\ Becoming(Unequipped(Now, i))
    /\ worn' = worn \ {i}
    /\ UNCHANGED <<stepping, condTime, storedConds, given>>

\* isPersistent; what is left of the time is stored.
Persistent(c) == c.ends # Forever /\ c.id \in OwnId
Stored(c) == [type |-> c.type, id |-> c.id, value |-> c.value,
              ticks |-> Max({0, c.ends - condTime})]

\* The player leaves: by logging out, or by dying, when the persistent
\* conditions end first.  The events put off do not find it any more.
Depart(dead) ==
    LET b == IF dead THEN LeftOff(body, SelectSeq(body.conds, Persistent)) ELSE body
        cs == SelectSeq(b.conds, Persistent)
    IN  /\ body.here /\ given < MaxGiven
        /\ storedConds' = [i \in DOMAIN cs |-> Stored(cs[i])]
        /\ body' = [Fresh EXCEPT !.here = FALSE]
        /\ putOff' = <<>> /\ stepping' = FALSE
        /\ given' = given + 1
        /\ UNCHANGED <<worn, condTime>>

\* onCreatureAppear at login: what is worn is put on, and the stored conditions
\* start, the last first.
Appear ==
    LET dressed == FoldSet(LAMBDA i, r : Equipped(r, i), Result(Fresh, <<>>), worn)
    IN  /\ ~body.here
        /\ Becoming(FoldSeq(LAMBDA c, r : Added(r, c, FALSE), dressed,
                            Reverse(storedConds)))
        /\ storedConds' = <<>>
        /\ UNCHANGED <<worn, stepping, condTime, given>>

ConditionsNext ==
    \/ \E new \in Castable : Give(new)
    \/ \E type \in CondType :
          \/ Take(type)
          \/ \E busy \in BOOLEAN : Dispel(type, busy)
    \/ \E i \in DOMAIN putOff : Fire(i)
    \/ \E i \in DOMAIN Wear : Dress(i) \/ Undress(i)
    \/ ExecuteConditions \/ Step \/ TimePasses
    \/ \E dead \in BOOLEAN : Depart(dead)
    \/ Appear

ConditionsSpec == ConditionsInit /\ [][ConditionsNext]_condVars

-----------------------------------------------------------------------------
(* What is to be checked.                                                  *)

SumOver(b, types) ==
    FoldSeq(LAMBDA c, n : IF c.type \in types THEN n + c.value ELSE n, 0, b.conds)

\* Merged, put off, expired or dispelled in any order, conditions leave nothing
\* behind and lose nothing: the player's speed and skills (Creature::varSpeed,
\* Player::varSkills) differ from the base by what the listed conditions and
\* the items worn give, and it is seen when none of them hides it.
EffectsAgree ==
    body.here =>
        /\ body.speed = SumOver(body, SpeedType)
                        + MapThenSumSet(LAMBDA i : Wear[i].speed, worn)
        /\ body.skill = SumOver(body, {"attributes"})
                        + MapThenSumSet(LAMBDA i : Wear[i].skill, worn)
        /\ body.visible <=> OfType(body, "invisible") = <<>>

=============================================================================
