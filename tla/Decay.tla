-------------------------------- MODULE Decay --------------------------------
(***************************************************************************)
(* Items that do not last: torches burn down, corpses rot, rings wear off. *)
(*                                                                         *)
(* An item that starts to decay goes into toDecayItems and, at the next    *)
(* cleanup, into one of four buckets.  Every 250 ms checkDecay goes        *)
(* through the next bucket; an item loses a second each time, and decays   *)
(* into its next kind or into nothing when no time is left.  Meanwhile it  *)
(* may be moved, removed, transformed by scripts and equipment, or begin   *)
(* to decay again, with its old entry still in a bucket.  Each entry holds *)
(* a reference that is given back by way of ToReleaseItems.                *)
(*                                                                         *)
(* Time is in units of 125 ms.  The order within a bucket does not matter  *)
(* and is left out: a bucket says how often it holds an item.  A task of   *)
(* the dispatcher is one step, but for checkDecay, whose loop takes one    *)
(* entry per step while nothing else runs.                                 *)
(***************************************************************************)
EXTENDS Integers, FiniteSets, NoValue

CONSTANTS
    Object,     \* memory for items
    Kind,       \* item ids
    DecayTo,    \* the kind each kind decays into, or Nothing, or Never
    DecayTime,  \* how long each kind lasts, 0 if for ever
    StopTime,   \* the kinds whose time stands still (stopduration)
    Twin,       \* pairs of kinds of one type: an item keeps its identity
    Turns,      \* pairs of kinds that scripts and equipment turn into each other
    Durations,  \* what is left of an item that is loaded or copied
    Nothing, Never,
    MaxEntries, \* entries of one item in the lists
    MaxItems    \* items before another one comes

\* What data/items/items.xml keeps to: no kind both decays and stops, and
\* none decays in no time.
ASSUME KindAssumption ==
    /\ DecayTo \in [Kind -> Kind \cup {Nothing, Never}]
    /\ DecayTime \in [Kind -> Nat]
    /\ Durations \subseteq Nat \ {0}
    /\ Nothing \notin Kind /\ Never \notin Kind /\ Nothing # Never
    /\ StopTime \subseteq Kind
    /\ \A k \in StopTime : DecayTo[k] = Never
    /\ \A k \in Kind : DecayTo[k] # Never => DecayTime[k] > 0

VARIABLES
    item,       \* the item in each object
    lastBucket, \* the bucket that was gone through last
    checking    \* checkDecay is in its loop

decayVars == <<item, lastBucket, checking>>

Interval == 2
Second == 8
Buckets == 0 .. 3

\* An item's place, the time it has left (an attribute that it may have or
\* not), whether it is marked as decaying, the references to it, how often
\* it is in toDecayItems, in each bucket, in the part of the bucket that
\* checkDecay has yet to visit, and in ToReleaseItems.  The last three
\* fields are for the properties: how long it has been decaying, how long it
\* was to, and whether nothing has changed since.
Unused == [kind |-> None, life |-> "unused", timed |-> FALSE, duration |-> 0, decaying |-> FALSE,
           refs |-> 0, waiting |-> 0, bucket |-> [b \in Buckets |-> 0], todo |-> 0,
           release |-> 0, age |-> 0, span |-> 0, plain |-> FALSE]

Listed(x) == x.waiting + x.todo + x.bucket[0] + x.bucket[1] + x.bucket[2] + x.bucket[3]

ItemState == [kind : Kind \cup {None}, life : {"unused", "made", "placed", "removed"},
         timed : BOOLEAN, duration : Nat, decaying : BOOLEAN, refs : Nat, waiting : Nat,
         bucket : [Buckets -> Nat], todo : Nat, release : Nat,
         age : Nat, span : Nat, plain : BOOLEAN]

DecayTypeOK ==
    /\ item \in [Object -> ItemState]
    /\ lastBucket \in Buckets
    /\ checking \in BOOLEAN

DecayInit ==
    /\ item = [o \in Object |-> Unused]
    /\ lastBucket = 0
    /\ checking = FALSE

Free == {o \in Object : item[o].life = "unused"}

-----------------------------------------------------------------------------
(* What happens to an item.  The mutants of this module are named for what *)
(* they get wrong and stand before the definition they change.             *)

\* CreateItem: as long as its kind lasts.
Made(k) == [Unused EXCEPT !.kind = k, !.life = "made", !.timed = (DecayTime[k] > 0),
                          !.duration = DecayTime[k], !.refs = 1]

\* getDecayTime.
TimeLeft(x) == IF x.timed THEN x.duration ELSE DecayTime[x.kind]

\* canDecay: an item that has no time left cannot.
CanDecay(x) == x.life = "placed" /\ DecayTo[x.kind] # Never /\ TimeLeft(x) > 0

\* The entry made without a reference.
PushedUncounted(x) ==
    [x EXCEPT !.decaying = TRUE, !.waiting = @ + 1,
              !.age = 0, !.span = x.duration, !.plain = (Listed(x) = 0)]

\* An entry in toDecayItems.
Pushed(x) ==
    [x EXCEPT !.decaying = TRUE, !.refs = @ + 1, !.waiting = @ + 1,
              !.age = 0, !.span = x.duration, !.plain = (Listed(x) = 0)]

\* setID: the time starts anew, unless it stood still before.
SetID(x, k) ==
    LET y == [x EXCEPT !.kind = k, !.plain = FALSE] IN
    IF DecayTime[k] = 0 /\ k \notin StopTime /\ DecayTo[k] = Never
    THEN [y EXCEPT !.decaying = FALSE, !.timed = FALSE, !.duration = 0]
    ELSE IF DecayTime[k] > 0 /\ (x.kind \notin StopTime \/ ~x.timed)
    THEN [y EXCEPT !.decaying = FALSE, !.timed = TRUE, !.duration = DecayTime[k]]
    ELSE y

\* internalRemoveItem and ReleaseItem.
TakenAway(x) == [x EXCEPT !.life = "removed", !.release = @ + 1]

\* transformItem: the same item of another kind, or a new item in its place,
\* which starts to decay.
Transformed(I, o, k) ==
    IF <<I[o].kind, k>> \in Twin THEN [I EXCEPT ![o] = SetID(@, k)]
    ELSE LET n == CHOOSE n \in Object : I[n].life = "unused"
             new == [Made(k) EXCEPT !.life = "placed"]
         IN  [I EXCEPT ![o] = TakenAway(@),
                       ![n] = IF new.duration > 0 THEN Pushed(new) ELSE new]

\* startDecay.  (Its branch for an item that can decay and has no duration is
\* never taken: a kind that decays has one.)
Started(x) == IF CanDecay(x) /\ ~x.decaying THEN Pushed(x) ELSE x

\* internalDecayItem.  A new item that takes the place of the old one has
\* been started by transformItem already.
Decayed(I, o) ==
    LET k == DecayTo[I[o].kind] IN
    IF k = Nothing THEN [I EXCEPT ![o] = TakenAway(@)]
    ELSE LET J == Transformed(I, o, k) IN [J EXCEPT ![o] = Started(@)]

-----------------------------------------------------------------------------
(* Tasks of the dispatcher.                                                *)

\* The bounds: an item has room for one more entry; items come into a world
\* with fewer than MaxItems (items do not affect one another, but for those
\* that take the place of others); there is memory for those
\* that will take the place of others.
Room(o) == Listed(item[o]) < MaxEntries

Replaced(k) == DecayTo[k] \in Kind /\ <<k, DecayTo[k]>> \notin Twin

Memory(k) ==
    Cardinality(Free) > Cardinality({o \in Object \ Free :
                                       item[o].life # "removed" /\ Replaced(item[o].kind)})
                        + (IF Replaced(k) THEN 1 ELSE 0)

MemoryFor(o, k) == k = Nothing \/ <<item[o].kind, k>> \in Twin \/ Free # {}

Space(k) == Cardinality(Object \ Free) < MaxItems /\ Memory(k)

Task(I) == ~checking /\ item' = I /\ UNCHANGED <<lastBucket, checking>>

CreateItem(o, k) ==
    /\ o \in Free /\ Space(k)
    /\ Task([item EXCEPT ![o] = Made(k)])

\* A clone of an item with some time left starts to decay at once, before it
\* has a place.
Clone(o, k, d) ==
    /\ o \in Free /\ Space(k)
    /\ DecayTime[k] > 0 \/ k \in StopTime
    /\ Task([item EXCEPT ![o] = Pushed([Made(k) EXCEPT !.timed = TRUE, !.duration = d])])

\* internalAddItem starts to decay whatever has time left.
InternalAddItem(o) ==
    /\ item[o].life = "made"
    /\ Room(o)
    /\ LET x == [item[o] EXCEPT !.life = "placed"]
       IN  Task([item EXCEPT ![o] = IF x.duration > 0 THEN Pushed(x) ELSE x])

\* An item from the map or the database is placed as it was saved.
Load(o, k, d) ==
    /\ o \in Free /\ Space(k)
    /\ DecayTime[k] > 0 \/ k \in StopTime
    /\ Task([item EXCEPT ![o] = [Made(k) EXCEPT !.life = "placed", !.timed = TRUE, !.duration = d]])

\* The end of internalMoveItem.
InternalMoveItem(o) ==
    /\ item[o].life = "placed" /\ item[o].duration > 0 /\ ~item[o].decaying
    /\ Room(o)
    /\ Task([item EXCEPT ![o] = Pushed(@)])

\* startDecaying of a login or of the loader, decay of a script.
StartDecaying(o) ==
    /\ item[o].life = "placed"
    /\ Room(o)
    /\ Task([item EXCEPT ![o] = Started(@)])

\* transform of a script.
Transform(o, k) ==
    /\ item[o].life = "placed"
    /\ <<item[o].kind, k>> \in Turns
    /\ Room(o) /\ MemoryFor(o, k)
    /\ Task(Transformed(item, o, k))

\* EquipItem, DeEquipItem and scripts that call decay afterwards.
TransformAndDecay(o, k) ==
    /\ item[o].life = "placed"
    /\ <<item[o].kind, k>> \in Turns
    /\ Room(o) /\ MemoryFor(o, k)
    /\ Task([Transformed(item, o, k) EXCEPT ![o] = Started(@)])

InternalRemoveItem(o) ==
    /\ item[o].life = "placed"
    /\ Task([item EXCEPT ![o] = TakenAway(@)])

\* An item that was made and could not be placed is deleted.
Discard(o) ==
    /\ item[o].life = "made"
    /\ Task([item EXCEPT ![o] = TakenAway(@)])

-----------------------------------------------------------------------------
(* cleanup and checkDecay.                                                 *)

\* References are given back; an item without any is deleted.
Released(x) ==
    IF x.refs = x.release THEN Unused
    ELSE [x EXCEPT !.refs = @ - x.release, !.release = 0]

\* The next bucket, which is gone through three intervals too early.
SpreadNext(x, last) ==
    LET b == (last + 1) % 4
    IN  [x EXCEPT !.bucket[b] = @ + x.waiting, !.waiting = 0]

\* From toDecayItems into the bucket that comes up in a second, or sooner.
Spread(x, last) ==
    LET b == IF x.duration >= Second THEN last
             ELSE (last + 1 + (x.duration \div Second)) % 4
    IN  [x EXCEPT !.bucket[b] = @ + x.waiting, !.waiting = 0]

ItemsCleaned(I, last) == [o \in Object |-> Spread(Released(I[o]), last)]

\* cleanup is also called by checkCreatureWalk and checkCreatures.
Cleanup == Task(ItemsCleaned(item, lastBucket))

bucketNow == (lastBucket + 1) % 4

\* checkDecay turns to the next bucket.
CheckDecayBegin ==
    /\ ~checking
    /\ checking' = TRUE
    /\ item' = [o \in Object |->
                  [item[o] EXCEPT !.todo = item[o].bucket[bucketNow],
                                  !.bucket[bucketNow] = 0,
                                  !.age = IF item[o].plain THEN @ + 1 ELSE @]]
    /\ UNCHANGED lastBucket

Entry(o) == checking /\ item[o].todo > 0 /\ UNCHANGED <<lastBucket, checking>>

\* What the decay of a second leaves of an item.
Left(x) == IF x.duration < Second THEN 0 ELSE x.duration - Second

\* The bucket for what is left, to the nearest second.
NewBucket(x) == (bucketNow + ((Left(x) + (Interval \div 2)) \div Second)) % 4

\* The mark stays on an item that leaves the lists.
DropEntryMarked(o) ==
    /\ Entry(o)
    /\ ~CanDecay(item[o])
    /\ item' = [item EXCEPT ![o].todo = @ - 1, ![o].release = @ + 1, ![o].plain = FALSE]

\* An entry of an item that cannot decay any more.
DropEntry(o) ==
    /\ Entry(o)
    /\ ~CanDecay(item[o])
    /\ item' = [item EXCEPT ![o].todo = @ - 1, ![o].decaying = FALSE,
                            ![o].release = @ + 1, ![o].plain = FALSE]

\* The time is over, or will be before the next visit.
Expires(x) ==
    CanDecay(x) /\ Left(x) < Second /\ (Left(x) = 0 \/ NewBucket(x) = bucketNow)

ExpireEntry(o) ==
    /\ Entry(o)
    /\ Expires(item[o])
    /\ MemoryFor(o, DecayTo[item[o].kind])
    /\ LET I == [item EXCEPT ![o].todo = @ - 1, ![o].duration = Left(item[o])]
       IN  item' = [Decayed(I, o) EXCEPT ![o].release = @ + 1]

\* The item stays in its bucket, or goes to the one of its last moments.
KeepEntry(o) ==
    /\ Entry(o)
    /\ CanDecay(item[o]) /\ ~Expires(item[o])
    /\ LET b == IF Left(item[o]) < Second THEN NewBucket(item[o]) ELSE bucketNow
       IN  item' = [item EXCEPT ![o].todo = @ - 1, ![o].duration = Left(item[o]),
                                ![o].bucket[b] = @ + 1]

CheckDecayEnd ==
    /\ checking
    /\ \A o \in Object : item[o].todo = 0
    /\ checking' = FALSE
    /\ lastBucket' = bucketNow
    /\ item' = ItemsCleaned(item, bucketNow)

-----------------------------------------------------------------------------

DecayNext ==
    \/ \E o \in Object, k \in Kind :
         \/ CreateItem(o, k)
         \/ Transform(o, k)
         \/ TransformAndDecay(o, k)
         \/ \E d \in Durations : Load(o, k, d) \/ Clone(o, k, d)
    \/ \E o \in Object :
         \/ InternalAddItem(o) \/ InternalMoveItem(o) \/ StartDecaying(o)
         \/ InternalRemoveItem(o) \/ Discard(o)
         \/ DropEntry(o) \/ ExpireEntry(o) \/ KeepEntry(o)
    \/ Cleanup
    \/ CheckDecayBegin
    \/ CheckDecayEnd

DecaySpec == DecayInit /\ [][DecayNext]_decayVars

-----------------------------------------------------------------------------
(* Properties.                                                             *)

\* The counter of an item is the number of references to it: of the one who
\* made or holds it, or its release, and one for each entry in a list.  So
\* no list ever holds an item that is deleted.
EntriesCounted ==
    \A o \in Object :
        item[o].refs = Listed(item[o]) + item[o].release
                       + (IF item[o].life \in {"made", "placed"} THEN 1 ELSE 0)

\* An item that can decay and is marked as decaying is in a list: startDecay
\* would not put it there again, and it would stay as it is for ever.  This
\* needs that no kind decays into one whose time stands still: such an item
\* would keep its mark and what the rounding left of its time.
MarkedIsListed ==
    \A o \in Object :
        CanDecay(item[o]) /\ item[o].decaying => Listed(item[o]) > 0

\* An item that nobody turns into something else, and that is listed once,
\* decays less than a second before its time and less than half a second
\* after it, for all the rounding to buckets and the cleanups at any time.
DecaysOnTime ==
    [][ \A o \in Object :
          LET x == item[o] IN
          ExpireEntry(o) /\ x.plain =>
              /\ Interval * x.age > x.span - Second
              /\ Interval * x.age < x.span + 2 * Interval ]_decayVars

\* "decayTo" and "duration" of data/items/items.xml: an item of a kind that
\* lasts only so long has time left, or it would last for ever.
NothingLastsForever ==
    \A o \in Object :
        item[o].life = "placed" /\ DecayTo[item[o].kind] # Never => TimeLeft(item[o]) > 0

=============================================================================
