----------------------------- MODULE DecayProofs -----------------------------
(***************************************************************************)
(* For any items, kinds and bounds: the references to an item are counted, *)
(* and an item that is marked as decaying is in a list.                    *)
(*                                                                         *)
(* Items do not affect one another, so that the argument is about one item *)
(* at a time: Sound is kept by each of the operations the tasks are made   *)
(* of.  Between the moment checkDecay erases an entry and ReleaseItem, a   *)
(* reference is counted that no list and no release accounts for: Owed.    *)
(***************************************************************************)
EXTENDS Decay, TLAPS

\* The references to an item, but for owed ones.
Held(x) == IF x.life \in {"made", "placed"} THEN 1 ELSE 0
Owed(x, owed) == x.refs = Listed(x) + x.release + Held(x) + owed

\* What an item has time left for: the attribute is missing only from kinds
\* that last for ever.
Timed(x) ==
    x.life # "unused" =>
        /\ x.kind \in Kind
        /\ ~x.timed => x.duration = 0 /\ DecayTime[x.kind] = 0

\* What MarkedIsListed needs of the kinds.
NoneDecaysIntoStopped == \A k \in Kind : DecayTo[k] \notin StopTime

\* Stronger than MarkedIsListed: an item of a kind that stops keeps its mark
\* and its time, and can decay again when it is turned back.
Marked(x) ==
    NoneDecaysIntoStopped /\ x.life = "placed" /\ x.decaying /\ x.duration > 0
        => Listed(x) > 0

Sound(x) == x \in ItemState /\ Owed(x, 0) /\ Timed(x) /\ Marked(x)

\* The part of a bucket that checkDecay has yet to visit is empty when it is
\* not running: the next bucket takes its place.
DecayInv ==
    /\ \A o \in Object : Sound(item[o])
    /\ item \in [Object -> ItemState]
    /\ lastBucket \in Buckets
    /\ checking \in BOOLEAN
    /\ ~checking => \A o \in Object : item[o].todo = 0

-----------------------------------------------------------------------------
(* The operations on an item.                                              *)

\* The types of the fields.
LEMMA Fields ==
  ASSUME NEW x \in ItemState
  PROVE  /\ x.kind \in Kind \cup {None} /\ x.life \in {"unused", "made", "placed", "removed"}
         /\ x.timed \in BOOLEAN /\ x.decaying \in BOOLEAN /\ x.plain \in BOOLEAN
         /\ x.duration \in Nat /\ x.refs \in Nat /\ x.waiting \in Nat /\ x.todo \in Nat
         /\ x.release \in Nat /\ x.age \in Nat /\ x.span \in Nat
         /\ x.bucket \in [Buckets -> Nat] /\ Listed(x) \in Nat /\ Held(x) \in {0, 1}
<1>1. /\ x.waiting \in Nat /\ x.todo \in Nat /\ x.bucket \in [Buckets -> Nat]
  BY DEF ItemState
<1>2. Listed(x) \in Nat
  BY <1>1 DEF Listed, Buckets
<1> QED
  BY <1>1, <1>2 DEF ItemState, Held

\* An unused object is sound, and so is a new item.
LEMMA UnusedSound == Sound(Unused)
  BY DEF Sound, Unused, ItemState, Owed, Held, Listed, Timed, Marked, Buckets

LEMMA MadeSound ==
  ASSUME NEW k \in Kind
  PROVE  /\ Sound(Made(k)) /\ Made(k).life = "made" /\ Made(k).todo = 0
         /\ Made(k).duration = DecayTime[k] /\ ~Made(k).decaying
         /\ Listed(Made(k)) = 0
<1> DEFINE m == Made(k)
<1>1. m \in ItemState
  <2>1. (DecayTime[k] > 0) \in BOOLEAN /\ DecayTime[k] \in Nat
    BY KindAssumption
  <2>2. \A t \in BOOLEAN, d \in Nat :
          [Unused EXCEPT !.kind = k, !.life = "made", !.timed = t, !.duration = d, !.refs = 1]
            \in ItemState
    BY DEF Unused, ItemState, Buckets
  <2> QED
    BY <2>1, <2>2 DEF Made
<1>2. /\ m.kind = k /\ m.life = "made"
      /\ m.duration = DecayTime[k] /\ m.decaying = FALSE /\ m.refs = 1
      /\ m.waiting = 0 /\ m.todo = 0 /\ m.release = 0
      /\ m.bucket = [b \in Buckets |-> 0]
  BY DEF Made, Unused
<1>3. m.timed = (DecayTime[k] > 0)
  BY DEF Made, Unused
<1>4. Listed(m) = 0
  BY <1>2 DEF Listed, Buckets
<1>5. Owed(m, 0)
  BY <1>2, <1>4 DEF Owed, Held
<1>6. Timed(m)
  <2>1. CASE DecayTime[k] > 0
    BY <2>1, <1>2, <1>3 DEF Timed
  <2>2. CASE ~(DecayTime[k] > 0)
    BY <2>2, <1>2, KindAssumption DEF Timed
  <2> QED
    BY <2>1, <2>2
<1> QED
  BY <1>1, <1>2, <1>4, <1>5, <1>6 DEF Sound, Marked

\* An entry in toDecayItems comes with a reference and a mark.
LEMMA PushedSound ==
  ASSUME NEW x \in ItemState, NEW owed \in Nat, Owed(x, owed), Timed(x)
  PROVE  /\ Pushed(x) \in ItemState /\ Owed(Pushed(x), owed) /\ Timed(Pushed(x))
         /\ Marked(Pushed(x)) /\ Pushed(x).todo = x.todo /\ Pushed(x).life = x.life
<1> DEFINE p == Pushed(x)
<1>1. p \in ItemState
  <2>1. /\ (Listed(x) = 0) \in BOOLEAN /\ x.refs + 1 \in Nat /\ x.waiting + 1 \in Nat
        /\ x.duration \in Nat
    BY Fields
  <2>2. \A r, w, d \in Nat, b \in BOOLEAN :
          [x EXCEPT !.decaying = TRUE, !.refs = r, !.waiting = w,
                    !.age = 0, !.span = d, !.plain = b] \in ItemState
    BY DEF ItemState
  <2> QED
    BY <2>1, <2>2 DEF Pushed
<1>2. /\ p.kind = x.kind /\ p.life = x.life /\ p.timed = x.timed /\ p.duration = x.duration
      /\ p.refs = x.refs + 1 /\ p.waiting = x.waiting + 1 /\ p.todo = x.todo
      /\ p.release = x.release /\ p.bucket = x.bucket
  BY DEF Pushed, ItemState
<1>3. Listed(p) = Listed(x) + 1
  BY <1>2, Fields DEF Listed, Buckets
<1>4. Owed(p, owed)
  BY <1>2, <1>3, Fields DEF Owed, Held
<1>5. Timed(p)
  BY <1>2 DEF Timed
<1>6. Marked(p)
  BY <1>3, Fields DEF Marked
<1> QED
  BY <1>1, <1>2, <1>4, <1>5, <1>6

\* An item of another kind, when its time starts anew and when it stands still.
LEMMA SetIDSound ==
  ASSUME NEW x \in ItemState, NEW owed \in Nat, NEW k \in Kind,
         x.life # "unused", Owed(x, owed), Timed(x)
  PROVE  LET y == SetID(x, k) IN
         /\ y \in ItemState /\ Owed(y, owed) /\ Timed(y)
         /\ y.todo = x.todo /\ y.life = x.life /\ y.kind = k
         /\ Marked(x) \/ (x.kind \notin StopTime /\ k \notin StopTime) => Marked(y)
<1> DEFINE y == SetID(x, k)
           stops == DecayTime[k] = 0 /\ k \notin StopTime /\ DecayTo[k] = Never
           anew == DecayTime[k] > 0 /\ (x.kind \notin StopTime \/ ~x.timed)
<1>1. /\ x.kind \in Kind /\ DecayTime[k] \in Nat /\ x.duration \in Nat
      /\ x.timed \in BOOLEAN
  BY KindAssumption, Fields DEF Timed
<1>2. \A d \in BOOLEAN, t \in BOOLEAN, n \in Nat :
        [[x EXCEPT !.kind = k, !.plain = FALSE]
            EXCEPT !.decaying = d, !.timed = t, !.duration = n] \in ItemState
  BY DEF ItemState
<1>3. [x EXCEPT !.kind = k, !.plain = FALSE] \in ItemState
  BY DEF ItemState
<1>4. y \in ItemState
  BY <1>1, <1>2, <1>3 DEF SetID
<1>5. /\ y.kind = k /\ y.life = x.life /\ y.refs = x.refs /\ y.waiting = x.waiting
      /\ y.todo = x.todo /\ y.release = x.release /\ y.bucket = x.bucket
  BY DEF SetID, ItemState
<1>6. Listed(y) = Listed(x) /\ Held(y) = Held(x)
  BY <1>5 DEF Listed, Held
<1>7. Owed(y, owed)
  BY <1>5, <1>6 DEF Owed
<1>8. CASE stops
  <2>1. y.decaying = FALSE /\ y.timed = FALSE /\ y.duration = 0
    BY <1>8 DEF SetID, ItemState
  <2> QED
    BY <2>1, <1>4, <1>5, <1>7, <1>8 DEF Timed, Marked
<1>9. CASE ~stops /\ anew
  <2>1. y.decaying = FALSE /\ y.timed = TRUE /\ y.duration = DecayTime[k]
    BY <1>9 DEF SetID, ItemState
  <2> QED
    BY <2>1, <1>4, <1>5, <1>7 DEF Timed, Marked
<1>10. CASE ~stops /\ ~anew
  <2>1. y.decaying = x.decaying /\ y.timed = x.timed /\ y.duration = x.duration
    BY <1>10 DEF SetID, ItemState
  <2>2. Timed(y)
    BY <2>1, <1>1, <1>5, <1>10 DEF Timed
  <2>3. ~(x.kind \notin StopTime /\ k \notin StopTime)
    BY <1>1, <1>10, KindAssumption
  <2>4. Marked(x) => Marked(y)
    BY <2>1, <1>5, <1>6 DEF Marked
  <2> QED
    BY <2>2, <2>3, <2>4, <1>4, <1>5, <1>7
<1> QED
  BY <1>8, <1>9, <1>10

\* The one who held the item does no longer, and the release is to come.
LEMMA TakenAwaySound ==
  ASSUME NEW x \in ItemState, NEW owed \in Nat, x.life \in {"made", "placed"},
         Owed(x, owed), Timed(x)
  PROVE  LET y == TakenAway(x) IN
         y \in ItemState /\ Owed(y, owed) /\ Timed(y) /\ Marked(y) /\ y.todo = x.todo
<1> DEFINE y == TakenAway(x)
<1>1. x.release + 1 \in Nat
  BY Fields
<1>2. \A r \in Nat : [x EXCEPT !.life = "removed", !.release = r] \in ItemState
  BY DEF ItemState
<1>3. y \in ItemState
  BY <1>1, <1>2 DEF TakenAway
<1>4. /\ y.life = "removed" /\ y.release = x.release + 1 /\ y.kind = x.kind
      /\ y.timed = x.timed /\ y.duration = x.duration /\ y.refs = x.refs
      /\ y.waiting = x.waiting /\ y.todo = x.todo /\ y.bucket = x.bucket
  BY DEF TakenAway, ItemState
<1>5. Listed(y) = Listed(x) /\ Held(y) = 0 /\ Held(x) = 1
  BY <1>4 DEF Listed, Held
<1>6. Owed(y, owed)
  BY <1>4, <1>5, Fields DEF Owed
<1>7. Timed(y) /\ Marked(y)
  BY <1>4 DEF Timed, Marked
<1> QED
  BY <1>3, <1>4, <1>6, <1>7

\* startDecay.
LEMMA StartedSound ==
  ASSUME NEW x \in ItemState, NEW owed \in Nat, Owed(x, owed), Timed(x), Marked(x)
  PROVE  LET y == Started(x) IN
         /\ y \in ItemState /\ Owed(y, owed) /\ Timed(y) /\ Marked(y)
         /\ y.todo = x.todo /\ y.life = x.life
  BY PushedSound DEF Started

\* A new item starts to decay, once it has a place.
LEMMA PlacedSound ==
  ASSUME NEW x, Sound(x), x.life = "made"
  PROVE  LET p == [x EXCEPT !.life = "placed"]
             y == IF p.duration > 0 THEN Pushed(p) ELSE p
         IN  Sound(y) /\ y.todo = x.todo
<1> DEFINE p == [x EXCEPT !.life = "placed"]
<1>1. x \in ItemState /\ Owed(x, 0) /\ Timed(x)
  BY DEF Sound
<1>2. p \in ItemState
  BY <1>1 DEF ItemState
<1>3. /\ p.life = "placed" /\ p.release = x.release /\ p.kind = x.kind
      /\ p.timed = x.timed /\ p.duration = x.duration /\ p.refs = x.refs
      /\ p.waiting = x.waiting /\ p.todo = x.todo /\ p.bucket = x.bucket
      /\ p.decaying = x.decaying
  BY <1>1 DEF ItemState
<1>4. Listed(p) = Listed(x) /\ Held(p) = Held(x)
  BY <1>3 DEF Listed, Held
<1>5. Owed(p, 0) /\ Timed(p)
  BY <1>1, <1>3, <1>4 DEF Owed, Timed
<1>6. CASE p.duration > 0
  BY <1>2, <1>3, <1>5, <1>6, PushedSound DEF Sound
<1>7. CASE ~(p.duration > 0)
  BY <1>2, <1>3, <1>5, <1>7 DEF Sound, Marked
<1> QED
  BY <1>6, <1>7

\* transformItem: the item itself, or a new one in another object.
LEMMA TransformedSound ==
  ASSUME NEW I \in [Object -> ItemState], NEW o \in Object, NEW k \in Kind, NEW owed \in Nat,
         \A p \in Object \ {o} : Sound(I[p]),
         I[o].life = "placed", Owed(I[o], owed), Timed(I[o]),
         <<I[o].kind, k>> \in Twin \/ \E n \in Object : I[n].life = "unused"
  PROVE  LET J == Transformed(I, o, k) IN
         /\ J \in [Object -> ItemState]
         /\ \A p \in Object \ {o} : Sound(J[p])
         /\ Owed(J[o], owed) /\ Timed(J[o])
         /\ Marked(I[o]) \/ (I[o].kind \notin StopTime /\ k \notin StopTime) => Marked(J[o])
         /\ \A p \in Object : I[p].todo = 0 => J[p].todo = 0
<1> DEFINE J == Transformed(I, o, k)
<1>1. CASE <<I[o].kind, k>> \in Twin
  <2>1. J = [I EXCEPT ![o] = SetID(I[o], k)]
    BY <1>1 DEF Transformed
  <2>2. J[o] = SetID(I[o], k) /\ \A p \in Object \ {o} : J[p] = I[p]
    BY <2>1
  <2>3. /\ J[o] \in ItemState /\ Owed(J[o], owed) /\ Timed(J[o]) /\ J[o].todo = I[o].todo
        /\ Marked(I[o]) \/ (I[o].kind \notin StopTime /\ k \notin StopTime) => Marked(J[o])
    BY <2>2, SetIDSound
  <2> QED
    BY <2>1, <2>2, <2>3
<1>2. CASE <<I[o].kind, k>> \notin Twin
  <2> DEFINE n == CHOOSE n \in Object : I[n].life = "unused"
             new == [Made(k) EXCEPT !.life = "placed"]
             y == IF new.duration > 0 THEN Pushed(new) ELSE new
  <2>1. n \in Object /\ I[n].life = "unused" /\ n # o
    BY <1>2
  <2>2. J = [I EXCEPT ![o] = TakenAway(I[o]), ![n] = y]
    BY <1>2 DEF Transformed
  <2>3. J[o] = TakenAway(I[o]) /\ J[n] = y /\ \A p \in Object \ {o, n} : J[p] = I[p]
    BY <2>1, <2>2
  <2>4. Sound(y) /\ y.todo = 0
    BY MadeSound, PlacedSound
  <2>5. /\ J[o] \in ItemState /\ Owed(J[o], owed) /\ Timed(J[o]) /\ J[o].todo = I[o].todo
        /\ Marked(J[o])
    BY <2>3, TakenAwaySound
  <2>6. y \in ItemState
    BY <2>4 DEF Sound
  <2>7. J \in [Object -> ItemState]
    BY <2>2, <2>3, <2>5, <2>6
  <2> QED
    BY <2>3, <2>4, <2>5, <2>7
<1> QED
  BY <1>1, <1>2

\* cleanup: the references of ToReleaseItems, and then toDecayItems.
LEMMA ReleasedSound ==
  ASSUME NEW x, Sound(x)
  PROVE  Sound(Released(x)) /\ (x.todo = 0 => Released(x).todo = 0)
<1> DEFINE y == [x EXCEPT !.refs = x.refs - x.release, !.release = 0]
<1>1. x \in ItemState /\ Owed(x, 0) /\ Timed(x) /\ Marked(x)
  BY DEF Sound
<1>2. x.refs - x.release \in Nat
  BY <1>1, Fields DEF Owed
<1>3. \A r \in Nat : [x EXCEPT !.refs = r, !.release = 0] \in ItemState
  BY <1>1 DEF ItemState
<1>4. y \in ItemState
  BY <1>2, <1>3
<1>5. /\ y.life = x.life /\ y.release = 0 /\ y.kind = x.kind
      /\ y.timed = x.timed /\ y.duration = x.duration /\ y.refs = x.refs - x.release
      /\ y.waiting = x.waiting /\ y.todo = x.todo /\ y.bucket = x.bucket
      /\ y.decaying = x.decaying
  BY <1>1 DEF ItemState
<1>6. Listed(y) = Listed(x) /\ Held(y) = Held(x)
  BY <1>5 DEF Listed, Held
<1>7. Owed(y, 0)
  BY <1>1, <1>5, <1>6, Fields DEF Owed
<1>8. Sound(y)
  BY <1>1, <1>4, <1>5, <1>6, <1>7 DEF Sound, Timed, Marked
<1>9. Unused.todo = 0
  BY DEF Unused
<1> QED
  BY <1>5, <1>8, <1>9, UnusedSound DEF Released

LEMMA SpreadSound ==
  ASSUME NEW x, Sound(x), NEW last \in Buckets
  PROVE  Sound(Spread(x, last)) /\ Spread(x, last).todo = x.todo
<1> DEFINE b == IF x.duration >= Second THEN last
                ELSE (last + 1 + (x.duration \div Second)) % 4
           y == [x EXCEPT !.bucket[b] = @ + x.waiting, !.waiting = 0]
<1>1. /\ x \in ItemState /\ Owed(x, 0) /\ Timed(x) /\ Marked(x)
      /\ x.waiting \in Nat /\ x.bucket \in [Buckets -> Nat] /\ x.duration \in Nat
  BY Fields DEF Sound
<1>2. b \in Buckets
  <2>1. (x.duration \div Second) \in Nat
    BY <1>1 DEF Second
  <2> QED
    BY <2>1 DEF Buckets
<1>3. [x.bucket EXCEPT ![b] = @ + x.waiting] \in [Buckets -> Nat]
  BY <1>1, <1>2
<1>4. \A f \in [Buckets -> Nat] : [x EXCEPT !.bucket = f, !.waiting = 0] \in ItemState
  BY <1>1 DEF ItemState
<1>5. y = [x EXCEPT !.bucket = [x.bucket EXCEPT ![b] = @ + x.waiting], !.waiting = 0]
  BY <1>1 DEF ItemState
<1>6. y \in ItemState
  BY <1>3, <1>4, <1>5
<1>7. /\ y.life = x.life /\ y.release = x.release /\ y.kind = x.kind
      /\ y.timed = x.timed /\ y.duration = x.duration /\ y.refs = x.refs
      /\ y.waiting = 0 /\ y.todo = x.todo /\ y.decaying = x.decaying
      /\ y.bucket = [x.bucket EXCEPT ![b] = @ + x.waiting]
  BY <1>1, <1>5 DEF ItemState
<1>8. Listed(y) = Listed(x)
  <2> HIDE DEF y, b
  <2>1. b = 0 \/ b = 1 \/ b = 2 \/ b = 3
    BY <1>2 DEF Buckets
  <2>2. x.todo \in Nat /\ \A i \in 0 .. 3 : x.bucket[i] \in Nat
    BY <1>1, Fields DEF Buckets
  <2>3. /\ y.bucket[b] = x.bucket[b] + x.waiting
        /\ \A i \in 0 .. 3 : i # b => y.bucket[i] = x.bucket[i]
    BY <1>1, <1>2, <1>7 DEF Buckets
  <2> QED
    BY <1>1, <1>7, <2>1, <2>2, <2>3 DEF Listed
<1>9. Held(y) = Held(x)
  BY <1>7 DEF Held
<1>10. Owed(y, 0) /\ Timed(y) /\ Marked(y)
  BY <1>1, <1>7, <1>8, <1>9 DEF Owed, Timed, Marked
<1> QED
  BY <1>6, <1>7, <1>10 DEF Spread, Sound

LEMMA CleanedSound ==
  ASSUME NEW I, I \in [Object -> ItemState], NEW last \in Buckets, \A o \in Object : Sound(I[o])
  PROVE  LET J == ItemsCleaned(I, last) IN
         /\ \A o \in Object : Sound(J[o]) /\ (I[o].todo = 0 => J[o].todo = 0)
         /\ J \in [Object -> ItemState]
<1> DEFINE J == ItemsCleaned(I, last)
<1>1. ASSUME NEW o \in Object
      PROVE  Sound(J[o]) /\ (I[o].todo = 0 => J[o].todo = 0)
  BY ReleasedSound, SpreadSound DEF ItemsCleaned
<1>2. \A o \in Object : J[o] \in ItemState
  BY <1>1 DEF Sound
<1> QED
  BY <1>1, <1>2 DEF ItemsCleaned

\* checkDecay turns to a bucket: what was in it is to be visited.
LEMMA BegunSound ==
  ASSUME NEW x, Sound(x), x.todo = 0, NEW b \in Buckets
  PROVE  Sound([x EXCEPT !.todo = x.bucket[b], !.bucket[b] = 0,
                         !.age = IF x.plain THEN @ + 1 ELSE @])
<1> DEFINE g == IF x.plain THEN x.age + 1 ELSE x.age
           y == [x EXCEPT !.todo = x.bucket[b], !.bucket[b] = 0,
                          !.age = IF x.plain THEN @ + 1 ELSE @]
<1>1. /\ x \in ItemState /\ Owed(x, 0) /\ Timed(x) /\ Marked(x)
      /\ x.bucket \in [Buckets -> Nat] /\ x.waiting \in Nat /\ g \in Nat
  BY Fields DEF Sound
<1>2. x.bucket[b] \in Nat /\ [x.bucket EXCEPT ![b] = 0] \in [Buckets -> Nat]
  BY <1>1
<1>3. \A f \in [Buckets -> Nat], t, a \in Nat :
        [x EXCEPT !.todo = t, !.bucket = f, !.age = a] \in ItemState
  BY <1>1 DEF ItemState
<1>4. y = [x EXCEPT !.todo = x.bucket[b], !.bucket = [x.bucket EXCEPT ![b] = 0], !.age = g]
  BY <1>1 DEF ItemState
<1>5. y \in ItemState
  BY <1>1, <1>2, <1>3, <1>4
<1>6. /\ y.life = x.life /\ y.release = x.release /\ y.kind = x.kind
      /\ y.timed = x.timed /\ y.duration = x.duration /\ y.refs = x.refs
      /\ y.waiting = x.waiting /\ y.todo = x.bucket[b] /\ y.decaying = x.decaying
      /\ y.bucket = [x.bucket EXCEPT ![b] = 0]
  BY <1>1, <1>4 DEF ItemState
<1>7. Listed(y) = Listed(x)
  <2> HIDE DEF y
  <2>1. b = 0 \/ b = 1 \/ b = 2 \/ b = 3
    BY DEF Buckets
  <2>2. \A i \in 0 .. 3 : x.bucket[i] \in Nat
    BY <1>1 DEF Buckets
  <2>3. y.bucket[b] = 0 /\ \A i \in 0 .. 3 : i # b => y.bucket[i] = x.bucket[i]
    BY <1>1, <1>6 DEF Buckets
  <2> QED
    BY <1>1, <1>6, <2>1, <2>2, <2>3 DEF Listed
<1>8. Held(y) = Held(x)
  BY <1>6 DEF Held
<1>9. Owed(y, 0) /\ Timed(y) /\ Marked(y)
  BY <1>1, <1>6, <1>7, <1>8 DEF Owed, Timed, Marked
<1> QED
  BY <1>5, <1>9 DEF Sound

\* An entry that is dropped: its reference goes to ToReleaseItems, the mark
\* goes away.
LEMMA DroppedSound ==
  ASSUME NEW x, Sound(x), x.todo > 0
  PROVE  Sound([x EXCEPT !.todo = @ - 1, !.decaying = FALSE,
                         !.release = @ + 1, !.plain = FALSE])
<1> DEFINE y == [x EXCEPT !.todo = @ - 1, !.decaying = FALSE,
                          !.release = @ + 1, !.plain = FALSE]
<1>1. /\ x \in ItemState /\ Owed(x, 0) /\ Timed(x)
      /\ x.todo \in Nat /\ x.todo - 1 \in Nat /\ x.release + 1 \in Nat /\ x.waiting \in Nat
      /\ x.bucket \in [Buckets -> Nat] /\ x.refs \in Nat
  BY Fields DEF Sound
<1>2. \A t, r \in Nat :
        [x EXCEPT !.todo = t, !.decaying = FALSE, !.release = r, !.plain = FALSE] \in ItemState
  BY <1>1 DEF ItemState
<1>3. y \in ItemState
  BY <1>1, <1>2
<1>4. /\ y.life = x.life /\ y.release = x.release + 1 /\ y.kind = x.kind
      /\ y.timed = x.timed /\ y.duration = x.duration /\ y.refs = x.refs
      /\ y.waiting = x.waiting /\ y.todo = x.todo - 1 /\ y.decaying = FALSE
      /\ y.bucket = x.bucket
  BY <1>1 DEF ItemState
<1>5. Held(y) = Held(x) /\ Held(x) \in {0, 1}
  BY <1>4 DEF Held
<1>6. Listed(y) + 1 = Listed(x)
  <2> HIDE DEF y
  <2>1. \A i \in 0 .. 3 : x.bucket[i] \in Nat
    BY <1>1 DEF Buckets
  <2> QED
    BY <1>1, <1>4, <2>1 DEF Listed
<1>7. Owed(y, 0)
  BY <1>1, <1>3, <1>4, <1>5, <1>6, Fields DEF Owed
<1>8. Timed(y) /\ Marked(y)
  BY <1>1, <1>4 DEF Timed, Marked
<1> QED
  BY <1>3, <1>7, <1>8 DEF Sound

\* An entry that is erased, with the time it takes: its reference is owed.
LEMMA ErasedSound ==
  ASSUME NEW x, Sound(x), x.todo > 0, x.timed \/ x.duration = 0
  PROVE  LET y == [x EXCEPT !.todo = @ - 1, !.duration = Left(x)] IN
         /\ y \in ItemState /\ Owed(y, 1) /\ Timed(y) /\ y.todo = x.todo - 1
         /\ y.life = x.life /\ y.kind = x.kind
<1> DEFINE y == [x EXCEPT !.todo = @ - 1, !.duration = Left(x)]
<1>1. /\ x \in ItemState /\ Owed(x, 0) /\ Timed(x)
      /\ x.todo \in Nat /\ x.todo - 1 \in Nat /\ Left(x) \in Nat /\ x.waiting \in Nat
      /\ x.bucket \in [Buckets -> Nat] /\ x.refs \in Nat
      /\ (x.duration = 0 => Left(x) = 0)
  BY Fields DEF Sound, Left, Second
<1>2. \A t, d \in Nat : [x EXCEPT !.todo = t, !.duration = d] \in ItemState
  BY <1>1 DEF ItemState
<1>3. y \in ItemState
  BY <1>1, <1>2
<1>4. /\ y.life = x.life /\ y.release = x.release /\ y.kind = x.kind
      /\ y.timed = x.timed /\ y.duration = Left(x) /\ y.refs = x.refs
      /\ y.waiting = x.waiting /\ y.todo = x.todo - 1 /\ y.bucket = x.bucket
  BY <1>1 DEF ItemState
<1>5. Held(y) = Held(x)
  BY <1>4 DEF Held
<1>6. Listed(y) + 1 = Listed(x)
  <2> HIDE DEF y
  <2>1. \A i \in 0 .. 3 : x.bucket[i] \in Nat
    BY <1>1 DEF Buckets
  <2> QED
    BY <1>1, <1>4, <2>1 DEF Listed
<1>7. Owed(y, 1)
  BY <1>1, <1>3, <1>4, <1>5, <1>6, Fields DEF Owed
<1>8. Timed(y)
  BY <1>1, <1>4 DEF Timed
<1> QED
  BY <1>3, <1>4, <1>7, <1>8

\* The reference that was owed goes to ToReleaseItems.
LEMMA RepaidSound ==
  ASSUME NEW x \in ItemState, Owed(x, 1), Timed(x), Marked(x)
  PROVE  Sound([x EXCEPT !.release = @ + 1])
<1> DEFINE y == [x EXCEPT !.release = @ + 1]
<1>1. x.release + 1 \in Nat
  BY Fields
<1>2. \A r \in Nat : [x EXCEPT !.release = r] \in ItemState
  BY DEF ItemState
<1>3. y \in ItemState
  BY <1>1, <1>2
<1>4. /\ y.life = x.life /\ y.release = x.release + 1 /\ y.kind = x.kind
      /\ y.timed = x.timed /\ y.duration = x.duration /\ y.refs = x.refs
      /\ y.waiting = x.waiting /\ y.todo = x.todo /\ y.bucket = x.bucket
      /\ y.decaying = x.decaying
  BY DEF ItemState
<1>5. Listed(y) = Listed(x) /\ Held(y) = Held(x)
  BY <1>4 DEF Listed, Held
<1>6. Owed(y, 0) /\ Timed(y) /\ Marked(y)
  BY <1>4, <1>5, Fields DEF Owed, Timed, Marked
<1> QED
  BY <1>3, <1>6 DEF Sound

\* The item stays in one bucket or goes to another.
LEMMA KeptSound ==
  ASSUME NEW x, Sound(x), x.todo > 0, x.timed \/ x.duration = 0, NEW b \in Buckets
  PROVE  Sound([x EXCEPT !.todo = @ - 1, !.duration = Left(x), !.bucket[b] = @ + 1])
<1> DEFINE e == [x EXCEPT !.todo = @ - 1, !.duration = Left(x)]
           y == [x EXCEPT !.todo = @ - 1, !.duration = Left(x), !.bucket[b] = @ + 1]
<1>1. x \in ItemState
  BY DEF Sound
<1>2. e \in ItemState /\ Owed(e, 1) /\ Timed(e)
  BY ErasedSound
<1>3. e.bucket \in [Buckets -> Nat] /\ e.waiting \in Nat /\ e.todo \in Nat
  BY <1>2, Fields
<1>4. [e.bucket EXCEPT ![b] = @ + 1] \in [Buckets -> Nat]
  BY <1>3
<1>5. y = [e EXCEPT !.bucket = [e.bucket EXCEPT ![b] = @ + 1]]
  BY <1>1 DEF ItemState
<1>6. \A f \in [Buckets -> Nat] : [e EXCEPT !.bucket = f] \in ItemState
  <2> HIDE DEF e
  <2> QED
    BY <1>2 DEF ItemState
<1>7. y \in ItemState
  BY <1>4, <1>5, <1>6
<1>8. /\ y.life = e.life /\ y.release = e.release /\ y.kind = e.kind
      /\ y.timed = e.timed /\ y.duration = e.duration /\ y.refs = e.refs
      /\ y.waiting = e.waiting /\ y.todo = e.todo
      /\ y.bucket = [e.bucket EXCEPT ![b] = @ + 1]
  <2> HIDE DEF e
  <2> QED
    BY <1>2, <1>5 DEF ItemState
<1>9. Held(y) = Held(e)
  BY <1>8 DEF Held
<1>10. Listed(y) = Listed(e) + 1
  <2> HIDE DEF y, e
  <2>1. b = 0 \/ b = 1 \/ b = 2 \/ b = 3
    BY DEF Buckets
  <2>2. \A i \in 0 .. 3 : e.bucket[i] \in Nat
    BY <1>3 DEF Buckets
  <2>3. /\ y.bucket[b] = e.bucket[b] + 1
        /\ \A i \in 0 .. 3 : i # b => y.bucket[i] = e.bucket[i]
    BY <1>3, <1>8 DEF Buckets
  <2> QED
    BY <1>3, <1>8, <2>1, <2>2, <2>3 DEF Listed
<1>11. Owed(y, 0) /\ Timed(y) /\ Marked(y)
  <2> HIDE DEF y, e
  <2> QED
    BY <1>2, <1>8, <1>9, <1>10, Fields DEF Owed, Timed, Marked
<1> QED
  BY <1>7, <1>11 DEF Sound

\* An item that was loaded or copied.
LEMMA CopiedSound ==
  ASSUME NEW k \in Kind, NEW d \in Durations
  PROVE  LET m == [Made(k) EXCEPT !.timed = TRUE, !.duration = d] IN
         /\ Sound(m) /\ m.life = "made" /\ m.todo = 0 /\ ~m.decaying
         /\ Sound([Made(k) EXCEPT !.life = "placed", !.timed = TRUE, !.duration = d])
         /\ [Made(k) EXCEPT !.life = "placed", !.timed = TRUE, !.duration = d].todo = 0
<1>1. DecayTime[k] \in Nat /\ d \in Nat
  BY KindAssumption
<1> DEFINE m == [Made(k) EXCEPT !.timed = TRUE, !.duration = d]
           p == [Made(k) EXCEPT !.life = "placed", !.timed = TRUE, !.duration = d]
<1>2. m \in ItemState /\ p \in ItemState
  <2>1. Made(k) \in ItemState
    BY MadeSound DEF Sound
  <2>2. \A x \in ItemState : \A e \in Nat :
          /\ [x EXCEPT !.timed = TRUE, !.duration = e] \in ItemState
          /\ [x EXCEPT !.life = "placed", !.timed = TRUE, !.duration = e] \in ItemState
    BY DEF ItemState
  <2> QED
    BY <1>1, <2>1, <2>2
<1>3. /\ m.kind = k /\ m.life = "made" /\ m.timed = TRUE /\ m.duration = d
      /\ m.decaying = FALSE /\ m.refs = 1 /\ m.waiting = 0 /\ m.todo = 0
      /\ m.release = 0 /\ m.bucket = [b \in Buckets |-> 0]
  BY DEF Made, Unused
<1>4. /\ p.kind = k /\ p.life = "placed" /\ p.timed = TRUE /\ p.duration = d
      /\ p.decaying = FALSE /\ p.refs = 1 /\ p.waiting = 0 /\ p.todo = 0
      /\ p.release = 0 /\ p.bucket = [b \in Buckets |-> 0]
  BY DEF Made, Unused
<1>5. Listed(m) = 0 /\ Listed(p) = 0
  BY <1>3, <1>4 DEF Listed, Buckets
<1>6. Owed(m, 0) /\ Owed(p, 0)
  BY <1>3, <1>4, <1>5 DEF Owed, Held
<1> QED
  BY <1>2, <1>3, <1>4, <1>6 DEF Sound, Timed, Marked

-----------------------------------------------------------------------------
(* The invariant.                                                          *)

LEMMA DecayInvInit == DecayInit => DecayInv
<1> SUFFICES ASSUME DecayInit PROVE DecayInv
  OBVIOUS
<1>1. Unused.todo = 0
  BY DEF Unused
<1>2. Unused \in ItemState
  BY UnusedSound DEF Sound
<1> HIDE DEF Unused
<1>3. /\ \A o \in Object : Sound(item[o]) /\ item[o].todo = 0
      /\ item \in [Object -> ItemState]
  BY <1>1, <1>2, UnusedSound DEF DecayInit
<1>4. lastBucket \in Buckets /\ checking = FALSE
  BY DEF DecayInit, Buckets
<1> QED
  BY <1>3, <1>4 DEF DecayInv

\* A task leaves checkDecay out of its loop, with nothing to visit.
LEMMA TaskKeeps ==
  ASSUME DecayInv, NEW I, Task(I), I \in [Object -> ItemState],
         \A o \in Object : Sound(I[o]) /\ (item[o].todo = 0 => I[o].todo = 0)
  PROVE  DecayInv'
  BY DEF DecayInv, Task

\* A task that changes one item.
LEMMA OneKeeps ==
  ASSUME DecayInv, NEW o \in Object, NEW x, Task([item EXCEPT ![o] = x]),
         Sound(x), x.todo = 0 \/ x.todo = item[o].todo
  PROVE  DecayInv'
<1>1. x \in ItemState
  BY DEF Sound
<1> QED
  BY <1>1, TaskKeeps DEF DecayInv

\* So does each step of checkDecay's loop.
LEMMA EntryKeeps ==
  ASSUME DecayInv, NEW o \in Object, Entry(o), NEW I, item' = I,
         I \in [Object -> ItemState], \A p \in Object : Sound(I[p])
  PROVE  DecayInv'
  BY DEF DecayInv, Entry

\* Only an item with time left can decay, so that the attribute is there.
LEMMA CanDecayTimed ==
  ASSUME NEW x, Sound(x), CanDecay(x)
  PROVE  x.timed /\ x.duration > 0 /\ x.kind \in Kind /\ x.life = "placed"
  BY DEF CanDecay, TimeLeft, Sound, Timed

LEMMA DecayInvNext == DecayInv /\ [DecayNext]_decayVars => DecayInv'
<1> SUFFICES ASSUME DecayInv, [DecayNext]_decayVars PROVE DecayInv'
  OBVIOUS
<1>1. ASSUME UNCHANGED decayVars PROVE DecayInv'
  BY <1>1 DEF decayVars, DecayInv
<1>2. ASSUME NEW o \in Object, NEW k \in Kind, CreateItem(o, k) PROVE DecayInv'
  BY <1>2, MadeSound, OneKeeps DEF CreateItem
<1>3. ASSUME NEW o \in Object, NEW k \in Kind, NEW d \in Durations, Load(o, k, d)
      PROVE  DecayInv'
  BY <1>3, CopiedSound, OneKeeps DEF Load
<1>4. ASSUME NEW o \in Object, NEW k \in Kind, NEW d \in Durations, Clone(o, k, d)
      PROVE  DecayInv'
  <2> DEFINE m == [Made(k) EXCEPT !.timed = TRUE, !.duration = d]
  <2>1. Sound(m) /\ m.todo = 0
    BY CopiedSound
  <2> HIDE DEF m
  <2>2. Sound(Pushed(m)) /\ Pushed(m).todo = 0
    BY <2>1, PushedSound DEF Sound
  <2> USE DEF m
  <2>3. Task([item EXCEPT ![o] = Pushed(m)])
    BY <1>4 DEF Clone
  <2> HIDE DEF m
  <2> QED
    BY <2>2, <2>3, OneKeeps
<1>5. ASSUME NEW o \in Object, InternalAddItem(o) PROVE DecayInv'
  <2> DEFINE p == [item[o] EXCEPT !.life = "placed"]
             y == IF p.duration > 0 THEN Pushed(p) ELSE p
  <2>1. Sound(y) /\ y.todo = item[o].todo
    BY <1>5, PlacedSound DEF InternalAddItem, DecayInv
  <2>2. Task([item EXCEPT ![o] = y])
    BY <1>5 DEF InternalAddItem
  <2> HIDE DEF y
  <2> QED
    BY <2>1, <2>2, OneKeeps
<1>6. ASSUME NEW o \in Object, InternalMoveItem(o) PROVE DecayInv'
  <2>1. Sound(Pushed(item[o])) /\ Pushed(item[o]).todo = item[o].todo
    BY PushedSound DEF DecayInv, Sound
  <2> QED
    BY <1>6, <2>1, OneKeeps DEF InternalMoveItem
<1>7. ASSUME NEW o \in Object, StartDecaying(o) PROVE DecayInv'
  <2>1. Sound(Started(item[o])) /\ Started(item[o]).todo = item[o].todo
    BY StartedSound DEF DecayInv, Sound
  <2> QED
    BY <1>7, <2>1, OneKeeps DEF StartDecaying
<1>8. ASSUME NEW o \in Object, InternalRemoveItem(o) \/ Discard(o) PROVE DecayInv'
  <2>1. item[o].life \in {"made", "placed"} /\ Task([item EXCEPT ![o] = TakenAway(item[o])])
    BY <1>8 DEF InternalRemoveItem, Discard
  <2>2. Sound(TakenAway(item[o])) /\ TakenAway(item[o]).todo = item[o].todo
    BY <2>1, TakenAwaySound DEF DecayInv, Sound
  <2> QED
    BY <2>1, <2>2, OneKeeps
<1>9. ASSUME NEW o \in Object, NEW k \in Kind, Transform(o, k) \/ TransformAndDecay(o, k)
      PROVE  DecayInv'
  <2> DEFINE J == Transformed(item, o, k)
             K == [J EXCEPT ![o] = Started(J[o])]
  <2>1. <<item[o].kind, k>> \in Twin \/ \E n \in Object : item[n].life = "unused"
    BY <1>9, KindAssumption DEF Transform, TransformAndDecay, MemoryFor, Free
  <2>2. item[o].life = "placed"
    BY <1>9 DEF Transform, TransformAndDecay
  <2>3. /\ J \in [Object -> ItemState] /\ \A p \in Object : Sound(J[p])
        /\ \A p \in Object : item[p].todo = 0 => J[p].todo = 0
    BY <2>1, <2>2, TransformedSound DEF DecayInv, Sound
  <2> HIDE DEF J
  <2>4. Sound(Started(J[o])) /\ Started(J[o]).todo = J[o].todo /\ Started(J[o]) \in ItemState
    BY <2>3, StartedSound DEF Sound
  <2>5. /\ K \in [Object -> ItemState] /\ \A p \in Object : Sound(K[p])
        /\ \A p \in Object : item[p].todo = 0 => K[p].todo = 0
    BY <2>3, <2>4
  <2>6. Task(J) \/ Task(K)
    BY <1>9 DEF Transform, TransformAndDecay, J
  <2> HIDE DEF K
  <2> QED
    BY <2>3, <2>5, <2>6, TaskKeeps
<1>10. ASSUME Cleanup PROVE DecayInv'
  <2>1. Task(ItemsCleaned(item, lastBucket))
    BY <1>10 DEF Cleanup
  <2> QED
    BY <2>1, CleanedSound, TaskKeeps DEF DecayInv
<1>11. ASSUME CheckDecayBegin PROVE DecayInv'
  <2>1. bucketNow \in Buckets
    BY DEF DecayInv, bucketNow, Buckets
  <2>2. \A o \in Object : Sound(item'[o])
    BY <1>11, <2>1, BegunSound DEF CheckDecayBegin, DecayInv
  <2>3. \A o \in Object : item'[o] \in ItemState
    BY <2>2 DEF Sound
  <2> QED
    BY <1>11, <2>2, <2>3 DEF CheckDecayBegin, DecayInv
<1>12. ASSUME NEW o \in Object, DropEntry(o) PROVE DecayInv'
  <2> DEFINE y == [item[o] EXCEPT !.todo = @ - 1, !.decaying = FALSE,
                                  !.release = @ + 1, !.plain = FALSE]
  <2>1. item[o] \in ItemState
    BY DEF DecayInv
  <2>2. Sound(y)
    BY <1>12, DroppedSound DEF DropEntry, Entry, DecayInv
  <2>3. y \in ItemState
    BY <2>2 DEF Sound
  <2>4. item' = [item EXCEPT ![o] = y]
    BY <1>12 DEF DropEntry
  <2> HIDE DEF y
  <2>5. item' \in [Object -> ItemState] /\ \A p \in Object : Sound(item'[p])
    BY <2>2, <2>3, <2>4 DEF DecayInv
  <2>6. checking' = TRUE /\ lastBucket' \in Buckets
    BY <1>12 DEF DropEntry, Entry, DecayInv
  <2> QED
    BY <2>5, <2>6 DEF DecayInv
<1>13. ASSUME NEW o \in Object, KeepEntry(o) PROVE DecayInv'
  <2> DEFINE x == item[o]
             b == IF Left(x) < Second THEN NewBucket(x) ELSE bucketNow
             y == [x EXCEPT !.todo = @ - 1, !.duration = Left(x), !.bucket[b] = @ + 1]
  <2>1. x.timed /\ x \in ItemState /\ x.duration \in Nat
    BY <1>13, CanDecayTimed, Fields DEF KeepEntry, DecayInv
  <2>2. Left(x) \in Nat /\ bucketNow \in Buckets
    BY <2>1 DEF Left, Second, DecayInv, bucketNow, Buckets
  <2>3. b \in Buckets
    <3>1. ((Left(x) + (Interval \div 2)) \div Second) \in Nat
      BY <2>2 DEF Interval, Second
    <3> QED
      BY <2>2, <3>1 DEF NewBucket, Buckets
  <2>4. item' = [item EXCEPT ![o] = y]
    BY <1>13 DEF KeepEntry
  <2> HIDE DEF b
  <2>5. Sound(y)
    BY <1>13, <2>1, <2>3, KeptSound DEF KeepEntry, Entry, DecayInv
  <2>6. y \in ItemState
    BY <2>5 DEF Sound
  <2> HIDE DEF y
  <2>7. item' \in [Object -> ItemState] /\ \A p \in Object : Sound(item'[p])
    BY <2>4, <2>5, <2>6 DEF DecayInv
  <2>8. checking' = TRUE /\ lastBucket' \in Buckets
    BY <1>13 DEF KeepEntry, Entry, DecayInv
  <2> QED
    BY <2>7, <2>8 DEF DecayInv
<1>14. ASSUME NEW o \in Object, ExpireEntry(o) PROVE DecayInv'
  <2> DEFINE x == item[o]
             k == DecayTo[x.kind]
             y == [x EXCEPT !.todo = @ - 1, !.duration = Left(x)]
             I == [item EXCEPT ![o] = y]
             D == Decayed(I, o)
  <2>1. /\ Sound(x) /\ x.todo > 0 /\ CanDecay(x) /\ item \in [Object -> ItemState]
        /\ \A p \in Object : Sound(item[p])
    BY <1>14 DEF ExpireEntry, Entry, Expires, DecayInv
  <2>2. x.timed /\ x.kind \in Kind /\ x.life = "placed" /\ k \in Kind \cup {Nothing}
    BY <2>1, CanDecayTimed, KindAssumption DEF CanDecay
  <2>3. x.kind \notin StopTime
    BY <2>1, KindAssumption DEF CanDecay
  <2>4. y \in ItemState /\ Owed(y, 1) /\ Timed(y) /\ y.life = "placed" /\ y.kind = x.kind
    BY <2>1, <2>2, ErasedSound
  <2>5. item' = [D EXCEPT ![o].release = @ + 1]
    BY <1>14 DEF ExpireEntry
  <2> HIDE DEF y
  <2>6. /\ I \in [Object -> ItemState] /\ I[o] = y
        /\ \A p \in Object \ {o} : I[p] = item[p]
    BY <2>1, <2>4
  <2> HIDE DEF I
  <2>7. /\ D \in [Object -> ItemState] /\ \A p \in Object \ {o} : Sound(D[p])
        /\ Owed(D[o], 1) /\ Timed(D[o]) /\ Marked(D[o])
    <3>1. CASE k = Nothing
      <4>1. D = [I EXCEPT ![o] = TakenAway(y)]
        BY <3>1, <2>4, <2>6 DEF Decayed
      <4>2. /\ TakenAway(y) \in ItemState /\ Owed(TakenAway(y), 1)
            /\ Timed(TakenAway(y)) /\ Marked(TakenAway(y))
        BY <2>4, TakenAwaySound
      <4> QED
        BY <4>1, <4>2, <2>1, <2>6
    <3>2. CASE k \in Kind
      <4> DEFINE J == Transformed(I, o, k)
      <4>1. <<I[o].kind, k>> \in Twin \/ \E n \in Object : I[n].life = "unused"
        <5>1. k # Nothing
          BY <3>2, KindAssumption
        <5>2. CASE <<x.kind, k>> \in Twin
          BY <5>2, <2>4, <2>6
        <5>3. CASE Free # {}
          <6>1. PICK n \in Object : item[n].life = "unused"
            BY <5>3 DEF Free
          <6>2. n # o
            BY <6>1, <2>2
          <6> QED
            BY <6>1, <6>2, <2>6
        <5> QED
          BY <1>14, <5>1, <5>2, <5>3 DEF ExpireEntry, MemoryFor
      <4>2. /\ J \in [Object -> ItemState] /\ \A p \in Object \ {o} : Sound(J[p])
            /\ Owed(J[o], 1) /\ Timed(J[o])
            /\ k \notin StopTime => Marked(J[o])
        BY <3>2, <4>1, <2>1, <2>3, <2>4, <2>6, TransformedSound
      <4>3. Marked(J[o])
        BY <4>2, <2>2 DEF Marked, NoneDecaysIntoStopped
      <4>4. D = [J EXCEPT ![o] = Started(J[o])]
        BY <3>2, <2>4, <2>6, KindAssumption DEF Decayed
      <4> HIDE DEF J
      <4>5. /\ Started(J[o]) \in ItemState /\ Owed(Started(J[o]), 1)
            /\ Timed(Started(J[o])) /\ Marked(Started(J[o]))
        BY <4>2, <4>3, StartedSound
      <4> QED
        BY <4>2, <4>4, <4>5
    <3> QED
      BY <2>2, <3>1, <3>2
  <2> HIDE DEF D
  <2> DEFINE z == [D[o] EXCEPT !.release = @ + 1]
  <2>8. Sound(z)
    BY <2>7, RepaidSound
  <2>9. z \in ItemState
    BY <2>8 DEF Sound
  <2>10. item' = [D EXCEPT ![o] = z]
    BY <2>5, <2>7
  <2> HIDE DEF z
  <2>11. item' \in [Object -> ItemState] /\ \A p \in Object : Sound(item'[p])
    BY <2>7, <2>8, <2>9, <2>10
  <2> QED
    BY <1>14, <2>11 DEF ExpireEntry, Entry, DecayInv
<1>15. ASSUME CheckDecayEnd PROVE DecayInv'
  <2>1. bucketNow \in Buckets
    BY DEF DecayInv, bucketNow, Buckets
  <2>2. /\ \A o \in Object : Sound(item'[o]) /\ item'[o].todo = 0
        /\ item' \in [Object -> ItemState]
    BY <1>15, <2>1, CleanedSound DEF CheckDecayEnd, DecayInv
  <2> QED
    BY <1>15, <2>1, <2>2 DEF CheckDecayEnd, DecayInv
<1> QED
  BY <1>1, <1>2, <1>3, <1>4, <1>5, <1>6, <1>7, <1>8, <1>9, <1>10, <1>11, <1>12, <1>13,
     <1>14, <1>15 DEF DecayNext

-----------------------------------------------------------------------------
(* The theorems.                                                           *)

LEMMA DecayInvariance == DecaySpec => []DecayInv
<1> QED
  BY DecayInvInit, DecayInvNext, PTL DEF DecaySpec

\* checkDecay, cleanup and all that moves, removes and transforms items
\* keep the types of the decay lists.
THEOREM DecayTypesHold == DecaySpec => []DecayTypeOK
<1>1. DecayInv => DecayTypeOK
  BY DEF DecayInv, DecayTypeOK
<1> QED
  BY <1>1, DecayInvariance, PTL

\* However often an item enters and leaves toDecayItems and the buckets, its
\* reference counter is the number of its holders: no list holds an item
\* that is deleted, and none is kept that nobody holds.
THEOREM EntriesAreCounted == DecaySpec => []EntriesCounted
<1>1. DecayInv => EntriesCounted
  <2> SUFFICES ASSUME DecayInv, NEW o \in Object
               PROVE  item[o].refs = Listed(item[o]) + item[o].release + Held(item[o])
    BY DEF EntriesCounted, Held
  <2>1. item[o] \in ItemState /\ Owed(item[o], 0)
    BY DEF DecayInv, Sound
  <2> QED
    BY <2>1, Fields DEF Owed
<1> QED
  BY <1>1, DecayInvariance, PTL

\* If no kind decays into one whose time stands still, an item that can decay
\* and is marked as decaying is in a list of checkDecay, so that startDecay
\* may rely on the mark.
THEOREM MarkedAreListed ==
  ASSUME NoneDecaysIntoStopped
  PROVE  DecaySpec => []MarkedIsListed
<1>1. DecayInv => MarkedIsListed
  <2> SUFFICES ASSUME DecayInv, NEW o \in Object, CanDecay(item[o]), item[o].decaying
               PROVE  Listed(item[o]) > 0
    BY DEF MarkedIsListed
  <2>1. Sound(item[o])
    BY DEF DecayInv
  <2>2. item[o].duration > 0 /\ item[o].life = "placed"
    BY <2>1, CanDecayTimed
  <2> QED
    BY <2>1, <2>2 DEF Sound, Marked
<1> QED
  BY <1>1, DecayInvariance, PTL

=============================================================================
