------------------------------- MODULE Items -------------------------------
(***************************************************************************)
(* Items that a player moves between the floor, containers, a depot chest  *)
(* and the slots of his equipment (src/src/game.cpp, src/src/container.cpp,*)
(* src/src/player.cpp, src/src/tile.cpp).  A move asks the places four     *)
(* questions (where to, may it be added, how many, may it be removed), and *)
(* then changes both, merging stacks, splitting them, or exchanging an     *)
(* item for the one worn.  Operators take and return the world w.          *)
(***************************************************************************)
EXTENDS Integers, Sequences, FiniteSets, FiniteSetsExt, SequencesExt, NoValue

CONSTANTS
    Item,           (* item objects; those without a parent are free     *)
    Bag,            (* the items that are containers                     *)
    Chest,          (* the player's depot chest, one of Bag              *)
    Me, Floor,      (* the player, and the tile he stands on             *)
    Where,          (* INDEX_WHEREEVER, no slot in particular            *)
    KindOf,         (* the kind of an item                               *)
    Type,           (* a kind's weight, worth and ways of being worn     *)
    Stackable,      (* the kinds that stack, up to StackMax              *)
    StackMax,
    Capacity,       (* slots of a container                              *)
    MaxWeight,      (* what the player can carry                         *)
    MaxDepotItems,
    SlotOrder,      (* the player's slots in the order of slots_t        *)
    Starts,         (* what lies where at the beginning                  *)
    TradeBag,       (* bags that the player may have on offer            *)
    MaxGoods        (* bound: items of a kind that come into the world   *)

Slot == ToSet(SlotOrder)
Good == {Type[k].good : k \in DOMAIN Type}     \* money, or the kind itself
Cylinder == {Me, Floor} \cup Bag
Up == 254           \* the client's index of the parent container
AnySlot == 255      \* the client's index of any free slot

ASSUME ItemsAssumption ==
    /\ Chest \in Bag /\ Bag \subseteq Item /\ {Me, Floor, Where, None} \cap Item = {}
    /\ Stackable \subseteq DOMAIN Type /\ StackMax \in Nat \ {0}
    /\ \A b \in Bag : KindOf[b] \notin Stackable

VARIABLES
    inventory,      (* Player::inventory                                 *)
    itemlist,       (* of containers, and the floor's down items         *)
    parent,         (* Item::parent                                      *)
    amount,         (* Item::count                                       *)
    totalWeight,    (* of containers: the weight of what they hold       *)
    inventoryWeight,
    classic,        (* the option classicEquipmentSlots                  *)
    offered,        (* Player::tradeItem                                 *)
    comes,          (* bound: the kinds that come into the world         *)
    due             (* what there should be of each kind, by the results *)
                    (* that callers got                                  *)

itemVars == <<inventory, itemlist, parent, amount, totalWeight, inventoryWeight,
              classic, offered, comes, due>>

ItemsTypeOK ==
    /\ inventory \in [Slot -> Item \cup {None}]
    /\ DOMAIN itemlist = Bag \cup {Floor}
    /\ \A c \in DOMAIN itemlist : itemlist[c] \in Seq(Item)
    /\ parent \in [Item -> Cylinder \cup {None}]
    /\ amount \in [Item -> 0 .. StackMax]
    /\ totalWeight \in [Bag -> Int] /\ inventoryWeight \in Int
    /\ classic \in BOOLEAN /\ comes \subseteq DOMAIN Type /\ offered \in Bag \cup {None}
    /\ due \in [Good -> Nat]

Things == [slot |-> inventory, list |-> itemlist, par |-> parent, cnt |-> amount,
          tw |-> totalWeight, iw |-> inventoryWeight]

Stacks(i) == KindOf[i] \in Stackable
Alike(i, j) == j # None /\ KindOf[i] = KindOf[j]        \* Item::equals
Full(w, i) == w.cnt[i] >= StackMax

\* Op, n times.
Iterate(Op(_), x, n) ==
    LET f[k \in 0 .. n] == IF k = 0 THEN x ELSE Op(f[k - 1]) IN f[n]

-----------------------------------------------------------------------------
(* Where things are, and what they weigh.                                  *)

\* Item::getParent, from a container to what it is in; the chest's parents
\* are of no account.
Above(w, c) ==
    IF c \notin Bag \ {Chest} THEN {c} \ {None}
    ELSE IF w.par[c] \notin Bag THEN {c, w.par[c]} \ {None}
    ELSE Iterate(LAMBDA S : S \cup {w.par[b] : b \in (S \cap Bag) \ {Chest}},
                 {c}, Cardinality(Bag)) \ {None}

\* Item::getTopParent: the player, the depot chest, the outermost container
\* on the floor, or the floor.
TopAmong(w, i, up) ==
    CASE Me \in up -> Me
      [] Chest \in up \cup {i} -> Chest
      [] i \in Bag \/ up \cap Bag # {} ->
           CHOOSE b \in ({i} \cup up) \cap Bag : w.par[b] \notin Bag
      [] OTHER -> w.par[i]

TopParent(w, i) == TopAmong(w, i, Above(w, w.par[i]))

TopOf(w, c) == IF c \in Bag THEN TopParent(w, c) ELSE c

In(w, S) == {i \in Item : w.par[i] \in S}
Inside(w, c) == In(w, {c} \cup {b \in Bag \ {Chest, c} : c \in Above(w, b)})

OwnWeight(w, i) == Type[KindOf[i]].weight * (IF Stacks(i) THEN w.cnt[i] ELSE 1)
WeightOf(w, i) == OwnWeight(w, i) + (IF i \in Bag THEN w.tw[i] ELSE 0)
Worn(w) == {w.slot[s] : s \in Slot} \ {None}

\* Container::updateItemWeight: the container and all that hold it.
Weighted(w, c, d) ==
    [w EXCEPT !.tw = [b \in Bag |-> IF b \in Above(w, c) THEN w.tw[b] + d ELSE w.tw[b]]]

\* updateInventoryWeight, by the notifications of a change in c.
Notified(w, c) ==
    IF TopOf(w, c) = Me
    THEN [w EXCEPT !.iw = MapThenSumSet(LAMBDA i : WeightOf(w, i), Worn(w))]
    ELSE w

-----------------------------------------------------------------------------
(* The questions.                                                          *)

\* Player::hasCapacity.
HasCapacity(w, i, n) ==
    \/ TopParent(w, i) = Me
    \/ (IF i \in Bag THEN WeightOf(w, i)
        ELSE Type[KindOf[i]].weight * (IF Stacks(i) THEN n ELSE 1)) <= MaxWeight - w.iw

\* The part of Player::queryAdd about hands, with the option classic ...
ClassicHand(w, i, n, other) ==
    LET j == w.slot[other]
        t == Type[KindOf[i]]
        u == Type[KindOf[j]]
    IN  \/ t.twoHand /\ j \in {None, i}
        \/ ~t.twoHand /\ j = None
        \/ /\ ~t.twoHand /\ j # None /\ ~u.twoHand
           /\ \/ i = j /\ n = w.cnt[i]
              \/ /\ {t.weapon, u.weapon} # {"shield"}
                 /\ {t.weapon, u.weapon} \cap {"none", "shield", "ammo"} # {}

\* ... and without it: shields to the right, weapons to the left.
HandAllows(w, s, i, n) ==
    LET t == Type[KindOf[i]] IN
    /\ s \in t.worn
    /\ IF classic THEN ClassicHand(w, i, n, IF s = "right" THEN "left" ELSE "right")
       ELSE IF s = "right"
       THEN /\ t.weapon = "shield"
            /\ w.slot["left"] # None => ~t.twoHand /\ ~Type[KindOf[w.slot["left"]]].twoHand
       ELSE /\ t.weapon \notin {"none", "shield", "ammo"}
            /\ w.slot["right"] # None => ~t.twoHand

SlotAllows(w, s, i, n) ==
    IF s \in {"left", "right"} THEN HandAllows(w, s, i, n)
    ELSE s \in Type[KindOf[i]].worn \/ (s = "ammo" /\ classic)

\* Player::queryAdd for a slot: an item of another kind, or one that does
\* not stack, has to be exchanged.
PlayerQueryAdd(w, s, i, n) ==
    IF s \notin Slot \/ ~SlotAllows(w, s, i, n) \/ ~HasCapacity(w, i, n) THEN "no"
    ELSE IF w.slot[s] # None /\ (~Stacks(w.slot[s]) \/ ~Alike(i, w.slot[s]))
    THEN IF TopParent(w, i) \in {Me, Chest} THEN "exchange" ELSE "no"
    ELSE "ok"

\* DepotChest::queryAdd.
ChestAllows(w, i, n) ==
    Cardinality(Inside(w, Chest))
        + (IF TopParent(w, i) # Chest THEN Cardinality(Inside(w, i)) + 1
           ELSE IF Stacks(i) /\ n # w.cnt[i] THEN 1 ELSE 0) <= MaxDepotItems

\* Container::queryAdd, which asks the outermost container or the player.
TopAllows(w, top, i, n) ==
    /\ top = Me => HasCapacity(w, i, n)
    /\ top = Chest => ChestAllows(w, i, n)

BagQueryAdd(w, b, idx, i, n) ==
    IF /\ i \notin Above(w, b)
       /\ idx = Where => Len(w.list[b]) < Capacity[b]
       /\ TopAllows(w, TopParent(w, b), i, n)
    THEN "ok" ELSE "no"

QueryAdd(w, c, idx, i, n) ==
    IF c = Me THEN PlayerQueryAdd(w, idx, i, n)
    ELSE IF c = Floor THEN "ok" ELSE BagQueryAdd(w, c, idx, i, n)

\* One more than a stack may hold.
RoomForOneMore(w, i, j) ==
    IF Alike(i, j) /\ w.cnt[j] <= StackMax THEN StackMax + 1 - w.cnt[j] ELSE 0

Room(w, i, j) == IF Alike(i, j) /\ ~Full(w, j) THEN StackMax - w.cnt[j] ELSE 0

At(w, b, idx) == IF idx \in 0 .. Len(w.list[b]) - 1 THEN w.list[b][idx + 1] ELSE None

\* Container::queryMaxCount.
BagMaxCount(w, b, idx, i, n) ==
    LET free == Max({Capacity[b] - Len(w.list[b]), 0})
        into == IF idx = Where THEN ToSet(w.list[b]) \ {i} ELSE {At(w, b, idx)} \ {None}
    IN  IF ~Stacks(i) THEN free
        ELSE free * StackMax
             + (IF BagQueryAdd(w, b, 0, i, n) = "ok"
                THEN MapThenSumSet(LAMBDA j : Room(w, i, j), into) ELSE 0)

\* Player::queryMaxCount anywhere: what slots, stacks and containers take.
SlotMaxCount(w, s, i) ==
    LET j == w.slot[s] IN
    IF j = None
    THEN IF PlayerQueryAdd(w, s, i, w.cnt[i]) # "ok" THEN 0
         ELSE IF Stacks(i) THEN StackMax ELSE 1
    ELSE IF j \in Bag
    THEN MapThenSumSet(LAMBDA b : BagMaxCount(w, b, Where, i, w.cnt[i]),
                       {j} \cup (Inside(w, j) \cap Bag))
    ELSE IF Stacks(j) /\ PlayerQueryAdd(w, s, i, Room(w, i, j)) = "ok" THEN Room(w, i, j) ELSE 0

PlayerMaxCount(w, s, i, n) ==
    IF s = Where THEN MapThenSumSet(LAMBDA t : SlotMaxCount(w, t, i), Slot)
    ELSE IF w.slot[s] # None THEN IF Stacks(i) THEN Room(w, i, w.slot[s]) ELSE 0
    ELSE IF PlayerQueryAdd(w, s, i, n) # "ok" THEN 0 ELSE IF Stacks(i) THEN StackMax ELSE 1

QueryMaxCount(w, c, idx, i, n) ==
    IF c = Me THEN PlayerMaxCount(w, idx, i, n)
    ELSE IF c = Floor THEN Max({1, n}) ELSE BagMaxCount(w, c, idx, i, n)

To(c, idx, j) == [to |-> c, idx |-> idx, item |-> j]

\* Container::queryDestination: upwards, into the container that is pointed
\* at, onto a stack of the same kind, or here.
BagDestination(w, b, idx, i) ==
    LET k == IF idx \in 0 .. Capacity[b] - 1 THEN idx ELSE Where
        j == At(w, b, k)
        stacks == SelectInSeq(w.list[b], LAMBDA x : x # i /\ Room(w, i, x) > 0)
    IN  IF idx = Up THEN To(IF w.par[b] \in Bag THEN w.par[b] ELSE b, Where, None)
        ELSE IF j \in Bag THEN To(j, Where, None)
        ELSE IF Stacks(i) /\ w.par[i] # b /\ Room(w, i, j) = 0 /\ stacks # 0
        THEN To(b, stacks - 1, w.list[b][stacks])
        ELSE To(b, k, j)

\* The containers of the player, level by level, but for what is on offer.
Level(w, S) ==
    FoldLeft(LAMBDA s, b : s \o SelectSeq(w.list[b], LAMBDA i : i \in Bag /\ i # offered),
             <<>>, S)

Containers(w, i) ==
    LET first == SelectSeq([k \in 1 .. Len(SlotOrder) |-> w.slot[SlotOrder[k]]],
                           LAMBDA j : j \in Bag \ {offered, i})
        Next(s) == [level |-> SelectSeq(Level(w, s.level), LAMBDA j : j # i),
                    all |-> s.all \o s.level]
    IN  Iterate(Next, [level |-> first, all |-> <<>>], Cardinality(Bag)).all

\* Player::queryDestination without a slot: the first slot that takes the
\* item, empty or with a stack of its kind, then the first container.
SlotTakes(w, s, i) ==
    LET j == w.slot[s] IN
    /\ j \notin {offered, i} \ {None}
    /\ j = None \/ (Stacks(i) /\ Room(w, i, j) > 0)
    /\ PlayerQueryAdd(w, s, i, w.cnt[i]) = "ok"

StackIn(w, b, i) ==
    IF Stacks(i) THEN SelectInSeq(w.list[b], LAMBDA x : x # i /\ Room(w, i, x) > 0) ELSE 0

BagTakes(w, b, i) ==
    \/ StackIn(w, b, i) # 0
    \/ /\ Len(w.list[b]) < Capacity[b]
       /\ BagQueryAdd(w, b, 0, i, w.cnt[i]) = "ok"

IntoBag(w, b, x) == IF x # 0 THEN To(b, x - 1, w.list[b][x]) ELSE To(b, Len(w.list[b]), None)

FirstBag(w, i, takers) ==
    IF takers = <<>> THEN To(Me, Where, None)
    ELSE IntoBag(w, Head(takers), StackIn(w, Head(takers), i))

FirstPlace(w, i, slots) ==
    IF slots # <<>> THEN To(Me, Head(slots), w.slot[Head(slots)])
    ELSE FirstBag(w, i, SelectSeq(Containers(w, i), LAMBDA b : BagTakes(w, b, i)))

AnywhereOn(w, i) == FirstPlace(w, i, SelectSeq(SlotOrder, LAMBDA s : SlotTakes(w, s, i)))

PlayerDestination(w, s, i) ==
    IF s \notin Slot THEN AnywhereOn(w, i)
    ELSE IF w.slot[s] \in Bag THEN To(w.slot[s], Where, None) ELSE To(Me, s, w.slot[s])

QueryDestination(w, c, idx, i) ==
    IF c = Me THEN PlayerDestination(w, idx, i)
    ELSE IF c = Floor
    THEN To(Floor, Where, IF w.list[Floor] = <<>> THEN None ELSE Head(w.list[Floor]))
    ELSE BagDestination(w, c, idx, i)

-----------------------------------------------------------------------------
(* The changes.  The mutants of this module are named for what they get    *)
(* wrong and stand before the definition they change.                      *)

SlotHolding(w, i) == CHOOSE s \in Slot : w.slot[s] = i

\* addThing: into a slot, or to the front.  The container may be full.
Added(w, c, idx, i) ==
    IF c = Me THEN [w EXCEPT !.slot[idx] = i, !.par[i] = Me]
    ELSE LET v == [w EXCEPT !.list[c] = <<i>> \o @, !.par[i] = c]
         IN  IF c = Floor THEN v ELSE Weighted(v, c, WeightOf(w, i))

\* updateThing, with a new count.
Updated(w, i, n) ==
    Weighted([w EXCEPT !.cnt[i] = n], w.par[i], Type[KindOf[i]].weight * (n - w.cnt[i]))

\* Only the weight of the container itself is changed.
WithdrawnHere(w, i) ==
    LET c == w.par[i]
        v == [w EXCEPT !.par[i] = None, !.cnt[i] = IF Stacks(i) THEN 0 ELSE @]
    IN  IF c = Me THEN [v EXCEPT !.slot[SlotHolding(w, i)] = None]
        ELSE LET u == [v EXCEPT !.list[c] = Remove(@, i)]
             IN  IF c = Floor THEN u ELSE [u EXCEPT !.tw[c] = @ - WeightOf(w, i)]

\* removeThing of all of an item.
Withdrawn(w, i) ==
    LET c == w.par[i]
        v == [w EXCEPT !.par[i] = None, !.cnt[i] = IF Stacks(i) THEN 0 ELSE @]
    IN  IF c = Me THEN [v EXCEPT !.slot[SlotHolding(w, i)] = None]
        ELSE LET u == [v EXCEPT !.list[c] = Remove(@, i)]
             IN  IF c = Floor THEN u ELSE Weighted(u, c, -WeightOf(w, i))

\* removeThing of n of an item.
ItemRemoved(w, i, n) ==
    IF Stacks(i) /\ n # w.cnt[i] THEN Updated(w, i, w.cnt[i] - n) ELSE Withdrawn(w, i)

\* Objects a clone may be; the name of an item that is gone is used again.
Free(w, i) == {j \in Item : KindOf[j] = KindOf[i] /\ w.par[j] = None}

NewOrOld(w, i) == IF w.par[i] = None THEN i ELSE CHOOSE j \in Free(w, i) : TRUE

\* The rest that does not fit on the stack it came to is put beside it.
Beside(w, d, j, n) == IF n = 0 THEN w ELSE Added([w EXCEPT !.cnt[j] = n], d.to, d.idx, j)
Onto(w, j, k) == IF k > 0 THEN Updated(w, j, w.cnt[j] + k) ELSE w
Merged(w, i, j, n) == IF j # None THEN Min({Room(w, i, j), n}) ELSE 0

ArrivedAs(w, d, i, n, k) ==
    Beside(Onto(w, d.item, k), d, NewOrOld(w, i), n - k)

Arrived(w, d, i, n) == ArrivedAs(w, d, i, n, Merged(w, i, d.item, n))

\* The loop over queryDestination.
Asked(s, d) == [d |-> d, end |-> d.to = s.d.to]

Destination(w, to, idx, i) ==
    Iterate(LAMBDA s : IF s.end THEN s
                       ELSE Asked(s, QueryDestination(w, s.d.to, s.d.idx, i)),
            [d |-> To(to, idx, None), end |-> FALSE], Cardinality(Bag) + 2).d

\* internalMoveItem, from the check of the amount on.
Transferred(w, d, i, m) ==
    IF Stacks(i) THEN Arrived(ItemRemoved(w, i, m), d, i, m)
    ELSE Added(ItemRemoved(w, i, m), d.to, d.idx, i)

MovedAtMost(w, d, i, n, most) ==
    IF most = 0 THEN w
    ELSE Notified(Notified(Transferred(w, d, i, IF Stacks(i) THEN Min({n, most}) ELSE 1),
                           w.par[i]), d.to)

MovedTo(w, d, i, n) == MovedAtMost(w, d, i, n, QueryMaxCount(w, d.to, d.idx, i, n))

\* The item worn goes to where the other comes from.
Swapped(w, d, i) ==
    Added([Withdrawn(w, d.item) EXCEPT !.cnt[d.item] = w.cnt[d.item]], w.par[i], 0, d.item)

Exchanged(w, d, i) == Notified(Notified(Swapped(w, d, i), d.to), w.par[i])

PlaceIn(w, c, i) ==
    IF c = Me THEN SlotHolding(w, i) ELSE SelectInSeq(w.list[c], LAMBDA x : x = i) - 1

MayExchange(w, from, i, j) ==
    /\ QueryAdd(w, from, PlaceIn(w, from, i), j, w.cnt[j]) = "ok"
    /\ QueryMaxCount(w, from, Where, j, w.cnt[j]) > 0

\* Game::internalMoveItem, from a world in which the item is somewhere;
\* after an exchange it is asked again for the place that is free now.
AfterExchange(w, d, i, n) ==
    IF QueryAdd(w, d.to, d.idx, i, n) = "ok" THEN MovedTo(w, [d EXCEPT !.item = None], i, n) ELSE w

MovedIf(ask, w, d, i, n) ==
    IF ask = "ok" THEN MovedTo(w, d, i, n)
    ELSE IF ask = "exchange" /\ MayExchange(w, w.par[i], i, d.item)
    THEN AfterExchange(Exchanged(w, d, i), d, i, n)
    ELSE w

MovedTowards(w, d, i, n) ==
    IF d.item = i THEN w ELSE MovedIf(QueryAdd(w, d.to, d.idx, i, n), w, d, i, n)

ItemMoved(w, i, to, idx, n) == MovedTowards(w, Destination(w, to, idx, i), i, n)

\* One call of Game::internalAddItem of an item that is nowhere: n of it
\* are to be added, rest of them are left to a call of their own.
AddedOnto(w, d, i, n, k) ==
    IF k = 0 THEN [w |-> Notified(Added(w, d.to, d.idx, i), d.to), rest |-> 0, ok |-> TRUE]
    ELSE [w |-> Notified(Updated([w EXCEPT !.cnt[i] = 0], d.item, w.cnt[d.item] + k), d.to),
          rest |-> n - k, ok |-> TRUE]

AddedTo(w, c, d, i, n) ==
    IF QueryAdd(w, d.to, d.idx, i, n) = "ok" /\ QueryMaxCount(w, c, Where, i, n) >= n
    THEN AddedOnto(w, d, i, n, IF Stacks(i) THEN Merged(w, i, d.item, n) ELSE 0)
    ELSE [w |-> [w EXCEPT !.cnt[i] = 0], rest |-> n, ok |-> FALSE]

AddWhole(w, c, i, n) == AddedTo(w, c, QueryDestination(w, c, Where, i), i, n)
AddCall(w, c, i, n) == AddWhole([w EXCEPT !.cnt[i] = n], c, i, n)

\* internalAddItem with its calls for the remainder; told is false when the
\* caller is not told of a rest that had no place, since only the first
\* call has a caller that asks for it.
AddOutcome(first, last) ==
    [w |-> last.w, rest |-> last.rest, all |-> ~first.ok,
     told |-> last.rest = 0 \/ last.rest = first.rest]

AddAll(first, c, i) ==
    AddOutcome(first,
        Iterate(LAMBDA s : IF s.rest = 0 \/ ~s.ok THEN s ELSE AddCall(s.w, c, i, s.rest),
                first, Cardinality(Free(first.w, i)) + 1))

AddedItem(w, c, i, n) == AddAll(AddCall(w, c, i, n), c, i)

\* Game::internalPlayerAddItem: what has no place lies on the floor.
Dropped(a, i, drop) ==
    IF a.rest = 0 \/ (a.all /\ ~drop) \/ ~a.told THEN a
    ELSE [AddedItem(a.w, Floor, CHOOSE j \in Free(a.w, i) : TRUE, a.rest) EXCEPT !.all = FALSE]

Handed(w, i, n, drop) == Dropped(AddedItem(w, Me, i, n), i, drop)

\* Game::internalRemoveItem: what a container holds is gone with it.
Emptied(w, lost) ==
    [w EXCEPT !.par = [j \in Item |-> IF j \in lost THEN None ELSE w.par[j]],
              !.cnt = [j \in Item |-> IF j \in lost /\ Stacks(j) THEN 0 ELSE w.cnt[j]],
              !.list = [c \in Bag \cup {Floor} |-> IF c \in lost THEN <<>> ELSE w.list[c]],
              !.tw = [b \in Bag |-> IF b \in lost THEN 0 ELSE w.tw[b]]]

Gone(w, i, n) ==
    Notified(Emptied(ItemRemoved(w, i, n), IF Stacks(i) THEN {} ELSE {i} \cup Inside(w, i)), w.par[i])

-----------------------------------------------------------------------------
(* Money.                                                                  *)

Worth(w, i) == Type[KindOf[i]].worth * w.cnt[i]
Coins(w) == {i \in Inside(w, Me) : Stacks(i) /\ Worth(w, i) > 0}
Currency == SetToSortSeq({k \in Stackable : Type[k].worth > 0},
                         LAMBDA k, l : Type[k].worth > Type[l].worth)

\* Game::addMoney, in coins as dear as can be; a rest is not asked for.
OrOnFloor(a, i, n) == IF a.all THEN AddedItem(a.w, Floor, i, n).w ELSE a.w

PaidIn(s, k, i, n) ==
    IF n = 0 THEN s
    ELSE [w |-> OrOnFloor(AddedItem(s.w, Me, i, n), i, n),
          left |-> s.left - n * Type[k].worth]

Paid(w, money) ==
    FoldLeft(LAMBDA s, k : PaidIn(s, k, CHOOSE j \in Item : KindOf[j] = k /\ s.w.par[j] = None,
                                  s.left \div Type[k].worth),
             [w |-> w, left |-> money], Currency).w

\* The coin that is changed is taken before the change is given.
Taken(w, i, left, n) == Gone(Paid(w, Type[KindOf[i]].worth * n - left), i, n)

ChargedOn(s, i) ==
    IF s.left = 0 THEN s
    ELSE IF Worth(s.w, i) <= s.left
    THEN [w |-> Gone(s.w, i, s.w.cnt[i]), left |-> s.left - Worth(s.w, i)]
    ELSE [w |-> Taken(s.w, i, s.left, (s.left + Type[KindOf[i]].worth - 1) \div Type[KindOf[i]].worth),
          left |-> 0]

\* Game::removeMoney, the cheapest stacks first.
Charged(w, money) ==
    FoldLeft(ChargedOn, [w |-> w, left |-> money],
             SetToSortSeq(Coins(w), LAMBDA i, j : Worth(w, i) < Worth(w, j))).w

-----------------------------------------------------------------------------
(* Handlers.                                                               *)

PlacedItems(w) == {i \in Item \ {Chest} : w.par[i] # None}
GoodOf(i) == Type[KindOf[i]].good
Unit(k) == IF Type[k].worth > 0 THEN Type[k].worth ELSE 1
SumOf(w, g, S) ==
    MapThenSumSet(LAMBDA i : IF Stacks(i) THEN Unit(KindOf[i]) * w.cnt[i] ELSE 1,
                  {i \in S : GoodOf(i) = g})

\* checkTradeState: the trade ends when something on offer changes.
Touches(w) ==
    /\ offered # None
    /\ \E i \in {offered} \cup Inside(Things, offered) \cup Inside(w, offered) :
          w.par[i] # parent[i] \/ w.cnt[i] # amount[i]

ItemsBecome(w) ==
    /\ inventory' = w.slot /\ itemlist' = w.list
    /\ parent' = w.par /\ amount' = w.cnt
    /\ totalWeight' = w.tw /\ inventoryWeight' = w.iw
    /\ offered' = IF Touches(w) THEN None ELSE offered
    /\ UNCHANGED <<classic, comes>>

BagsAbout == {b \in Bag : b = Chest \/ parent[b] # None}

\* What the client may point at; one place behind the last item stands for
\* all of them.
Indexes(c) ==
    IF c = Me THEN Slot \cup {Where}
    ELSE IF c = Floor THEN {Where} ELSE (0 .. Min({Len(itemlist[c]), Capacity[c] - 1})) \cup {Up, AnySlot}

\* Game::playerMoveItem, of something within reach.  A part of a stack is a
\* new object.
MoveItem(i, to, idx, n) ==
    /\ n = amount[i] \/ ~Stacks(i) \/ Free(Things, i) # {}
    /\ \E w \in {ItemMoved(Things, i, to, idx, n)} : ItemsBecome(w)
    /\ UNCHANGED due

\* Game::playerEquipItem: takes off what is worn, or puts on the first of
\* the kind that is in the backpack (searchForItem).
EquipItem(k, s) ==
    LET worn == inventory[s]
        pack == inventory["back"]
        there == {i \in Inside(Things, pack) : KindOf[i] = k}
    IN  /\ pack \in Bag
        /\ IF worn # None /\ KindOf[worn] = k
              /\ (k \notin Stackable \/ Full(Things, worn) \/ there = {})
           THEN \E w \in {ItemMoved(Things, worn, Me, Where, amount[worn])} : ItemsBecome(w)
           ELSE \E i \in there : \E w \in {ItemMoved(Things, i, Me, s, amount[i])} : ItemsBecome(w)
        /\ UNCHANGED due

\* A new object of kind k; the goods do not get more than the bound.
New(k) == CHOOSE i \in Item : KindOf[i] = k /\ parent[i] = None
MayCome(k, n) ==
    /\ \E i \in Item : KindOf[i] = k /\ parent[i] = None
    /\ due[Type[k].good] + n * Unit(k) <= MaxGoods

\* A script, a shop or the market gives the player something new.
GiveItem(k, n, drop) ==
    /\ MayCome(k, n)
    /\ \E a \in {Handed(Things, New(k), n, drop)} :
         /\ ItemsBecome(a.w)
         /\ due' = IF a.all THEN due ELSE [due EXCEPT ![Type[k].good] = @ + n * Unit(k)]

\* Something new comes into a container, all of it or nothing.
FillBag(b, k, n) ==
    /\ MayCome(k, n)
    /\ \E a \in {AddedItem(Things, b, New(k), n)} :
         /\ ItemsBecome(a.w)
         /\ due' = IF a.all THEN due ELSE [due EXCEPT ![Type[k].good] = @ + n * Unit(k)]

\* Something is used up, sold or removed, with what it holds.
RemoveItem(i, n) ==
    /\ \E w \in {Gone(Things, i, n)} : ItemsBecome(w)
    /\ \E lost \in {{i} \cup Inside(Things, i)} :
         due' = [g \in Good |->
                   due[g] - (IF ~Stacks(i) THEN SumOf(Things, g, lost)
                             ELSE IF g = GoodOf(i) THEN n * Unit(KindOf[i]) ELSE 0)]

\* The player pays (Game::removeMoney), if he has as much.
RemoveMoney(money) ==
    /\ MapThenSumSet(LAMBDA i : Worth(Things, i), Coins(Things)) >= money
    /\ \A k \in Stackable : Type[k].worth > 0 =>
         \E i \in Item : KindOf[i] = k /\ parent[i] = None
    /\ \E w \in {Charged(Things, money)} : ItemsBecome(w)
    /\ due' = [due EXCEPT !["money"] = @ - money]

\* The player offers a container (Game::playerRequestTrade).
OfferBag(b) ==
    /\ offered = None /\ b \in TradeBag /\ Me \in Above(Things, parent[b])
    /\ offered' = b
    /\ UNCHANGED <<inventory, itemlist, parent, amount, totalWeight, inventoryWeight,
                   classic, comes, due>>

ItemsFrom(s) ==
    LET par == [i \in Item |->
                 IF i \in {s.slot[t] : t \in Slot} THEN Me
                 ELSE IF \E c \in Bag \cup {Floor} : i \in ToSet(s.list[c])
                 THEN CHOOSE c \in Bag \cup {Floor} : i \in ToSet(s.list[c]) ELSE None]
        w == [slot |-> s.slot, list |-> s.list, par |-> par, cnt |-> s.cnt,
              tw |-> [b \in Bag |-> 0], iw |-> 0]
        tw == [b \in Bag |-> MapThenSumSet(LAMBDA i : OwnWeight(w, i), Inside(w, b))]
    IN  /\ inventory = s.slot /\ itemlist = s.list /\ parent = par /\ amount = s.cnt
        /\ totalWeight = tw
        /\ inventoryWeight = Notified([w EXCEPT !.tw = tw], Me).iw
        /\ due = [g \in Good |-> SumOf(w, g, PlacedItems(w))]
        /\ classic = s.classic /\ offered = None /\ comes = s.comes

ItemsInit == \E s \in Starts : ItemsFrom(s)

ItemsNext ==
    \/ \E i \in PlacedItems(Things), to \in {Me, Floor} \cup BagsAbout : \E idx \in Indexes(to) :
          \E n \in 1 .. Max({1, amount[i]}) : MoveItem(i, to, idx, n)
    \/ \E k \in DOMAIN Type, s \in Slot : s \in Type[k].worn /\ EquipItem(k, s)
    \/ \E k \in comes : \E n \in IF k \in Stackable THEN 1 .. StackMax ELSE {1} :
          \/ \E drop \in BOOLEAN : GiveItem(k, n, drop)
          \/ \E b \in BagsAbout : FillBag(b, k, n)
    \/ \E i \in PlacedItems(Things) : \E n \in 1 .. Max({1, amount[i]}) : RemoveItem(i, n)
    \/ \E money \in 1 .. MaxGoods : RemoveMoney(money)
    \/ \E b \in Bag : OfferBag(b)

ItemsSpec == ItemsInit /\ [][ItemsNext]_itemVars

-----------------------------------------------------------------------------
(* Properties.                                                             *)

\* An item is in one place and knows it, no container is in itself, however
\* it was moved, merged, split or exchanged, and a weapon for two hands is
\* alone in them.
PlacesAgree ==
    /\ Worn(Things) = {i \in Item : parent[i] = Me}
    /\ \A s, t \in Slot : inventory[s] = inventory[t] => s = t \/ inventory[s] = None
    /\ \A c \in Bag \cup {Floor} :
         IsInjective(itemlist[c]) /\ ToSet(itemlist[c]) = {i \in Item : parent[i] = c}
    /\ \A b \in Bag \ {Chest} : b \notin Above(Things, parent[b])
    /\ \A i \in Item : Stacks(i) => (amount[i] = 0 <=> parent[i] = None)
    /\ \A s, t \in Slot \cap {"left", "right"} :
         /\ s # t /\ inventory[s] # None /\ Type[KindOf[inventory[s]]].twoHand
         => inventory[t] = None

\* The weights that are kept are those of what is there, through every
\* change at any depth; the player never carries more than he can, and the
\* depot never holds more than it may.
BurdenAgrees ==
    /\ \A b \in Bag : totalWeight[b] =
         MapThenSumSet(LAMBDA i : OwnWeight(Things, i), Inside(Things, b))
    /\ inventoryWeight = MapThenSumSet(LAMBDA i : OwnWeight(Things, i), Inside(Things, Me))
    /\ inventoryWeight <= MaxWeight
    /\ Cardinality(Inside(Things, Chest)) <= MaxDepotItems

\* Nothing is lost and nothing doubled: what is there, money by its worth,
\* is what callers were told of, after moves that were possible in part,
\* rests that were dropped, and change that was given.
GoodsAsReported ==
    \E S \in {PlacedItems(Things)} : \A g \in Good : SumOf(Things, g, S) = due[g]

\* At once: an item is where it says, and weighs there what is counted, and all
\* of them together are what callers were told of.
CarriedAgrees == PlacesAgree /\ BurdenAgrees /\ GoodsAsReported

=============================================================================
