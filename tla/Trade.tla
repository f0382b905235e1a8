------------------------------- MODULE Trade -------------------------------
(***************************************************************************)
(* Trading between players (src/src/game.cpp, src/src/player.cpp): the     *)
(* states of the traders, the register of items in trade, and the checks   *)
(* that end a trade when an item or a trader moves.  An item lies with a   *)
(* player, on the floor, or in a bag; players stand on a line, so that the *)
(* ranges of the checks matter.                                            *)
(***************************************************************************)
EXTENDS Integers, FiniteSets, NoValue

CONSTANTS
    Trader, Item,
    Bag,            (* the items that are containers                     *)
    Place,          (* the places a player may stand on, integers        *)
    FloorAt,        (* the place of the items on the floor               *)
    Floor

ASSUME TradeAssumption ==
    /\ Bag \subseteq Item
    /\ Place \subseteq Int /\ FloorAt \in Place
    /\ Trader \cap Item = {}
    /\ {Floor, None} \cap (Trader \cup Item) = {} /\ Floor # None

VARIABLES
    place,          (* where each player stands                          *)
    parent,         (* what each item lies in                            *)
    tradeState, tradePartner, tradeItem,
    tradeItems,     (* the register: who offers an item, or None         *)
    itemRefs,           (* references trades hold to an item                 *)
    offered         (* history: the contents of the item when offered    *)

tradeVars == <<place, parent, tradeState, tradePartner, tradeItem, tradeItems, itemRefs, offered>>

TradeTypeOK ==
    /\ place \in [Trader -> Place]
    /\ parent \in [Item -> Trader \cup Bag \cup {Floor}]
    /\ tradeState \in [Trader -> {"none", "initiated", "accept", "acknowledge"}]
    /\ tradePartner \in [Trader -> Trader \cup {None}]
    /\ tradeItem \in [Trader -> Item \cup {None}]
    /\ tradeItems \in [Item -> Trader \cup {None}]
    /\ itemRefs \in [Item -> 0 .. 1]
    /\ offered \in [Trader -> SUBSET Item]

-----------------------------------------------------------------------------
(* Where things are.                                                       *)

\* The bags around item i when things lie as in at: what is in every set of
\* bags that holds what i lies in and, with a bag, what that lies in.
AncestorsIn(at, i) ==
    {b \in Bag : \A S \in SUBSET Bag :
                   (\A x \in S \cup {i} : at[x] \in Bag => at[x] \in S) => b \in S}

Ancestors(i) == AncestorsIn(parent, i)
HoldsItem(b, i) == b \in Ancestors(i)                 \* Container::isHoldingItem
Contents(b) == {i \in Item : HoldsItem(b, i)}

\* The player who carries an item, or Floor.
TopIn(at, i) == CHOOSE o \in Trader \cup {Floor} : o \in {at[x] : x \in AncestorsIn(at, i) \cup {i}}

Distance(a, b) == IF a < b THEN b - a ELSE a - b
ItemPlace(at, i) == LET o == TopIn(at, i) IN IF o = Floor THEN FloorAt ELSE place[o]

TradeInit ==
    /\ place \in [Trader -> Place]
    /\ parent \in {at \in [Item -> Trader \cup Bag \cup {Floor}] : \A i \in Item : i \notin AncestorsIn(at, i)}
    /\ tradeState = [p \in Trader |-> "none"]
    /\ tradePartner = [p \in Trader |-> None]
    /\ tradeItem = [p \in Trader |-> None]
    /\ tradeItems = [i \in Item |-> None]
    /\ itemRefs = [i \in Item |-> 0]
    /\ offered = [p \in Trader |-> {}]

-----------------------------------------------------------------------------
(* Starting and ending a trade.  The mutants of this module are named for  *)
(* what they get wrong and stand before the definition they change.        *)

\* An item in trade is the item, in it, or around it.
Overlaps(i) ==
    \E t \in Item : tradeItems[t] # None /\ (t = i \/ HoldsItem(i, t) \/ HoldsItem(t, i))

\* internalStartTrade: neither trades with anybody else.
MayStart(p, q) ==
    /\ tradeState[p] = "none" \/ (tradeState[p] = "acknowledge" /\ tradePartner[p] = q)
    /\ tradeState[q] = "none" \/ tradePartner[q] = p

\* playerRequestTrade of an item within reach, to a player within range.
RequestTrade(p, q, i) ==
    /\ p # q
    /\ Distance(place[p], place[q]) <= 2
    /\ TopIn(parent, i) \in {p, Floor}
    /\ Distance(ItemPlace(parent, i), place[p]) <= 1
    /\ ~Overlaps(i)
    /\ MayStart(p, q)
    /\ tradePartner' = [tradePartner EXCEPT ![p] = q,
                            ![q] = IF tradeState[q] = "none" THEN p ELSE @]
    /\ tradeState' = [tradeState EXCEPT ![p] = "initiated",
                          ![q] = IF @ = "none" THEN "acknowledge" ELSE @]
    /\ tradeItem' = [tradeItem EXCEPT ![p] = i]
    /\ tradeItems' = [tradeItems EXCEPT ![i] = p]
    /\ itemRefs' = [itemRefs EXCEPT ![i] = @ + 1]
    /\ offered' = [offered EXCEPT ![p] = Contents(i)]
    /\ UNCHANGED <<place, parent>>

\* internalCloseTrade by the players of P: for each, both sides are reset
\* and their items taken out of the register and released.
EndTrades(P) ==
    LET both == P \cup {tradePartner[p] : p \in P}
        gone == {tradeItem[p] : p \in both \cap Trader}
    IN  /\ tradeState' = [p \in Trader |-> IF p \in both THEN "none" ELSE tradeState[p]]
        /\ tradePartner' = [p \in Trader |-> IF p \in both THEN None ELSE tradePartner[p]]
        /\ tradeItem' = [p \in Trader |-> IF p \in both THEN None ELSE tradeItem[p]]
        /\ tradeItems' = [i \in Item |-> IF i \in gone THEN None ELSE tradeItems[i]]
        /\ itemRefs' = [i \in Item |-> IF i \in gone /\ tradeItems[i] # None THEN itemRefs[i] - 1 ELSE itemRefs[i]]
        /\ offered' = [p \in Trader |-> IF p \in both THEN {} ELSE offered[p]]

\* playerCloseTrade, and onRemoveCreature of a player who trades.
CloseTrade(p) ==
    /\ tradeState[p] # "none"
    /\ EndTrades({p})
    /\ UNCHANGED <<place, parent>>

-----------------------------------------------------------------------------
(* Moving things.                                                          *)

\* Items put into a bag are not noticed.
NoticedRemoval(q, i) ==
    LET from == parent[i]
        t == tradeItem[q]
    IN  /\ t # None
        /\ \/ /\ from \in {Floor, q}
              /\ t = i \/ HoldsItem(i, t)
           \/ /\ from \in Bag
              /\ Distance(ItemPlace(parent, from), place[q]) <= 1
              /\ t = i \/ HoldsItem(t, i) \/ (parent[t] # from /\ HoldsItem(from, t))

\* The checks that end the trade of q when item i moves to a place, moved
\* being where everything is then: the removal from the floor is seen by
\* all, that from an inventory by its player, that from a bag by the players
\* next to it, and so is the addition to a bag.
Noticed(q, i, moved) ==
    LET from == parent[i]
        to == moved[i]
        t == tradeItem[q]
    IN  /\ t # None
        /\ \/ /\ from \in {Floor, q}
              /\ t = i \/ HoldsItem(i, t)
           \/ /\ from \in Bag
              /\ Distance(ItemPlace(parent, from), place[q]) <= 1
              /\ t = i \/ HoldsItem(t, i) \/ (parent[t] # from /\ HoldsItem(from, t))
           \/ /\ to \in Bag
              /\ Distance(ItemPlace(moved, to), place[q]) <= 1
              /\ t = i \/ t \in AncestorsIn(moved, i)

Closing(i, moved) == {q \in Trader : Noticed(q, i, moved)}

\* A player moves an item it can reach.
MoveItem(p, i, to) ==
    /\ TopIn(parent, i) \in {p, Floor}
    /\ Distance(ItemPlace(parent, i), place[p]) <= 1
    /\ to # parent[i] /\ to # i
    /\ to \in Bag => /\ ~HoldsItem(i, to)
                     /\ TopIn(parent, to) \in {p, Floor}
    /\ LET moved == [parent EXCEPT ![i] = to]
       IN  parent' = moved /\ EndTrades(Closing(i, moved))
    /\ UNCHANGED place

\* onCreatureMove: the item on offer or the partner is out of range.
OutOfRange(p, at) ==
    \/ /\ tradeItem[p] # None
       /\ TopIn(parent, tradeItem[p]) = Floor
       /\ Distance(FloorAt, at) > 1
    \/ /\ tradePartner[p] # None
       /\ Distance(place[tradePartner[p]], at) > 2

Walk(p, at) ==
    /\ at # place[p]
    /\ place' = [place EXCEPT ![p] = at]
    /\ EndTrades(IF OutOfRange(p, at) THEN {p} ELSE {})
    /\ UNCHANGED parent

-----------------------------------------------------------------------------
(* playerAcceptTrade.                                                      *)

\* The first of the two to accept.
AcceptFirst(p) ==
    /\ tradeState[p] \in {"acknowledge", "initiated"}
    /\ tradeState[tradePartner[p]] # "accept"
    /\ tradeState' = [tradeState EXCEPT ![p] = "accept"]
    /\ UNCHANGED <<place, parent, tradePartner, tradeItem, tradeItems, itemRefs, offered>>

AcceptSecond(p) ==
    /\ tradeState[p] \in {"acknowledge", "initiated"}
    /\ tradeState[tradePartner[p]] = "accept"

\* The way is blocked, a script refuses, or one of the two cannot take the
\* item of the other or gives none: nothing moves and the trade is over.
TradeFails(p) ==
    /\ AcceptSecond(p)
    /\ EndTrades({p})
    /\ UNCHANGED <<place, parent>>

\* Where an item can go at player q: its inventory or a bag it carries that
\* is not the item itself.
RoomFor(at, q, i) == {q} \cup {b \in Bag : TopIn(at, b) = q /\ b # i /\ i \notin AncestorsIn(at, b)}

\* Mutant: the item of p may be put into the one it is exchanged for.
TradeSucceedsAnyBag(p) ==
    LET q == tradePartner[p]
        mine == tradeItem[p]
        theirs == tradeItem[q]
    IN  /\ AcceptSecond(p)
        /\ mine # None /\ theirs # None
        /\ \E to \in RoomFor(parent, q, mine) :
             LET given == [parent EXCEPT ![mine] = to]
             IN  \E back \in RoomFor(given, p, theirs) :
                   /\ parent' = [given EXCEPT ![theirs] = back]
                   /\ EndTrades({p} \cup Closing(mine, given))
        /\ UNCHANGED place

\* The item of p goes to q, but not into the item q gives, and then that of
\* q to p.  Players next to the bags they come from or go to notice it, but
\* not the two, who are in transfer.
TradeSucceeds(p) ==
    LET q == tradePartner[p]
        mine == tradeItem[p]
        theirs == tradeItem[q]
    IN  /\ AcceptSecond(p)
        /\ mine # None /\ theirs # None
        /\ \E to \in RoomFor(parent, q, mine) :
             LET given == [parent EXCEPT ![mine] = to]
             IN  /\ theirs \notin AncestorsIn(given, mine)
                 /\ \E back \in RoomFor(given, p, theirs) :
                      /\ parent' = [given EXCEPT ![theirs] = back]
                      /\ EndTrades({p} \cup Closing(mine, given) \cup Closing(theirs, parent'))
        /\ UNCHANGED place

AcceptTrade(p) == AcceptFirst(p) \/ TradeFails(p) \/ TradeSucceeds(p)

TradeNext ==
    \E p \in Trader :
        \/ \E q \in Trader, i \in Item : RequestTrade(p, q, i)
        \/ CloseTrade(p) \/ AcceptTrade(p)
        \/ \E i \in Item, to \in Bag \cup {p, Floor} : MoveItem(p, i, to)
        \/ \E at \in Place : Walk(p, at)

TradeSpec == TradeInit /\ [][TradeNext]_tradeVars

-----------------------------------------------------------------------------
(* Properties.                                                             *)

\* Trades are between two players who both know of it: nobody waits for a
\* partner who trades with somebody else, and an item is on offer exactly
\* when its side has made one.  The register holds exactly the items on
\* offer, each referred to once: a trade neither leaks nor deletes an item,
\* however it ends.
OffersPaired ==
    /\ \A p, q \in Trader : tradePartner[p] = q <=> tradePartner[q] = p
    /\ \A p \in Trader :
         /\ tradeState[p] = "none" <=> tradePartner[p] = None
         /\ tradeItem[p] # None => tradeState[p] \in {"initiated", "accept"}
         /\ tradeState[p] = "acknowledge" => tradeItem[tradePartner[p]] # None
    /\ \A i \in Item :
         /\ itemRefs[i] = IF tradeItems[i] # None THEN 1 ELSE 0
         /\ \A p \in Trader : tradeItems[i] = p <=> tradeItem[p] = i

\* What is exchanged is what was offered: while the trade lasts nothing is
\* put into the item or taken out, by anybody, it stays within reach of the
\* player who offers it, and it is not on offer inside another.
OfferUnchanged ==
    /\ \A t, u \in {i \in Item : tradeItems[i] # None} : ~HoldsItem(t, u)
    /\ \A p \in Trader : tradeItem[p] # None =>
         /\ Contents(tradeItem[p]) = offered[p]
         /\ TopIn(parent, tradeItem[p]) \in {p, Floor}
         /\ Distance(ItemPlace(parent, tradeItem[p]), place[p]) <= 1

\* A trade is carried out for both sides, with both items, or for none.
ExchangeWhole ==
    [][ \A p, q \in Trader :
          /\ tradePartner[p] = q /\ TradeSucceeds(p)
          => /\ TopIn(parent', tradeItem[p]) = q
             /\ TopIn(parent', tradeItem[q]) = p ]_tradeVars

\* At once: whatever crosses it (Game::playerRequestTrade, moves of items, walks),
\* a trade of two is over or still the one they agreed on, and is carried out whole.
TradesHold == [](OffersPaired /\ OfferUnchanged) /\ ExchangeWhole

=============================================================================
