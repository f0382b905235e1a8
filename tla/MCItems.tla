------------------------------ MODULE MCItems ------------------------------
(* Values of the constants of Items. *)
EXTENDS Items

CONSTANTS bag, pouch, chest, a1, a2, a3, b1, b2, g1, g2, g3, pl1, pl2, sword, shield, dagger

MCItem == {bag, pouch, chest, a1, a2, a3, b1, b2, g1, g2, g3, pl1, pl2, sword, shield, dagger}
MCBag == {bag, pouch, chest}
MCStackable == {"arrow", "bolt", "gold", "platinum"}
MCSlotOrder == <<"back", "right", "left", "ammo">>

MCKindOf ==
    [i \in MCItem |->
       CASE i \in {bag, pouch} -> "bag" [] i = chest -> "depot"
         [] i \in {a1, a2, a3} -> "arrow" [] i \in {b1, b2} -> "bolt"
         [] i \in {g1, g2, g3} -> "gold" [] i \in {pl1, pl2} -> "platinum"
         [] i = sword -> "sword" [] i = shield -> "shield" [] OTHER -> "dagger"]

MCHands == {"left", "right"}
MCTypeOf(worn, weapon, twoHand, weight, worth, good) ==
    [worn |-> worn, weapon |-> weapon, twoHand |-> twoHand, weight |-> weight,
     worth |-> worth, good |-> good]

MCType == [
    bag |-> MCTypeOf({"back"}, "none", FALSE, 1, 0, "bag"),
    depot |-> MCTypeOf({}, "none", FALSE, 9, 0, "depot"),
    arrow |-> MCTypeOf({"ammo"}, "ammo", FALSE, 1, 0, "arrow"),
    bolt |-> MCTypeOf({"ammo"}, "ammo", FALSE, 1, 0, "bolt"),
    gold |-> MCTypeOf(MCHands, "none", FALSE, 1, 1, "money"),
    platinum |-> MCTypeOf(MCHands, "none", FALSE, 1, 3, "money"),
    sword |-> MCTypeOf(MCHands, "sword", TRUE, 2, 0, "sword"),
    shield |-> MCTypeOf(MCHands, "shield", FALSE, 2, 0, "shield"),
    dagger |-> MCTypeOf(MCHands, "sword", FALSE, 1, 0, "dagger")]

MCCapacity == [b \in MCBag |-> IF b = pouch THEN 1 ELSE 2]

MCNothing == [back |-> bag, right |-> None, left |-> None, ammo |-> None]
MCStart(slots, inBag, onFloor, inChest, cnt, hands, kinds) ==
    [slot |-> slots,
     list |-> [c \in MCBag \cup {Floor} |->
                 CASE c = bag -> inBag [] c = Floor -> onFloor
                   [] c = chest -> inChest [] OTHER -> <<>>],
     cnt |-> [i \in MCItem |-> IF i \in DOMAIN cnt THEN cnt[i]
                               ELSE IF MCKindOf[i] \in MCStackable THEN 0 ELSE 1],
     classic |-> hands, comes |-> kinds]

\* Arrows that come, merge and split; arrows and a bolt that change places;
\* weapons, shields and the depot, with and without classic slots; money.
MCStarts == {
    MCStart([MCNothing EXCEPT !.ammo = a1], <<a2>>, <<>>, <<>>,
            (a1 :> 2) @@ (a2 :> 1), FALSE, {"arrow"}),
    MCStart([MCNothing EXCEPT !.ammo = a1], <<pouch>>, <<>>, <<>>, (a1 :> 2), FALSE, {}),
    MCStart([MCNothing EXCEPT !.ammo = a1], <<b1>>, <<>>, <<>>,
            (a1 :> 2) @@ (b1 :> 1), FALSE, {}),
    MCStart(MCNothing, <<dagger>>, <<sword>>, <<shield>>, << >>, FALSE, {"dagger"}),
    MCStart(MCNothing, <<dagger>>, <<sword>>, <<shield>>, << >>, TRUE, {}),
    MCStart(MCNothing, <<pl1, g1>>, <<>>, <<>>, (pl1 :> 1) @@ (g1 :> 2), FALSE, {"gold", "platinum"})}
MCBackpack == {bag}

=============================================================================
