--------------------------- MODULE MCBelongings ---------------------------
(***************************************************************************)
(* What players own and are shown of it: the items they carry and move,    *)
(* what is stored of them, their houses, the tiles, containers and shops   *)
(* that their clients show.  The six share no state: one of them moves in  *)
(* a behaviour.                                                            *)
(***************************************************************************)
EXTENDS MCItems, MCPersistence, Houses, Tiles, Windows, Shops, TLC

-----------------------------------------------------------------------------
(* Values of the constants.                                                *)

\* Houses: Two players, a house with a double bed and a cot.
CONSTANTS ines, jack, head, foot, cot

MCResident == {ines, jack}
MCBed == {head, foot, cot}
MCPartner == [b \in MCBed |-> IF b = head THEN foot ELSE IF b = foot THEN head ELSE None]

\* Tiles: Two tiles, two creatures, a sign, two splashes and two
\* fields; three things of a tile are shown.
CONSTANTS west, east, rat, spider, sign, pool, blood, fire, energy

MCSquare == {west, east}
MCBeing == {rat, spider}
MCFlat == {sign, pool, blood}
MCSplash == {pool, blood}
MCTopOrder == (sign :> 2) @@ (pool :> 1) @@ (blood :> 1)
MCLoose == {fire, energy}
MCField == {fire, energy}
MCLasting == {energy}

\* Windows: Two coins and a box, two windows, pages of two.
CONSTANTS gold, silver

MCCoin == {gold, silver}

\* Shops: A customer with a coin and cheese in a basket, a baker who buys cheese
\* and a smith who buys nothing.
CONSTANTS carl, baker, smith, cent, cheese, basket

MCWanted == [m \in Merchant |-> IF m = baker THEN {cheese} ELSE {}]

-----------------------------------------------------------------------------
VARIABLE moving

shownVars == <<tileVars, winVars, shopVars>>

\* Nothing is anywhere while the items rest.
ItemsRest ==
    ItemsFrom([slot |-> [s \in Slot |-> None], list |-> [c \in Bag \cup {Floor} |-> <<>>],
               cnt |-> [i \in Item |-> 0], classic |-> FALSE, comes |-> {}])
StoreRests == PersistenceFrom(CHOOSE g \in FirstGoods : TRUE)

Init ==
    /\ HousesInit /\ TilesInit /\ WindowsInit /\ ShopsInit
    /\ \/ moving = "items" /\ ItemsInit /\ StoreRests
       \/ moving = "persistence" /\ ItemsRest /\ PersistenceInit
       \/ moving \in {"houses", "tiles", "windows", "shops"} /\ ItemsRest /\ StoreRests

ItemsMove ==
    /\ moving = "items" /\ ItemsNext
    /\ UNCHANGED <<moving, storeVars, houseVars, shownVars>>

PersistenceMoves ==
    /\ moving = "persistence" /\ PersistenceNext
    /\ UNCHANGED <<moving, itemVars, houseVars, shownVars>>

HousesMove ==
    /\ moving = "houses" /\ HousesNext
    /\ UNCHANGED <<moving, itemVars, storeVars, shownVars>>

TilesMove ==
    /\ moving = "tiles" /\ TilesNext
    /\ UNCHANGED <<moving, itemVars, storeVars, houseVars, winVars, shopVars>>

WindowsMove ==
    /\ moving = "windows" /\ WindowsNext
    /\ UNCHANGED <<moving, itemVars, storeVars, houseVars, tileVars, shopVars>>

ShopsMove ==
    /\ moving = "shops" /\ ShopsNext
    /\ UNCHANGED <<moving, itemVars, storeVars, houseVars, tileVars, winVars>>

Next ==
    \/ ItemsMove \/ PersistenceMoves \/ HousesMove
    \/ TilesMove \/ WindowsMove \/ ShopsMove

Spec == Init /\ [][Next]_<<moving, itemVars, storeVars, houseVars, shownVars>>

-----------------------------------------------------------------------------
\* The variables of the component that moves keep their types.
BelongingsTypeOK ==
    /\ moving = "items" => ItemsTypeOK
    /\ moving = "persistence" => PersistenceTypeOK
    /\ moving = "houses" => HousesTypeOK
    /\ moving = "tiles" => TilesTypeOK
    /\ moving = "windows" => WindowsTypeOK
    /\ moving = "shops" => ShopsTypeOK


=============================================================================
