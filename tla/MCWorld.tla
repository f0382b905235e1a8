------------------------------ MODULE MCWorld ------------------------------
(***************************************************************************)
(* What lives in the world, what decays in it and what changes hands:      *)
(* creatures with their targets, summons and deaths, items in the lists of *)
(* checkDecay, and trades.  The three share no state: one of them moves in *)
(* a behaviour.                                                            *)
(***************************************************************************)
EXTENDS Creatures, MCDecay, Trade, TLC

-----------------------------------------------------------------------------
(* Values of the constants.                                                *)

\* Trade: Three players on four places, two bags and a thing to put into them.
CONSTANTS ann, bob, cid, bag, pouch, gem

MCTrader == {ann, bob, cid}
MCItem == {bag, pouch, gem}
MCBag == {bag, pouch}
MCPlace == 0 .. 3
MCFloorAt == 1

TradeSymmetry == Permutations(MCTrader)

-----------------------------------------------------------------------------
VARIABLE moving

worldVars == <<moving, creatureVars, decayVars, tradeVars>>

Init ==
    /\ moving \in {"creatures", "decay", "trade"}
    /\ CreaturesInit /\ DecayInit /\ TradeInit
    /\ moving # "trade" => /\ place = [p \in Trader |-> MCFloorAt]
                           /\ parent = [i \in Item |-> Floor]

CreaturesMove ==
    moving = "creatures" /\ CreaturesNext /\ UNCHANGED <<moving, decayVars, tradeVars>>

DecayMoves ==
    moving = "decay" /\ DecayNext /\ UNCHANGED <<moving, creatureVars, tradeVars>>

TradeMoves ==
    moving = "trade" /\ TradeNext /\ UNCHANGED <<moving, creatureVars, decayVars>>

Next == CreaturesMove \/ DecayMoves \/ TradeMoves

Spec == Init /\ [][Next]_worldVars

-----------------------------------------------------------------------------
\* The variables of the component that moves keep their types.
WorldTypeOK ==
    /\ moving = "creatures" => CreaturesTypeOK
    /\ moving = "decay" => DecayTypeOK
    /\ moving = "trade" => TradeTypeOK

=============================================================================
