----------------------------- MODULE MCPlayers -----------------------------
(***************************************************************************)
(* Players: they come into the game and are sent out of it (the waiting    *)
(* list of a full server, the clients of one character, the states of the  *)
(* server as a whole), they deal with one another (parties, the market and *)
(* chat), they fight (fights, conditions) and they run errands.  The nine  *)
(* share no state: one of them moves in a behaviour.                       *)
(***************************************************************************)
EXTENDS WaitList, Session, Server, Party, Market,
        Chat, Fights, Conditions, Errands, TLC

-----------------------------------------------------------------------------
(* Values of the constants.                                                *)

\* Party: Four players and two party objects at a time: a party of three and
\* one more player, or two parties that invite the same players.
CONSTANTS amy, bea, cleo, dora, P1, P2

MCPlayer == {amy, bea, cleo, dora}
MCPartyId == {P1, P2}

\* Market: Two players, two offers of one or two things, and two answers of the
\* database under way.
CONSTANTS buyer, seller, o1, o2

MCCustomer == {buyer, seller}
MCOfferId == {o1, o2}
MCAmount == {1, 2}
MCPrice == {1, 2}

\* Chat: Three players, of whom two are premium, and two parties.
CONSTANTS xena, yuri, zoe, G1, G2, n100, n101

MCTalker == {xena, yuri, zoe}
MCChatters == {xena, yuri}
MCGroup == {G1, G2}
MCPlace == {n100, n101}

\* Fights: Three players, two of them allies, whom two blows kill.
CONSTANTS kim, lea, max

MCFighter == {kim, lea, max}
MCAllies == {<<lea, max>>, <<max, lea>>}

\* Conditions: Two hastes, two paralyses and others to be given; a pair of
\* boots that hasten and a ring that hides to be worn.
C(t, i, n, v) == [type |-> t, id |-> i, ticks |-> n, value |-> v]

MCCastable ==
    {C("haste", "combat", 1, 2), C("haste", "combat", 2, 1),
     C("paralyze", "combat", 1, -2), C("paralyze", "default", 2, -1),
     C("attributes", "default", 1, 1), C("attributes", "default", 2, 2),
     C("invisible", "combat", 1, 0)}

MCWear == [boots |-> [speed |-> 1, skill |-> 0, hides |-> FALSE],
           ring |-> [speed |-> 0, skill |-> 1, hides |-> TRUE]]

-----------------------------------------------------------------------------
VARIABLE moving

comingVars == <<waitVars, sessVars, serverVars>>
dealingVars == <<partyVars, marketVars, chatVars>>
fightingVars == <<fightVars, condVars, errandVars>>

Init ==
    /\ moving \in {"waiting list", "session", "server", "party", "market",
                   "chat", "fights", "conditions", "errands"}
    /\ WaitListInit /\ SessionInit /\ ServerInit
    /\ PartyInit /\ MarketInit /\ ChatInit
    /\ FightsInit /\ ConditionsInit /\ ErrandsInit

WaitListMoves ==
    /\ moving = "waiting list" /\ WaitListNext
    /\ UNCHANGED <<moving, sessVars, serverVars, dealingVars, fightingVars>>

SessionMoves ==
    /\ moving = "session" /\ SessionNext
    /\ UNCHANGED <<moving, waitVars, serverVars, dealingVars, fightingVars>>

ServerMoves ==
    /\ moving = "server" /\ ServerNext
    /\ UNCHANGED <<moving, waitVars, sessVars, dealingVars, fightingVars>>

PartyMoves ==
    /\ moving = "party" /\ PartyNext
    /\ UNCHANGED <<moving, marketVars, chatVars, comingVars, fightingVars>>

MarketMoves ==
    /\ moving = "market" /\ MarketNext
    /\ UNCHANGED <<moving, partyVars, chatVars, comingVars, fightingVars>>

ChatMoves ==
    /\ moving = "chat" /\ ChatNext
    /\ UNCHANGED <<moving, partyVars, marketVars, comingVars, fightingVars>>

FightsMove ==
    /\ moving = "fights" /\ FightsNext
    /\ UNCHANGED <<moving, condVars, errandVars, comingVars, dealingVars>>

ConditionsMove ==
    /\ moving = "conditions" /\ ConditionsNext
    /\ UNCHANGED <<moving, fightVars, errandVars, comingVars, dealingVars>>

ErrandsMove ==
    /\ moving = "errands" /\ ErrandsNext
    /\ UNCHANGED <<moving, fightVars, condVars, comingVars, dealingVars>>

Next ==
    \/ WaitListMoves \/ SessionMoves \/ ServerMoves
    \/ PartyMoves \/ MarketMoves \/ ChatMoves
    \/ FightsMove \/ ConditionsMove \/ ErrandsMove

Spec == Init /\ [][Next]_<<moving, comingVars, dealingVars, fightingVars>>

-----------------------------------------------------------------------------
\* The variables of the component that moves keep their types.
PlayersTypeOK ==
    /\ moving = "waiting list" => WaitListTypeOK
    /\ moving = "session" => SessionTypeOK
    /\ moving = "server" => ServerTypeOK
    /\ moving = "party" => PartyTypeOK
    /\ moving = "market" => MarketTypeOK
    /\ moving = "chat" => ChatTypeOK
    /\ moving = "fights" => FightsTypeOK
    /\ moving = "conditions" => ConditionsTypeOK
    /\ moving = "errands" => ErrandsTypeOK

=============================================================================
