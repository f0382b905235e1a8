------------------------------ MODULE MCDecay ------------------------------
(***************************************************************************)
(* A torch that can be lit and put out and burns down to a stub of the     *)
(* same type, a ring whose time stands still while it is not worn, and a   *)
(* corpse that another item takes the place of.                            *)
(***************************************************************************)
EXTENDS Decay, TLC

CONSTANTS obj1, obj2

MCObject == {obj1, obj2}
MCKind == {"torch", "lit", "stub", "ring", "worn", "corpse", "bones"}
MCDecayTo ==
    "torch" :> Never @@ "lit" :> "stub" @@ "stub" :> Nothing @@
    "ring" :> Never @@ "worn" :> Nothing @@ "corpse" :> "bones" @@ "bones" :> Never
MCDecayTime ==
    "torch" :> 0 @@ "lit" :> 16 @@ "stub" :> 8 @@
    "ring" :> 0 @@ "worn" :> 16 @@ "corpse" :> 8 @@ "bones" :> 0
MCStopTime == {"ring"}
MCTwin == {<<"torch", "lit">>, <<"lit", "torch">>, <<"lit", "stub">>,
           <<"ring", "worn">>, <<"worn", "ring">>}
MCTurns == {<<"torch", "lit">>, <<"lit", "torch">>,
            <<"ring", "worn">>, <<"worn", "ring">>}
MCDurations == {1, 15}

\* The candelabra 2057, 2041, 2042 and 2043 of data/items/items.xml, in
\* seconds for minutes: one that burns down to one that can be lit again.
Candelabra == {"burning", "unlit", "lit", "used"}
BurnsTo == "burning" :> "unlit" @@ "unlit" :> Never @@ "lit" :> "used" @@ "used" :> Never
BurnTime == "burning" :> 24 @@ "unlit" :> 0 @@ "lit" :> 24 @@ "used" :> 0
Unlit == {"unlit"}
AllTwins == Candelabra \X Candelabra
LitAndPutOut == {<<"lit", "unlit">>, <<"unlit", "lit">>}

=============================================================================
