--------------------------- MODULE MCPersistence ---------------------------
(* Values of the constants of Persistence. *)
EXTENDS Persistence

CONSTANTS ann, ben, box, purse, gem

MCOwner == {ann, ben}
MCThing == {box, purse, gem}
MCSack == {box, purse}
MCPid == [hand |-> 1, back |-> 2, near |-> 1, far |-> 2, inbox |-> 0, store |-> 0]

MCGoods(list) ==
    [gold |-> 0, done |-> 0, fed |-> TRUE, kept |-> FALSE, depotOpen |-> TRUE,
     list |-> [x \in {"hand", "back", "near", "far", "inbox", "store"} \cup MCSack |->
                 IF x \in DOMAIN list THEN list[x] ELSE <<>>]]

\* One has everything, in his depot or in the store's inbox; the other nothing.
MCFirstGoods == {
    ann :> MCGoods((box :> <<gem, purse>>) @@ ("back" :> <<box>>)) @@ ben :> MCGoods(<< >>),
    ann :> MCGoods((box :> <<purse>>) @@ (purse :> <<gem>>) @@ ("far" :> <<box>>)) @@ ben :> MCGoods(<< >>),
    ann :> MCGoods(("near" :> <<gem>>) @@ ("far" :> <<purse>>) @@ ("store" :> <<box>>)) @@ ben :> MCGoods(<< >>)}

=============================================================================
