-------------------------------- MODULE Shops --------------------------------
(***************************************************************************)
(* Shop windows (src/src/npc.cpp, src/src/player.cpp).  A merchant opens a *)
(* shop for a customer: each knows of the other, the customer keeps the    *)
(* references to the two functions of the script that are called when      *)
(* something is bought or sold, and his client shows the window and a list *)
(* of the goods he carries that the merchant would buy.  The window is     *)
(* closed by either, when one of them goes, when another is opened, or     *)
(* when the scripts are loaded anew.                                       *)
(***************************************************************************)
EXTENDS Naturals, FiniteSets, NoValue

CONSTANTS
    Customer, Merchant,
    Ware,           (* single things that are carried                    *)
    Money,           (* those that are money                              *)
    Basket,          (* a container for them                              *)
    Ground,         (* where nobody carries them                         *)
    Wanted,         (* of each merchant: what it buys                    *)
    MaxFailed       (* bound: scripts that fail to open a shop           *)

ASSUME ShopsAssumption ==
    /\ Money \subseteq Ware /\ Basket \notin Ware /\ Ground \notin Customer \cup {Basket}
    /\ Wanted \in [Merchant -> SUBSET (Ware \ Money)]
    /\ None \notin Merchant /\ None \notin Customer /\ MaxFailed \in Nat
    /\ IsFiniteSet(Customer)

(* References into the registry of the scripts; the two of a shop are one. *)
Reference == 1..(Cardinality(Customer) + MaxFailed + 1)

VARIABLES
    shopOwner,      (* of each customer: the merchant                    *)
    callback,       (* of each customer: the reference                   *)
    shopItemList,   (* of each customer: what the merchant buys          *)
    shopPlayerSet,  (* of each merchant: its customers                   *)
    registry,       (* references that are in use                        *)
    online, placed, (* who is in the game                                *)
    client,         (* of each customer: whether there is one, the       *)
                    (* merchant whose window it shows, and the list      *)
    stored,         (* where each thing is                               *)
    changed,        (* goods that have been turned into another kind     *)
    failed,         (* counted for the bound                             *)
    leaked,         (* references that a failed script left behind       *)
    deceived        (* clients that show the window of a shop that a     *)
                    (* failed script has closed                          *)

deals == <<shopOwner, callback, shopItemList, shopPlayerSet, registry>>
shopVars == <<deals, online, placed, client, stored, changed, failed, leaked, deceived>>

NoClient == [there |-> FALSE, window |-> None, list |-> {}, stale |-> FALSE]
NewClient == [NoClient EXCEPT !.there = TRUE]

ShopsTypeOK ==
    /\ shopOwner \in [Customer -> Merchant \cup {None}]
    /\ callback \in [Customer -> Reference \cup {0}]
    /\ shopItemList \in [Customer -> SUBSET Ware]
    /\ shopPlayerSet \in [Merchant -> SUBSET Customer]
    /\ registry \subseteq Reference /\ leaked \subseteq Reference
    /\ online \subseteq Customer /\ placed \subseteq Merchant
    /\ client \in [Customer -> [there : BOOLEAN, window : Merchant \cup {None},
                                list : SUBSET Ware, stale : BOOLEAN]]
    /\ stored \in [Ware \cup {Basket} -> Customer \cup {Ground, Basket}]
    /\ changed \subseteq Ware /\ failed \in 0..MaxFailed /\ deceived \subseteq Customer

-----------------------------------------------------------------------------
(* What is carried, and what the client is told of it.                     *)

HolderAt(at, x) == IF at[x] = Basket THEN at[Basket] ELSE at[x]
Relevant(c, ch) == Money \cup (shopItemList[c] \ ch)
SaleList(c, at, ch) == {g \in Relevant(c, ch) : HolderAt(at, g) = c}

SaleListSent(cl, c, at, ch) ==
    IF cl.there THEN [cl EXCEPT !.list = SaleList(c, at, ch), !.stale = FALSE] ELSE cl

WindowShown(cl, m) == IF cl.there THEN [cl EXCEPT !.window = m] ELSE cl

-----------------------------------------------------------------------------
(* Opening and closing.  A deal is the record of what both sides keep.     *)

Deals == [owner |-> shopOwner, call |-> callback, list |-> shopItemList,
          set |-> shopPlayerSet, refs |-> registry]
DealsBecome(d) ==
    /\ shopOwner' = d.owner /\ callback' = d.call /\ shopItemList' = d.list
    /\ shopPlayerSet' = d.set /\ registry' = d.refs

\* Mutant: the functions of a shop that is closed stay referred to.
TradeEndedReferred(d, c) ==
    [d EXCEPT !.set[d.owner[c]] = @ \ {c}, !.owner[c] = None, !.call[c] = 0]

\* onPlayerEndTrade
TradeEnded(d, c) ==
    [d EXCEPT !.refs = @ \ {d.call[c]}, !.set[d.owner[c]] = @ \ {c},
              !.owner[c] = None, !.call[c] = 0]

\* closeShopWindow of the player
ShopClosed(d, c) ==
    [(IF d.owner[c] = None THEN d ELSE TradeEnded(d, c)) EXCEPT !.list[c] = {}]

\* luaL_ref
FreeReference(refs) == CHOOSE r \in Reference \ refs : \A q \in Reference \ refs : r <= q

\* The functions are referred to before the shop that is open is closed.
OpenShopWindow(m, c) ==
    /\ m \in placed /\ c \in online
    /\ LET r == FreeReference(registry)
           d == ShopClosed([Deals EXCEPT !.refs = @ \cup {r}], c)
       IN  DealsBecome([d EXCEPT !.owner[c] = m, !.call[c] = r, !.list[c] = Wanted[m],
                                 !.set[m] = @ \cup {c}])
    /\ client' = [client EXCEPT ![c] =
           IF @.there THEN [@ EXCEPT !.window = m, !.stale = FALSE,
                !.list = {g \in Money \cup (Wanted[m] \ changed) : HolderAt(stored, g) = c}]
           ELSE @]
    /\ deceived' = deceived \ {c}
    /\ UNCHANGED <<online, placed, stored, changed, failed, leaked>>

\* luaOpenShopWindow for a player who has left: the functions stay referred to.
OpenForNobody ==
    /\ failed < MaxFailed /\ failed' = failed + 1
    /\ registry' = registry \cup {FreeReference(registry)}
    /\ leaked' = leaked \cup {FreeReference(registry)}
    /\ UNCHANGED <<shopOwner, callback, shopItemList, shopPlayerSet, online, placed,
                   client, stored, changed, deceived>>

\* The same where no merchant acts, as in a function called later by addEvent: the
\* shop that is open is closed all the same, and the client is not told.
OpenByNobody(c) ==
    /\ c \in online /\ failed < MaxFailed /\ failed' = failed + 1
    /\ LET r == FreeReference(registry)
       IN  /\ DealsBecome(ShopClosed([Deals EXCEPT !.refs = @ \cup {r}], c))
           /\ leaked' = leaked \cup {r}
    /\ deceived' = IF client[c].window # None THEN deceived \cup {c} ELSE deceived
    /\ UNCHANGED <<online, placed, client, stored, changed>>

\* The script of m closes the shop it has with c: the list is kept.
CloseByScript(m, c) ==
    /\ m \in placed /\ c \in online /\ shopOwner[c] = m
    /\ DealsBecome(TradeEnded(Deals, c))
    /\ client' = [client EXCEPT ![c] = WindowShown(@, None)]
    /\ UNCHANGED <<online, placed, stored, changed, failed, leaked, deceived>>

\* playerCloseShop: the client has closed the window.
CloseShop(c) ==
    /\ c \in online /\ client[c].there /\ client[c].window # None
    /\ DealsBecome(ShopClosed(Deals, c))
    /\ client' = [client EXCEPT ![c].window = None]
    /\ deceived' = deceived \ {c}
    /\ UNCHANGED <<online, placed, stored, changed, failed, leaked>>

-----------------------------------------------------------------------------
(* Coming and going.                                                       *)

Login(c) ==
    /\ c \notin online /\ online' = online \cup {c}
    /\ client' = [client EXCEPT ![c] = NewClient]
    /\ UNCHANGED <<deals, placed, stored, changed, failed, leaked, deceived>>

\* The connection is lost, or another client takes the player over: it is not told
\* of the shop.
LoseClient(c) ==
    /\ client[c].there /\ client' = [client EXCEPT ![c] = NoClient]
    /\ deceived' = deceived \ {c}
    /\ UNCHANGED <<deals, online, placed, stored, changed, failed, leaked>>

TakeOver(c) ==
    /\ c \in online /\ ~client[c].there /\ client' = [client EXCEPT ![c] = NewClient]
    /\ UNCHANGED <<deals, online, placed, stored, changed, failed, leaked, deceived>>

\* Player::onRemoveCreature
Logout(c) ==
    /\ c \in online /\ online' = online \ {c}
    /\ DealsBecome(ShopClosed(Deals, c))
    /\ client' = [client EXCEPT ![c] = NoClient] /\ deceived' = deceived \ {c}
    /\ UNCHANGED <<placed, stored, changed, failed, leaked>>

\* closeAllShopWindows of the merchants in ms: whoever is in a set is closed,
\* whosever shop it is, and taken from the set.
AllClosed(ms) ==
    LET them == UNION {shopPlayerSet[m] : m \in ms}
        theirs == {c \in them : shopOwner[c] # None}
    IN  [owner |-> [c \in Customer |-> IF c \in theirs THEN None ELSE shopOwner[c]],
         call |-> [c \in Customer |-> IF c \in theirs THEN 0 ELSE callback[c]],
         list |-> [c \in Customer |-> IF c \in them THEN {} ELSE shopItemList[c]],
         set |-> [m \in Merchant |-> IF m \in ms THEN {} ELSE shopPlayerSet[m] \ theirs],
         refs |-> registry \ {callback[c] : c \in theirs}]

ClientsClosed(ms) ==
    [c \in Customer |-> IF \E m \in ms : c \in shopPlayerSet[m] /\ shopOwner[c] # None
                        THEN WindowShown(client[c], None) ELSE client[c]]

\* Npc::onRemoveCreature
RemoveMerchant(m) ==
    /\ m \in placed /\ placed' = placed \ {m}
    /\ DealsBecome(AllClosed({m})) /\ client' = ClientsClosed({m})
    /\ UNCHANGED <<online, stored, changed, failed, leaked, deceived>>

\* Npcs::reload; the registry is that of all scripts and stays.
Reload ==
    /\ DealsBecome(AllClosed(Merchant)) /\ client' = ClientsClosed(Merchant)
    /\ UNCHANGED <<online, placed, stored, changed, failed, leaked, deceived>>

-----------------------------------------------------------------------------
(* Goods.                                                                  *)

\* updateSaleShopList: something in what is moved counts.
Counts(c, x) ==
    \E g \in Relevant(c, changed) : g = x \/ (x = Basket /\ stored[g] = Basket)

\* postRemoveNotification and postAddNotification of the player: the list is sent
\* unless he held the other place too.
Moved(c, x, to) ==
    LET moved == [stored EXCEPT ![x] = to]
        before == HolderAt(stored, x)
        after == HolderAt(moved, x)
    IN  IF shopOwner[c] # None /\ before # after /\ c \in {before, after} /\ Counts(c, x)
        THEN SaleListSent(client[c], c, moved, changed) ELSE client[c]

\* A thing is moved, bought, sold, traded, given or lost.
Move(x, to) ==
    /\ stored[x] # to /\ x # to
    /\ to \in Customer => to \in online
    /\ HolderAt(stored, x) \in Customer => HolderAt(stored, x) \in online
    /\ stored' = [stored EXCEPT ![x] = to]
    /\ client' = [c \in Customer |-> Moved(c, x, to)]
    /\ UNCHANGED <<deals, online, placed, changed, failed, leaked, deceived>>

\* transformItem: for the notifications the thing stays where it is, so that no
\* list is sent.
Transform(g) ==
    /\ g \notin Money
    /\ changed' = IF g \in changed THEN changed \ {g} ELSE changed \cup {g}
    /\ client' = [c \in Customer |-> IF HolderAt(stored, g) = c /\ c \in online
                                     THEN [client[c] EXCEPT !.stale = TRUE] ELSE client[c]]
    /\ UNCHANGED <<deals, online, placed, stored, failed, leaked, deceived>>

\* playerPurchaseItem and playerSellItem: after what the script does, which may be
\* to close the shop, the list is sent, with a window or without.
Bargain(c, closes) ==
    /\ c \in online /\ client[c].there /\ shopOwner[c] # None
    /\ IF closes
       THEN /\ DealsBecome(TradeEnded(Deals, c))
            /\ client' = [client EXCEPT ![c] =
                              SaleListSent(WindowShown(@, None), c, stored, changed)]
       ELSE /\ UNCHANGED deals
            /\ client' = [client EXCEPT ![c] = SaleListSent(@, c, stored, changed)]
    /\ UNCHANGED <<online, placed, stored, changed, failed, leaked, deceived>>

-----------------------------------------------------------------------------
ShopsInit ==
    /\ shopOwner = [c \in Customer |-> None] /\ callback = [c \in Customer |-> 0]
    /\ shopItemList = [c \in Customer |-> {}] /\ shopPlayerSet = [m \in Merchant |-> {}]
    /\ registry = {} /\ leaked = {} /\ online = {} /\ placed = Merchant
    /\ client = [c \in Customer |-> NoClient]
    /\ stored = [x \in Ware \cup {Basket} |-> Ground]
    /\ changed = {} /\ failed = 0 /\ deceived = {}

ShopsNext ==
    \/ OpenForNobody \/ Reload
    \/ \E m \in Merchant : RemoveMerchant(m)
    \/ \E m \in Merchant, c \in Customer : OpenShopWindow(m, c) \/ CloseByScript(m, c)
    \/ \E c \in Customer :
          \/ OpenByNobody(c) \/ CloseShop(c)
          \/ Login(c) \/ Logout(c) \/ LoseClient(c) \/ TakeOver(c)
          \/ \E closes \in BOOLEAN : Bargain(c, closes)
    \/ \E g \in Ware : Transform(g)
    \/ \E x \in Ware \cup {Basket}, to \in Customer \cup {Ground, Basket} : Move(x, to)

ShopsSpec == ShopsInit /\ [][ShopsNext]_shopVars

-----------------------------------------------------------------------------
\* The two sides of a shop know the same of it, and both are in the game; the
\* functions of every open shop are referred to by a reference of their own, and
\* nothing else is but what failed scripts left; a client shows the window of the
\* shop that is open, and the goods in its list are those that are carried, unless
\* one of them was turned into another kind.
ShopsAgree ==
    /\ \A c \in Customer, m \in Merchant : shopOwner[c] = m <=> c \in shopPlayerSet[m]
    /\ \A c \in Customer : shopOwner[c] # None => c \in online /\ shopOwner[c] \in placed
    /\ LET open == {c \in Customer : shopOwner[c] # None}
       IN  /\ registry = leaked \cup {callback[c] : c \in open}
           /\ Cardinality(registry) = Cardinality(leaked) + Cardinality(open)
    /\ \A c \in Customer :
          client[c].window # None /\ c \notin deceived =>
             /\ client[c].window = shopOwner[c]
             /\ client[c].stale \/ client[c].list = SaleList(c, stored, changed)

=============================================================================
