------------------------------- MODULE Market -------------------------------
(***************************************************************************)
(* The market (src/src/game.cpp, src/src/iomarket.cpp): offers to buy and  *)
(* to sell one kind of thing, kept in the database table market_offers.    *)
(* Players create, cancel and accept them in tasks of the dispatcher that  *)
(* query the database at once; expired offers are looked up by the         *)
(* database worker, and its answer is handled in a later task, when the    *)
(* offers may have changed.                                                *)
(***************************************************************************)
EXTENDS Integers, Sequences, FiniteSets, FiniteSetsExt, SequencesExt, NoValue

CONSTANTS
    Customer,       (* each on an account of its own                     *)
    OfferId,        (* the rows an offer may get, each used once         *)
    Amount, Price,  (* the amounts and prices of new offers              *)
    Fee,            (* what creating an offer costs                      *)
    Wealth, Stock,  (* money and things of each player at first          *)
    MaxOffers,      (* offers a player may have at a time                *)
    MaxAnswers      (* bound on the answers of the worker under way      *)

ASSUME MarketAssumption ==
    /\ Amount \subseteq Nat \ {0} /\ Price \subseteq Nat \ {0}
    /\ {Fee, Wealth, Stock, MaxOffers, MaxAnswers} \subseteq Nat
    /\ None \notin Customer /\ IsFiniteSet(Customer)

VARIABLES
    inMarket,
    money,          (* cash and bank balance                             *)
    stock,          (* in the depot and the inbox                        *)
    offers,         (* the table: a row for each id, NoOffer if none     *)
    used,           (* ids that were given out                           *)
    expired,        (* rows older than marketOfferDuration               *)
    asked,          (* queries for expired offers with the worker        *)
    answers,        (* results under way to processExpiredOffers         *)
    fees,           (* money paid in fees                                *)
    lateMoney, lateStock  (* history: what was accepted from an offer
                       while an answer with it was under way, and then
                       given back as well                                *)

marketVars == <<inMarket, money, stock, offers, used, expired, asked, answers, fees,
                lateMoney, lateStock>>

Offer == [owner : Customer, sale : BOOLEAN, amount : Nat, price : Price]
NoOffer == [owner |-> None]
OfferExists(o) == offers[o] # NoOffer

\* The rows of an answer; late counts what is accepted meanwhile (history).
Row == [id : OfferId, owner : Customer, sale : BOOLEAN, amount : Nat, price : Price, late : Nat]

MarketTypeOK ==
    /\ inMarket \subseteq Customer
    /\ money \in [Customer -> Nat] /\ stock \in [Customer -> Nat]
    /\ \A o \in OfferId : offers[o] \in Offer \cup {NoOffer}
    /\ {used, expired} \subseteq SUBSET OfferId
    /\ asked \in 0 .. MaxAnswers
    /\ Len(answers) <= MaxAnswers
    /\ \A k \in DOMAIN answers : \A r \in answers[k] : r \in Row
    /\ {fees, lateMoney, lateStock} \subseteq Nat

MarketInit ==
    /\ inMarket = {}
    /\ money = [p \in Customer |-> Wealth]
    /\ stock = [p \in Customer |-> Stock]
    /\ offers = [o \in OfferId |-> NoOffer]
    /\ used = {} /\ expired = {}
    /\ asked = 0 /\ answers = <<>>
    /\ fees = 0 /\ lateMoney = 0 /\ lateStock = 0

-----------------------------------------------------------------------------
(* What players do.  The mutants of this module are named for what they    *)
(* get wrong and stand before the definition they change.                  *)

EnterMarket(p) ==
    /\ p \notin inMarket
    /\ inMarket' = inMarket \cup {p}
    /\ UNCHANGED <<money, stock, offers, used, expired, asked, answers, fees,
                   lateMoney, lateStock>>

\* playerLeaveMarket, or a step of the player.
LeaveMarket(p) ==
    /\ p \in inMarket
    /\ inMarket' = inMarket \ {p}
    /\ UNCHANGED <<money, stock, offers, used, expired, asked, answers, fees,
                   lateMoney, lateStock>>

Own(p) == {o \in OfferId : OfferExists(o) /\ offers[o].owner = p}

\* getPlayerOfferCount counts offers of both kinds; 0 stands for no limit.
UnderLimit(p) == MaxOffers # 0 => Cardinality(Own(p)) < MaxOffers

\* A seller needs the things and the fee, a buyer the price and the fee.
Affords(p, sale, amount, price) ==
    IF sale THEN Fee <= money[p] /\ amount <= stock[p]
            ELSE price * amount + Fee <= money[p]

\* playerCreateMarketOffer.
CreateOffer(p, sale, amount, price) ==
    /\ p \in inMarket
    /\ UnderLimit(p)
    /\ Affords(p, sale, amount, price)
    /\ \E o \in OfferId \ used :
         /\ used' = used \cup {o}
         /\ offers' = [offers EXCEPT ![o] = [owner |-> p, sale |-> sale,
                                             amount |-> amount, price |-> price]]
    /\ fees' = fees + Fee
    /\ IF sale
       THEN /\ stock' = [stock EXCEPT ![p] = @ - amount]
            /\ money' = [money EXCEPT ![p] = @ - Fee]
       ELSE /\ money' = [money EXCEPT ![p] = @ - (price * amount + Fee)]
            /\ UNCHANGED stock
    /\ UNCHANGED <<inMarket, expired, asked, answers, lateMoney, lateStock>>

\* Give p back what it has put into an offer of this kind and amount.
GiveBack(p, sale, amount, price) ==
    IF sale THEN stock' = [stock EXCEPT ![p] = @ + amount] /\ UNCHANGED money
            ELSE money' = [money EXCEPT ![p] = @ + price * amount] /\ UNCHANGED stock

\* playerCancelMarketOffer: the offer is found by its time and counter, and
\* what is left of it goes back to its owner.
CancelOffer(p, o) ==
    /\ p \in inMarket
    /\ OfferExists(o) /\ offers[o].owner = p
    /\ GiveBack(p, offers[o].sale, offers[o].amount, offers[o].price)
    /\ offers' = [offers EXCEPT ![o] = NoOffer]
    /\ UNCHANGED <<inMarket, used, expired, asked, answers, fees, lateMoney, lateStock>>

\* History: an acceptance while answers with the offer are under way.
NoteLate(o, amount) ==
    answers' = [k \in DOMAIN answers |->
                  {IF r.id = o THEN [r EXCEPT !.late = @ + amount] ELSE r : r \in answers[k]}]

\* What is left of an offer; one that is used up is deleted.
Remainder(o, amount) ==
    IF offers[o].amount = amount THEN [offers EXCEPT ![o] = NoOffer]
                                 ELSE [offers EXCEPT ![o].amount = @ - amount]

\* An offer to buy: p gives things, which go to the buyer's inbox, whether
\* online or loaded for it, and is paid with what the buyer has put down.
AcceptBuy(p, o, amount) ==
    /\ ~offers[o].sale
    /\ amount <= stock[p]
    /\ money' = [money EXCEPT ![p] = @ + offers[o].price * amount]
    /\ stock' = [stock EXCEPT ![p] = @ - amount, ![offers[o].owner] = @ + amount]

\* An offer to sell: p pays the seller and gets the things.
AcceptSell(p, o, amount) ==
    /\ offers[o].sale
    /\ offers[o].price * amount <= money[p]
    /\ money' = [money EXCEPT ![p] = @ - offers[o].price * amount,
                              ![offers[o].owner] = @ + offers[o].price * amount]
    /\ stock' = [stock EXCEPT ![p] = @ + amount]

\* playerAcceptMarketOffer, of an offer of another account; that it has
\* expired does not matter as long as it is in the table.
AcceptOffer(p, o, amount) ==
    /\ p \in inMarket
    /\ OfferExists(o) /\ offers[o].owner # p
    /\ amount <= offers[o].amount
    /\ AcceptBuy(p, o, amount) \/ AcceptSell(p, o, amount)
    /\ offers' = Remainder(o, amount)
    /\ NoteLate(o, amount)
    /\ UNCHANGED <<inMarket, used, expired, asked, fees, lateMoney, lateStock>>

-----------------------------------------------------------------------------
(* Expiry.                                                                 *)

Expire(o) ==
    /\ OfferExists(o) /\ o \notin expired
    /\ expired' = expired \cup {o}
    /\ UNCHANGED <<inMarket, money, stock, offers, used, asked, answers, fees,
                   lateMoney, lateStock>>

\* checkExpiredOffers, which schedules itself again.
CheckExpired ==
    /\ asked + Len(answers) < MaxAnswers
    /\ asked' = asked + 1
    /\ UNCHANGED <<inMarket, money, stock, offers, used, expired, answers, fees,
                   lateMoney, lateStock>>

\* The worker runs the query and posts the answer, if there are any rows.
WorkerAnswers ==
    /\ asked > 0
    /\ asked' = asked - 1
    /\ LET rows == {[id |-> o, owner |-> offers[o].owner, sale |-> offers[o].sale,
                     amount |-> offers[o].amount, price |-> offers[o].price, late |-> 0] :
                      o \in {x \in expired : OfferExists(x)}}
       IN  answers' = IF rows = {} THEN answers ELSE Append(answers, rows)
    /\ UNCHANGED <<inMarket, money, stock, offers, used, expired, fees, lateMoney, lateStock>>

Total(rows, f(_)) == FoldSet(LAMBDA r, t : f(r) + t, 0, rows)

\* Rows that are gone from the table are given back too.
StillThereAny(rows) == rows

\* moveOfferToHistory fails for an offer that is gone.
StillThere(rows) == {r \in rows : OfferExists(r.id)}

\* processExpiredOffers: for each row still in the table, the amount the
\* answer says goes back to the owner, online or not, and the row is deleted.
ProcessExpired ==
    /\ answers # <<>>
    /\ LET rows == StillThere(Head(answers))
       IN  /\ offers' = [o \in OfferId |-> IF \E r \in rows : r.id = o THEN NoOffer ELSE offers[o]]
           /\ stock' = [p \in Customer |->
                stock[p] + Total({r \in rows : r.sale /\ r.owner = p}, LAMBDA r : r.amount)]
           /\ money' = [p \in Customer |->
                money[p] + Total({r \in rows : ~r.sale /\ r.owner = p}, LAMBDA r : r.price * r.amount)]
           /\ lateStock' = lateStock + Total({r \in rows : r.sale}, LAMBDA r : r.late)
           /\ lateMoney' = lateMoney + Total({r \in rows : ~r.sale}, LAMBDA r : r.price * r.late)
    /\ answers' = Tail(answers)
    /\ UNCHANGED <<inMarket, used, expired, asked, fees>>

MarketNext ==
    \/ \E p \in Customer :
         \/ EnterMarket(p) \/ LeaveMarket(p)
         \/ \E sale \in BOOLEAN, amount \in Amount, price \in Price :
              CreateOffer(p, sale, amount, price)
         \/ \E o \in OfferId :
              \/ CancelOffer(p, o)
              \/ \E amount \in Amount : AcceptOffer(p, o, amount)
    \/ \E o \in OfferId : Expire(o)
    \/ CheckExpired \/ WorkerAnswers \/ ProcessExpired

MarketSpec == MarketInit /\ [][MarketNext]_marketVars

-----------------------------------------------------------------------------
(* Properties.                                                             *)

Sum(f) == FoldSet(LAMBDA p, t : f[p] + t, 0, Customer)
Offered(sale) == {o \in OfferId : OfferExists(o) /\ offers[o].sale = sale}

\* The market neither makes nor loses money or things, but for what was
\* accepted from an expired offer after the worker had looked at it: that is
\* paid out and given back too, since the answer holds the amount of before.
\* Nobody is in debt to it, and no used up offer stays in the table
\* (data/migrations/5.lua once had to delete them).
MarketConserves ==
    /\ Sum(money) + fees + Total(Offered(FALSE), LAMBDA o : offers[o].price * offers[o].amount)
           = Cardinality(Customer) * Wealth + lateMoney
    /\ Sum(stock) + Total(Offered(TRUE), LAMBDA o : offers[o].amount)
           = Cardinality(Customer) * Stock + lateStock
    /\ \A p \in Customer : money[p] >= 0 /\ stock[p] >= 0
    /\ \A o \in OfferId : OfferExists(o) => offers[o].amount > 0

=============================================================================
