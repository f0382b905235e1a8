---------------------------- MODULE Persistence ----------------------------
(***************************************************************************)
(* What players own, in memory and in the database                         *)
(* (src/src/iologindata.cpp, src/src/iomapserialize.cpp,                   *)
(* src/src/database.cpp).  A player is loaded when he logs in and saved    *)
(* when he leaves, with the game, or through a copy that is loaded for a   *)
(* letter or for the goods of a lost house.  A save is one transaction of  *)
(* many statements, any of which may fail; the server may crash between    *)
(* any two.  Items are written as rows of a tree, numbered breadth-first.  *)
(***************************************************************************)
EXTENDS Integers, Sequences, FiniteSets, SequencesExt, NoValue

CONSTANTS
    Owner,          (* the characters                                    *)
    Thing,          (* items                                             *)
    Sack,           (* the items that are containers                     *)
    Tile,           (* the floor of the house                            *)
    BodySlot,       (* slots of the inventory                            *)
    DepotBox,       (* depots                                            *)
    Pid,            (* the number of a slot or depot in the database     *)
    HouseOwner,     (* the one who owns the house                        *)
    FirstGoods,     (* what the characters have stored at the beginning  *)
    Reconnects,     (* whether the connection may be lost in a save      *)
    MaxChanges,     (* bound: what players do                            *)
    MaxFaults       (* bound: statements that fail, and crashes          *)

TopSpot == BodySlot \cup DepotBox \cup {"inbox", "store"}
Spot == TopSpot \cup Sack
ItemTable == {"items", "depot", "inbox", "store"}

ASSUME PersistenceAssumption ==
    /\ Sack \subseteq Thing /\ HouseOwner \in Owner /\ Tile \notin Spot
    /\ Pid \in [TopSpot -> 0 .. 99]
    /\ IsFiniteSet(Owner) /\ None \notin Owner
    /\ \A goods \in FirstGoods : DOMAIN goods = Owner

VARIABLES
    held,           (* the players in the game                           *)
    ground,         (* what lies in the house, and in the sacks there    *)
    db,             (* what is committed                                 *)
    work,           (* what the open transaction has made of it, if one  *)
                    (* is open: a sequence of one, or none               *)
    jobs,           (* saves that the dispatcher still has to do: it     *)
                    (* does nothing else until they are done             *)
    changes, faults,
    asSaved,        (* history: what the last save of each was to store  *)
    spoiled         (* history: something was lost, by a crash or by a   *)
                    (* failed save that nobody repeats                   *)

storeVars == <<held, ground, db, work, jobs, changes, faults, asSaved, spoiled>>

-----------------------------------------------------------------------------
(* Items as rows.                                                          *)

TableOf(place) ==
    CASE place \in BodySlot -> "items" [] place \in DepotBox -> "depot" [] OTHER -> place

SpotsOf(t) ==
    SetToSortSeq({x \in TopSpot : TableOf(x) = t}, LAMBDA x, y : Pid[x] < Pid[y])

\* The list of items, each with its parent's number, that a table starts with.
Roots(list, t) ==
    FlattenSeq([k \in DOMAIN SpotsOf(t) |->
        LET x == SpotsOf(t)[k]
        IN  [j \in DOMAIN list[x] |-> [pid |-> Pid[x], item |-> list[x][j]]]])

\* Rows with the next numbers; the containers among them have to wait.
Numbered(s, entries) ==
    LET rows == [k \in DOMAIN entries |->
                   [sid |-> s.id + k, pid |-> entries[k].pid, item |-> entries[k].item]]
    IN  [id |-> s.id + Len(entries), rows |-> s.rows \o rows,
         queue |-> s.queue \o SelectSeq(rows, LAMBDA r : r.item \in Sack)]

\* The next container's items.
NumberedNext(s, list) ==
    IF s.queue = <<>> THEN s
    ELSE LET b == Head(s.queue)
         IN  Numbered([s EXCEPT !.queue = Tail(@)],
                     [k \in DOMAIN list[b.item] |-> [pid |-> b.sid, item |-> list[b.item][k]]])

\* IOLoginData::saveItems
Rows(list, t) ==
    FoldLeft(LAMBDA s, k : NumberedNext(s, list),
             Numbered([id |-> 100, rows |-> <<>>, queue |-> <<>>], Roots(list, t)),
             [k \in 1 .. Cardinality(Sack) |-> k]).rows

\* A row's item is put in front of the others of its slot, chest or container.
PutInFront(list, rows, t, r) ==
    LET x == CHOOSE y \in Spot :
                IF r.pid < 100 THEN y \in TopSpot /\ TableOf(y) = t /\ Pid[y] = r.pid
                ELSE \E q \in rows : q.sid = r.pid /\ q.item = y
    IN  IF r.pid >= 100 /\ ~\E q \in rows : q.sid = r.pid /\ q.item \in Sack THEN list
        ELSE IF x \in BodySlot /\ list[x] # <<>> THEN list
        ELSE [list EXCEPT ![x] = <<r.item>> \o @]

\* loadItems, and the loop that begins with the greatest number.
Reloaded(list, rows, t) ==
    FoldLeft(LAMBDA l, r : PutInFront(l, rows, t, r), list,
             SetToSortSeq(rows, LAMBDA q, r : q.sid > r.sid))

\* A player as he is loaded: the conditions are kept apart until he appears.
Loaded(d) ==
    LET empty == [x \in Spot |-> <<>>]
        filled == FoldLeft(LAMBDA l, t : Reloaded(l, d[t], t), empty,
                           <<"items", "depot", "inbox", "store">>)
    IN  [gold |-> d.row.gold, done |-> d.storage, fed |-> FALSE, kept |-> d.row.fed,
         depotOpen |-> FALSE, list |-> filled]

\* ... and as he is in the game.
InGame(h) == [h EXCEPT !.fed = h.kept, !.kept = FALSE]

-----------------------------------------------------------------------------
(* Saves.                                                                  *)

Statement(op, table, value) == [op |-> op, table |-> table, value |-> value]

\* DELETE and INSERT of one table; DBInsert sends nothing for no rows.
Rewrite(list, t) ==
    <<Statement("delete", t, {})>>
    \o (IF Rows(list, t) = <<>> THEN <<>> ELSE <<Statement("insert", t, ToSet(Rows(list, t)))>>)

\* What IOLoginData::savePlayer writes, in its order; a depot only if one was
\* opened.
SaveStatements(h) ==
    <<Statement("update", "row", [gold |-> h.gold, fed |-> h.fed])>>
    \o Rewrite(h.list, "items")
    \o (IF h.depotOpen THEN Rewrite(h.list, "depot") ELSE <<>>)
    \o Rewrite(h.list, "inbox") \o Rewrite(h.list, "store")
    \o <<Statement("update", "storage", h.done)>>

PlayerStatements(h) ==
    <<Statement("begin", None, None)>>
    \o SaveStatements(h)
    \o <<Statement("commit", None, None)>>

\* IOMapSerialize::saveHouseItems; a tile and a container are written from
\* their end.
HouseStatements(g) ==
    <<Statement("begin", None, None), Statement("delete", "tiles", None),
      Statement("insert", "tiles", [x \in DOMAIN g |-> Reverse(g[x])]),
      Statement("commit", None, None)>>

\* ... and read one in front of the other.
LoadedHouse(tiles) == [x \in DOMAIN tiles |-> Reverse(tiles[x])]

NobodyHas == [x \in Sack \cup {Tile} |-> <<>>]

PlayerJob(p, h, copy, leave) ==
    [who |-> p, obj |-> h, copy |-> copy, leave |-> leave, tries |-> IF leave THEN 3 ELSE 1,
     todo |-> PlayerStatements(h)]
HouseJob(g) ==
    [who |-> None, obj |-> g, copy |-> FALSE, leave |-> FALSE, tries |-> 3,
     todo |-> HouseStatements(g)]

\* What a statement makes of the database d.
Done(d, job, s) ==
    LET p == job.who IN
    IF s.table = "tiles"
    THEN [d EXCEPT !.tiles = IF s.op = "delete" THEN NobodyHas ELSE s.value]
    ELSE [d EXCEPT !.of[p][s.table] = s.value]

Busy == jobs # <<>>
FirstJob == Head(jobs)
Upcoming == Head(FirstJob.todo)         \* the statement that comes next

\* Whoever was saved in order to leave is gone; the copy is, too.
Finished ==
    /\ jobs' = Tail(jobs)
    /\ held' = IF FirstJob.leave THEN [held EXCEPT ![FirstJob.who] = None] ELSE held

BeginTransaction ==
    /\ Busy /\ Upcoming.op = "begin"
    /\ work' = <<db>>
    /\ jobs' = <<[FirstJob EXCEPT !.todo = Tail(@)]>> \o Tail(jobs)
    /\ UNCHANGED <<held, ground, db, changes, faults, asSaved, spoiled>>

\* Outside of a transaction a statement is committed at once.
ExecuteQuery ==
    /\ Busy /\ Upcoming.op \in {"delete", "insert", "update"}
    /\ IF work = <<>> THEN db' = Done(db, FirstJob, Upcoming) /\ UNCHANGED work
       ELSE work' = <<Done(work[1], FirstJob, Upcoming)>> /\ UNCHANGED db
    /\ jobs' = <<[FirstJob EXCEPT !.todo = Tail(@)]>> \o Tail(jobs)
    /\ UNCHANGED <<held, ground, changes, faults, asSaved, spoiled>>

Commit ==
    /\ Busy /\ Upcoming.op = "commit"
    /\ db' = IF work = <<>> THEN db ELSE work[1]
    /\ work' = <<>>
    /\ asSaved' = IF FirstJob.who = None THEN [asSaved EXCEPT !.tiles = FirstJob.obj]
                  ELSE [asSaved EXCEPT !.of[FirstJob.who] = FirstJob.obj]
    /\ Finished
    /\ UNCHANGED <<ground, changes, faults, spoiled>>

\* A statement fails, and the destructor of the transaction rolls back.  Who
\* leaves is tried three times, and so is the house.
SaveFails ==
    /\ Busy /\ faults < MaxFaults
    /\ faults' = faults + 1
    /\ work' = <<>>
    /\ IF FirstJob.tries > 1
       THEN /\ jobs' = <<[FirstJob EXCEPT !.tries = @ - 1,
                            !.todo = IF FirstJob.who = None THEN HouseStatements(FirstJob.obj)
                                     ELSE PlayerStatements(FirstJob.obj)]>> \o Tail(jobs)
            /\ UNCHANGED <<held, spoiled>>
       ELSE /\ Finished
            /\ spoiled' = (spoiled \/ FirstJob.copy \/ FirstJob.leave)
    /\ UNCHANGED <<ground, db, changes, asSaved>>

\* The connection is lost: the database rolls back, and the loop of
\* executeQuery sends the statement again when it has reconnected.
ConnectionLost ==
    /\ Reconnects /\ Busy /\ work # <<>> /\ faults < MaxFaults
    /\ faults' = faults + 1
    /\ work' = <<>>
    /\ UNCHANGED <<held, ground, db, jobs, changes, asSaved, spoiled>>

\* The server crashes and starts again.
Crash ==
    /\ faults < MaxFaults
    /\ faults' = faults + 1
    /\ held' = [p \in Owner |-> None]
    /\ ground' = LoadedHouse(db.tiles)
    /\ work' = <<>> /\ jobs' = <<>> /\ spoiled' = TRUE
    /\ UNCHANGED <<db, changes, asSaved>>

-----------------------------------------------------------------------------
(* What the game does while the dispatcher is free.                        *)

Idle == ~Busy
Online(p) == held[p] # None
InSack(list, i) ==          \* the sacks in i, and i if it is one
    FoldLeft(LAMBDA S, k : S \cup (Sack \cap UNION {ToSet(list[b]) : b \in S}),
             {i} \cap Sack, [k \in 1 .. Cardinality(Sack) |-> k])
Has(list, i) == \E x \in DOMAIN list : i \in ToSet(list[x])

\* An item, with what it contains, taken out of and put into a list.
Without(list, i) ==
    [x \in DOMAIN list |-> IF x \in InSack(list, i) THEN <<>> ELSE Remove(list[x], i)]
With(list, x, i, from) ==
    [y \in DOMAIN list |-> IF y \in InSack(from, i) THEN from[y]
                           ELSE IF y = x THEN <<i>> \o list[y] ELSE list[y]]

Changes == Idle /\ changes < MaxChanges /\ changes' = changes + 1

PlayerLogin(p) ==
    /\ Changes /\ ~Online(p)
    /\ held' = [held EXCEPT ![p] = InGame(Loaded(db.of[p]))]
    /\ UNCHANGED <<ground, db, work, jobs, faults, asSaved, spoiled>>

PlayerLogout(p) ==
    /\ Changes /\ Online(p)
    /\ jobs' = <<PlayerJob(p, held[p], FALSE, TRUE)>>
    /\ UNCHANGED <<held, ground, db, work, faults, asSaved, spoiled>>

\* Game::saveGameState: the players, then the map.
SaveGameState ==
    /\ Changes
    /\ \E order \in SetToSeqs({p \in Owner : Online(p)}) :
         jobs' = [k \in DOMAIN order |-> PlayerJob(order[k], held[order[k]], FALSE, FALSE)]
                 \o <<HouseJob(ground)>>
    /\ UNCHANGED <<held, ground, db, work, faults, asSaved, spoiled>>

OpenLocker(p) ==
    /\ Changes /\ Online(p) /\ ~held[p].depotOpen
    /\ held' = [held EXCEPT ![p].depotOpen = TRUE]
    /\ UNCHANGED <<ground, db, work, jobs, faults, asSaved, spoiled>>

\* What is in a depot can be reached when its locker has been opened.
InDepot(list) ==
    LET out == UNION {ToSet(list[y]) : y \in DepotBox}
    IN  out \cup UNION {ToSet(list[b]) : b \in UNION {InSack(list, i) : i \in out}}
InInbox(list) ==
    ToSet(list["inbox"])
    \cup UNION {ToSet(list[b]) : b \in UNION {InSack(list, i) : i \in ToSet(list["inbox"])}}
Reachable(p, x) ==
    /\ x \in DepotBox \cup InDepot(held[p].list) => held[p].depotOpen
    /\ x \in BodySlot => held[p].list[x] = <<>>
    /\ x \in Sack => Has(held[p].list, x)
Owned(p) == {i \in Thing : Has(held[p].list, i) /\ (i \in InDepot(held[p].list) => held[p].depotOpen)}

MoveOwn(p, i, x) ==
    /\ Changes /\ Online(p) /\ i \in Owned(p)
    /\ Reachable(p, x) /\ x \notin InSack(held[p].list, i)
    /\ held' = [held EXCEPT ![p].list = With(Without(@, i), x, i, @)]
    /\ UNCHANGED <<ground, db, work, jobs, faults, asSaved, spoiled>>

DropInHouse(p, i) ==
    /\ Changes /\ Online(p) /\ i \in Owned(p) /\ ~Has(ground, i)
    /\ held' = [held EXCEPT ![p].list = Without(@, i)]
    /\ ground' = With(ground, Tile, i, held[p].list)
    /\ UNCHANGED <<db, work, jobs, faults, asSaved, spoiled>>

PickUp(p, i, x) ==
    /\ Changes /\ Online(p) /\ Has(ground, i) /\ ~Has(held[p].list, i)
    /\ x \in BodySlot /\ Reachable(p, x)
    /\ held' = [held EXCEPT ![p].list = With(@, x, i, ground)]
    /\ ground' = Without(ground, i)
    /\ UNCHANGED <<db, work, jobs, faults, asSaved, spoiled>>

\* A script that pays for a deed and notes it; a meal.
Earn(p) ==
    /\ Changes /\ Online(p)
    /\ held' = [held EXCEPT ![p].gold = @ + 1, ![p].done = @ + 1]
    /\ UNCHANGED <<ground, db, work, jobs, faults, asSaved, spoiled>>
Eat(p) ==
    /\ Changes /\ Online(p) /\ ~held[p].fed
    /\ held' = [held EXCEPT ![p].fed = TRUE]
    /\ UNCHANGED <<ground, db, work, jobs, faults, asSaved, spoiled>>

\* Items come into p's inbox, into that of a copy if p is not in the game.
Received(h, items, from) ==
    [h EXCEPT !.list = FoldLeft(LAMBDA l, i : With(l, "inbox", i, from), @, items)]
Receives(p, items, from, others) ==
    IF Online(p)
    THEN /\ held' = [others EXCEPT ![p] = Received(@, items, from)]
         /\ UNCHANGED jobs
    ELSE /\ held' = others
         /\ jobs' = <<PlayerJob(p, Received(Loaded(db.of[p]), items, from), TRUE, FALSE)>>

\* A copy of what is sent stays with the sender.
SendItemCopy(p, i, q) ==
    /\ Changes /\ Online(p) /\ i \in Owned(p) /\ p # q
    /\ ~Has((IF Online(q) THEN held[q] ELSE Loaded(db.of[q])).list, i)
    /\ Receives(q, <<i>>, held[p].list, held)
    /\ UNCHANGED <<ground, db, work, faults, asSaved, spoiled>>

\* Mailbox::sendItem
SendItem(p, i, q) ==
    /\ Changes /\ Online(p) /\ i \in Owned(p) /\ p # q
    /\ ~Has((IF Online(q) THEN held[q] ELSE Loaded(db.of[q])).list, i)
    /\ Receives(q, <<i>>, held[p].list, [held EXCEPT ![p].list = Without(@, i)])
    /\ UNCHANGED <<ground, db, work, faults, asSaved, spoiled>>

\* Game::playerCreateMarketOffer: what is sold is taken from the depot or the
\* inbox, the offer is in the database at once.
PostOffer(p, i) ==
    /\ Changes /\ Online(p) /\ held[p].depotOpen /\ i \notin Sack
    /\ i \in InDepot(held[p].list) \cup InInbox(held[p].list) /\ db.offers[i] = None
    /\ held' = [held EXCEPT ![p].list = Without(@, i)]
    /\ db' = [db EXCEPT !.offers[i] = p]
    /\ UNCHANGED <<ground, work, jobs, faults, asSaved, spoiled>>

\* An offer that is cancelled or expires: it leaves the database first.
OfferEnds(i) ==
    /\ Changes /\ db.offers[i] # None
    /\ LET p == db.offers[i]
       IN  /\ ~Has((IF Online(p) THEN held[p] ELSE Loaded(db.of[p])).list, i)
           /\ Receives(p, <<i>>, NobodyHas, held)
    /\ db' = [db EXCEPT !.offers[i] = None]
    /\ UNCHANGED <<ground, work, faults, asSaved, spoiled>>

\* House::transferToDepot, when the house is lost.
TransferToDepot ==
    /\ Changes /\ ground[Tile] # <<>>
    /\ LET h == IF Online(HouseOwner) THEN held[HouseOwner] ELSE Loaded(db.of[HouseOwner])
       IN  \A i \in Thing : ~(Has(h.list, i) /\ Has(ground, i))
    /\ Receives(HouseOwner, ground[Tile], ground, held)
    /\ ground' = NobodyHas
    /\ UNCHANGED <<db, work, faults, asSaved, spoiled>>

-----------------------------------------------------------------------------
\* What the database has of a player who owns this.
StoredAs(h) ==
    [t \in ItemTable \cup {"row", "storage"} |->
        CASE t = "row" -> [gold |-> h.gold, fed |-> h.fed]
          [] t = "storage" -> h.done
          [] OTHER -> ToSet(Rows(h.list, t))]

PersistenceFrom(goods) ==
    /\ held = [p \in Owner |-> None]
    /\ asSaved = [of |-> goods, tiles |-> NobodyHas]
    /\ db = [of |-> [p \in Owner |-> StoredAs(goods[p])],
             tiles |-> NobodyHas, offers |-> [i \in Thing |-> None]]
    /\ ground = NobodyHas
    /\ work = <<>> /\ jobs = <<>> /\ changes = 0 /\ faults = 0 /\ spoiled = FALSE

PersistenceInit == \E goods \in FirstGoods : PersistenceFrom(goods)

PersistenceNext ==
    \/ BeginTransaction \/ ExecuteQuery \/ Commit \/ SaveFails \/ ConnectionLost \/ Crash
    \/ \E p \in Owner :
         \/ PlayerLogin(p) \/ PlayerLogout(p) \/ OpenLocker(p) \/ Earn(p) \/ Eat(p)
         \/ \E i \in Thing :
              \/ DropInHouse(p, i) \/ PostOffer(p, i)
              \/ \E x \in Spot : MoveOwn(p, i, x) \/ PickUp(p, i, x)
              \/ \E q \in Owner : SendItem(p, i, q)
    \/ \E i \in Thing : OfferEnds(i)
    \/ SaveGameState \/ TransferToDepot

PersistenceSpec == PersistenceInit /\ [][PersistenceNext]_storeVars

-----------------------------------------------------------------------------
OwnsTypeOK(h) ==
    /\ h.gold \in Nat /\ h.done \in Nat /\ {h.fed, h.kept, h.depotOpen} \subseteq BOOLEAN
    /\ DOMAIN h.list = Spot /\ \A x \in Spot : h.list[x] \in Seq(Thing)
    /\ \A x \in BodySlot : Len(h.list[x]) <= 1

\* The variables have their types.
PersistenceTypeOK ==
    /\ \A p \in Owner : Online(p) => OwnsTypeOK(held[p])
    /\ DOMAIN ground = Sack \cup {Tile} /\ \A x \in DOMAIN ground : ground[x] \in Seq(Thing)
    /\ work # <<>> => Busy
    /\ changes \in 0 .. MaxChanges /\ faults \in 0 .. MaxFaults /\ spoiled \in BOOLEAN

\* What is committed is at any moment one whole save: a load would bring back
\* money, storage values and every item in its place and order as they were
\* together when the last save that succeeded began, whatever failed or
\* crashed since; and the same of the house.
SavedWhole ==
    /\ \A p \in Owner :
         LET h == Loaded(db.of[p]) IN
         /\ h.list = asSaved.of[p].list
         /\ h.gold = asSaved.of[p].gold /\ h.done = asSaved.of[p].done
    /\ LoadedHouse(db.tiles) = asSaved.tiles

\* Where an item is: with a player as he is newest (a copy that is about to
\* be saved, the player in the game, or what is stored of him), in the house, or
\* on offer.
Newest(p) ==
    IF Busy /\ FirstJob.copy /\ FirstJob.who = p THEN FirstJob.obj
    ELSE IF Online(p) THEN held[p] ELSE Loaded(db.of[p])

\* Through letters, offers, copies, logins and logouts an item is neither lost nor
\* doubled, unless the server crashes or a copy cannot be saved.
EachInOnePlace ==
    ~spoiled => LET carried == [p \in Owner |-> Newest(p).list] IN
        \A i \in Thing :
            Cardinality({p \in Owner : Has(carried[p], i)})
              + (IF Has(ground, i) THEN 1 ELSE 0) + (IF db.offers[i] = None THEN 0 ELSE 1) = 1

\* The two at once: what is stored is whole, and with what is held it is all there.
StoredAsOwned == SavedWhole /\ EachInOnePlace

\* The conditions stored of a player change only while he is in the game.
ConditionsKept ==
    [][\A p \in Owner : ~Online(p) => db'.of[p].row.fed = db.of[p].row.fed]_storeVars

=============================================================================
