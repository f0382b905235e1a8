------------------------------- MODULE Houses -------------------------------
(***************************************************************************)
(* A house and its beds (src/src/house.cpp, src/src/housetile.cpp,         *)
(* src/src/bed.cpp, src/src/iomapserialize.cpp): who owns it, whom its     *)
(* lists admit, who is inside, the document that sells it, who sleeps in   *)
(* its beds, its rent, and what of this is stored when.  A house owned by  *)
(* a character, not by an account; lists of names, not of guilds.          *)
(***************************************************************************)
EXTENDS Integers, FiniteSets, NoValue

CONSTANTS
    Resident,       (* the players who have to do with the house         *)
    Bed,            (* the halves of its beds                            *)
    Partner,        (* the other half, or None                           *)
    Rent, Purse,    (* what is due, and what each has in the bank        *)
    WarnMax,        (* letters before the house is lost: 7               *)
    MaxDeeds        (* how much happens                                  *)

ASSUME HousesAssumption ==
    /\ None \notin Resident \cup Bed /\ Partner \in [Bed -> Bed \cup {None}]
    /\ \A b \in Bed : Partner[b] # None => Partner[Partner[b]] = b /\ Partner[b] # b
    /\ {Rent, Purse, WarnMax, MaxDeeds} \subseteq Nat

ListId == {"guest", "subowner", "door"}
Somebody == Resident \cup {None}

VARIABLES
    house,          (* owner, lists, paid (the rent), rentWarnings, transferItem *)
    houseDb,        (* what is stored of the house and of its beds       *)
    visitor,        (* each player: where, and at logout; the bed's window *)
    sleeper,        (* sleeperGUID of each half                          *)
    bedSleepers,    (* bedSleepersMap                                    *)
    bank,
    deeds,
    houseLog        (* history: the tenure of the present owner          *)

houseVars == <<house, houseDb, visitor, sleeper, bedSleepers, bank, deeds, houseLog>>

HousesTypeOK ==
    /\ house \in [owner : Somebody, lists : [ListId -> SUBSET Resident],
                  paid : BOOLEAN, rentWarnings : 0..WarnMax,
                  transferItem : BOOLEAN, buyer : Somebody, seller : Somebody]
    /\ houseDb \in [owner : Somebody, lists : [ListId -> SUBSET Resident],
                    rentWarnings : 0..WarnMax, sleeper : [Bed -> Somebody]]
    /\ visitor \in [Resident ->
          [place : {"gone", "in", "out"}, last : {"in", "out"},
           window : BOOLEAN, bedItem : Bed \cup {None}, kicks : 0..MaxDeeds]]
    /\ sleeper \in [Bed -> Somebody]
    /\ bedSleepers \in [Resident -> Bed \cup {None}]
    /\ bank \in [Resident -> 0..Purse] /\ deeds \in 0..MaxDeeds
    /\ houseLog \in [under : [ListId -> Somebody], letters : 0..WarnMax,
                     spoiled : BOOLEAN]

NoLists == [l \in ListId |-> {}]
Empty == [b \in Bed |-> None]

HousesInit ==
    /\ house = [owner |-> None, lists |-> NoLists, paid |-> TRUE, rentWarnings |-> 0,
                transferItem |-> FALSE, buyer |-> None, seller |-> None]
    /\ houseDb = [owner |-> None, lists |-> NoLists, rentWarnings |-> 0,
                  sleeper |-> Empty]
    /\ visitor = [p \in Resident |-> [place |-> "out", last |-> "out", window |-> FALSE,
                                      bedItem |-> None, kicks |-> 0]]
    /\ sleeper = Empty /\ bedSleepers = [p \in Resident |-> None]
    /\ bank = [p \in Resident |-> Purse] /\ deeds = 0
    /\ houseLog = [under |-> [l \in ListId |-> None], letters |-> 0, spoiled |-> FALSE]

-----------------------------------------------------------------------------
(* Access.  The mutants of this module are named for what they get wrong   *)
(* and stand before the definition they change.                            *)

\* getHouseAccessLevel, from 3 for the owner to 0 for one who is not invited.
AccessLevel(h, p) ==
    IF h.owner = p THEN 3
    ELSE IF p \in h.lists["subowner"] THEN 2
    ELSE IF p \in h.lists["guest"] THEN 1 ELSE 0

Invited(h, p) == AccessLevel(h, p) > 0

CanEditAccessList(l, p) ==
    \/ AccessLevel(house, p) = 3
    \/ AccessLevel(house, p) = 2 /\ l = "guest"

\* kickPlayer of all in S who are inside.
PutOut(v, S) ==
    [p \in Resident |-> IF p \in S /\ v[p].place = "in"
                        THEN [v[p] EXCEPT !.place = "out"] ELSE v[p]]

\* setAccessList: guests and sub-owners who are not invited any more go; the
\* list of a door sends nobody out.
ListedKindly(h, v, l, S) ==
    [house |-> [h EXCEPT !.lists[l] = S],
     visitor |-> IF l = "guest" THEN PutOut(v, {p \in Resident : ~Invited(h, p)}) ELSE v]

Listed(h, v, l, S) ==
    LET g == [h EXCEPT !.lists[l] = S] IN
    [house |-> g,
     visitor |-> IF l = "door" THEN v ELSE PutOut(v, {p \in Resident : ~Invited(g, p)})]

\* BedItem::wakeUp of b, with its other half.
Woken(s, m, b) ==
    [sleeper |-> [c \in Bed |-> IF c \in {b, Partner[b]} THEN None ELSE s[c]],
     map |-> [p \in Resident |-> IF p = s[b] THEN None ELSE m[p]]]

\* setOwner.  Of a house that had an owner all are sent out, the sleepers wake
\* and the lists are emptied; what is owed is not settled.
NewOwner(h, v, s, m, g) ==
    IF h.owner = g
    THEN [house |-> h, visitor |-> v, sleeper |-> s, map |-> m]
    ELSE IF h.owner # None
    THEN LET out == PutOut(v, Resident)
         IN  [house |-> [h EXCEPT !.owner = g, !.lists = NoLists, !.rentWarnings = 0],
              visitor |-> out,
              sleeper |-> Empty,
              map |-> [p \in Resident |-> IF \E b \in Bed : s[b] = p THEN None ELSE m[p]]]
    ELSE [house |-> [h EXCEPT !.owner = g, !.paid = TRUE, !.rentWarnings = 0],
          visitor |-> v, sleeper |-> s, map |-> m]

\* The document comes back, or has done its work.
Undealt(h) == [h EXCEPT !.transferItem = FALSE, !.buyer = None, !.seller = None]

-----------------------------------------------------------------------------
Does == deeds < MaxDeeds /\ deeds' = deeds + 1

Here(p) == visitor[p].place # "gone"

\* setOwner, after which the house is h; who owns it is stored at once.
OwnedNow(h, g) ==
    LET r == NewOwner(h, visitor, sleeper, bedSleepers, g) IN
    /\ house' = r.house /\ visitor' = r.visitor
    /\ sleeper' = r.sleeper /\ bedSleepers' = r.map
    /\ houseDb' = [houseDb EXCEPT !.owner = IF h.owner = g THEN @ ELSE g]
    /\ houseLog' = [houseLog EXCEPT !.letters = IF h.owner = g THEN @ ELSE 0]

\* A script sets the owner, or nobody: the house is bought or given up.
SetOwner(g) ==
    /\ Does /\ g # house.owner
    /\ OwnedNow(house, g)
    /\ UNCHANGED bank

\* playerUpdateHouseWindow.
SetAccessList(p, l, S) ==
    /\ Does /\ Here(p) /\ CanEditAccessList(l, p)
    /\ LET r == Listed(house, visitor, l, S) IN
       house' = r.house /\ visitor' = r.visitor
    /\ houseLog' = [houseLog EXCEPT !.under[l] = house.owner]
    /\ UNCHANGED <<houseDb, sleeper, bedSleepers, bank>>

\* HouseTile::queryAdd.
Enter(p) ==
    /\ Does /\ visitor[p].place = "out" /\ Invited(house, p)
    /\ visitor' = [visitor EXCEPT ![p].place = "in"]
    /\ UNCHANGED <<house, houseDb, sleeper, bedSleepers, bank, houseLog>>

GoOut(p) ==
    /\ visitor[p].place = "in"
    /\ visitor' = [visitor EXCEPT ![p].place = "out"]
    /\ UNCHANGED <<house, houseDb, sleeper, bedSleepers, bank, deeds, houseLog>>

\* kickPlayer by p, who is at least of the guest's level.
KickGuest(p, q) ==
    /\ Here(p) /\ visitor[q].place = "in"
    /\ AccessLevel(house, p) >= AccessLevel(house, q)
    /\ visitor' = PutOut(visitor, {q})
    /\ UNCHANGED <<house, houseDb, sleeper, bedSleepers, bank, deeds, houseLog>>

-----------------------------------------------------------------------------
(* Beds.                                                                   *)

\* trySleep, by one who canUse the bed: the owner wakes who sleeps there; in a
\* free bed a window asks what to dream of.
UseBed(p, b) ==
    /\ Does /\ visitor[p].place = "in"
    /\ IF sleeper[b] = None
       THEN /\ visitor' = [visitor EXCEPT ![p].window = TRUE, ![p].bedItem = b]
            /\ UNCHANGED <<sleeper, bedSleepers>>
       ELSE /\ house.owner = p
            /\ LET r == Woken(sleeper, bedSleepers, b) IN
               sleeper' = r.sleeper /\ bedSleepers' = r.map
            /\ UNCHANGED visitor
    /\ UNCHANGED <<house, houseDb, bank, houseLog>>

\* playerAnswerModalWindow, wherever the player is now: the answer lays it down,
\* if the bed is free, and puts off a kick.
AnswerWindow(p, sleeps) ==
    LET b == visitor[p].bedItem
        lies == sleeps /\ b # None /\ sleeper[b] = None
    IN  /\ Here(p) /\ visitor[p].window
        /\ visitor' = IF lies
                      THEN [visitor EXCEPT ![p].window = FALSE, ![p].place = "in",
                                           ![p].kicks = @ + 1]
                      ELSE [visitor EXCEPT ![p].window = FALSE, ![p].bedItem = None]
        /\ IF lies
           THEN /\ sleeper' = [c \in Bed |-> IF c \in {b, Partner[b]} THEN p
                                             ELSE sleeper[c]]
                /\ bedSleepers' = [bedSleepers EXCEPT ![p] = b]
           ELSE UNCHANGED <<sleeper, bedSleepers>>
        /\ UNCHANGED <<house, houseDb, bank, deeds, houseLog>>

\* The player leaves the game; a trade of the document ends.
LeftGame(v, p) == [v EXCEPT ![p] = [place |-> "gone", last |-> @.place, window |-> FALSE,
                                bedItem |-> None, kicks |-> 0]]
LeavesGame(p) ==
    /\ visitor' = LeftGame(visitor, p)
    /\ house' = IF p \in {house.buyer, house.seller} THEN Undealt(house) ELSE house
    /\ UNCHANGED <<houseDb, sleeper, bedSleepers, bank, deeds, houseLog>>

LogOut(p) == Here(p) /\ visitor[p].kicks = 0 /\ LeavesGame(p)
KickSleeper(p) == Here(p) /\ visitor[p].kicks > 0 /\ LeavesGame(p)

\* placeCreature where it left, if it is still invited there; onCreatureAppear
\* wakes it.
LogIn(p) ==
    LET b == bedSleepers[p]
        at == IF visitor[p].last = "in" /\ Invited(house, p) THEN "in" ELSE "out"
    IN  /\ Does /\ ~Here(p)
        /\ visitor' = [visitor EXCEPT ![p].place = at]
        /\ IF b = None THEN UNCHANGED <<sleeper, bedSleepers>>
           ELSE LET r == Woken(sleeper, bedSleepers, b) IN
                sleeper' = r.sleeper /\ bedSleepers' = r.map
        /\ UNCHANGED <<house, houseDb, bank, houseLog>>

-----------------------------------------------------------------------------
(* The sale.                                                               *)

\* house:startTrade: the owner offers the document, of which there is one.
StartTrade(p, q) ==
    /\ Does /\ p # q /\ Here(p) /\ Here(q) /\ house.owner = p /\ ~house.transferItem
    /\ house' = [house EXCEPT !.transferItem = TRUE, !.seller = p, !.buyer = q]
    /\ UNCHANGED <<houseDb, visitor, sleeper, bedSleepers, bank, houseLog>>

\* onTradeEvent: cancelled, or carried out (executeTransfer).
CancelTrade ==
    /\ house.buyer # None
    /\ house' = Undealt(house)
    /\ UNCHANGED <<houseDb, visitor, sleeper, bedSleepers, bank, deeds, houseLog>>

ExecuteTransfer ==
    /\ house.buyer # None
    /\ OwnedNow(Undealt(house), house.buyer)
    /\ UNCHANGED <<bank, deeds>>

-----------------------------------------------------------------------------
(* Storage, rent and restarts.                                             *)

\* Map::save: saveHouseInfo and saveHouseItems, either of which may fail.
HouseStored(info, items) ==
    [houseDb EXCEPT
        !.owner = IF info THEN house.owner ELSE @,
        !.lists = IF info THEN house.lists ELSE @,
        !.rentWarnings = IF info THEN house.rentWarnings ELSE @,
        !.sleeper = IF items THEN sleeper ELSE @]

SaveHouses ==
    /\ Does /\ houseDb' = HouseStored(TRUE, TRUE)
    /\ UNCHANGED <<house, visitor, sleeper, bedSleepers, bank, houseLog>>

\* payHouses, of a house whose rent is due: it is paid from the bank, or a letter
\* is sent, or the house is lost; -1 stands for that.
AfterRent(h, money) ==
    IF h.owner = None THEN h
    ELSE IF money[h.owner] >= Rent THEN h
    ELSE IF h.rentWarnings < WarnMax THEN [h EXCEPT !.rentWarnings = @ + 1]
    ELSE NewOwner(h, visitor, sleeper, bedSleepers, None).house

\* The server goes down, having saved or not, and loads what is stored:
\* loadHouseInfo, loadHouseItems (where the last half that is read counts as
\* the sleeper's bed), payHouses.
Restart(info, items, last) ==
    LET db == HouseStored(info, items)
        loaded == [house EXCEPT !.owner = db.owner, !.lists = db.lists, !.paid = FALSE,
                                !.rentWarnings = db.rentWarnings,
                                !.transferItem = FALSE, !.buyer = None, !.seller = None]
        h == AfterRent(loaded, bank)
        lost == h.owner # loaded.owner
        pays == h.owner # None /\ bank[h.owner] >= Rent
        warned == h.rentWarnings > loaded.rentWarnings
        beds == IF lost THEN Empty ELSE db.sleeper
    IN  /\ Does
        /\ \A p \in Resident : IF \E b \in Bed : beds[b] = p
                               THEN last[p] \in {b \in Bed : beds[b] = p}
                               ELSE last[p] = None
        /\ house' = [h EXCEPT !.paid = pays]
        /\ houseDb' = [db EXCEPT !.owner = h.owner]
        /\ visitor' = [p \in Resident |-> IF Here(p) THEN LeftGame(visitor, p)[p] ELSE visitor[p]]
        /\ sleeper' = beds /\ bedSleepers' = last
        /\ bank' = IF pays THEN [bank EXCEPT ![h.owner] = @ - Rent] ELSE bank
        /\ houseLog' = [houseLog EXCEPT
                          !.spoiled = @ \/ ~info,
                          !.letters = IF lost THEN 0
                                      ELSE IF warned /\ @ < WarnMax THEN @ + 1 ELSE @]

HousesNext ==
    \/ \E g \in Somebody : SetOwner(g)
    \/ \E p \in Resident :
          \/ \E l \in ListId, S \in SUBSET Resident : SetAccessList(p, l, S)
          \/ Enter(p) \/ GoOut(p) \/ LogOut(p) \/ KickSleeper(p) \/ LogIn(p)
          \/ \E q \in Resident : KickGuest(p, q) \/ StartTrade(p, q)
          \/ \E b \in Bed : UseBed(p, b)
          \/ \E sleeps \in BOOLEAN : AnswerWindow(p, sleeps)
    \/ CancelTrade \/ ExecuteTransfer \/ SaveHouses
    \/ \E info, items \in BOOLEAN, last \in [Resident -> Bed \cup {None}] :
          Restart(info, items, last)

HousesSpec == HousesInit /\ [][HousesNext]_houseVars

-----------------------------------------------------------------------------
(* What is to be checked.                                                  *)

\* Whoever is in the house (HouseTile) is invited, through sales, changed lists,
\* lost rents and logins, but for one who lay down and is about to be kicked.
InsideAreInvited ==
    \A p \in Resident :
        visitor[p].place = "in" => Invited(house, p) \/ visitor[p].kicks > 0

\* The sleepers (Game::bedSleepersMap) and the beds agree: who wakes frees the
\* bed that the map names, and both its halves; no half sleeps alone.
SleepersAgree ==
    /\ \A p \in Resident : bedSleepers[p] # None => sleeper[bedSleepers[p]] = p
    /\ \A b \in Bed : Partner[b] # None => sleeper[Partner[b]] = sleeper[b]

\* Nothing of a former owner stays with the house (House::setOwner): its lists
\* were written under the present one, and so were the warnings, each of them a
\* letter; and a document is out only while it is on offer.  A house stored
\* under its new owner but with the old lists, by a crash, is left out.
NothingInherited ==
    /\ ~houseLog.spoiled =>
          /\ \A l \in ListId : house.lists[l] # {} => houseLog.under[l] = house.owner
          /\ house.rentWarnings <= houseLog.letters
    /\ house.transferItem <=> house.buyer # None

\* The three at once.
HouseInOrder == InsideAreInvited /\ SleepersAgree /\ NothingInherited

=============================================================================
