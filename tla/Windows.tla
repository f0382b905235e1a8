------------------------------- MODULE Windows -------------------------------
(***************************************************************************)
(* The windows in which a player sees what is in containers                *)
(* (src/src/player.cpp, src/src/container.cpp, src/src/game.cpp): a chest  *)
(* of several pages, a box that may be carried about, and the field: all   *)
(* that lies on a tile, shown as if it were in a container of pages.  The  *)
(* server tells the client of single changes and counts the places of a    *)
(* page for it.  New items come to the front of a container and to the     *)
(* back of the field.                                                      *)
(***************************************************************************)
EXTENDS Integers, Sequences, FiniteSets, SequencesExt, NoValue

CONSTANTS
    Coin,           (* items that hold nothing                           *)
    LastCid,        (* the windows are numbered from 0                   *)
    PageSize,       (* the capacity of all containers                    *)
    MaxLeaks        (* windows of the field that are open at a logout    *)

ASSUME WindowsAssumption ==
    /\ {"box", "chest", "field"} \cap Coin = {} /\ None \notin Coin \cup {"box", "chest", "field"}
    /\ None \notin [container : {"box", "chest", "field"}, index : Nat]
    /\ LastCid \in Nat /\ PageSize \in Nat \ {0} /\ MaxLeaks \in Nat

Kept == {"chest", "field", "box"}
Paged == {"chest", "field"}
Content == Coin \cup {"box"}
Cid == 0..LastCid

VARIABLES
    inside,         (* what is in each container                         *)
    openContainers, (* the server's windows: container and first index   *)
    windows,        (* the client's; sure: no change has come wrong      *)
    browsing,       (* the container of the field: its references, and   *)
                    (* whether the event that drops one is to come       *)
    beside,         (* the player is near chest and field                *)
    attached,       (* he has a client                                   *)
    leaks           (* references of windows that were open at a logout  *)

winVars == <<inside, openContainers, windows, browsing, beside, attached, leaks>>

WindowsTypeOK ==
    /\ \A k \in Kept : Range(inside[k]) \subseteq Content /\ IsInjective(inside[k])
    /\ \A cid \in Cid :
          /\ openContainers[cid] # None =>
                openContainers[cid].container \in Kept /\ openContainers[cid].index \in Nat
          /\ windows[cid] # None =>
                /\ windows[cid].first \in Nat /\ windows[cid].sure \in BOOLEAN
                /\ Range(windows[cid].list) \subseteq Content
                /\ Len(windows[cid].list) <= PageSize
    /\ browsing \in [refs : 0..LastCid + 2 + MaxLeaks, event : BOOLEAN]
    /\ beside \in BOOLEAN /\ attached \in BOOLEAN /\ leaks \in 0..MaxLeaks

WindowsInit ==
    /\ inside = [k \in Kept |-> <<>>]
    /\ openContainers = [cid \in Cid |-> None] /\ windows = [cid \in Cid |-> None]
    /\ browsing = [refs |-> 0, event |-> FALSE]
    /\ beside = TRUE /\ attached = TRUE /\ leaks = 0

-----------------------------------------------------------------------------
(* A step is a record s of what is inside, open and shown, and of the      *)
(* references to the field.                                                *)

AsItStands == [in |-> inside, open |-> openContainers, shown |-> windows, refs |-> browsing.refs]
WindowsBecome(s) ==
    /\ inside' = s.in /\ openContainers' = s.open /\ windows' = s.shown
    /\ browsing' = [browsing EXCEPT !.refs = s.refs]
    /\ UNCHANGED <<beside, attached, leaks>>

HasOpen(s, cid, k) == s.open[cid] # None /\ s.open[cid].container = k
WindowsOn(s, k) == {cid \in Cid : HasOpen(s, cid, k)}

Place(i) == {k \in Kept : i \in Range(inside[k])}

\* The items at places first, first + 1... of a page, counted from 0.
Page(list, first) ==
    SubSeq(list, first + 1, IF Len(list) < first + PageSize THEN Len(list) ELSE first + PageSize)

\* getItemByIndex
ItemByIndex(list, n) == IF n < Len(list) THEN list[n + 1] ELSE None

-----------------------------------------------------------------------------
(* What the client makes of a message about a window w.                    *)

\* The page that the server has for window cid.
PageOf(s, cid) ==
    [first |-> s.open[cid].index, sure |-> TRUE,
     list |-> Page(s.in[s.open[cid].container], s.open[cid].index)]

Opened(s, cid) == IF attached THEN [s EXCEPT !.shown[cid] = PageOf(s, cid)] ELSE s

Shut(s, cids) == [s EXCEPT !.shown = [cid \in Cid |-> IF cid \in cids THEN None ELSE @[cid]]]

\* An item at place slot, others move back and the last leaves the page.
PutIn(w, slot, i, right) ==
    IF w = None \/ slot - w.first \notin 0..Len(w.list) THEN w
    ELSE [w EXCEPT !.list = Page(InsertAt(@, slot - w.first + 1, i), 0), !.sure = @ /\ right]

\* An item gone from place slot, and the one that comes in from the next page.
TakenOut(w, slot, last) ==
    IF w = None \/ slot - w.first \notin 0..Len(w.list) - 1 THEN w
    ELSE LET rest == RemoveAt(w.list, slot - w.first + 1)
         IN  [w EXCEPT !.list = IF last = None THEN rest ELSE Append(rest, last)]

ChangedTo(w, slot, i) ==
    IF w = None \/ slot - w.first \notin 0..Len(w.list) - 1 THEN w
    ELSE [w EXCEPT !.list[slot - w.first + 1] = i]

-----------------------------------------------------------------------------
(* What the server tells of a change in container k.                       *)

\* Each window on k becomes what op makes of it.
Tell(s, k, op(_)) ==
    [s EXCEPT !.shown = [cid \in Cid |-> IF HasOpen(s, cid, k) THEN op(cid) ELSE @[cid]]]

\* Where sendAddContainerItem takes an item other than the one that came: the last
\* on a full page of the field, the first on a later page of a chest.
PageFull(s, k, cid) == k = "field" /\ Len(s.in[k]) - 1 > s.open[cid].index + PageSize - 1
LooksUp(s, k, cid) == PageFull(s, k, cid) \/ (k # "field" /\ s.open[cid].index >= PageSize)
LookedUp(s, k, cid) ==
    ItemByIndex(s.in[k], s.open[cid].index + (IF k = "field" THEN PageSize - 1 ELSE 0))

\* ... and it keeps that one for the windows that follow.
ItemFor(s, k, i, cid) ==
    LET own == {c \in WindowsOn(s, k) : c <= cid /\ LooksUp(s, k, c)}
    IN  IF own = {} THEN i ELSE LookedUp(s, k, Max(own))

SlotFor(s, k, cid) ==
    IF k # "field" THEN s.open[cid].index
    ELSE IF PageFull(s, k, cid) THEN s.open[cid].index + PageSize - 1 ELSE Len(s.in[k]) - 1

\* sendAddContainerItem, when i is in; without an item nothing is sent.
AddTold(s, k, i, cid) ==
    LET w == s.shown[cid]
        item == ItemFor(s, k, i, cid)
        right == LooksUp(s, k, cid) \/ item = i
    IN  IF item # None THEN PutIn(w, SlotFor(s, k, cid), item, right)
        ELSE IF right \/ w = None THEN w ELSE [w EXCEPT !.sure = FALSE]
SendAdd(s, k, i) == Tell(s, k, LAMBDA cid : AddTold(s, k, i, cid))

\* sendRemoveContainerItem, before the item at place slot is taken out: a window
\* whose page becomes empty goes one page back.
TurnsBack(s, k, cid) ==
    HasOpen(s, cid, k) /\ s.open[cid].index > 0 /\ s.open[cid].index >= Len(s.in[k]) - 1
Turned(s, k) ==
    [s EXCEPT !.open = [cid \in Cid |->
        IF TurnsBack(s, k, cid) THEN [s.open[cid] EXCEPT !.index = @ - PageSize]
        ELSE s.open[cid]]]
\* Mutant: the place of an item on an earlier page is not moved to this page.
RemoveToldElsewhere(s, k, slot, cid) ==
    TakenOut(s.shown[cid], slot, ItemByIndex(s.in[k], s.open[cid].index + PageSize))

RemoveTold(s, k, slot, cid) ==
    LET t == Turned(s, k)
        first == t.open[cid].index
    IN  TakenOut(IF TurnsBack(s, k, cid) THEN PageOf(t, cid) ELSE s.shown[cid],
                 IF slot < first THEN first ELSE slot,
                 ItemByIndex(s.in[k], first + PageSize))
SendRemove(s, k, slot) == Tell(Turned(s, k), k, LAMBDA cid : RemoveTold(s, k, slot, cid))

\* sendUpdateContainerItem
UpdateTold(s, slot, i, cid) ==
    IF slot \in s.open[cid].index..s.open[cid].index + PageSize - 1
    THEN ChangedTo(s.shown[cid], slot, i) ELSE s.shown[cid]
SendUpdate(s, k, slot, i) == Tell(s, k, LAMBDA cid : UpdateTold(s, slot, i, cid))

\* onSendContainer, and onCloseContainer, which leaves the server's windows open.
SendAll(s, k) == IF attached THEN Tell(s, k, LAMBDA cid : PageOf(s, cid)) ELSE s
CloseAll(s, k) == IF attached THEN Shut(s, WindowsOn(s, k)) ELSE s

-----------------------------------------------------------------------------
(* Opening and closing.                                                    *)

FieldRefs(s, cids) == Cardinality(cids \cap WindowsOn(s, "field"))

\* closeContainer
Closed(s, cids) ==
    [s EXCEPT !.refs = @ - FieldRefs(s, cids),
              !.open = [cid \in Cid |-> IF cid \in cids THEN None ELSE @[cid]]]

\* addContainer
ContainerAdded(s, cid, k) ==
    [s EXCEPT !.refs = @ + (IF k = "field" THEN 1 ELSE 0) - FieldRefs(s, {cid}),
              !.open[cid] = [container |-> k, index |-> 0]]

\* autoCloseContainers, of k and what is in it.
AutoClosed(s, k) ==
    LET cids == WindowsOn(s, k)
                \cup (IF "box" \in Range(s.in[k]) THEN WindowsOn(s, "box") ELSE {})
    IN  Shut(Closed(s, cids), cids)

\* The container of the field is made for the first who browses it.
FieldMade(s) == IF s.refs = 0 THEN [s EXCEPT !.refs = 1] ELSE s
BecomesBrowsed(s) ==
    /\ inside' = s.in /\ openContainers' = s.open /\ windows' = s.shown
    /\ browsing' = [refs |-> s.refs, event |-> browsing.event \/ browsing.refs = 0]
    /\ UNCHANGED <<beside, attached, leaks>>

\* useItem of a container: it is opened in window cid, or closed where it is open.
UseContainer(k, cid) ==
    /\ beside /\ k # "field" /\ (k = "box" => Place("box") # {})
    /\ LET old == WindowsOn(AsItStands, k) IN
       WindowsBecome(IF old = {} THEN SendAll(ContainerAdded(AsItStands, cid, k), k)
               ELSE Closed(CloseAll(AsItStands, k), {CHOOSE c \in old : \A d \in old : c <= d}))

CloseContainer(cid) == WindowsBecome(Shut(Closed(AsItStands, {cid}), {cid}))

\* playerBrowseField, in the window that belongs to the tile: whatever it shows is
\* closed first.
BrowseField ==
    /\ beside
    /\ LET s == FieldMade(AsItStands)
           cid == LastCid
       IN
       BecomesBrowsed(IF openContainers[cid] # None
                      THEN Closed(CloseAll(s, openContainers[cid].container), {cid})
                      ELSE Opened(ContainerAdded(s, cid, "field"), cid))

\* playerMoveUpContainer.  What holds the chest is left out.
MoveUpContainer(cid) ==
    /\ openContainers[cid] # None /\ openContainers[cid].container # "chest"
    /\ IF openContainers[cid].container = "box" /\ "box" \in Range(inside["chest"])
       THEN WindowsBecome(Opened(ContainerAdded(AsItStands, cid, "chest"), cid))
       ELSE BecomesBrowsed(Opened(ContainerAdded(FieldMade(AsItStands), cid, "field"), cid))

\* playerSeekInContainer
SeekInContainer(cid, index) ==
    /\ openContainers[cid] # None /\ openContainers[cid].container \in Paged
    /\ index % PageSize = 0 /\ index < Len(inside[openContainers[cid].container])
    /\ WindowsBecome(Opened([AsItStands EXCEPT !.open[cid].index = index], cid))

\* playerUpdateContainer, which a client asks of a window it shows.
UpdateContainer(cid) == windows[cid] # None /\ WindowsBecome(Opened(AsItStands, cid))

\* decreaseBrowseFieldRef
DecreaseBrowseFieldRef ==
    /\ browsing.event
    /\ browsing' = [refs |-> browsing.refs - 1, event |-> FALSE]
    /\ UNCHANGED <<inside, openContainers, windows, beside, attached, leaks>>

-----------------------------------------------------------------------------
(* Items come and go.                                                      *)

\* removeThing, in a container or on the tile
TakenFrom(s, k, i) ==
    LET slot == SelectInSeq(s.in[k], LAMBDA x : x = i) - 1
        told == IF beside /\ attached THEN SendRemove(s, k, slot) ELSE s
    IN  [told EXCEPT !.in[k] = RemoveAt(@, slot + 1)]

\* addThing of a container, addItemBack of the field
PutInto(s, k, i) ==
    LET filled == [s EXCEPT !.in[k] = IF k = "field" THEN Append(@, i) ELSE <<i>> \o @]
    IN  IF beside /\ attached THEN SendAdd(filled, k, i) ELSE filled

\* internalMoveItem; from or to is None when the item comes or goes.  What holds a
\* box that has been moved is told by postRemoveNotification.
MoveInto(i, from, to) ==
    /\ from # to /\ Place(i) = (IF from = None THEN {} ELSE {from})
    /\ to = "box" => i # "box" /\ Len(inside["box"]) < PageSize
    /\ LET taken == IF from = None THEN AsItStands ELSE TakenFrom(AsItStands, from, i)
           put == IF to = None THEN taken ELSE PutInto(taken, to, i)
       IN  WindowsBecome(IF i # "box" THEN put
                   ELSE IF to = None \/ ~beside THEN AutoClosed(put, "box")
                   ELSE SendAll(put, "box"))

\* replaceThing and updateThing: i is now j.
TransformInto(i, j, k) ==
    /\ Place(i) = {k} /\ Place(j) = {} /\ {i, j} \subseteq Coin
    /\ LET slot == SelectInSeq(inside[k], LAMBDA x : x = i) - 1
           changed == [AsItStands EXCEPT !.in[k][slot + 1] = j]
       IN  WindowsBecome(IF beside /\ attached THEN SendUpdate(changed, k, slot, j) ELSE changed)

-----------------------------------------------------------------------------
(* The player comes and goes.                                              *)

WalkAway ==
    /\ beside /\ beside' = FALSE
    /\ LET s == AutoClosed(AutoClosed(AutoClosed(AsItStands, "chest"), "field"), "box")
       IN  /\ openContainers' = s.open /\ windows' = s.shown
           /\ browsing' = [browsing EXCEPT !.refs = s.refs]
    /\ UNCHANGED <<inside, attached, leaks>>

ComeBack == ~beside /\ beside' = TRUE
            /\ UNCHANGED <<inside, openContainers, windows, browsing, attached, leaks>>

\* ProtocolGame::release and connect: the windows of the player stay.
Detach ==
    /\ attached /\ attached' = FALSE /\ windows' = [cid \in Cid |-> None]
    /\ UNCHANGED <<inside, openContainers, browsing, beside, leaks>>

Attach == ~attached /\ attached' = TRUE
          /\ UNCHANGED <<inside, openContainers, windows, browsing, beside, leaks>>

\* Another game of the same player: nobody closes the windows of the last one.
LogoutAndIn ==
    /\ leaks' = leaks + FieldRefs(AsItStands, Cid) /\ leaks' <= MaxLeaks
    /\ openContainers' = [cid \in Cid |-> None] /\ windows' = [cid \in Cid |-> None]
    /\ attached' = TRUE /\ UNCHANGED <<inside, browsing, beside>>

WindowsNext ==
    \/ BrowseField \/ DecreaseBrowseFieldRef
    \/ WalkAway \/ ComeBack \/ Detach \/ Attach \/ LogoutAndIn
    \/ \E cid \in Cid :
          \/ CloseContainer(cid) \/ MoveUpContainer(cid)
          \/ UpdateContainer(cid)
          \/ \E k \in Kept : UseContainer(k, cid)
          \/ \E index \in 0..Cardinality(Content) : SeekInContainer(cid, index)
    \/ \E i \in Content, from, to \in Kept \cup {None} : MoveInto(i, from, to)
    \/ \E i, j \in Coin, k \in Kept : TransformInto(i, j, k)

WindowsSpec == WindowsInit /\ [][WindowsNext]_winVars

-----------------------------------------------------------------------------
\* A window that the client shows is one the server keeps, on the same page, and
\* shows what is on that page; only a change that came while the container was open
\* in another window as well may have spoiled it.  (A page other than the first may
\* be empty: the server's windows stay as they are while there is no client.)
PagesAgree ==
    \A cid \in Cid : windows[cid] # None =>
        /\ openContainers[cid] # None /\ windows[cid].first = openContainers[cid].index
        /\ windows[cid].sure =>
              windows[cid].list = Page(inside[openContainers[cid].container],
                                       openContainers[cid].index)

\* The container of the field has a reference for each window, for the event, and
\* for each window that was open at a logout: it is not deleted under a window.
FieldIsHeld ==
    browsing.refs = FieldRefs(AsItStands, Cid) + (IF browsing.event THEN 1 ELSE 0) + leaks

\* What is not near is not open; a box nobody holds is not open.
OpenIsNear ==
    /\ ~beside => \A cid \in Cid : openContainers[cid] = None
    /\ Place("box") = {} => WindowsOn(AsItStands, "box") = {}

\* The three at once.
WindowsAgree == PagesAgree /\ FieldIsHeld /\ OpenIsNear

=============================================================================
