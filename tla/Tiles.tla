--------------------------------- MODULE Tiles ---------------------------------
(***************************************************************************)
(* What a player's client shows of the tiles around him (src/src/tile.cpp, *)
(* src/src/map.cpp, src/src/protocolgame.cpp).  The server never asks the  *)
(* client: it sends changes by position in the stack of a tile, counted as *)
(* the client should count, and a client shows ten things (Limit) of a     *)
(* tile at most.  The client is that of another project, modelled by what  *)
(* the server takes it to do.                                              *)
(***************************************************************************)
EXTENDS Naturals, Sequences, FiniteSets, SequencesExt

CONSTANTS
    Square,           (* tiles                                             *)
    Being,          (* creatures other than the player who looks         *)
    Flat,           (* items always on top: ladders, borders, splashes   *)
    Splash,         (* of which there is one on a tile                   *)
    TopOrder,       (* alwaysOnTopOrder                                  *)
    Loose,          (* the other items                                   *)
    Field,          (* magic fields, of which there is one on a tile     *)
    Lasting,        (* which other fields do not replace                 *)
    Limit,          (* how many things of a tile the client shows        *)
    MaxThings       (* how many things there are, but for grounds        *)

ASSUME TilesAssumption ==
    /\ Splash \subseteq Flat /\ Lasting \subseteq Field /\ Field \subseteq Loose
    /\ TopOrder \in [Flat -> 1..3]
    /\ Limit \in Nat /\ Limit > 2 /\ MaxThings \in Nat

VARIABLES
    tile,           (* ground, top items, creatures and down items       *)
    unseen,         (* creatures that the player cannot see              *)
    inView,         (* the tiles in the view of the player               *)
    view            (* what the client shows of each; partial: something *)
                    (* shown has vanished from above hidden things       *)

tileVars == <<tile, unseen, inView, view>>

Showable == {"ground"} \cup Being \cup Flat \cup Loose

TilesTypeOK ==
    /\ \A t \in Square :
          /\ tile[t].ground \in BOOLEAN
          /\ Range(tile[t].top) \subseteq Flat /\ IsInjective(tile[t].top)
          /\ Range(tile[t].creatures) \subseteq Being /\ IsInjective(tile[t].creatures)
          /\ Range(tile[t].down) \subseteq Loose /\ IsInjective(tile[t].down)
          /\ Range(view[t].things) \subseteq Showable /\ Len(view[t].things) <= Limit
          /\ view[t].partial \in BOOLEAN
    /\ unseen \subseteq Being /\ inView \subseteq Square

-----------------------------------------------------------------------------
(* The tile, as the player sees it.                                        *)

\* The stack from below; creatures are inserted in front of their vector, which
\* is shown in reverse.
Shown(w, h, t) ==
    (IF w[t].ground THEN <<"ground">> ELSE <<>>) \o w[t].top
    \o Reverse(SelectSeq(w[t].creatures, LAMBDA c : c \notin h)) \o w[t].down

FirstThings(s) == SubSeq(s, 1, IF Len(s) < Limit THEN Len(s) ELSE Limit)

\* GetTileDescription, of which the client keeps Limit things.
Described(w, h, t) == [things |-> FirstThings(Shown(w, h, t)), partial |-> FALSE]

\* getThingCount
ThingCount(w, t) ==
    (IF w[t].ground THEN 1 ELSE 0) + Len(w[t].top) + Len(w[t].creatures) + Len(w[t].down)

\* getStackposOfItem, counted from 0; Limit or more is the code's -1.
StackposOfItem(w, h, t, i) == SelectInSeq(Shown(w, h, t), LAMBDA x : x = i) - 1

\* getClientIndexOfCreature, which may pass Limit: c counts, seen or not.
ClientIndexOfCreature(w, h, t, c) == StackposOfItem(w, h \ {c}, t, c)

Stands(w, t, i) == i \in Range(w[t].top \o w[t].creatures \o w[t].down)
Anywhere(i) == \E t \in Square : Stands(tile, t, i)

-----------------------------------------------------------------------------
(* What the client makes of messages about tile t, by position or id.      *)

Shows(v, t, s) == [v EXCEPT ![t].things = FirstThings(s)]

PutAt(v, t, n, x) ==
    LET s == v[t].things IN
    Shows(v, t, InsertAt(s, (IF n < Len(s) THEN n ELSE Len(s)) + 1, x))

TakenAt(v, t, n) ==
    IF n < Len(v[t].things) THEN Shows(v, t, RemoveAt(v[t].things, n + 1)) ELSE v

ChangedAt(v, t, n, x) ==
    IF n < Len(v[t].things) THEN [v EXCEPT ![t].things[n + 1] = x] ELSE v

TakenById(v, c) ==
    [t \in Square |-> [v[t] EXCEPT !.things = SelectSeq(@, LAMBDA x : x # c)]]

\* A creature whose position is not sent stands above the other creatures.
PutCreature(v, t, c) ==
    PutAt(v, t, Len(SelectSeq(v[t].things, LAMBDA x : x \notin Loose)), c)

-----------------------------------------------------------------------------
(* What the server sends: v is the view so far, w the tiles as they are.   *)

\* sendUpdateTile
Refreshed(v, w, h, t) == IF t \in inView THEN [v EXCEPT ![t] = Described(w, h, t)] ELSE v

\* sendAddTileItem and sendRemoveTileThing
ItemAppears(v, w, t, i) ==
    LET n == StackposOfItem(w, unseen, t, i) IN
    IF t \in inView /\ n < Limit THEN PutAt(v, t, n, i) ELSE v

ThingTaken(v, t, n) == IF t \in inView /\ n < Limit THEN TakenAt(v, t, n) ELSE v

\* sendRemoveTileCreature
CreatureTaken(v, t, n, c) == IF n < Limit THEN ThingTaken(v, t, n) ELSE TakenById(v, c)

\* sendAddCreature
CreatureAppears(v, w, h, t, c) ==
    LET n == ClientIndexOfCreature(w, h, t, c) IN
    IF t \notin inView THEN v
    ELSE IF n >= Limit THEN Refreshed(v, w, h, t)
    ELSE PutAt(v, t, n, c)

\* sendMoveCreature of another creature, from n of tile t to tile u
CreatureMoves(v, w, t, n, u, c, teleport) ==
    IF {t, u} \subseteq inView /\ ~teleport
    THEN PutCreature(IF n < Limit THEN TakenAt(v, t, n) ELSE TakenById(v, c), u, c)
    ELSE CreatureAppears(IF t \in inView THEN CreatureTaken(v, t, n, c) ELSE v,
                         w, unseen, u, c)

\* postRemoveNotification: a tile that is still high is sent anew.
AfterRemovalHigher(v, w, t) ==
    IF ThingCount(w, t) > Limit THEN Refreshed(v, w, unseen, t) ELSE v

AfterRemoval(v, w, t) ==
    IF ThingCount(w, t) > Limit - 2 THEN Refreshed(v, w, unseen, t) ELSE v

-----------------------------------------------------------------------------
(* Items.  A step of a tile is a pair of the tiles and the view.           *)

\* removeThing and, when it is done, postRemoveNotification.
Removed(s, t, i) ==
    LET n == StackposOfItem(s.w, unseen, t, i)
        w == [s.w EXCEPT ![t].top = SelectSeq(@, LAMBDA x : x # i),
                         ![t].down = SelectSeq(@, LAMBDA x : x # i)]
    IN  [w |-> w, v |-> AfterRemoval(ThingTaken(s.v, t, n), w, t)]

\* Where a top item goes: below those of the same order.
TopPlace(w, t, i) ==
    LET higher == {n \in DOMAIN w[t].top : TopOrder[i] <= TopOrder[w[t].top[n]]}
    IN  IF higher = {} THEN Len(w[t].top) + 1
        ELSE CHOOSE n \in higher : \A m \in higher : n <= m

\* addThing: the old splash or field goes first, unless it may not.
Laid(s, t, i) ==
    LET rivals == IF i \in Splash THEN Splash \cap Range(s.w[t].top)
                  ELSE Field \cap Range(s.w[t].down)
        cleared == IF i \in Splash \cup Field /\ rivals # {}
                   THEN Removed(s, t, CHOOSE r \in rivals : TRUE) ELSE s
        w == IF i \in Flat
             THEN [cleared.w EXCEPT ![t].top = InsertAt(@, TopPlace(cleared.w, t, i), i)]
             ELSE [cleared.w EXCEPT ![t].down = <<i>> \o @]
    IN  IF i \in Field /\ rivals \cap Lasting # {} THEN s
        ELSE [w |-> w, v |-> ItemAppears(cleared.v, w, t, i)]

Crowded == Cardinality({x \in Being \cup Flat \cup Loose : Anywhere(x)}) >= MaxThings

Now == [w |-> tile, v |-> view]
Becomes(s) == tile' = s.w /\ view' = s.v /\ UNCHANGED <<unseen, inView>>

AddItem(t, i) == ~Anywhere(i) /\ ~Crowded /\ Becomes(Laid(Now, t, i))

TakeItem(t, i) == Stands(tile, t, i) /\ Becomes(Removed(Now, t, i))

\* internalMoveItem, between tiles.
MoveThing(t, u, i) ==
    /\ t # u /\ Stands(tile, t, i) /\ i \in Loose
    /\ Becomes(Laid(Removed(Now, t, i), u, i))

\* transformItem, i to j: replaceThing and updateThing keep the place, but one
\* that comes to be on top, or ceases to, is removed and added.
TransformItem(t, i, j) ==
    /\ Stands(tile, t, i) /\ ~Anywhere(j)
    /\ i \in Splash <=> j \in Splash
    /\ i \in Field <=> j \in Field
    /\ IF i \in Flat <=> j \in Flat
       THEN LET swapped == [tile EXCEPT ![t].top = ReplaceAll(@, i, j),
                                        ![t].down = ReplaceAll(@, i, j)]
                n == StackposOfItem(swapped, unseen, t, j)
                before == AfterRemoval(view, tile, t)
            IN  Becomes([w |-> swapped,
                         v |-> IF t \in inView /\ n < Limit
                               THEN ChangedAt(before, t, n, j) ELSE before])
       ELSE Becomes(Laid(Removed(Now, t, i), t, j))

RemoveGround(t) ==
    /\ tile[t].ground
    /\ LET w == [tile EXCEPT ![t].ground = FALSE]
       IN  Becomes([w |-> w, v |-> AfterRemoval(ThingTaken(view, t, 0), w, t)])

AddGround(t) ==
    /\ ~tile[t].ground
    /\ LET w == [tile EXCEPT ![t].ground = TRUE]
       IN  Becomes([w |-> w, v |-> ItemAppears(view, w, t, "ground")])

-----------------------------------------------------------------------------
(* Creatures.                                                              *)

Enters(w, t, c) == [w EXCEPT ![t].creatures = <<c>> \o @]
Leaves(w, t, c) == [w EXCEPT ![t].creatures = SelectSeq(@, LAMBDA x : x # c)]

\* The place of c for the client, or Limit for one that the player cannot see.
OldStackpos(t, c) ==
    IF c \in unseen THEN Limit ELSE ClientIndexOfCreature(tile, unseen, t, c)

PlaceCreature(t, c) ==
    /\ ~Anywhere(c) /\ ~Crowded
    /\ LET w == Enters(tile, t, c)
       IN  Becomes([w |-> w, v |-> CreatureAppears(view, w, unseen, t, c)])

RemoveCreature(t, c) ==
    /\ Stands(tile, t, c)
    /\ LET w == Leaves(tile, t, c)
       IN  /\ tile' = w
           /\ view' = AfterRemoval(CreatureTaken(view, t, OldStackpos(t, c), c), w, t)
    /\ unseen' = unseen \ {c} /\ UNCHANGED inView

MoveCreature(t, u, c, far) ==
    /\ t # u /\ Stands(tile, t, c)
    /\ LET w == Enters(Leaves(tile, t, c), u, c)
           moved == IF c \in unseen THEN view
                    ELSE CreatureMoves(view, w, t, OldStackpos(t, c), u, c,
                                       far \/ ~tile[u].ground)
       IN  Becomes([w |-> w, v |-> AfterRemoval(moved, w, t)])

\* sendCreatureChangeVisible, and setGhostMode: nothing is sent anew.
Vanish(t, c) ==
    /\ Stands(tile, t, c) /\ c \notin unseen
    /\ unseen' = unseen \cup {c}
    /\ LET n == ClientIndexOfCreature(tile, unseen, t, c)
           hiding == t \in inView /\ Len(Shown(tile, unseen, t)) > Limit
       IN  view' = [CreatureTaken(view, t, n, c) EXCEPT ![t].partial = @ \/ hiding]
    /\ UNCHANGED <<tile, inView>>

Reappear(t, c) ==
    /\ Stands(tile, t, c) /\ c \in unseen
    /\ unseen' = unseen \ {c}
    /\ view' = CreatureAppears(view, tile, unseen', t, c)
    /\ UNCHANGED <<tile, inView>>

-----------------------------------------------------------------------------
(* The player walks; the client forgets tiles out of its view.             *)

Approach(t) ==
    /\ t \notin inView /\ inView' = inView \cup {t}
    /\ view' = [view EXCEPT ![t] = Described(tile, unseen, t)]
    /\ UNCHANGED <<tile, unseen>>

Depart(t) ==
    /\ t \in inView /\ inView' = inView \ {t}
    /\ view' = [view EXCEPT ![t] = [things |-> <<>>, partial |-> FALSE]]
    /\ UNCHANGED <<tile, unseen>>

TilesInit ==
    /\ tile = [t \in Square |-> [ground |-> TRUE, top |-> <<>>, creatures |-> <<>>, down |-> <<>>]]
    /\ unseen = {} /\ inView = Square
    /\ view = [t \in Square |-> [things |-> <<"ground">>, partial |-> FALSE]]

TilesNext ==
    \E t \in Square :
        \/ RemoveGround(t) \/ AddGround(t) \/ Approach(t) \/ Depart(t)
        \/ \E i \in Flat \cup Loose :
              \/ AddItem(t, i) \/ TakeItem(t, i)
              \/ \E u \in Square : MoveThing(t, u, i)
              \/ \E j \in Flat \cup Loose : TransformItem(t, i, j)
        \/ \E c \in Being :
              \/ PlaceCreature(t, c) \/ RemoveCreature(t, c)
              \/ Vanish(t, c) \/ Reappear(t, c)
              \/ \E u \in Square, far \in BOOLEAN : MoveCreature(t, u, c, far)

TilesSpec == TilesInit /\ [][TilesNext]_tileVars

-----------------------------------------------------------------------------
\* The client shows of each tile in its view what the server would describe: the
\* first things of the stack, in their order, however things came and went above
\* and below those it does not show.  Only after a creature has vanished from a
\* tile with hidden things is that not so, until the tile is sent anew.
ViewAgrees ==
    \A t \in inView :
        ~view[t].partial => view[t].things = FirstThings(Shown(tile, unseen, t))

=============================================================================
