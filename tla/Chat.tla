--------------------------------- MODULE Chat ---------------------------------
(***************************************************************************)
(* Channels (src/src/chat.cpp, src/src/game.cpp): who hears a channel, and *)
(* who has it open.  One channel of the configuration, "normal", whose     *)
(* scripts decide who may join; one channel for each party, which a client *)
(* knows as "party"; private channels in a fixed number of places.  Users  *)
(* and invitations refer to players who must still be in the game.         *)
(* Channels of guilds are those of parties, with another key.              *)
(***************************************************************************)
EXTENDS Naturals, FiniteSets, NoValue

CONSTANTS
    Talker,         (* the players                                       *)
    MayOwn,         (* those who may have a private channel              *)
    Group,          (* the addresses a party may have                    *)
    Place,          (* the numbers of private channels: 100 to 9999      *)
    MaxChats        (* how much happens                                  *)

ASSUME ChatAssumption ==
    /\ MayOwn \subseteq Talker /\ None \notin Talker \cup Group \cup Place
    /\ {"normal", "party"} \cap Place = {} /\ MaxChats \in Nat
    /\ ({"normal", "party"} \cup Place) \cap Group = {}

ChannelId == {"normal", "party"} \cup Place

VARIABLES
    talker,         (* here; group, the party; tabs, what the client shows *)
    mayJoin,        (* whom the script of "normal" lets in               *)
    users,          (* of "normal", of each party's and private channel  *)
    partyChannels,  (* the parties whose channel exists                  *)
    owner, invites, (* of each private channel; without owner it is free *)
    chats           (* how much has happened, but for ends of things     *)

chatVars == <<talker, mayJoin, users, partyChannels, owner, invites, chats>>

ChatTypeOK ==
    /\ talker \in [Talker -> [here : BOOLEAN, group : Group \cup {None},
                              tabs : SUBSET ChannelId]]
    /\ mayJoin \subseteq Talker
    /\ users \in [{"normal"} \cup Group \cup Place -> SUBSET Talker]
    /\ partyChannels \subseteq Group
    /\ owner \in [Place -> Talker \cup {None}]
    /\ invites \in [Place -> SUBSET Talker]
    /\ chats \in 0..MaxChats

\* All have come in.
ChatInit ==
    /\ chats = 0
    /\ talker = [p \in Talker |-> [here |-> TRUE, group |-> None, tabs |-> {}]]
    /\ mayJoin = Talker
    /\ users = [c \in {"normal"} \cup Group \cup Place |-> {}]
    /\ partyChannels = {}
    /\ owner = [i \in Place |-> None] /\ invites = [i \in Place |-> {}]

-----------------------------------------------------------------------------
Chats == chats < MaxChats /\ chats' = chats + 1

Here(p) == talker[p].here
Members(g) == {p \in Talker : talker[p].group = g}
Opened(t, p, c) == [t EXCEPT ![p].tabs = @ \cup {c}]
Closed(t, S, c) == [p \in Talker |-> IF p \in S THEN [t[p] EXCEPT !.tabs = @ \ {c}] ELSE t[p]]

IsInvited(i, p) == owner[i] # None /\ p \in invites[i] \cup {owner[i]}

\* getPrivateChannel
PrivateOf(p) == {i \in Place : owner[i] = p}

\* getChannel, as the key of users, or None.
ChannelOf(p, c) ==
    IF c = "normal" THEN IF p \in mayJoin THEN c ELSE None
    ELSE IF c = "party" THEN IF talker[p].group \in partyChannels THEN talker[p].group ELSE None
    ELSE IF IsInvited(c, p) THEN c ELSE None

\* getChannelList makes the channel of the party.
RequestChannels(p) ==
    /\ Chats
    /\ Here(p) /\ talker[p].group \notin partyChannels \cup {None}
    /\ partyChannels' = partyChannels \cup {talker[p].group}
    /\ UNCHANGED <<talker, mayJoin, users, owner, invites>>

\* playerOpenChannel.  The script of "normal" may still refuse; one who is a
\* user already is not told anything.
OpenChannel(p, c) ==
    LET k == ChannelOf(p, c) IN
    /\ Chats
    /\ Here(p) /\ k # None /\ p \notin users[k]
    /\ users' = [users EXCEPT ![k] = @ \cup {p}]
    /\ talker' = Opened(talker, p, c)
    /\ UNCHANGED <<mayJoin, partyChannels, owner, invites>>

\* deleteChannel of the private channels in I: their users are told to close them.
DeletedChannels(t, u, I) ==
    /\ talker' = [p \in Talker |->
                    [t[p] EXCEPT !.tabs = @ \ {i \in I : p \in u[i]}]]
    /\ users' = [k \in DOMAIN u |-> IF k \in I THEN {} ELSE u[k]]
    /\ owner' = [i \in Place |-> IF i \in I THEN None ELSE owner[i]]

\* playerCloseChannel: the client has closed the tab, removeUserFromChannel finds
\* the channel or not.  The owner of a private channel takes it with him.
CloseChannel(p, c) ==
    LET k == ChannelOf(p, c)
        t == Closed(talker, {p}, c)
    IN  /\ Here(p) /\ c \in talker[p].tabs
        /\ IF k = None \/ p \notin users[k]
           THEN talker' = t /\ UNCHANGED <<users, owner, invites>>
           ELSE LET I == {k} \cap PrivateOf(p) IN
                /\ DeletedChannels(t, [users EXCEPT ![k] = @ \ {p}], I)
                /\ invites' = [i \in Place |-> IF i \in I THEN {} ELSE invites[i]]
        /\ UNCHANGED <<chats, mayJoin, partyChannels>>

\* playerCreatePrivateChannel: one for each premium player, while there are places.
CreatePrivateChannel(p) ==
    /\ Chats
    /\ Here(p) /\ p \in MayOwn /\ PrivateOf(p) = {}
    /\ \E i \in Place :
          /\ owner[i] = None
          /\ owner' = [owner EXCEPT ![i] = p]
          /\ users' = [users EXCEPT ![i] = {p}]
          /\ talker' = Opened(talker, p, i)
    /\ UNCHANGED <<mayJoin, partyChannels, invites>>

ChannelInvite(p, q) ==
    /\ Chats
    /\ Here(p) /\ Here(q) /\ p # q
    /\ \E i \in PrivateOf(p) :
          q \notin invites[i] /\ invites' = [invites EXCEPT ![i] = @ \cup {q}]
    /\ UNCHANGED <<talker, mayJoin, users, partyChannels, owner>>

\* excludePlayer, of one who was invited.
ChannelExclude(p, q) ==
    /\ Chats
    /\ Here(p) /\ Here(q) /\ p # q
    /\ \E i \in PrivateOf(p) :
          /\ q \in invites[i]
          /\ invites' = [invites EXCEPT ![i] = @ \ {q}]
          /\ users' = [users EXCEPT ![i] = @ \ {q}]
          /\ talker' = Closed(talker, {q}, i)
    /\ UNCHANGED <<mayJoin, partyChannels, owner>>

-----------------------------------------------------------------------------
(* Parties, as far as their channels are concerned.                        *)

EnterGroup(p, g) ==
    /\ Chats
    /\ Here(p) /\ talker[p].group = None
    /\ talker' = [talker EXCEPT ![p].group = g]
    /\ UNCHANGED <<mayJoin, users, partyChannels, owner, invites>>

\* setParty(nullptr), then sendClosePrivate(CHANNEL_PARTY): by then getChannel
\* finds no channel for the player, who stays a user of it.
LeaveGroup(p) ==
    /\ talker[p].group # None
    /\ talker' = [Closed(talker, {p}, "party") EXCEPT ![p].group = None]
    /\ UNCHANGED <<chats, mayJoin, users, partyChannels, owner, invites>>

Disband(g) ==
    /\ Members(g) # {}
    /\ talker' = [p \in Talker |-> IF p \in Members(g)
                     THEN [Closed(talker, Members(g), "party")[p] EXCEPT !.group = None]
                     ELSE talker[p]]
    /\ UNCHANGED <<chats, mayJoin, users, partyChannels, owner, invites>>

-----------------------------------------------------------------------------
(* Coming and going.                                                       *)

\* removeUserFromAllChannels, for a player whose row of talker becomes r; what a
\* mutant forgets are the invitations.
RemovedFromAllButInvites(p, r) ==
    /\ DeletedChannels([talker EXCEPT ![p] = r],
                       [k \in DOMAIN users |-> users[k] \ {p}], PrivateOf(p))
    /\ invites' = [i \in Place |-> IF owner[i] = p THEN {} ELSE invites[i]]
    /\ UNCHANGED <<mayJoin, partyChannels>>

RemovedFromAll(p, r) ==
    /\ DeletedChannels([talker EXCEPT ![p] = r],
                       [k \in DOMAIN users |-> users[k] \ {p}], PrivateOf(p))
    /\ invites' = [i \in Place |-> IF owner[i] = p THEN {} ELSE invites[i] \ {p}]
    /\ UNCHANGED <<mayJoin, partyChannels>>

LogIn(p) ==
    /\ Chats
    /\ ~Here(p)
    /\ talker' = [talker EXCEPT ![p].here = TRUE]
    /\ UNCHANGED <<mayJoin, users, partyChannels, owner, invites>>

\* onRemoveCreature
LogOut(p) ==
    /\ Here(p)
    /\ RemovedFromAll(p, [here |-> FALSE, group |-> None, tabs |-> {}])
    /\ UNCHANGED chats

\* ProtocolGame::connect: another client takes the player over, with no tab open.
TakeOver(p) ==
    /\ Chats
    /\ Here(p)
    /\ RemovedFromAll(p, [talker[p] EXCEPT !.tabs = {}])

\* What the script of "normal" answers changes, with a level or a group.
ChangeRight(p) ==
    /\ Chats
    /\ mayJoin' = IF p \in mayJoin THEN mayJoin \ {p} ELSE mayJoin \cup {p}
    /\ UNCHANGED <<talker, users, partyChannels, owner, invites>>

\* Chat::load, again: the users of "normal" join once more, those in S are refused.
Reload(S) ==
    /\ Chats
    /\ users' = [users EXCEPT !["normal"] = @ \ S]
    /\ UNCHANGED <<talker, mayJoin, partyChannels, owner, invites>>

ChatNext ==
    \/ \E p \in Talker :
          \/ LogIn(p) \/ LogOut(p) \/ TakeOver(p) \/ ChangeRight(p)
          \/ RequestChannels(p) \/ CreatePrivateChannel(p) \/ LeaveGroup(p)
          \/ \E c \in ChannelId : OpenChannel(p, c) \/ CloseChannel(p, c)
          \/ \E q \in Talker : ChannelInvite(p, q) \/ ChannelExclude(p, q)
          \/ \E g \in Group : EnterGroup(p, g)
    \/ \E g \in Group : Disband(g)
    \/ \E S \in SUBSET users["normal"] : Reload(S)

ChatSpec == ChatInit /\ [][ChatNext]_chatVars

-----------------------------------------------------------------------------
(* Properties.                                                             *)

\* No channel refers to a player who has left the game, neither as its user nor
\* as one who is invited (UsersMap and InvitedMap hold pointers).
AllAreHere ==
    /\ \A k \in DOMAIN users : \A p \in users[k] : Here(p)
    /\ \A i \in Place : \A p \in invites[i] : Here(p)

\* What is said in a private channel is heard by its owner and by those invited,
\* and by no one else; its owner hears it, and has no other; and whoever hears it
\* has it open, whoever has it open hears it.
PrivateIsPrivate ==
    /\ \A i \in Place :
          /\ users[i] \subseteq {p \in Talker : IsInvited(i, p)}
          /\ users[i] = {p \in Talker : i \in talker[p].tabs}
          /\ owner[i] # None => owner[i] \in users[i]
          /\ owner[i] = None => invites[i] = {}
    /\ \A p \in Talker : Cardinality(PrivateOf(p)) <= 1

\* Who has the party's channel open hears the party he is in.
PartyIsHeard ==
    \A p \in Talker : "party" \in talker[p].tabs =>
        talker[p].group # None /\ p \in users[talker[p].group]

\* The three at once.
ChannelsAgree == AllAreHere /\ PrivateIsPrivate /\ PartyIsHeard

=============================================================================
