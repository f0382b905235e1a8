------------------------------ MODULE Session ------------------------------
(***************************************************************************)
(* Game sessions of one character (src/src/protocolgame.cpp): several      *)
(* clients log it in, take it over from one another, log out, lose their   *)
(* connection or are kicked.  login, connect, logout and release are tasks *)
(* of the dispatcher; packets and the end of connections come from the     *)
(* network thread; connect is also a timer of the scheduler.  A player     *)
(* object is named by the protocol whose login created it.                 *)
(***************************************************************************)
EXTENDS Naturals, Sequences, FiniteSets, NoValue

CONSTANTS
    Protocol,       (* the game protocols, one per connection            *)
    LateEnd         (* a closed connection may live on for a second, with
                       a write to a peer that stalls in progress          *)

ASSUME SessionAssumption ==
    IsFiniteSet(Protocol) /\ None \notin Protocol /\ LateEnd \in BOOLEAN

VARIABLES
    conn,         (* "open", "closed", or "gone" once the object is destroyed *)
    heard,        (* protocols that have queued their login              *)
    tasks,        (* the dispatcher's queue                              *)
    waiting,      (* the player a connect timer is for                   *)
    player,       (* ProtocolGame::player                                *)
    client,       (* Player::client                                      *)
    playerRefs,         (* the reference counter of a player                   *)
    made,         (* players that were created; deleted at counter 0     *)
    inGame, leaving,  (* placed in the game, and removed but not cleaned up *)
    isConnecting,
    accepts,      (* acceptPackets                                       *)
    released,     (* protocols whose release has run                     *)
    autosend,     (* bufferedProtocols                                   *)
    sendEvents    (* sendAll events under way                            *)

sessVars == <<conn, heard, tasks, waiting, player, client, playerRefs, made, inGame, leaving,
              isConnecting, accepts, released, autosend, sendEvents>>

SessionTask == [kind : {"login", "connect", "logout", "release"}, of : Protocol,
         for : Protocol \cup {None}]

SessionTypeOK ==
    /\ conn \in [Protocol -> {"open", "closed", "gone"}]
    /\ tasks \in Seq(SessionTask)
    /\ {waiting, player, client} \subseteq [Protocol -> Protocol \cup {None}]
    /\ playerRefs \in [Protocol -> 0 .. 2]
    /\ {heard, made, inGame, leaving, isConnecting, accepts, released, autosend}
         \subseteq SUBSET Protocol
    /\ sendEvents \in 0 .. Cardinality(Protocol)

SessionInit ==
    /\ conn = [p \in Protocol |-> "open"]
    /\ tasks = <<>>
    /\ waiting = [p \in Protocol |-> None]
    /\ player = [p \in Protocol |-> None]
    /\ client = [p \in Protocol |-> None]
    /\ playerRefs = [p \in Protocol |-> 0]
    /\ heard = {} /\ made = {} /\ inGame = {} /\ leaving = {} /\ isConnecting = {}
    /\ accepts = {} /\ released = {} /\ autosend = {}
    /\ sendEvents = 0

-----------------------------------------------------------------------------
(* The connection.  The mutants of this module are named for what they get *)
(* wrong and stand before the definition they change.                      *)

task(kind, p, x) == [kind |-> kind, of |-> p, for |-> x]

\* Protocol::disconnect of p, when the tasks still queued are q: the
\* connection closes and its release is queued, unless it was closed already
\* or is gone.
Disconnects(p, q) ==
    IF conn[p] = "open"
    THEN /\ conn' = [conn EXCEPT ![p] = "closed"]
         /\ tasks' = Append(q, task("release", p, None))
    ELSE tasks' = q /\ UNCHANGED conn

\* The network thread closes a connection: an error, a timeout, a refusal.
NetworkClose(p) ==
    /\ conn[p] = "open"
    /\ Disconnects(p, tasks)
    /\ UNCHANGED <<heard, waiting, player, client, playerRefs, made, inGame, leaving,
                   isConnecting, accepts, released, autosend, sendEvents>>

\* The last operation on a closed connection ends.
ConnectionEnds(p) ==
    /\ conn[p] = "closed"
    /\ conn' = [conn EXCEPT ![p] = "gone"]
    /\ UNCHANGED <<heard, tasks, waiting, player, client, playerRefs, made, inGame, leaving,
                   isConnecting, accepts, released, autosend, sendEvents>>

\* onRecvFirstMessage, when it accepts the message.
FirstMessage(p) ==
    /\ conn[p] = "open" /\ p \notin heard
    /\ heard' = heard \cup {p}
    /\ tasks' = Append(tasks, task("login", p, None))
    /\ UNCHANGED <<conn, waiting, player, client, playerRefs, made, inGame, leaving,
                   isConnecting, accepts, released, autosend, sendEvents>>

\* parsePacket of a logout packet; other packets do not matter here.
LogoutPacket(p) ==
    /\ conn[p] = "open" /\ p \in accepts
    /\ player[p] # None
    /\ task("logout", p, None) \notin {tasks[i] : i \in DOMAIN tasks}
    /\ tasks' = Append(tasks, task("logout", p, None))
    /\ UNCHANGED <<conn, heard, waiting, player, client, playerRefs, made, inGame, leaving,
                   isConnecting, accepts, released, autosend, sendEvents>>

-----------------------------------------------------------------------------
(* Tasks of the dispatcher.                                                *)

Next1(kind, p) == tasks # <<>> /\ Head(tasks).kind = kind /\ Head(tasks).of = p

AddToAutosend(p) ==
    /\ autosend' = autosend \cup {p}
    /\ sendEvents' = IF autosend = {} THEN sendEvents + 1 ELSE sendEvents

\* login of a character that is not in the game: one of the checks refuses
\* it, with a text to the client, and the player object waits for release.
LoginRefused(p) ==
    /\ Next1("login", p)
    /\ inGame = {}
    /\ player' = [player EXCEPT ![p] = p]
    /\ client' = [client EXCEPT ![p] = p]
    /\ playerRefs' = [playerRefs EXCEPT ![p] = 1]
    /\ made' = made \cup {p}
    /\ Disconnects(p, Tail(tasks))
    /\ UNCHANGED <<heard, waiting, inGame, leaving, isConnecting, accepts, released,
                   autosend, sendEvents>>

\* login of a character that is not in the game, which is placed in it.
LoginPlaced(p) ==
    /\ Next1("login", p)
    /\ inGame = {}
    /\ player' = [player EXCEPT ![p] = p]
    /\ client' = [client EXCEPT ![p] = p]
    /\ playerRefs' = [playerRefs EXCEPT ![p] = 2]
    /\ made' = made \cup {p}
    /\ inGame' = {p}
    /\ accepts' = accepts \cup {p}
    /\ tasks' = Tail(tasks)
    /\ AddToAutosend(p)
    /\ UNCHANGED <<conn, heard, waiting, leaving, isConnecting, released>>

\* login of a character in the game that has a client: it is disconnected
\* and connect tried a second later.
LoginReplaces(p) ==
    /\ Next1("login", p)
    /\ \E x \in inGame :
         /\ client[x] # None
         /\ Disconnects(client[x], Tail(tasks))
         /\ isConnecting' = isConnecting \cup {x}
         /\ waiting' = [waiting EXCEPT ![p] = x]
    /\ AddToAutosend(p)
    /\ UNCHANGED <<heard, player, client, playerRefs, made, inGame, leaving, accepts, released>>

\* login with replaceKickOnLogin off.
LoginTwice(p) ==
    /\ Next1("login", p)
    /\ inGame # {}
    /\ Disconnects(p, Tail(tasks))
    /\ UNCHANGED <<heard, waiting, player, client, playerRefs, made, inGame, leaving,
                   isConnecting, accepts, released, autosend, sendEvents>>

\* The timer of connect expires.
ConnectTimer(p) ==
    /\ waiting[p] # None
    /\ conn[p] = "closed" => LateEnd
    /\ waiting' = [waiting EXCEPT ![p] = None]
    /\ tasks' = Append(tasks, task("connect", p, waiting[p]))
    /\ UNCHANGED <<conn, heard, player, client, playerRefs, made, inGame, leaving, isConnecting,
                   accepts, released, autosend, sendEvents>>

\* The client of the player is not tested.
AttachAlways(p, x, q) ==
    IF x \notin inGame
    THEN /\ Disconnects(p, q)
         /\ UNCHANGED <<player, client, playerRefs, isConnecting, accepts>>
    ELSE /\ tasks' = q
         /\ UNCHANGED conn
         /\ IF conn[p] = "gone" THEN UNCHANGED <<player, client, playerRefs, isConnecting, accepts>>
            ELSE /\ player' = [player EXCEPT ![p] = x]
                 /\ client' = [client EXCEPT ![x] = p]
                 /\ playerRefs' = [playerRefs EXCEPT ![x] = @ + 1]
                 /\ isConnecting' = isConnecting \ {x}
                 /\ accepts' = accepts \cup {p}

\* connect: the player has left or has another client, or the connection is
\* gone, or the protocol takes the player over.
Attach(p, x, q) ==
    IF x \notin inGame \/ client[x] # None
    THEN /\ Disconnects(p, q)
         /\ UNCHANGED <<player, client, playerRefs, isConnecting, accepts>>
    ELSE /\ tasks' = q
         /\ UNCHANGED conn
         /\ IF conn[p] = "gone" THEN UNCHANGED <<player, client, playerRefs, isConnecting, accepts>>
            ELSE /\ player' = [player EXCEPT ![p] = x]
                 /\ client' = [client EXCEPT ![x] = p]
                 /\ playerRefs' = [playerRefs EXCEPT ![x] = @ + 1]
                 /\ isConnecting' = isConnecting \ {x}
                 /\ accepts' = accepts \cup {p}

\* login of a character in the game without a client connects at once.
LoginConnects(p) ==
    /\ Next1("login", p)
    /\ \E x \in inGame : client[x] = None /\ Attach(p, x, Tail(tasks))
    /\ AddToAutosend(p)
    /\ UNCHANGED <<heard, waiting, made, inGame, leaving, released>>

Connect(p) ==
    /\ Next1("connect", p)
    /\ Attach(p, Head(tasks).for, Tail(tasks))
    /\ UNCHANGED <<heard, waiting, made, inGame, leaving, released, autosend, sendEvents>>

\* Game::removeCreature of a player, if it is still in the game.
RemoveCreature(x) ==
    /\ inGame' = inGame \ {x}
    /\ leaving' = IF x \in inGame THEN leaving \cup {x} ELSE leaving

\* logout of protocol p, when no rule of the game or script refuses it; a
\* protocol without a player does nothing.
LogoutEffect(p, q) ==
    IF player[p] = None THEN tasks' = q /\ UNCHANGED <<conn, inGame, leaving>>
    ELSE Disconnects(p, q) /\ RemoveCreature(player[p])

\* The logout a client has asked for may be refused while in the game.
Logout(p) ==
    /\ Next1("logout", p)
    /\ \/ LogoutEffect(p, Tail(tasks))
       \/ /\ player[p] \in inGame
          /\ tasks' = Tail(tasks)
          /\ UNCHANGED <<conn, inGame, leaving>>
    /\ UNCHANGED <<heard, waiting, player, client, playerRefs, made, isConnecting, accepts,
                   released, autosend, sendEvents>>

ProtocolRelease(p) ==
    /\ Next1("release", p)
    /\ tasks' = Tail(tasks)
    /\ released' = released \cup {p}
    /\ IF player[p] # None /\ client[player[p]] = p
       THEN /\ client' = [client EXCEPT ![player[p]] = None]
            /\ playerRefs' = [playerRefs EXCEPT ![player[p]] = @ - 1]
            /\ player' = [player EXCEPT ![p] = None]
       ELSE UNCHANGED <<client, playerRefs, player>>
    /\ autosend' = autosend \ {p}
    /\ UNCHANGED <<conn, heard, waiting, made, inGame, leaving, isConnecting, accepts,
                   sendEvents>>

-----------------------------------------------------------------------------
(* The rest of the game, in tasks of its own.                              *)

\* The character dies or is removed by a script: its client stays.
PlayerRemoved(x) ==
    /\ x \in inGame
    /\ RemoveCreature(x)
    /\ UNCHANGED <<conn, heard, tasks, waiting, player, client, playerRefs, made, isConnecting,
                   accepts, released, autosend, sendEvents>>

\* Only a player with a client is kicked.
KickClient(x) ==
    /\ IF client[x] # None THEN LogoutEffect(client[x], tasks)
                           ELSE UNCHANGED <<conn, tasks, inGame, leaving>>
    /\ UNCHANGED <<heard, waiting, player, client, playerRefs, made, isConnecting, accepts,
                   released, autosend, sendEvents>>

\* kickPlayer: by its client if it has one.
Kick(x) ==
    /\ IF client[x] # None THEN LogoutEffect(client[x], tasks)
                           ELSE RemoveCreature(x) /\ UNCHANGED <<conn, tasks>>
    /\ UNCHANGED <<heard, waiting, player, client, playerRefs, made, isConnecting, accepts,
                   released, autosend, sendEvents>>

\* sendPing has had no answer for a minute, onThink no input for much
\* longer.  A player that another client is about to take over is spared by
\* the first only.
PingKick(x) == x \in inGame /\ x \notin isConnecting /\ Kick(x)
IdleKick(x) == x \in inGame /\ Kick(x)

\* Game::cleanup.
Cleanup ==
    /\ leaving # {}
    /\ playerRefs' = [x \in Protocol |-> IF x \in leaving THEN playerRefs[x] - 1 ELSE playerRefs[x]]
    /\ leaving' = {}
    /\ UNCHANGED <<conn, heard, tasks, waiting, player, client, made, inGame, isConnecting,
                   accepts, released, autosend, sendEvents>>

\* sendAll: it schedules itself again as long as there is a protocol.
SendAll ==
    /\ sendEvents > 0
    /\ sendEvents' = IF autosend = {} THEN sendEvents - 1 ELSE sendEvents
    /\ UNCHANGED <<conn, heard, tasks, waiting, player, client, playerRefs, made, inGame,
                   leaving, isConnecting, accepts, released, autosend>>

Dispatch(p) ==
    \/ LoginRefused(p) \/ LoginPlaced(p) \/ LoginReplaces(p) \/ LoginConnects(p)
    \/ LoginTwice(p) \/ Connect(p) \/ Logout(p) \/ ProtocolRelease(p)

SessionNext ==
    \/ \E p \in Protocol :
         \/ NetworkClose(p) \/ ConnectionEnds(p) \/ FirstMessage(p) \/ LogoutPacket(p)
         \/ ConnectTimer(p) \/ Dispatch(p)
         \/ PlayerRemoved(p) \/ PingKick(p) \/ IdleKick(p)
    \/ Cleanup \/ SendAll

\* The dispatcher runs its tasks, and a player nobody plays is idle: its
\* idle time is reset only by its client and by connect.
SessionFairness ==
    /\ WF_sessVars(\E p \in Protocol : Dispatch(p))
    /\ \A x \in Protocol : WF_sessVars(IdleKick(x))

SessionSpec == SessionInit /\ [][SessionNext]_sessVars /\ SessionFairness

-----------------------------------------------------------------------------
(* Properties.                                                             *)

\* A protocol and a player refer to each other or not at all: two clients
\* never play one character, whatever the order of takeovers and releases.
AttachedBothWays ==
    \A p, x \in Protocol : player[p] = x <=> client[x] = p

\* The counter of a player is exactly the references to it, so that it is
\* deleted neither while in use nor never.
RefsExact ==
    \A x \in Protocol :
        playerRefs[x] = Cardinality({p \in Protocol : player[p] = x})
                + (IF x \in inGame \cup leaving THEN 1 ELSE 0)

\* Both at once: who plays a character and who refers to it agree, through
\* every takeover (ProtocolGame::connect) and release.
ClientsAgree == AttachedBothWays /\ RefsExact

\* "to prevent leakage of the Player": a protocol that was released holds no
\* player, since nothing would ever drop it.
NoPlayerLeak == \A p \in released : player[p] = None

\* A character that has lost its client does not stay in the game for ever,
\* even when the client that was to take it over is gone too.
AbandonedLeaves ==
    \A x \in Protocol :
        x \in inGame /\ client[x] = None ~> x \notin inGame \/ client[x] # None

=============================================================================
