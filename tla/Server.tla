------------------------------- MODULE Server -------------------------------
(***************************************************************************)
(* The life of the server process (src/src/otserv.cpp, signals.cpp,        *)
(* server.cpp and the game state of game.cpp): the main thread waits for   *)
(* the loader, which is a task of the dispatcher, then runs the network;   *)
(* a signal or a script closes the game, saves it or shuts it down; a      *)
(* service port that fails is opened again by a timer.  One port stands    *)
(* for all of them; the dispatcher's own queue and lock are in Dispatcher. *)
(***************************************************************************)
EXTENDS Naturals, Sequences, FiniteSets

CONSTANTS
    Character,         (* characters                                        *)
    AlwaysLogin,     (* those with the flag CanAlwaysLogin                *)
    MaxRequests,    (* bound: signals and scripts that change the state  *)
    MaxLogins,      (* bound: logins, and logouts asked for              *)
    MaxFailures     (* bound: failures of the port and of the database   *)

ASSUME ServerAssumption ==
    /\ AlwaysLogin \subseteq Character /\ IsFiniteSet(Character)
    /\ {MaxRequests, MaxLogins, MaxFailures} \subseteq Nat

VARIABLES
    main,         (* the main thread: what it does                       *)
    loader,       (* how far mainLoader is                               *)
    gameState,    (* Game::gameState                                     *)
    queue,        (* the dispatcher's tasks                              *)
    dispatcher,   (* its thread state                                    *)
    running,      (* ServiceManager::running                             *)
    acceptors,    (* whether ServiceManager::acceptors has the port      *)
    deathTimer,        (* the death timer is set                              *)
    port,         (* the acceptor of the port                            *)
    pendingStart, (* ServicePort::pendingStart                           *)
    timer,        (* openAcceptor waits in the scheduler                 *)
    online,       (* Game::players                                       *)
    dirty,        (* characters whose last changes are not stored        *)
    unsaved,      (* history: characters that left with every try to
                     save them failed                                    *)
    late,         (* history: characters placed in a game shut down      *)
    requests, logins, failures   (* budgets used                         *)

gameVars == <<gameState, online, dirty, unsaved, late>>
netVars  == <<running, acceptors, deathTimer, port, pendingStart, timer>>
budgets  == <<requests, logins, failures>>
serverVars == <<main, loader, queue, dispatcher, gameVars, netVars, budgets>>

States == {"STARTUP", "INIT", "NORMAL", "CLOSED", "SHUTDOWN", "CLOSING", "MAINTAIN"}

ServerTask == ({"set"} \X States) \cup ({"login", "logout"} \X Character)
        \cup ({"do"} \X {"load", "save", "clean", "open", "shutdown", "terminate"})

ServerTypeOK ==
    /\ main \in {"starting", "waiting", "told", "serving", "joining", "exited"}
    /\ loader \in {"queued", "loading", "listening", "done", "failed"}
    /\ gameState \in States
    /\ queue \in Seq(ServerTask)
    /\ dispatcher \in {"RUNNING", "CLOSING", "TERMINATED"}
    /\ {running, acceptors, deathTimer, pendingStart, timer} \subseteq BOOLEAN
    /\ port \in {"none", "open", "closed", "deaf"}
    /\ running => main = "serving"
    /\ {online, dirty, unsaved, late} \subseteq SUBSET Character
    /\ requests \in 0 .. MaxRequests /\ logins \in 0 .. MaxLogins
    /\ failures \in 0 .. MaxFailures

ServerInit ==
    /\ main = "starting" /\ loader = "queued"
    /\ gameState = "NORMAL"
    /\ queue = << <<"do", "load">> >> /\ dispatcher = "RUNNING"
    /\ running = FALSE /\ acceptors = FALSE /\ deathTimer = FALSE
    /\ port = "none" /\ pendingStart = FALSE /\ timer = FALSE
    /\ online = {} /\ dirty = {} /\ unsaved = {} /\ late = {}
    /\ requests = 0 /\ logins = 0 /\ failures = 0

-----------------------------------------------------------------------------
(* The main thread.                                                        *)

MainWaits ==
    /\ main = "starting"
    /\ main' = "waiting"
    /\ UNCHANGED <<loader, queue, dispatcher, gameVars, netVars, budgets>>

\* main once it is told: it runs the network if there is a port, else it has
\* every thread end.  A thread is told to end by a task at the back of its
\* queue, which a closing dispatcher takes too.
MainServes ==
    /\ main = "told" /\ acceptors
    /\ main' = "serving" /\ running' = TRUE
    /\ UNCHANGED <<loader, queue, dispatcher, gameVars, acceptors, deathTimer, port,
                   pendingStart, timer, budgets>>

MainRefuses ==
    /\ main = "told" /\ ~acceptors
    /\ main' = "joining"
    /\ queue' = Append(queue, <<"do", "terminate">>)
    /\ UNCHANGED <<loader, dispatcher, gameVars, netVars, budgets>>

\* ServiceManager::die, three seconds after stop: io_service.run returns.
ServiceManagerDies ==
    /\ main = "serving" /\ deathTimer
    /\ main' = "joining" /\ deathTimer' = FALSE
    /\ UNCHANGED <<loader, queue, dispatcher, gameVars, running, acceptors, port,
                   pendingStart, timer, budgets>>

MainExits ==
    /\ main = "joining" /\ dispatcher = "TERMINATED"
    /\ main' = "exited"
    /\ UNCHANGED <<loader, queue, dispatcher, gameVars, netVars, budgets>>

\* g_loaderSignal.notify_all: nothing is kept for a thread that does not
\* wait yet.
NotifyMain == main' = IF main = "waiting" THEN "told" ELSE main

-----------------------------------------------------------------------------
(* The game state.  The mutants of this module are named for what they get *)
(* wrong and stand before the definition they change.                      *)

\* Player::onRemoveCreature of the players in who: each is saved, with three
\* tries; failed are those whose tries all fail.
Leave(who, failed) ==
    /\ online' = online \ who
    /\ dirty' = dirty \ (who \ failed)
    /\ unsaved' = unsaved \cup failed

\* The database fails the savings of the players in who.
SavesFail(who) ==
    /\ failures + Cardinality(who) <= MaxFailures
    /\ failures' = failures + Cardinality(who)

\* saveGameState when nobody is removed: everyone online is saved.
SaveAll(failed) ==
    /\ dirty' = dirty \ (online \ failed)
    /\ UNCHANGED <<online, unsaved, late>>

\* saveGameState and Map::clean go to MAINTAIN and come back to NORMAL, and
\* so leave every other state but MAINTAIN alone.
AfterMaintain(s) == IF s = "MAINTAIN" THEN "NORMAL" ELSE s

\* Those setGameState(CLOSED) kicks.
Unwelcome == online \ AlwaysLogin

\* setGameState(SHUTDOWN): everyone is kicked, the last task is queued, and
\* the threads take nothing more.
ShutDown(rest) ==
    /\ gameState' = "SHUTDOWN"
    /\ \E failed \in SUBSET (online \cap dirty) :
         Leave(online, failed) /\ SavesFail(failed)
    /\ queue' = Append(rest, <<"do", "shutdown">>)
    /\ dispatcher' = "CLOSING"
    /\ UNCHANGED late

\* setGameState(CLOSED): players without the flag are kicked, the others
\* saved by the saveGameState that follows.
Close(rest) ==
    /\ gameState' = "CLOSED"
    /\ \E failed \in SUBSET (online \cap dirty) :
         /\ SavesFail(failed)
         /\ online' = online \ Unwelcome
         /\ dirty' = dirty \ (online \ failed)
         /\ unsaved' = unsaved \cup (failed \cap Unwelcome)
    /\ queue' = rest
    /\ UNCHANGED <<dispatcher, late>>

\* setGameState(s) as a task before the others, rest.
SetGameState(s, rest) ==
    \/ /\ gameState \in {"SHUTDOWN", s}
       /\ queue' = rest
       /\ UNCHANGED <<dispatcher, gameVars, failures>>
    \/ /\ gameState \notin {"SHUTDOWN", s}
       /\ \/ s = "SHUTDOWN" /\ ShutDown(rest)
          \/ s = "CLOSED" /\ Close(rest)
          \/ /\ s \notin {"SHUTDOWN", "CLOSED"}
             /\ gameState' = s /\ queue' = rest
             /\ UNCHANGED <<dispatcher, online, dirty, unsaved, late, failures>>

-----------------------------------------------------------------------------
(* The service port.                                                       *)

\* Mutant: pendingStart is left as it was.
OpenStillPending(works) ==
    /\ port' = IF works THEN "open" ELSE "closed"
    /\ UNCHANGED pendingStart
    /\ timer' = (timer \/ (~works /\ dispatcher = "RUNNING"))

\* ServicePort::open: the port listens, or failing that a timer will try
\* again.  The scheduler takes no timer once it is closing, which it is when
\* the dispatcher is.
Open(works) ==
    /\ port' = IF works THEN "open" ELSE "closed"
    /\ pendingStart' = ~works
    /\ timer' = (timer \/ (~works /\ dispatcher = "RUNNING"))

PortFails(works) ==
    works \/ failures < MaxFailures

Fails(works) == failures' = IF works THEN failures ELSE failures + 1

\* onAccept with an error: the port is closed, and a timer set if none is.
\* (Were one set, the acceptor would stay open and nobody accept from it.)
AcceptFails ==
    /\ main = "serving" /\ port = "open"
    /\ failures < MaxFailures /\ failures' = failures + 1
    /\ IF pendingStart
       THEN port' = "deaf" /\ UNCHANGED <<pendingStart, timer>>
       ELSE /\ port' = "closed" /\ pendingStart' = TRUE
            /\ timer' = (dispatcher = "RUNNING")
    /\ UNCHANGED <<main, loader, queue, dispatcher, gameVars, running, acceptors, deathTimer,
                   requests, logins>>

\* The timer goes off: openAcceptor becomes a task, if the dispatcher takes it.
TimerFires ==
    /\ timer
    /\ timer' = FALSE
    /\ queue' = IF dispatcher = "RUNNING" THEN Append(queue, <<"do", "open">>) ELSE queue
    /\ UNCHANGED <<main, loader, dispatcher, gameVars, running, acceptors, deathTimer, port,
                   pendingStart, budgets>>

\* onStopServer, posted by stop, runs on the network thread.
StopServer ==
    /\ main = "serving" /\ deathTimer /\ port = "open"
    /\ port' = "closed"
    /\ UNCHANGED <<main, loader, queue, dispatcher, gameVars, running, acceptors, deathTimer,
                   pendingStart, timer, budgets>>

\* ServiceManager::stop.
StopServices ==
    IF running
    THEN running' = FALSE /\ acceptors' = FALSE /\ deathTimer' = TRUE
    ELSE UNCHANGED <<running, acceptors, deathTimer>>

-----------------------------------------------------------------------------
(* The network thread and the signals, while io_service runs.              *)

\* A request to save, clean or set the state: SIGUSR1, SIGTERM, SIGINT, a
\* script's Game.setGameState, saveServer or cleanMap.
Requests == {<<"do", "save">>, <<"do", "clean">>, <<"set", "SHUTDOWN">>, <<"set", "CLOSED">>,
             <<"set", "NORMAL">>, <<"set", "CLOSING">>, <<"set", "MAINTAIN">>}

Ask(t) ==
    /\ main = "serving"
    /\ requests < MaxRequests /\ requests' = requests + 1
    /\ queue' = IF dispatcher = "RUNNING" THEN Append(queue, t) ELSE queue
    /\ UNCHANGED <<main, loader, dispatcher, gameVars, netVars, logins, failures>>

Queued(t) == \E i \in DOMAIN queue : queue[i] = t

\* onRecvFirstMessage: refused in three states, then login is queued.
AskLogin(p) ==
    /\ main = "serving" /\ port = "open"
    /\ logins < MaxLogins /\ logins' = logins + 1
    /\ gameState \notin {"SHUTDOWN", "STARTUP", "MAINTAIN"}
    /\ dispatcher = "RUNNING"
    /\ p \notin online /\ ~Queued(<<"login", p>>)
    /\ queue' = Append(queue, <<"login", p>>)
    /\ UNCHANGED <<main, loader, dispatcher, gameVars, netVars, requests, failures>>

\* parsePacket of a logout.
AskLogout(p) ==
    /\ main = "serving"
    /\ p \in online /\ gameState # "SHUTDOWN" /\ dispatcher = "RUNNING"
    /\ ~Queued(<<"logout", p>>)
    /\ queue' = Append(queue, <<"logout", p>>)
    /\ UNCHANGED <<main, loader, dispatcher, gameVars, netVars, budgets>>

-----------------------------------------------------------------------------
(* The dispatcher's thread: one task.                                      *)

Runs(t) == dispatcher # "TERMINATED" /\ queue # <<>> /\ Head(queue) = t

Rest == Tail(queue)

LoaderStarts ==
    /\ Runs(<<"do", "load">>) /\ loader = "queued"
    /\ loader' = "loading" /\ gameState' = "STARTUP"
    /\ UNCHANGED <<main, queue, dispatcher, online, dirty, unsaved, late, netVars, budgets>>

LoaderFails ==
    /\ Runs(<<"do", "load">>) /\ loader = "loading"
    /\ loader' = "failed" /\ queue' = Rest
    /\ NotifyMain
    /\ UNCHANGED <<dispatcher, gameVars, netVars, budgets>>

\* The map is loaded: the state is INIT and the services get their port.
LoaderListens ==
    /\ Runs(<<"do", "load">>) /\ loader = "loading"
    /\ loader' = "listening" /\ gameState' = "INIT"
    /\ acceptors' = TRUE
    /\ \E works \in BOOLEAN : PortFails(works) /\ Open(works) /\ Fails(works)
    /\ UNCHANGED <<main, queue, dispatcher, online, dirty, unsaved, late, running, deathTimer,
                   requests, logins>>

LoaderDone ==
    /\ Runs(<<"do", "load">>) /\ loader = "listening"
    /\ loader' = "done" /\ gameState' = "NORMAL" /\ queue' = Rest
    /\ NotifyMain
    /\ UNCHANGED <<dispatcher, online, dirty, unsaved, late, netVars, budgets>>

SetTask(s) ==
    /\ Runs(<<"set", s>>)
    /\ SetGameState(s, Rest)
    /\ UNCHANGED <<main, loader, netVars, requests, logins>>

SaveTask ==
    /\ Runs(<<"do", "save">>)
    /\ \E failed \in SUBSET (online \cap dirty) : SaveAll(failed) /\ SavesFail(failed)
    /\ gameState' = AfterMaintain(gameState)
    /\ queue' = Rest
    /\ UNCHANGED <<main, loader, dispatcher, netVars, requests, logins>>

CleanTask ==
    /\ Runs(<<"do", "clean">>)
    /\ gameState' = AfterMaintain(gameState)
    /\ queue' = Rest
    /\ UNCHANGED <<main, loader, dispatcher, online, dirty, unsaved, late, netVars, budgets>>

OpenTask ==
    /\ Runs(<<"do", "open">>)
    /\ \E works \in BOOLEAN : PortFails(works) /\ Open(works) /\ Fails(works)
    /\ queue' = Rest
    /\ UNCHANGED <<main, loader, dispatcher, gameVars, running, acceptors, deathTimer, requests,
                   logins>>

\* Mutant: a closed game is not checked.
RefusedInClosing == {"CLOSING"}

\* The states in which ProtocolGame::login refuses a player without the flag.
RefusedIn == {"CLOSING", "CLOSED"}

\* ProtocolGame::login: placed, with changes to store (the login's own).
LoginTask(p) ==
    /\ Runs(<<"login", p>>)
    /\ IF p \in online \/ (gameState \in RefusedIn /\ p \notin AlwaysLogin)
       THEN UNCHANGED gameVars
       ELSE /\ online' = online \cup {p} /\ dirty' = dirty \cup {p}
            /\ unsaved' = unsaved \ {p}
            /\ late' = IF gameState = "SHUTDOWN" THEN late \cup {p} ELSE late
            /\ UNCHANGED gameState
    /\ queue' = Rest
    /\ UNCHANGED <<main, loader, dispatcher, netVars, budgets>>

LogoutTask(p) ==
    /\ Runs(<<"logout", p>>)
    /\ \E failed \in SUBSET (online \cap dirty \cap {p}) :
         Leave(online \cap {p}, failed) /\ SavesFail(failed)
    /\ queue' = Rest
    /\ UNCHANGED <<main, loader, dispatcher, gameState, late, netVars, requests, logins>>

\* A player does something worth saving.
Plays(p) ==
    /\ p \in online /\ p \notin dirty /\ gameState # "SHUTDOWN"
    /\ dispatcher = "RUNNING"
    /\ dirty' = dirty \cup {p}
    /\ UNCHANGED <<main, loader, queue, dispatcher, gameState, online, unsaved, late, netVars,
                   budgets>>

\* Game::shutdown: the threads are told to end, the services stopped.
ShutdownTask ==
    /\ Runs(<<"do", "shutdown">>)
    /\ queue' = Append(Rest, <<"do", "terminate">>)
    /\ StopServices
    /\ UNCHANGED <<main, loader, dispatcher, gameVars, port, pendingStart, timer, budgets>>

TerminateTask ==
    /\ Runs(<<"do", "terminate">>)
    /\ dispatcher' = "TERMINATED" /\ queue' = Rest
    /\ UNCHANGED <<main, loader, gameVars, netVars, budgets>>

-----------------------------------------------------------------------------
MainThread == MainWaits \/ MainServes \/ MainRefuses \/ ServiceManagerDies \/ MainExits

Loader == LoaderStarts \/ LoaderFails \/ LoaderListens \/ LoaderDone

DispatcherThread ==
    \/ Loader \/ SaveTask \/ CleanTask \/ OpenTask \/ ShutdownTask \/ TerminateTask
    \/ \E s \in States : SetTask(s)
    \/ \E p \in Character : LoginTask(p) \/ LogoutTask(p)

Environment ==
    \/ AcceptFails
    \/ \E t \in Requests : Ask(t)
    \/ \E p \in Character : AskLogin(p) \/ AskLogout(p) \/ Plays(p)

ServerNext == MainThread \/ DispatcherThread \/ Environment \/ TimerFires \/ StopServer

ServerSpec == ServerInit /\ [][ServerNext]_serverVars

\* The threads run while they can, and timers go off.
ServerFairness ==
    /\ WF_serverVars(MainThread) /\ WF_serverVars(DispatcherThread)
    /\ WF_serverVars(TimerFires) /\ WF_serverVars(StopServer)

-----------------------------------------------------------------------------
\* In a closed game there are only players with the flag, although logins
\* may have been queued before it was closed.
ClosedToOthers == gameState = "CLOSED" => online \subseteq AlwaysLogin

\* When the dispatcher has ended, what a player did is stored, unless the
\* database failed to store it when he left, or he came after the shutdown.
ProgressIsKept ==
    dispatcher = "TERMINATED" => dirty \subseteq (unsaved \cup late)

\* The two at once.
PlayersLeaveInTime == ClosedToOthers /\ ProgressIsKept

\* setGameState: "kick all players that are still online" (game.cpp): a game
\* that is shut down has no players.
NobodyStays == gameState = "SHUTDOWN" => online = {}

\* A shutdown asked for ends the process.
ShutdownEnds == (gameState = "SHUTDOWN") ~> (main = "exited")

\* A port whose accept failed listens again, unless the server shuts down.
PortRecovers ==
    (acceptors /\ port # "open") ~> (port = "open" \/ gameState = "SHUTDOWN")

\* What has been asked of the server comes to its end: the two at once.
ServerGoesOn == ShutdownEnds /\ PortRecovers

=============================================================================
