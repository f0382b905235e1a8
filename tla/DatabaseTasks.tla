---------------------------- MODULE DatabaseTasks ----------------------------
(***************************************************************************)
(* The asynchronous queries (src/src/databasetasks.cpp): a worker thread   *)
(* executes them one by one, and flush and shutdown, called from the       *)
(* dispatcher, execute what is still queued on the calling thread.  All    *)
(* calls come from the dispatcher thread, the "caller" below: addTask from *)
(* the handlers it runs, flush from Game::saveGameState, stop from         *)
(* Game::setGameState and shutdown from Game::shutdown.  Critical sections *)
(* are one step; executing a query is a step outside of the lock.          *)
(***************************************************************************)
EXTENDS Naturals, Sequences, FiniteSets, SequencesExt

CONSTANTS
    Query,        (* the queries handed to addTask, each once              *)
    WithCallback  (* those that have a callback                            *)

ASSUME DatabaseTasksAssumption == WithCallback \subseteq Query

VARIABLES
    workerState,     (* ThreadHolder::workerState                          *)
    queries,           (* the list of queries                                *)
    workerAt,              (* where the worker is                                *)
    querying,         (* the query in each thread's hands                   *)
    notified,           (* a notify_one reached the waiting worker            *)
    callerPc,        (* where the caller is                                *)
    executed,        (* the queries the database has executed, in order    *)
    accepted,        (* the queries addTask has queued, in order           *)
    callbacks,          (* the queries whose callback is in the dispatcher    *)
    dispatcherOpen   (* g_dispatcher still accepts queries                   *)

dbVars == <<workerState, queries, workerAt, querying, notified, callerPc, executed,
            accepted, callbacks, dispatcherOpen>>

Thread == {"worker", "caller"}

Held == UNION {ToSet(querying[t]) : t \in Thread}

DatabaseTypeOK ==
    /\ workerState \in {"TERMINATED", "RUNNING", "CLOSING"}
    /\ queries \in Seq(Query)
    /\ workerAt \in {"off", "test", "lock", "wait", "run", "exit"}
    /\ querying \in [Thread -> {<<>>} \cup {<<q>> : q \in Query}]
    /\ notified \in BOOLEAN
    /\ callerPc \in {"idle", "notify", "flush", "flushRun",
                     "stopping", "closed", "drain", "drainRun", "done"}
    /\ executed \in Seq(Query)
    /\ accepted \in Seq(Query)
    /\ callbacks \subseteq WithCallback
    /\ dispatcherOpen \in BOOLEAN

\* Before DatabaseTasks::start the thread state is TERMINATED.
DatabaseInit ==
    /\ workerState = "TERMINATED"
    /\ queries = <<>>
    /\ workerAt = "off"
    /\ querying = [t \in Thread |-> <<>>]
    /\ notified = FALSE
    /\ callerPc = "idle"
    /\ executed = <<>>
    /\ accepted = <<>>
    /\ callbacks = {}
    /\ dispatcherOpen = TRUE

-----------------------------------------------------------------------------
(* Steps both threads take.  The mutants of this module are named for what *)
(* they get wrong and stand before the definition they change.             *)

\* The thread holds the lock and takes the first query.
TakeFront(t) ==
    /\ querying' = [querying EXCEPT ![t] = <<Head(queries)>>]
    /\ queries' = Tail(queries)

\* A callback posted for every query.
RunTaskAlways(t) ==
    LET q == Head(querying[t]) IN
    /\ executed' = Append(executed, q)
    /\ callbacks' = IF dispatcherOpen THEN callbacks \cup {q} ELSE callbacks
    /\ querying' = [querying EXCEPT ![t] = <<>>]

\* runTask executes the query and hands its callback to the dispatcher,
\* which deletes it when it is closing.
RunTask(t) ==
    LET q == Head(querying[t]) IN
    /\ executed' = Append(executed, q)
    /\ callbacks' = IF q \in WithCallback /\ dispatcherOpen
                 THEN callbacks \cup {q} ELSE callbacks
    /\ querying' = [querying EXCEPT ![t] = <<>>]

\* notify_one wakes the worker only if it is waiting.
Signal == notified' = (notified \/ workerAt = "wait")

-----------------------------------------------------------------------------
(* The caller.                                                             *)

\* start, called by mainLoader before any service runs.
Start ==
    /\ callerPc = "idle"
    /\ workerAt = "off"
    /\ workerState' = "RUNNING"
    /\ workerAt' = "test"
    /\ UNCHANGED <<queries, querying, notified, callerPc, executed, accepted, callbacks,
                   dispatcherOpen>>

\* The emptiness of the list tested after the push.
AddQueryUnsignalled(q) ==
    /\ callerPc = "idle"
    /\ q \notin ToSet(accepted)
    /\ workerState = "RUNNING"
    /\ queries' = Append(queries, q)
    /\ accepted' = Append(accepted, q)
    /\ UNCHANGED <<workerState, workerAt, querying, notified, callerPc, executed, callbacks,
                   dispatcherOpen>>

\* addTask when the worker runs; the signal is sent after the unlock.
AddQuery(q) ==
    /\ callerPc = "idle"
    /\ q \notin ToSet(accepted)
    /\ workerState = "RUNNING"
    /\ queries' = Append(queries, q)
    /\ accepted' = Append(accepted, q)
    /\ callerPc' = IF queries = <<>> THEN "notify" ELSE "idle"
    /\ UNCHANGED <<workerState, workerAt, querying, notified, executed, callbacks, dispatcherOpen>>

NotifyWorker ==
    /\ callerPc = "notify"
    /\ callerPc' = "idle"
    /\ Signal
    /\ UNCHANGED <<workerState, queries, workerAt, querying, executed, accepted, callbacks,
                   dispatcherOpen>>

\* flush, from Game::saveGameState.
Flush ==
    /\ callerPc = "idle"
    /\ callerPc' = "flush"
    /\ UNCHANGED <<workerState, queries, workerAt, querying, notified, executed, accepted,
                   callbacks, dispatcherOpen>>

\* One turn of the loop of flush, or its end.  next and after name where the
\* caller continues: flush is called by itself and by shutdown.
FlushTake(from, next) ==
    /\ callerPc = from
    /\ queries # <<>>
    /\ TakeFront("caller")
    /\ callerPc' = next
    /\ UNCHANGED <<workerState, workerAt, notified, executed, accepted, callbacks, dispatcherOpen>>

FlushRun(from, next) ==
    /\ callerPc = from
    /\ RunTask("caller")
    /\ callerPc' = next
    /\ UNCHANGED <<workerState, queries, workerAt, notified, accepted, dispatcherOpen>>

FlushEnd ==
    /\ callerPc = "flush"
    /\ queries = <<>>
    /\ callerPc' = "idle"
    /\ UNCHANGED <<workerState, queries, workerAt, querying, notified, executed, accepted,
                   callbacks, dispatcherOpen>>

\* Game::setGameState(GAME_STATE_SHUTDOWN) stops the database thread and then
\* the dispatcher.  addTask drops every query from here on.
DatabaseStop ==
    /\ callerPc = "idle"
    /\ workerState = "RUNNING"
    /\ workerState' = "CLOSING"
    /\ callerPc' = "stopping"
    /\ UNCHANGED <<queries, workerAt, querying, notified, executed, accepted, callbacks,
                   dispatcherOpen>>

StopDispatcher ==
    /\ callerPc = "stopping"
    /\ dispatcherOpen' = FALSE
    /\ callerPc' = "closed"
    /\ UNCHANGED <<workerState, queries, workerAt, querying, notified, executed, accepted, callbacks>>

\* shutdown sets the state under the lock, flushes and notifies.
DatabaseShutdown ==
    /\ callerPc = "closed"
    /\ workerState' = "TERMINATED"
    /\ callerPc' = "drain"
    /\ UNCHANGED <<queries, workerAt, querying, notified, executed, accepted, callbacks,
                   dispatcherOpen>>

ShutdownEnd ==
    /\ callerPc = "drain"
    /\ queries = <<>>
    /\ Signal
    /\ callerPc' = "done"
    /\ UNCHANGED <<workerState, queries, workerAt, querying, executed, accepted, callbacks,
                   dispatcherOpen>>

FlushStep ==
    \/ FlushTake("flush", "flushRun") \/ FlushRun("flushRun", "flush") \/ FlushEnd
    \/ FlushTake("drain", "drainRun") \/ FlushRun("drainRun", "drain") \/ ShutdownEnd

-----------------------------------------------------------------------------
(* The worker, threadMain.                                                 *)

\* The loop tests the state without the lock.
TestWorkerState ==
    /\ workerAt = "test"
    /\ workerAt' = IF workerState = "TERMINATED" THEN "exit" ELSE "lock"
    /\ UNCHANGED <<workerState, queries, querying, notified, callerPc, executed,
                   accepted, callbacks, dispatcherOpen>>

Wait ==
    /\ workerAt = "lock"
    /\ queries = <<>>
    /\ workerAt' = "wait"
    /\ notified' = FALSE
    /\ UNCHANGED <<workerState, queries, querying, callerPc, executed, accepted,
                   callbacks, dispatcherOpen>>

\* What follows the wait, or its absence: a query is taken if there is one.
TakeOrLoop ==
    /\ IF queries = <<>> THEN workerAt' = "test" /\ UNCHANGED <<queries, querying>>
                       ELSE workerAt' = "run" /\ TakeFront("worker")
    /\ UNCHANGED <<workerState, callerPc, executed, accepted, callbacks, dispatcherOpen>>

LockAndTakeQuery ==
    /\ workerAt = "lock"
    /\ queries # <<>>
    /\ TakeOrLoop
    /\ UNCHANGED notified

WakeWorker ==
    /\ workerAt = "wait"
    /\ notified
    /\ notified' = FALSE
    /\ TakeOrLoop

WakeUpUncalled ==
    /\ workerAt = "wait"
    /\ ~notified
    /\ UNCHANGED notified
    /\ TakeOrLoop

WorkerRun ==
    /\ workerAt = "run"
    /\ RunTask("worker")
    /\ workerAt' = "test"
    /\ UNCHANGED <<workerState, queries, notified, callerPc, accepted, dispatcherOpen>>

QueryWorkerStep == TestWorkerState \/ Wait \/ LockAndTakeQuery \/ WakeWorker \/ WorkerRun

-----------------------------------------------------------------------------

CallerStep == NotifyWorker \/ FlushStep \/ StopDispatcher \/ DatabaseShutdown

DatabaseNext ==
    \/ Start
    \/ \E q \in Query : AddQuery(q)
    \/ Flush
    \/ DatabaseStop
    \/ CallerStep
    \/ QueryWorkerStep
    \/ WakeUpUncalled

\* Both threads are scheduled; a call once begun is finished, and the task
\* that calls shutdown is already queued when stop is called.  Nothing
\* forces a call of addTask, flush or stop, nor a spurious wake-up.
DatabaseFairness == WF_dbVars(QueryWorkerStep) /\ WF_dbVars(CallerStep)

DatabaseSpec == DatabaseInit /\ [][DatabaseNext]_dbVars /\ DatabaseFairness

-----------------------------------------------------------------------------
(* Properties.                                                             *)

\* An accepted query is in exactly one place: the list, the hands of one of
\* the two threads, or the database; none is executed twice.  The threads
\* may execute queries out of order, by one: a query is overtaken only while
\* the other thread has it in its hands.
QueryInOnePlace ==
    /\ ToSet(accepted) = ToSet(queries) \cup Held \cup ToSet(executed)
    /\ Len(accepted) = Len(queries) + Len(executed)
                       + Cardinality({t \in Thread : querying[t] # <<>>})
    /\ \A i, k \in DOMAIN accepted :
          i < k /\ accepted[k] \in ToSet(executed)
          => accepted[i] \in ToSet(executed) \cup Held

\* Every accepted query is eventually executed, whatever happens to the
\* worker's wake-ups.
AcceptedIsExecuted ==
    \A q \in Query : q \in ToSet(accepted) ~> q \in ToSet(executed)

\* At once: a query that is accepted is executed, once, and none passes it
\* but the one in the other thread's hands.
QueriesExecuted == []QueryInOnePlace /\ AcceptedIsExecuted

\* "case SIGTERM: //Shuts the server down" (src/src/signals.cpp): once
\* shutdown has returned the worker ends, and with it the join of main.
ShutdownEndsWorker == callerPc = "done" ~> workerAt = "exit"

=============================================================================
