------------------------------ MODULE Scheduler ------------------------------
(***************************************************************************)
(* The scheduler (src/src/scheduler.cpp): one thread runs an io_context.   *)
(* addEvent and stopEvent post handlers to it from the dispatcher thread;  *)
(* a timer that expires or is cancelled queues its own handler, and that   *)
(* handler hands the task to the dispatcher or deletes it.  Handlers run   *)
(* one at a time in the order in which they were queued.                   *)
(* The io_context and its timers are Boost.Asio's, modelled from their use.*)
(***************************************************************************)
EXTENDS Naturals, Sequences, FiniteSets, Functions, NoValue

CONSTANTS
    EventTask,     (* the scheduler tasks, each added once                        *)
    IdSpace   (* event ids are unsigned, of this many values (2^32)          *)

ASSUME SchedulerAssumption == IdSpace \in Nat \ {0} /\ None \notin EventTask

VARIABLES
    terminated,  (* getState() = THREAD_STATE_TERMINATED                     *)
    stopped,     (* io_context.stop() was called                             *)
    lastEventId,
    eventId,     (* SchedulerTask::eventId, 0 before addEvent                *)
    posted,      (* the handlers of the io_context, oldest first             *)
    timers,      (* eventIdTimerMap: the task whose wait is pending, by id   *)
    outcome,     (* what became of each task                                 *)
    asked        (* the ids stopEvent was called with                        *)

schedVars == <<terminated, stopped, lastEventId, eventId, posted, timers, outcome, asked>>

Id == 0 .. IdSpace - 1

InsertOf(t) == [kind |-> "insert", task |-> t]
WaitOver(t, error) == [kind |-> "over", task |-> t, aborted |-> error]
CancelOf(id) == [kind |-> "cancel", id |-> id]
StopContext == [kind |-> "stop"]

Handler == {InsertOf(t) : t \in EventTask} \cup {StopContext}
           \cup {WaitOver(t, error) : t \in EventTask, error \in BOOLEAN}
           \cup {CancelOf(id) : id \in Id}

SchedulerTypeOK ==
    /\ terminated \in BOOLEAN
    /\ stopped \in BOOLEAN
    /\ lastEventId \in Id
    /\ eventId \in [EventTask -> Id]
    /\ posted \in Seq(Handler)
    /\ timers \in UNION {[ids -> EventTask \cup {None}] : ids \in SUBSET Id}
    /\ outcome \in [EventTask -> {"new", "added", "dispatched", "deleted"}]
    /\ asked \subseteq Id

SchedulerInit ==
    /\ terminated = FALSE
    /\ stopped = FALSE
    /\ lastEventId \in Id
    /\ eventId = [t \in EventTask |-> 0]
    /\ posted = <<>>
    /\ timers = <<>>
    /\ outcome = [t \in EventTask |-> "new"]
    /\ asked = {}

-----------------------------------------------------------------------------
(* The dispatcher thread.                                                  *)

(* The mutants of this module are named for what they get wrong and stand  *)
(* before the definition they change.                                      *)

\* addEvent: a fresh id, then a handler that arms the timer.
AddEvent(t) ==
    /\ outcome[t] = "new"
    /\ lastEventId' = (lastEventId + 1) % IdSpace
    /\ eventId' = [eventId EXCEPT ![t] = (lastEventId + 1) % IdSpace]
    /\ posted' = Append(posted, InsertOf(t))
    /\ outcome' = [outcome EXCEPT ![t] = "added"]
    /\ UNCHANGED <<terminated, stopped, timers, asked>>

\* stopEvent with an id addEvent has returned; id 0 is ignored.
StopEvent(id) ==
    /\ id # 0
    /\ id \notin asked
    /\ \E t \in EventTask : outcome[t] # "new" /\ eventId[t] = id
    /\ posted' = Append(posted, CancelOf(id))
    /\ asked' = asked \cup {id}
    /\ UNCHANGED <<terminated, stopped, lastEventId, eventId, timers, outcome>>

SchedulerShutdown ==
    /\ ~terminated
    /\ terminated' = TRUE
    /\ posted' = Append(posted, StopContext)
    /\ UNCHANGED <<stopped, lastEventId, eventId, timers, outcome, asked>>

-----------------------------------------------------------------------------
(* The io_context.                                                         *)

Run(kind) ==
    /\ ~stopped
    /\ posted # <<>>
    /\ Head(posted).kind = kind

\* The ids whose timer has a pending wait.
Waiting == {id \in DOMAIN timers : timers[id] # None}

\* The pending wait of a timer, if there is one, ends with operation_aborted.
AbortedWait(id) ==
    IF id \in Waiting
    THEN <<WaitOver(timers[id], TRUE)>> ELSE <<>>

\* The timer of an id, whether it is in the map or not, now waits for w.
SetTimer(id, w) ==
    [i \in DOMAIN timers \cup {id} |-> IF i = id THEN w ELSE timers[i]]

\* A timer expires: its handler is queued and the wait is over.
Expire(id) ==
    /\ ~stopped
    /\ id \in Waiting
    /\ posted' = Append(posted, WaitOver(timers[id], FALSE))
    /\ timers' = [timers EXCEPT ![id] = None]
    /\ UNCHANGED <<terminated, stopped, lastEventId, eventId, outcome, asked>>

\* The timer is inserted but async_wait is not called.
RunInsertUnarmed ==
    /\ Run("insert")
    /\ LET id == eventId[Head(posted).task]
       IN  /\ posted' = Tail(posted) \o AbortedWait(id)
           /\ timers' = SetTimer(id, None)
    /\ UNCHANGED <<terminated, stopped, lastEventId, eventId, outcome, asked>>

\* The handler of addEvent.  emplace keeps a timer that already has this id;
\* expires_from_now then aborts its wait before the new one starts.
RunInsert ==
    /\ Run("insert")
    /\ LET t == Head(posted).task
           id == eventId[t]
       IN  /\ posted' = Tail(posted) \o AbortedWait(id)
           /\ timers' = SetTimer(id, t)
    /\ UNCHANGED <<terminated, stopped, lastEventId, eventId, outcome, asked>>

\* cancel that leaves the wait pending.
RunCancelKept ==
    /\ Run("cancel")
    /\ posted' = Tail(posted) \o AbortedWait(Head(posted).id)
    /\ UNCHANGED <<terminated, stopped, lastEventId, eventId, timers, outcome, asked>>

\* The handler of stopEvent: an expired timer is beyond its reach.
RunCancel ==
    /\ Run("cancel")
    /\ LET id == Head(posted).id
       IN  /\ posted' = Tail(posted) \o AbortedWait(id)
           /\ timers' = IF id \in DOMAIN timers
                        THEN [timers EXCEPT ![id] = None] ELSE timers
    /\ UNCHANGED <<terminated, stopped, lastEventId, eventId, outcome, asked>>

\* The handler of a wait: the timer is erased, which aborts a wait that is
\* still pending on it, and the task is handed to the dispatcher or deleted.
\* The dispatcher itself may refuse it (and delete it) while it is closing.
RunOver ==
    /\ Run("over")
    /\ LET h == Head(posted)
           id == eventId[h.task]
       IN  /\ timers' = [i \in DOMAIN timers \ {id} |-> timers[i]]
           /\ posted' = Tail(posted) \o AbortedWait(id)
           /\ outcome' = [outcome EXCEPT ![h.task] =
                            IF h.aborted \/ terminated THEN "deleted" ELSE "dispatched"]
    /\ UNCHANGED <<terminated, stopped, lastEventId, eventId, asked>>

\* The handler of shutdown cancels every timer and stops the io_context: run
\* returns and the handlers still queued, the cancelled waits among them,
\* never execute.  The map of timers is unordered, and so are those waits.
RunStop ==
    /\ Run("stop")
    /\ stopped' = TRUE
    /\ \E order \in Bijection(1 .. Cardinality(Waiting), Waiting) :
          posted' = Tail(posted) \o [i \in DOMAIN order |-> WaitOver(timers[order[i]], TRUE)]
    /\ timers' = [i \in DOMAIN timers |-> None]
    /\ UNCHANGED <<terminated, lastEventId, eventId, outcome, asked>>

ContextStep ==
    \/ RunInsert \/ RunCancel \/ RunOver \/ RunStop

SchedulerNext ==
    \/ \E t \in EventTask : AddEvent(t)
    \/ \E id \in Id : StopEvent(id) \/ Expire(id)
    \/ SchedulerShutdown
    \/ ContextStep

\* The thread of the io_context runs, and timers expire.
SchedulerFairness ==
    /\ WF_schedVars(ContextStep)
    /\ \A id \in Id : WF_schedVars(Expire(id))

SchedulerSpec == SchedulerInit /\ [][SchedulerNext]_schedVars /\ SchedulerFairness

-----------------------------------------------------------------------------
(* Properties.                                                             *)

\* What OneShotTimers calls an outcome.
Status ==
    [t \in EventTask |-> CASE outcome[t] = "new" -> "idle"
                           [] outcome[t] = "added" -> "pending"
                           [] outcome[t] = "dispatched" -> "fired"
                           [] OTHER -> "cancelled"]

Promise == INSTANCE OneShotTimers WITH Event <- EventTask, status <- Status

\* Each event ends once, dispatched or deleted: the scheduler implements
\* OneShotTimers.
ImplementsTimers == Promise!TimersSpec

\* Every event is eventually dispatched or deleted, unless the server shuts
\* down first.
EventEnds ==
    \A t \in EventTask : outcome[t] = "added" ~> outcome[t] # "added" \/ terminated

=============================================================================
