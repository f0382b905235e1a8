----------------------------- MODULE Dispatcher -----------------------------
(***************************************************************************)
(* The dispatcher (src/src/tasks.cpp, src/src/thread_holder_base.h): one worker    *)
(* thread runs the tasks every other thread of the server hands to         *)
(* addTask.  A critical section guarded by taskLock is one step; what the  *)
(* code does outside of it (the notify_one of addTask, the state test of   *)
(* the loop, running a task) is a step of its own.                         *)
(***************************************************************************)
EXTENDS Naturals, Sequences

CONSTANTS
    Caller,     (* threads that call addTask                              *)
    Task,       (* the task objects handed to addTask, each of them once  *)
    Timed,      (* those created with an expiration, see createTask       *)
    StopTask,   (* the task Dispatcher::shutdown queues                   *)
    Worker      (* the dispatcher's own thread                            *)

ASSUME DispatcherAssumption ==
    /\ Timed \subseteq Task
    /\ StopTask \notin Task
    /\ Worker \notin Caller

VARIABLES
    threadState,  (* ThreadHolder::threadState                             *)
    taskList,     (* the shared list                                       *)
    tmpTaskList,  (* the worker's private list                             *)
    current,      (* the task being run, as a sequence of at most one      *)
    pc,           (* where the worker is                                   *)
    woken,        (* a notify_one reached the waiting worker               *)
    notifier,     (* threads between unlock and notify_one in addTask      *)
    fate          (* what has become of every task object                  *)

dispatcherVars ==
    <<threadState, taskList, tmpTaskList, current, pc, woken, notifier, fate>>

Job == Task \cup {StopTask}

-----------------------------------------------------------------------------

DispatcherTypeOK ==
    /\ threadState \in {"RUNNING", "CLOSING", "TERMINATED"}
    /\ taskList \in Seq(Job)
    /\ tmpTaskList \in Seq(Job)
    /\ current \in {<<>>} \cup {<<j>> : j \in Job}
    /\ pc \in {"test", "lock", "wait", "next", "run", "exit"}
    /\ woken \in BOOLEAN
    /\ notifier \subseteq Caller \cup {Worker}
    /\ fate \in [Job -> {"new", "queued", "executed", "expired", "deleted"}]

\* The state right after Dispatcher::start, called once by main.
DispatcherInit ==
    /\ threadState = "RUNNING"
    /\ taskList = <<>>
    /\ tmpTaskList = <<>>
    /\ current = <<>>
    /\ pc = "test"
    /\ woken = FALSE
    /\ notifier = {}
    /\ fate = [j \in Job |-> "new"]

-----------------------------------------------------------------------------
(* The callers.                                                            *)

\* A thread that has pushed onto the empty list still owes a notify_one; the
\* worker calls addTask only from a task it is running.
MayCall(c) ==
    /\ c \notin notifier
    /\ c = Worker => pc = "run"

\* Mutants of the actions below carry the name of what they get wrong.

\* do_signal computed after the push instead of before it.
AddTaskUnsignalled(c, t) ==
    /\ MayCall(c)
    /\ fate[t] = "new"
    /\ threadState = "RUNNING"
    /\ taskList' = Append(taskList, t)
    /\ fate' = [fate EXCEPT ![t] = "queued"]
    /\ UNCHANGED <<threadState, tmpTaskList, current, pc, woken, notifier>>

\* A push to the front of the list.
AddTaskInFront(c, t) ==
    /\ MayCall(c)
    /\ fate[t] = "new"
    /\ threadState = "RUNNING"
    /\ taskList' = <<t>> \o taskList
    /\ notifier' = IF taskList = <<>> THEN notifier \cup {c} ELSE notifier
    /\ fate' = [fate EXCEPT ![t] = "queued"]
    /\ UNCHANGED <<threadState, tmpTaskList, current, pc, woken>>

\* The critical section of addTask when the dispatcher accepts tasks.
AddTask(c, t) ==
    /\ MayCall(c)
    /\ fate[t] = "new"
    /\ threadState = "RUNNING"
    /\ taskList' = Append(taskList, t)
    /\ notifier' = IF taskList = <<>> THEN notifier \cup {c} ELSE notifier
    /\ fate' = [fate EXCEPT ![t] = "queued"]
    /\ UNCHANGED <<threadState, tmpTaskList, current, pc, woken>>

\* The critical section of addTask when it does not: the task is deleted.
RefuseTask(c, t) ==
    /\ MayCall(c)
    /\ fate[t] = "new"
    /\ threadState # "RUNNING"
    /\ fate' = [fate EXCEPT ![t] = "deleted"]
    /\ UNCHANGED <<threadState, taskList, tmpTaskList, current, pc, woken, notifier>>

\* notify_one at the end of addTask, outside of the lock.  It is lost when
\* the worker is not waiting.
Notify(c) ==
    /\ c \in notifier
    /\ notifier' = notifier \ {c}
    /\ woken' = (woken \/ pc = "wait")
    /\ UNCHANGED <<threadState, taskList, tmpTaskList, current, pc, fate>>

\* ThreadHolder::stop.  Its only caller is Game::setGameState, in a task, once
\* (a second GAME_STATE_SHUTDOWN returns early) and before the task that
\* calls Dispatcher::shutdown.
Stop ==
    /\ pc = "run"
    /\ fate[StopTask] = "new"
    /\ threadState = "RUNNING"
    /\ threadState' = "CLOSING"
    /\ UNCHANGED <<taskList, tmpTaskList, current, pc, woken, notifier, fate>>

\* Dispatcher::shutdown queues its task in any state and notifies in the
\* same critical section.
Shutdown ==
    /\ fate[StopTask] = "new"
    /\ taskList' = Append(taskList, StopTask)
    /\ woken' = (woken \/ pc = "wait")
    /\ fate' = [fate EXCEPT ![StopTask] = "queued"]
    /\ UNCHANGED <<threadState, tmpTaskList, current, pc, notifier>>

-----------------------------------------------------------------------------
(* The worker, threadMain.                                                 *)

\* A loop that ends as soon as stop was called.
TestStateHasty ==
    /\ pc = "test"
    /\ pc' = IF threadState # "RUNNING" THEN "exit" ELSE "lock"
    /\ UNCHANGED <<threadState, taskList, tmpTaskList, current, woken, notifier, fate>>

TestState ==
    /\ pc = "test"
    /\ pc' = IF threadState = "TERMINATED" THEN "exit" ELSE "lock"
    /\ UNCHANGED <<threadState, taskList, tmpTaskList, current, woken, notifier, fate>>

\* A copy instead of a swap.
TakeCopy ==
    /\ tmpTaskList' = taskList
    /\ pc' = "next"
    /\ UNCHANGED <<threadState, taskList, current, notifier, fate>>

\* The swap of the lists.
Take ==
    /\ tmpTaskList' = taskList
    /\ taskList' = tmpTaskList
    /\ pc' = "next"
    /\ UNCHANGED <<threadState, current, notifier, fate>>

LockAndTake ==
    /\ pc = "lock"
    /\ taskList # <<>>
    /\ Take
    /\ UNCHANGED woken

LockAndWait ==
    /\ pc = "lock"
    /\ taskList = <<>>
    /\ pc' = "wait"
    /\ woken' = FALSE
    /\ UNCHANGED <<threadState, taskList, tmpTaskList, current, notifier, fate>>

\* The wait returns after a notify_one and does not test the list again.
WakeUp ==
    /\ pc = "wait"
    /\ woken
    /\ woken' = FALSE
    /\ Take

\* A condition variable may also return without a notify_one.
SpuriousWakeUp ==
    /\ pc = "wait"
    /\ ~woken
    /\ UNCHANGED woken
    /\ Take

\* hasExpired: the task is deleted without being run.
SkipExpired ==
    /\ pc = "next"
    /\ tmpTaskList # <<>>
    /\ Head(tmpTaskList) \in Timed
    /\ fate' = [fate EXCEPT ![Head(tmpTaskList)] = "expired"]
    /\ tmpTaskList' = Tail(tmpTaskList)
    /\ UNCHANGED <<threadState, taskList, current, pc, woken, notifier>>

BeginTask ==
    /\ pc = "next"
    /\ tmpTaskList # <<>>
    /\ current' = <<Head(tmpTaskList)>>
    /\ tmpTaskList' = Tail(tmpTaskList)
    /\ pc' = "run"
    /\ UNCHANGED <<threadState, taskList, woken, notifier, fate>>

\* The task returns and is deleted; the task of shutdown has set the state.
EndTask ==
    /\ pc = "run"
    /\ Worker \notin notifier
    /\ fate' = [fate EXCEPT ![Head(current)] = "executed"]
    /\ threadState' = IF current = <<StopTask>> THEN "TERMINATED" ELSE threadState
    /\ current' = <<>>
    /\ pc' = "next"
    /\ UNCHANGED <<taskList, tmpTaskList, woken, notifier>>

EndBatch ==
    /\ pc = "next"
    /\ tmpTaskList = <<>>
    /\ pc' = "test"
    /\ UNCHANGED <<threadState, taskList, tmpTaskList, current, woken, notifier, fate>>

-----------------------------------------------------------------------------

WorkerStep ==
    \/ TestState \/ LockAndTake \/ LockAndWait \/ WakeUp
    \/ SkipExpired \/ BeginTask \/ EndTask \/ EndBatch

DispatcherNext ==
    \/ \E c \in Caller \cup {Worker}, t \in Task : AddTask(c, t) \/ RefuseTask(c, t)
    \/ \E c \in Caller \cup {Worker} : Notify(c)
    \/ Stop
    \/ Shutdown
    \/ WorkerStep
    \/ SpuriousWakeUp

DispatcherSpec == DispatcherInit /\ [][DispatcherNext]_dispatcherVars

\* The threads are scheduled by the operating system: a worker that can move
\* does, and a thread inside addTask reaches its notify_one.  No fairness for
\* the calls themselves or for spurious wake-ups.
DispatcherFairness ==
    /\ WF_dispatcherVars(WorkerStep)
    /\ \A c \in Caller \cup {Worker} : WF_dispatcherVars(Notify(c))

DispatcherFairSpec == DispatcherSpec /\ DispatcherFairness

-----------------------------------------------------------------------------
(* Properties.                                                             *)

\* A worker that sleeps while tasks are waiting is about to be woken: a
\* notify_one has reached it, or the thread whose push found the list empty
\* has not called notify_one yet.  (addTask computes do_signal inside the
\* lock and signals after it.)
NoLostWakeup ==
    pc = "wait" /\ taskList # <<>> => woken \/ notifier # {}

\* No task object is both in the queue and deleted, and none is queued
\* twice: the objects in the three places the code keeps them are exactly
\* the queued ones.
InPlay == current \o tmpTaskList \o taskList

OwnedOnce ==
    /\ \A j \in Job :
         (fate[j] = "queued") <=> (\E i \in DOMAIN InPlay : InPlay[i] = j)
    /\ \A i, k \in DOMAIN InPlay : InPlay[i] = InPlay[k] => i = k

\* Tasks leave in the order in which they were accepted, whatever the
\* threads do with the two lists: the dispatcher implements TaskQueue.
Abstract == INSTANCE TaskQueue WITH
    Control <- {StopTask},
    pending <- InPlay,
    open <- (threadState = "RUNNING")

ImplementsTaskQueue == Abstract!QueueSpec

\* A dispatcher that has stopped accepting tasks never starts again, and a
\* terminated one stays so; only the task of shutdown terminates it.
StateMovesForward ==
    [][ /\ threadState' = "RUNNING" => threadState = "RUNNING"
        /\ threadState = "TERMINATED" => threadState' = "TERMINATED"
        /\ threadState' = "TERMINATED" /\ threadState # "TERMINATED"
             => current = <<StopTask>>
      ]_dispatcherVars

\* Every accepted task is eventually run or found expired, unless the task
\* of shutdown has ended the dispatcher before the worker came to it: stop
\* alone loses no task.
AcceptedIsServed ==
    \A j \in Job : fate[j] = "queued" ~> (fate[j] # "queued" \/ threadState = "TERMINATED")

=============================================================================
