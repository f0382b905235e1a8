---------------------------- MODULE ThreadsProofs ----------------------------
(***************************************************************************)
(* Proofs about the two queues that threads share.  The dispatcher, for    *)
(* any number of threads and tasks: type correctness, no lost wake-up, the *)
(* shape of the two lists, and that every step is a step of the abstract   *)
(* queue or leaves it alone.  The scheduler, for any tasks and any number  *)
(* of event ids: type correctness, that a task that was added is in        *)
(* exactly one place, and that every step is a step of OneShotTimers or    *)
(* leaves it alone.                                                        *)
(***************************************************************************)
EXTENDS Dispatcher, Scheduler, SequenceTheorems, FiniteSetTheorems, TLAPS

-----------------------------------------------------------------------------
(* The dispatcher.                                                         *)

(* The state variables have the types DispatcherTypeOK gives them.                   *)
THEOREM DispatcherTypeCorrect == DispatcherSpec => []DispatcherTypeOK
<1>1. DispatcherInit => DispatcherTypeOK
  <2> SUFFICES ASSUME DispatcherInit PROVE DispatcherTypeOK
    OBVIOUS
  <2>1. <<>> \in Seq(Job)
    OBVIOUS
  <2>2. fate \in [Job -> {"new", "queued", "executed", "expired", "deleted"}]
    BY DEF DispatcherInit
  <2>3. woken \in BOOLEAN
    BY DEF DispatcherInit
  <2> QED
    BY <2>1, <2>2, <2>3 DEF DispatcherInit, DispatcherTypeOK
<1>2. DispatcherTypeOK /\ [DispatcherNext]_dispatcherVars => DispatcherTypeOK'
  <2> SUFFICES ASSUME DispatcherTypeOK, [DispatcherNext]_dispatcherVars PROVE DispatcherTypeOK'
    OBVIOUS
  <2> USE DEF DispatcherTypeOK
  <2>0. Task \subseteq Job /\ StopTask \in Job
    BY DEF Job
  <2>1. ASSUME NEW c \in Caller \cup {Worker}, NEW t \in Task, AddTask(c, t)
        PROVE  DispatcherTypeOK'
    BY <2>0, <2>1 DEF AddTask
  <2>2. ASSUME NEW c \in Caller \cup {Worker}, NEW t \in Task, RefuseTask(c, t)
        PROVE  DispatcherTypeOK'
    BY <2>0, <2>2 DEF RefuseTask
  <2>3. ASSUME NEW c \in Caller \cup {Worker}, Notify(c)
        PROVE  DispatcherTypeOK'
    BY <2>3 DEF Notify
  <2>4. CASE Stop
    BY <2>4 DEF Stop
  <2>5. CASE Shutdown
    BY <2>0, <2>5 DEF Shutdown
  <2>6. CASE TestState
    BY <2>6 DEF TestState
  <2>7. CASE LockAndTake
    BY <2>7 DEF LockAndTake, Take
  <2>8. CASE LockAndWait
    BY <2>8 DEF LockAndWait
  <2>9. CASE WakeUp \/ SpuriousWakeUp
    BY <2>9 DEF WakeUp, SpuriousWakeUp, Take
  <2>10. CASE SkipExpired
    BY <2>10 DEF SkipExpired
  <2>11. CASE BeginTask
    <3>1. Head(tmpTaskList) \in Job /\ Tail(tmpTaskList) \in Seq(Job)
      BY <2>11 DEF BeginTask
    <3> QED
      BY <2>11, <3>1 DEF BeginTask
  <2>12. CASE EndTask
    BY <2>12 DEF EndTask
  <2>13. CASE EndBatch
    BY <2>13 DEF EndBatch
  <2>14. CASE UNCHANGED dispatcherVars
    BY <2>14 DEF dispatcherVars
  <2> QED
    BY <2>1, <2>2, <2>3, <2>4, <2>5, <2>6, <2>7, <2>8, <2>9, <2>10, <2>11,
       <2>12, <2>13, <2>14 DEF DispatcherNext, WorkerStep
<1> QED
  BY <1>1, <1>2, PTL DEF DispatcherSpec

(* A sleeping worker with work to do is about to be woken.                 *)
THEOREM WakeupNeverLost == DispatcherSpec => []NoLostWakeup
<1>1. DispatcherInit => NoLostWakeup
  BY DEF DispatcherInit, NoLostWakeup
<1>2. NoLostWakeup /\ [DispatcherNext]_dispatcherVars => NoLostWakeup'
  <2> SUFFICES ASSUME NoLostWakeup, [DispatcherNext]_dispatcherVars
               PROVE  NoLostWakeup'
    OBVIOUS
  <2> USE DEF NoLostWakeup
  <2>1. ASSUME NEW c \in Caller \cup {Worker}, NEW t \in Task, AddTask(c, t)
        PROVE  NoLostWakeup'
    BY <2>1 DEF AddTask
  <2>2. ASSUME NEW c \in Caller \cup {Worker}, NEW t \in Task, RefuseTask(c, t)
        PROVE  NoLostWakeup'
    BY <2>2 DEF RefuseTask
  <2>3. ASSUME NEW c \in Caller \cup {Worker}, Notify(c)
        PROVE  NoLostWakeup'
    BY <2>3 DEF Notify
  <2>4. CASE Stop \/ Shutdown
    BY <2>4 DEF Stop, Shutdown
  <2>5. CASE LockAndWait
    BY <2>5 DEF LockAndWait
  <2>6. CASE LockAndTake \/ WakeUp \/ SpuriousWakeUp
    BY <2>6 DEF LockAndTake, WakeUp, SpuriousWakeUp, Take
  <2>7. CASE TestState \/ SkipExpired \/ BeginTask \/ EndTask \/ EndBatch
    BY <2>7 DEF TestState, SkipExpired, BeginTask, EndTask, EndBatch
  <2>8. CASE UNCHANGED dispatcherVars
    BY <2>8 DEF dispatcherVars
  <2> QED
    BY <2>1, <2>2, <2>3, <2>4, <2>5, <2>6, <2>7, <2>8 DEF DispatcherNext, WorkerStep
<1> QED
  BY <1>1, <1>2, PTL DEF DispatcherSpec

-----------------------------------------------------------------------------
(* Facts about the lists.                                                  *)

(* Pushing onto the shared list appends to what is in play.                *)
LEMMA AppendConcat ==
  ASSUME NEW S, NEW s \in Seq(S), NEW t \in Seq(S), NEW e \in S
  PROVE  s \o Append(t, e) = Append(s \o t, e)
<1>1. <<e>> \in Seq(S)
  OBVIOUS
<1>2. Append(t, e) = t \o <<e>> /\ s \o t \in Seq(S)
  BY AppendIsConcat, ConcatProperties
<1>3. Append(s \o t, e) = (s \o t) \o <<e>>
  BY <1>2, AppendIsConcat
<1> QED
  BY <1>1, <1>2, <1>3, ConcatAssociative

(* A sequence that is not empty is its head followed by its tail.          *)
LEMMA HeadConcatTail ==
  ASSUME NEW S, NEW s \in Seq(S), s # <<>>
  PROVE  <<Head(s)>> \o Tail(s) = s
<1>1. Len(s) \in Nat \ {0} /\ 1 \in 1 .. Len(s) /\ Len(s) \in 1 .. Len(s)
  BY EmptySeq
<1>2. s = <<s[1]>> \o SubSeq(s, 2, Len(s))
  BY <1>1, SubSeqRecursiveFirst, SubSeqFull
<1> QED
  BY <1>2, TailIsSubSeq

(* Removing the head of the first list removes the head of what is in play.*)
LEMMA TailConcat ==
  ASSUME NEW S, NEW s \in Seq(S), NEW t \in Seq(S), s # <<>>
  PROVE  /\ s \o t # <<>>
         /\ Head(s \o t) = Head(s)
         /\ Tail(s \o t) = Tail(s) \o t
<1>1. /\ s \o t \in Seq(S)
      /\ s \o t # <<>>
      /\ Head(s) \in S
      /\ Tail(s) \in Seq(S)
  BY ConcatProperties, ConcatEqualIffEmpty, HeadTailProperties
<1>2. /\ <<Head(s)>> \in Seq(S)
      /\ Tail(s) \o t \in Seq(S)
  BY <1>1, ConcatProperties
<1>3. s \o t = <<Head(s)>> \o (Tail(s) \o t)
  BY <1>1, <1>2, HeadConcatTail, ConcatAssociative
<1>4. Head(s \o t) = Head(s) /\ Tail(s \o t) = Tail(s) \o t
  BY <1>1, <1>2, <1>3
<1> QED
  BY <1>1, <1>4

(* What the code keeps about its lists: a task is current only while it is *)
(* run, and the private list is empty whenever the worker is not inside    *)
(* its inner loop, so that the swap of the lists loses nothing.            *)
ListShape ==
    /\ current # <<>> <=> pc = "run"
    /\ pc \in {"test", "lock", "wait", "exit"} => tmpTaskList = <<>>

LEMMA ListShapeStep ==
  ASSUME DispatcherTypeOK, ListShape, [DispatcherNext]_dispatcherVars
  PROVE  ListShape'
<1> USE DEF ListShape
<1>1. ASSUME NEW c \in Caller \cup {Worker}, NEW t \in Task,
             AddTask(c, t) \/ RefuseTask(c, t)
      PROVE  ListShape'
  BY <1>1 DEF AddTask, RefuseTask
<1>2. ASSUME NEW c \in Caller \cup {Worker}, Notify(c) PROVE ListShape'
  BY <1>2 DEF Notify
<1>3. CASE Stop \/ Shutdown \/ TestState \/ LockAndWait \/ EndBatch
  BY <1>3 DEF Stop, Shutdown, TestState, LockAndWait, EndBatch
<1>4. CASE LockAndTake \/ WakeUp \/ SpuriousWakeUp
  BY <1>4 DEF LockAndTake, WakeUp, SpuriousWakeUp, Take
<1>5. CASE SkipExpired \/ EndTask
  BY <1>5 DEF SkipExpired, EndTask
<1>6. CASE BeginTask
  <2>1. <<Head(tmpTaskList)>> # <<>>
    OBVIOUS
  <2> QED
    BY <1>6, <2>1 DEF BeginTask
<1>7. CASE UNCHANGED dispatcherVars
  BY <1>7 DEF dispatcherVars
<1> QED
  BY <1>1, <1>2, <1>3, <1>4, <1>5, <1>6, <1>7 DEF DispatcherNext, WorkerStep

-----------------------------------------------------------------------------
(* What a step does to the tasks in play: the three kinds of step.         *)

Accepts(j) ==
    /\ fate[j] = "new"
    /\ InPlay' = Append(InPlay, j)
    /\ fate' = [fate EXCEPT ![j] = "queued"]

Finishes(v) ==
    /\ InPlay # <<>>
    /\ InPlay' = Tail(InPlay)
    /\ fate' = [fate EXCEPT ![Head(InPlay)] = v]

Keeps ==
    /\ InPlay' = InPlay
    /\ \/ fate' = fate
       \/ \E j \in Job : fate[j] = "new" /\ fate' = [fate EXCEPT ![j] = "deleted"]

LEMMA CurrentType ==
  ASSUME DispatcherTypeOK
  PROVE  /\ current \in Seq(Job)
         /\ current # <<>> => Tail(current) = <<>>
<1>1. CASE current = <<>>
  BY <1>1
<1>2. CASE current # <<>>
  <2>1. PICK j \in Job : current = <<j>>
    BY <1>2 DEF DispatcherTypeOK
  <2> QED
    BY <2>1
<1> QED
  BY <1>1, <1>2

LEMMA InPlayType ==
  ASSUME DispatcherTypeOK PROVE InPlay \in Seq(Job)
<1>1. current \in Seq(Job) /\ current \o tmpTaskList \in Seq(Job)
  BY CurrentType, ConcatProperties DEF DispatcherTypeOK
<1> QED
  BY <1>1, ConcatProperties DEF DispatcherTypeOK, InPlay

LEMMA EveryStep ==
  ASSUME DispatcherTypeOK, ListShape, [DispatcherNext]_dispatcherVars
  PROVE  \/ (\E j \in Job : Accepts(j) /\ (threadState = "RUNNING" \/ j = StopTask)
                                      /\ threadState' = threadState)
         \/ (\E v \in {"executed", "expired"} : Finishes(v))
              /\ threadState' \in {threadState, "TERMINATED"}
         \/ Keeps /\ threadState' \in {threadState, "CLOSING"}
<1> DEFINE Goal ==
         \/ (\E j \in Job : Accepts(j) /\ (threadState = "RUNNING" \/ j = StopTask)
                                      /\ threadState' = threadState)
         \/ (\E v \in {"executed", "expired"} : Finishes(v))
              /\ threadState' \in {threadState, "TERMINATED"}
         \/ Keeps /\ threadState' \in {threadState, "CLOSING"}
<1>a. /\ current \in Seq(Job) /\ tmpTaskList \in Seq(Job) /\ taskList \in Seq(Job)
      /\ current \o tmpTaskList \in Seq(Job)
      /\ Task \subseteq Job /\ StopTask \in Job
  BY CurrentType, ConcatProperties DEF DispatcherTypeOK, Job
<1>1. ASSUME NEW j \in Job, taskList' = Append(taskList, j),
             UNCHANGED <<current, tmpTaskList>>
      PROVE  InPlay' = Append(InPlay, j)
  BY <1>a, <1>1, AppendConcat DEF InPlay
<1>2. ASSUME NEW c \in Caller \cup {Worker}, NEW t \in Task, AddTask(c, t) PROVE Goal
  BY <1>a, <1>1, <1>2 DEF AddTask, Accepts
<1>3. CASE Shutdown
  BY <1>a, <1>1, <1>3 DEF Shutdown, Accepts
<1>4. ASSUME NEW c \in Caller \cup {Worker}, NEW t \in Task, RefuseTask(c, t) PROVE Goal
  BY <1>a, <1>4 DEF RefuseTask, Keeps, InPlay
<1>5. ASSUME NEW c \in Caller \cup {Worker}, Notify(c) PROVE Goal
  BY <1>5 DEF Notify, Keeps, InPlay
<1>6. CASE Stop \/ TestState \/ LockAndWait \/ EndBatch
  BY <1>6 DEF Stop, TestState, LockAndWait, EndBatch, Keeps, InPlay
<1>7. CASE LockAndTake \/ WakeUp \/ SpuriousWakeUp
  <2>1. current = <<>> /\ tmpTaskList = <<>>
    BY <1>7 DEF LockAndTake, WakeUp, SpuriousWakeUp, ListShape
  <2>2. /\ current' = <<>> /\ tmpTaskList' = taskList /\ taskList' = <<>>
        /\ UNCHANGED <<fate, threadState>>
    BY <1>7, <2>1 DEF LockAndTake, WakeUp, SpuriousWakeUp, Take
  <2>3. InPlay = taskList /\ InPlay' = taskList
    BY <1>a, <2>1, <2>2, ConcatEmptySeq DEF InPlay
  <2> QED
    BY <2>2, <2>3 DEF Keeps
<1>8. CASE SkipExpired
  <2>1. /\ current = <<>> /\ current' = <<>> /\ tmpTaskList # <<>>
        /\ tmpTaskList' = Tail(tmpTaskList) /\ taskList' = taskList
        /\ fate' = [fate EXCEPT ![Head(tmpTaskList)] = "expired"]
        /\ threadState' = threadState
    BY <1>8 DEF SkipExpired, ListShape
  <2>2. Tail(tmpTaskList) \in Seq(Job)
    BY <1>a, <2>1
  <2>3. InPlay = tmpTaskList \o taskList /\ InPlay' = Tail(tmpTaskList) \o taskList
    BY <1>a, <2>1, <2>2, ConcatEmptySeq DEF InPlay
  <2>4. Finishes("expired")
    BY <1>a, <2>1, <2>3, TailConcat DEF Finishes
  <2> QED
    BY <2>1, <2>4
<1>9. CASE BeginTask
  <2>1. /\ current = <<>> /\ current' = <<Head(tmpTaskList)>> /\ tmpTaskList # <<>>
        /\ tmpTaskList' = Tail(tmpTaskList)
        /\ UNCHANGED <<taskList, fate, threadState>>
    BY <1>9 DEF BeginTask, ListShape
  <2>2. current' \o tmpTaskList' = tmpTaskList /\ current \o tmpTaskList = tmpTaskList
    BY <1>a, <2>1, HeadConcatTail, ConcatEmptySeq
  <2>3. InPlay' = InPlay
    BY <2>1, <2>2 DEF InPlay
  <2> QED
    BY <2>1, <2>3 DEF Keeps
<1>10. CASE EndTask
  <2>1. /\ current # <<>> /\ current' = <<>>
        /\ UNCHANGED <<taskList, tmpTaskList>>
        /\ fate' = [fate EXCEPT ![Head(current)] = "executed"]
        /\ threadState' \in {threadState, "TERMINATED"}
    BY <1>10 DEF EndTask, ListShape
  <2>2. Tail(current) = current'
    BY <2>1, CurrentType
  <2>3. /\ current \o tmpTaskList # <<>>
        /\ Head(current \o tmpTaskList) = Head(current)
        /\ Tail(current \o tmpTaskList) = Tail(current) \o tmpTaskList
    BY <1>a, <2>1, TailConcat, Zenon
  <2> DEFINE private == current \o tmpTaskList
  <2>4. /\ InPlay # <<>>
        /\ Head(InPlay) = Head(current)
        /\ Tail(InPlay) = (Tail(current) \o tmpTaskList) \o taskList
    <3>1. /\ private \in Seq(Job) /\ private # <<>>
          /\ Head(private) = Head(current)
          /\ Tail(private) = Tail(current) \o tmpTaskList
      BY <1>a, <2>3
    <3>2. InPlay = private \o taskList
      BY <1>a, ConcatAssociative DEF InPlay
    <3> HIDE DEF private
    <3>3. /\ private \o taskList # <<>>
          /\ Head(private \o taskList) = Head(private)
          /\ Tail(private \o taskList) = Tail(private) \o taskList
      BY <1>a, <3>1, TailConcat, Zenon
    <3> QED
      BY <3>1, <3>2, <3>3, Zenon
  <2>5. InPlay' = Tail(InPlay)
    BY <2>1, <2>2, <2>4 DEF InPlay
  <2>6. Finishes("executed")
    BY <2>1, <2>4, <2>5 DEF Finishes
  <2> QED
    BY <2>1, <2>6
<1>11. CASE UNCHANGED dispatcherVars
  BY <1>11 DEF dispatcherVars, Keeps, InPlay
<1> QED
  BY <1>2, <1>3, <1>4, <1>5, <1>6, <1>7, <1>8, <1>9, <1>10, <1>11
     DEF DispatcherNext, WorkerStep

-----------------------------------------------------------------------------
(* The two results the other threads rely on.                              *)

(* Tasks are finished in the order in which addTask accepted them: the     *)
(* dispatcher implements the abstract queue.                               *)
THEOREM DispatcherIsAQueue == DispatcherSpec => ImplementsTaskQueue
<1>1. DispatcherInit => Abstract!QueueInit
  BY DEF DispatcherInit, Abstract!QueueInit, InPlay
<1>2. DispatcherTypeOK /\ ListShape /\ [DispatcherNext]_dispatcherVars
        => [Abstract!QueueNext]_(Abstract!queueVars)
  <2> SUFFICES ASSUME DispatcherTypeOK, ListShape, [DispatcherNext]_dispatcherVars
               PROVE  [Abstract!QueueNext]_(Abstract!queueVars)
    OBVIOUS
  <2> USE DEF Abstract!QueueNext, Abstract!queueVars
  <2>1. CASE \E j \in Job : /\ Accepts(j) /\ (threadState = "RUNNING" \/ j = StopTask)
                            /\ threadState' = threadState
    BY <2>1 DEF Accepts, Abstract!Accept
  <2>2. CASE /\ \E v \in {"executed", "expired"} : Finishes(v)
             /\ threadState' \in {threadState, "TERMINATED"}
    BY <2>2 DEF Finishes, Abstract!Serve
  <2>3. CASE Keeps /\ threadState' \in {threadState, "CLOSING"}
    BY <2>3 DEF Keeps, Abstract!Close
  <2> QED
    BY <2>1, <2>2, <2>3, EveryStep
<1>3. DispatcherInit => ListShape
  BY DEF DispatcherInit, ListShape
<1>4. DispatcherTypeOK /\ ListShape /\ [DispatcherNext]_dispatcherVars => ListShape'
  BY ListShapeStep
<1> QED
  BY <1>1, <1>2, <1>3, <1>4, DispatcherTypeCorrect, PTL
     DEF DispatcherSpec, ImplementsTaskQueue, Abstract!QueueSpec

NoRepeat(s) == \A i, k \in DOMAIN s : s[i] = s[k] => i = k

Occurs(j, s) == \E i \in DOMAIN s : s[i] = j

(* A task that is accepted is not in the queue yet, and appending it keeps *)
(* the queue free of repetitions.                                          *)
LEMMA AppendOnce ==
  ASSUME NEW S, NEW s \in Seq(S), NEW e \in S, NoRepeat(s), ~Occurs(e, s)
  PROVE  /\ NoRepeat(Append(s, e))
         /\ \A j : Occurs(j, Append(s, e)) <=> Occurs(j, s) \/ j = e
  BY DEF NoRepeat, Occurs

(* A task that is finished leaves the queue, and it alone.                 *)
LEMMA TailOnce ==
  ASSUME NEW S, NEW s \in Seq(S), s # <<>>, NoRepeat(s)
  PROVE  /\ NoRepeat(Tail(s))
         /\ \A j : Occurs(j, Tail(s)) <=> Occurs(j, s) /\ j # Head(s)
<1>1. /\ DOMAIN s = 1 .. Len(s) /\ Len(s) \in Nat \ {0}
      /\ DOMAIN Tail(s) = 1 .. (Len(s) - 1)
      /\ \A i \in 1 .. (Len(s) - 1) : Tail(s)[i] = s[i + 1]
      /\ Head(s) = s[1]
  BY EmptySeq, HeadTailProperties
<1>2. NoRepeat(Tail(s))
  BY <1>1 DEF NoRepeat
<1>3. ASSUME NEW j, Occurs(j, Tail(s)) PROVE Occurs(j, s) /\ j # Head(s)
  BY <1>1, <1>3 DEF NoRepeat, Occurs
<1>4. ASSUME NEW j, Occurs(j, s), j # Head(s) PROVE Occurs(j, Tail(s))
  <2>1. PICK i \in 1 .. Len(s) : s[i] = j
    BY <1>1, <1>4 DEF Occurs
  <2>2. i - 1 \in 1 .. (Len(s) - 1) /\ (i - 1) + 1 = i
    BY <1>1, <1>4, <2>1
  <2>3. Tail(s)[i - 1] = j
    BY <1>1, <2>1, <2>2
  <2> QED
    BY <1>1, <2>2, <2>3 DEF Occurs
<1> QED
  BY <1>2, <1>3, <1>4

(* No task object is queued twice, or queued and deleted.                  *)
THEOREM TaskOwnedOnce == DispatcherSpec => []OwnedOnce
<1> DEFINE Owned == /\ \A j \in Job : fate[j] = "queued" <=> Occurs(j, InPlay)
                    /\ NoRepeat(InPlay)
<1>1. Owned <=> OwnedOnce
  BY DEF OwnedOnce, Occurs, NoRepeat
<1>2. DispatcherInit => Owned
  <2> SUFFICES ASSUME DispatcherInit PROVE Owned
    OBVIOUS
  <2>1. InPlay = <<>>
    BY DEF DispatcherInit, InPlay
  <2> QED
    BY <2>1 DEF DispatcherInit, Occurs, NoRepeat
<1>3. DispatcherTypeOK /\ ListShape /\ Owned /\ [DispatcherNext]_dispatcherVars => Owned'
  <2> SUFFICES ASSUME DispatcherTypeOK, ListShape, Owned, [DispatcherNext]_dispatcherVars
               PROVE  Owned'
    OBVIOUS
  <2>1. InPlay \in Seq(Job) /\ DOMAIN fate = Job
    BY InPlayType DEF DispatcherTypeOK
  <2>2. ASSUME NEW j \in Job, Accepts(j) PROVE Owned'
    <3>1. ~Occurs(j, InPlay)
      BY <2>2 DEF Accepts
    <3>2. NoRepeat(InPlay') /\ \A k : Occurs(k, InPlay') <=> Occurs(k, InPlay) \/ k = j
      BY <2>1, <2>2, <3>1, AppendOnce DEF Accepts
    <3>3. \A k \in Job : fate'[k] = IF k = j THEN "queued" ELSE fate[k]
      BY <2>1, <2>2 DEF Accepts
    <3> QED
      BY <3>2, <3>3 DEF Occurs, NoRepeat
  <2>3. ASSUME NEW v \in {"executed", "expired"}, Finishes(v) PROVE Owned'
    <3>1. NoRepeat(InPlay') /\ \A k : Occurs(k, InPlay') <=> Occurs(k, InPlay) /\ k # Head(InPlay)
      BY <2>1, <2>3, TailOnce DEF Finishes
    <3>2. \A k \in Job : fate'[k] = IF k = Head(InPlay) THEN v ELSE fate[k]
      BY <2>1, <2>3 DEF Finishes
    <3> QED
      BY <3>1, <3>2 DEF Occurs, NoRepeat
  <2>4. CASE Keeps
    BY <2>1, <2>4 DEF Keeps, Occurs, NoRepeat
  <2> QED
    BY <2>2, <2>3, <2>4, EveryStep
<1>4. DispatcherInit => ListShape
  BY DEF DispatcherInit, ListShape
<1>5. DispatcherTypeOK /\ ListShape /\ [DispatcherNext]_dispatcherVars => ListShape'
  BY ListShapeStep
<1> QED
  BY <1>1, <1>2, <1>3, <1>4, <1>5, DispatcherTypeCorrect, PTL DEF DispatcherSpec

(* A dispatcher that has stopped accepting tasks never accepts one again,  *)
(* a terminated one stays so, and only the task of shutdown terminates it. *)
THEOREM NeverReopens == DispatcherSpec => StateMovesForward
<1>1. [DispatcherNext]_dispatcherVars
        => [ /\ threadState' = "RUNNING" => threadState = "RUNNING"
             /\ threadState = "TERMINATED" => threadState' = "TERMINATED"
             /\ threadState' = "TERMINATED" /\ threadState # "TERMINATED"
                  => current = <<StopTask>> ]_dispatcherVars
  BY DEF DispatcherNext, WorkerStep, AddTask, RefuseTask, Notify, Stop, Shutdown, TestState,
         LockAndTake, LockAndWait, WakeUp, SpuriousWakeUp, Take, SkipExpired,
         BeginTask, EndTask, EndBatch, dispatcherVars
<1> QED
  BY <1>1, PTL DEF DispatcherSpec, StateMovesForward

-----------------------------------------------------------------------------
(* The scheduler.                                                          *)

\* The handlers that end with the task handed on or deleted.
Carries(h, t) == h.kind \in {"insert", "over"} /\ h.task = t

Place == 1 .. Len(posted)

(* A task that was added, and only such a task, is carried by one handler  *)
(* or waited for by one timer, that of its own id: the raw pointer that    *)
(* addEvent hands from lambda to lambda is never lost, and never doubled   *)
(* when two events get the same id.                                        *)
CarriedOnce ==
    /\ \A i, j \in Place, t \in EventTask :
          Carries(posted[i], t) /\ Carries(posted[j], t) => i = j
    /\ \A i \in Place, t \in EventTask : Carries(posted[i], t) => outcome[t] = "added"

AwaitedOnce ==
    \A id \in Waiting :
        /\ eventId[timers[id]] = id
        /\ outcome[timers[id]] = "added"
        /\ \A i \in Place : ~Carries(posted[i], timers[id])

NeverLost ==
    \A t \in EventTask : outcome[t] = "added" =>
        \/ \E i \in Place : Carries(posted[i], t)
        \/ \E id \in Waiting : timers[id] = t

SchedulerInv == SchedulerTypeOK /\ CarriedOnce /\ AwaitedOnce /\ NeverLost

-----------------------------------------------------------------------------
(* Types and queues.                                                       *)

\* The fields of the handlers.
LEMMA Handlers ==
  /\ \A t \in EventTask : InsertOf(t) \in Handler
  /\ \A t \in EventTask, e \in BOOLEAN : WaitOver(t, e) \in Handler
  /\ \A t, u : Carries(InsertOf(t), u) <=> u = t
  /\ \A t, u, e : Carries(WaitOver(t, e), u) <=> u = t
  /\ \A id \in Id : CancelOf(id) \in Handler /\ \A t : ~Carries(CancelOf(id), t)
  /\ StopContext \in Handler /\ \A t : ~Carries(StopContext, t)
<1>1. \A t \in EventTask : InsertOf(t) \in Handler
  BY SMT DEF Handler, InsertOf
<1>2. \A t \in EventTask, e \in BOOLEAN : WaitOver(t, e) \in Handler
  BY SMT DEF Handler
<1>a. (\A id \in Id : CancelOf(id) \in Handler) /\ StopContext \in Handler
  BY SMT DEF Handler
<1>3. /\ \A t, u : Carries(InsertOf(t), u) <=> u = t
      /\ \A t, u, e : Carries(WaitOver(t, e), u) <=> u = t
  BY DEF InsertOf, WaitOver, Carries
<1>4. /\ \A id, t : ~Carries(CancelOf(id), t)
      /\ \A t : ~Carries(StopContext, t)
  BY DEF CancelOf, StopContext, Carries
<1> QED
  BY <1>1, <1>2, <1>a, <1>3, <1>4

LEMMA HandlerKinds ==
  ASSUME NEW h \in Handler
  PROVE  /\ h.kind = "insert" => h.task \in EventTask /\ h = InsertOf(h.task)
         /\ h.kind = "cancel" => h.id \in Id /\ h = CancelOf(h.id)
         /\ h.kind = "over" => h.task \in EventTask /\ h.aborted \in BOOLEAN
         /\ h.kind = "stop" => h = StopContext
         /\ \A t \in EventTask : Carries(h, t) <=> h.kind \in {"insert", "over"} /\ h.task = t
  BY DEF Handler, InsertOf, WaitOver, CancelOf, StopContext, Carries

\* Handlers are queued behind those that wait, the first of which may go.
LEMMA Requeued ==
  ASSUME NEW S, NEW q \in Seq(S), NEW w \in Seq(S), q # <<>>
  PROVE  LET r == Tail(q) \o w
         IN  /\ r \in Seq(S)
             /\ Len(r) = Len(q) - 1 + Len(w)
             /\ Len(q) >= 1 /\ Head(q) = q[1] /\ Head(q) \in S
             /\ \A i \in 1 .. Len(q) - 1 : r[i] = q[i + 1]
             /\ \A i \in 1 .. Len(w) : r[Len(q) - 1 + i] = w[i]
<1>1. /\ Tail(q) \in Seq(S) /\ Head(q) \in S /\ Head(q) = q[1] /\ Len(q) >= 1
      /\ Len(Tail(q)) = Len(q) - 1 /\ \A i \in 1 .. Len(Tail(q)) : Tail(q)[i] = q[i + 1]
  BY HeadTailProperties, LenProperties
<1> QED
  BY <1>1, ConcatProperties

\* A timer that waits, waits for one of the tasks.
LEMMA TimerTypes ==
  ASSUME SchedulerTypeOK
  PROVE  /\ DOMAIN timers \subseteq Id
         /\ \A id \in DOMAIN timers : timers[id] \in EventTask \cup {None}
         /\ \A id \in Waiting : id \in Id /\ timers[id] \in EventTask
         /\ timers = [id \in DOMAIN timers |-> timers[id]]
         /\ \A id : AbortedWait(id) \in Seq(Handler)
<1>1. PICK ids \in SUBSET Id : timers \in [ids -> EventTask \cup {None}]
  BY DEF SchedulerTypeOK
<1>2. \A id \in Waiting : id \in Id /\ timers[id] \in EventTask
  BY <1>1 DEF Waiting
<1>3. \A id : AbortedWait(id) \in Seq(Handler)
  <2>1. \A id \in Waiting : WaitOver(timers[id], TRUE) \in Handler
    BY <1>2, Handlers
  <2>2. \A id \in Waiting : AbortedWait(id) = <<WaitOver(timers[id], TRUE)>>
    BY DEF AbortedWait
  <2>3. \A id : id \notin Waiting => AbortedWait(id) = <<>>
    BY DEF AbortedWait
  <2>4. <<>> \in Seq(Handler) /\ \A h \in Handler : <<h>> \in Seq(Handler)
    OBVIOUS
  <2> TAKE id
  <2>5. CASE id \in Waiting
    BY <2>1, <2>2, <2>4, <2>5
  <2>6. CASE id \notin Waiting
    BY <2>3, <2>4, <2>6
  <2> QED
    BY <2>5, <2>6
<1> QED
  BY <1>1, <1>2, <1>3

-----------------------------------------------------------------------------
(* Every step keeps the invariant.                                         *)

\* A handler is queued behind the others.
LEMMA Queued ==
  ASSUME NEW S, NEW q \in Seq(S), NEW h \in S
  PROVE  LET r == Append(q, h)
         IN  /\ r \in Seq(S) /\ Len(r) = Len(q) + 1 /\ Len(q) \in Nat
             /\ \A i \in 1 .. Len(q) : r[i] = q[i]
             /\ r[Len(q) + 1] = h
  BY AppendProperties, LenProperties

LEMMA AddEventKeeps ==
  ASSUME SchedulerInv, NEW t \in EventTask, AddEvent(t)
  PROVE  SchedulerInv'
<1> USE DEF SchedulerInv, AddEvent, Place
<1> DEFINE n == Len(posted)
<1>1. /\ posted' \in Seq(Handler) /\ Len(posted') = n + 1 /\ n \in Nat
      /\ \A i \in 1 .. n : posted'[i] = posted[i]
      /\ posted'[n + 1] = InsertOf(t)
  BY Queued, Handlers DEF SchedulerTypeOK
<1>2. (lastEventId + 1) % IdSpace \in Id
  <2>1. lastEventId + 1 \in Nat /\ IdSpace \in Nat \ {0}
    BY SchedulerAssumption DEF SchedulerTypeOK, Id
  <2>2. \A a \in Nat, b \in Nat \ {0} : a % b \in 0 .. b - 1
    BY SMT
  <2> QED
    BY <2>1, <2>2 DEF Id
<1>3. SchedulerTypeOK'
  BY <1>1, <1>2 DEF SchedulerTypeOK
<1>4. Waiting' = Waiting
  BY DEF Waiting
<1>5. \A i \in Place : ~Carries(posted[i], t)
  BY DEF CarriedOnce
<1>6. \A id \in Waiting : timers[id] # t
  BY DEF AwaitedOnce
<1>7. CarriedOnce'
  BY <1>1, <1>5, Handlers DEF CarriedOnce, SchedulerTypeOK
<1>8. AwaitedOnce'
  BY <1>1, <1>4, <1>5, <1>6, Handlers, TimerTypes DEF AwaitedOnce, SchedulerTypeOK
<1>9. NeverLost'
  <2> SUFFICES ASSUME NEW u \in EventTask, outcome'[u] = "added"
               PROVE  (\E i \in 1 .. n + 1 : Carries(posted'[i], u))
                      \/ \E id \in Waiting : timers[id] = u
    BY <1>1, <1>4 DEF NeverLost
  <2>1. CASE u = t
    <3>1. n + 1 \in 1 .. n + 1 /\ Carries(posted'[n + 1], t)
      BY <1>1, Handlers
    <3> QED
      BY <2>1, <3>1
  <2>2. CASE u # t
    BY <1>1, <2>2 DEF NeverLost, SchedulerTypeOK
  <2> QED
    BY <2>1, <2>2
<1> QED
  BY <1>3, <1>7, <1>8, <1>9

\* stopEvent and shutdown queue a handler that carries no task.
LEMMA PostedKeeps ==
  ASSUME SchedulerInv, NEW h \in Handler, \A t : ~Carries(h, t),
         posted' = Append(posted, h), SchedulerTypeOK',
         UNCHANGED <<eventId, timers, outcome>>
  PROVE  SchedulerInv'
<1> USE DEF SchedulerInv, Place
<1> DEFINE n == Len(posted)
<1>1. /\ posted' \in Seq(Handler) /\ Len(posted') = n + 1 /\ n \in Nat
      /\ \A i \in 1 .. n : posted'[i] = posted[i]
      /\ posted'[n + 1] = h
  BY Queued DEF SchedulerTypeOK
<1>2. Waiting' = Waiting
  BY DEF Waiting
<1>3. CarriedOnce'
  BY <1>1 DEF CarriedOnce
<1>4. AwaitedOnce'
  BY <1>1, <1>2 DEF AwaitedOnce
<1>5. NeverLost'
  BY <1>1, <1>2 DEF NeverLost
<1> QED
  BY <1>3, <1>4, <1>5

\* A step of the context: the first handler goes, and the handlers of waits
\* that end are queued.  What it must say of the tasks they carry.
LEMMA ContextKeeps ==
  ASSUME SchedulerInv, SchedulerTypeOK', posted # <<>>,
         UNCHANGED eventId,
         NEW w \in Seq(Handler), posted' = Tail(posted) \o w,
         NEW ended \in SUBSET EventTask, NEW armed \in SUBSET EventTask,
         (* what becomes of the task of the first handler *)
         \A t \in EventTask : Carries(Head(posted), t) <=> t \in ended \/ t \in armed,
         \A t \in EventTask \ ended : outcome'[t] = outcome[t],
         \A t \in ended : outcome'[t] # "added" /\ t \notin armed,
         (* the waits: those of the first handlers task are new, the others *)
         (* go on or have ended *)
         \A id \in Waiting' : \/ timers'[id] \in armed /\ eventId[timers'[id]] = id
                              \/ id \in Waiting /\ timers'[id] = timers[id],
         \A t \in armed : \E id \in Waiting' : timers'[id] = t,
         (* a wait that has ended is that of one new handler *)
         \A id \in Waiting :
            (\E i \in 1 .. Len(w) : Carries(w[i], timers[id]))
              <=> ~(id \in Waiting' /\ timers'[id] = timers[id]),
         \A i \in 1 .. Len(w) : \E id \in Waiting : Carries(w[i], timers[id]),
         \A i, j \in 1 .. Len(w), t \in EventTask :
            Carries(w[i], t) /\ Carries(w[j], t) => i = j
  PROVE  SchedulerInv'
<1> USE DEF SchedulerInv, Place
<1> DEFINE n == Len(posted)
<1>1. /\ n \in Nat /\ n >= 1 /\ Len(w) \in Nat /\ Len(posted') = n - 1 + Len(w)
      /\ Head(posted) = posted[1]
      /\ \A i \in 1 .. n - 1 : posted'[i] = posted[i + 1]
      /\ \A i \in 1 .. Len(w) : posted'[n - 1 + i] = w[i]
  BY Requeued, LenProperties DEF SchedulerTypeOK
<1>2. \A i \in Place' :
         \/ i \in 1 .. n - 1 /\ \E k \in 2 .. n : k = i + 1 /\ posted'[i] = posted[k]
         \/ \E a \in 1 .. Len(w) : i = n - 1 + a /\ posted'[i] = w[a]
  <2> TAKE i \in Place'
  <2>1. CASE i <= n - 1
    BY <1>1, <2>1
  <2>2. CASE i > n - 1
    <3>1. i - (n - 1) \in 1 .. Len(w) /\ i = n - 1 + (i - (n - 1))
      BY <1>1, <2>2
    <3> QED
      BY <1>1, <3>1
  <2> QED
    BY <1>1, <2>1, <2>2
<1>3. \A t \in ended \cup armed : /\ \A i \in 2 .. n : ~Carries(posted[i], t)
                                  /\ \A id \in Waiting : timers[id] # t
                                  /\ outcome[t] = "added"
  BY <1>1 DEF CarriedOnce, AwaitedOnce
<1>4. \A id \in Waiting : /\ timers[id] \in EventTask
                          /\ outcome[timers[id]] = "added"
                          /\ \A i \in Place : ~Carries(posted[i], timers[id])
                          /\ timers[id] \notin ended \cup armed
  BY <1>3, TimerTypes DEF AwaitedOnce
<1>5. \A i \in 1 .. Len(w), t \in EventTask : Carries(w[i], t) =>
          \E id \in Waiting : timers[id] = t
  BY DEF Carries
<1>6. CarriedOnce'
  <2>1. ASSUME NEW i \in Place', NEW j \in Place', NEW t \in EventTask,
               Carries(posted'[i], t), Carries(posted'[j], t)
        PROVE  i = j
    <3>1. ASSUME NEW k \in 2 .. n, Carries(posted[k], t)
          PROVE  \A a \in 1 .. Len(w) : ~Carries(w[a], t)
      <4>1. k \in Place
        BY <1>1
      <4>2. \A id \in Waiting : timers[id] # t
        BY <1>4, <3>1, <4>1
      <4> QED
        BY <1>5, <4>2
    <3>2. ASSUME NEW k \in 2 .. n, NEW l \in 2 .. n, k = i + 1, l = j + 1,
                 Carries(posted[k], t), Carries(posted[l], t)
          PROVE  i = j
      <4>1. k = l
        BY <1>1, <3>2 DEF CarriedOnce
      <4> QED
        BY <1>1, <3>2, <4>1
    <3>3. ASSUME NEW a \in 1 .. Len(w), NEW b \in 1 .. Len(w), Carries(w[a], t), Carries(w[b], t)
          PROVE  a = b
      BY <3>3
    <3>4. CASE \E k \in 2 .. n : k = i + 1 /\ posted'[i] = posted[k]
      <4>1. PICK k \in 2 .. n : k = i + 1 /\ posted'[i] = posted[k]
        BY <3>4
      <4>2. Carries(posted[k], t)
        BY <2>1, <4>1
      <4>3. ASSUME NEW b \in 1 .. Len(w), posted'[j] = w[b]
            PROVE  FALSE
        <5>1. Carries(w[b], t)
          BY <2>1, <4>3
        <5> QED
          BY <3>1, <4>2, <5>1
      <4>4. PICK l \in 2 .. n : l = j + 1 /\ posted'[j] = posted[l]
        BY <1>2, <4>3
      <4>5. Carries(posted[l], t)
        BY <2>1, <4>4
      <4> QED
        BY <3>2, <4>1, <4>2, <4>4, <4>5
    <3>5. CASE \E a \in 1 .. Len(w) : i = n - 1 + a /\ posted'[i] = w[a]
      <4>1. PICK a \in 1 .. Len(w) : i = n - 1 + a /\ posted'[i] = w[a]
        BY <3>5
      <4>2. Carries(w[a], t)
        BY <2>1, <4>1
      <4>3. ASSUME NEW k \in 2 .. n, posted'[j] = posted[k]
            PROVE  FALSE
        <5>1. Carries(posted[k], t)
          BY <2>1, <4>3
        <5> QED
          BY <3>1, <4>2, <5>1
      <4>4. PICK b \in 1 .. Len(w) : j = n - 1 + b /\ posted'[j] = w[b]
        BY <1>2, <4>3
      <4>5. Carries(w[b], t)
        BY <2>1, <4>4
      <4>6. a = b
        BY <3>3, <4>2, <4>5
      <4> QED
        BY <4>1, <4>4, <4>6
    <3> QED
      BY <1>2, <3>4, <3>5
  <2>2. ASSUME NEW i \in Place', NEW t \in EventTask, Carries(posted'[i], t)
        PROVE  outcome'[t] = "added"
    <3>1. ASSUME NEW k \in 2 .. n, Carries(posted[k], t)
          PROVE  outcome[t] = "added" /\ t \notin ended
      BY <1>1, <1>3, <3>1 DEF CarriedOnce
    <3>2. ASSUME NEW a \in 1 .. Len(w), Carries(w[a], t)
          PROVE  outcome[t] = "added" /\ t \notin ended
      BY <1>4, <1>5, <3>2
    <3> QED
      BY <1>2, <2>2, <3>1, <3>2
  <2> QED
    BY <2>1, <2>2 DEF CarriedOnce
<1>7. AwaitedOnce'
  <2> SUFFICES ASSUME NEW id \in Waiting'
               PROVE  /\ eventId[timers'[id]] = id
                      /\ outcome'[timers'[id]] = "added"
                      /\ \A i \in Place' : ~Carries(posted'[i], timers'[id])
    BY DEF AwaitedOnce
  <2>1. CASE timers'[id] \in armed
    <3>1. \A i \in 1 .. Len(w) : ~Carries(w[i], timers'[id])
      <4>1. ASSUME NEW i \in 1 .. Len(w), Carries(w[i], timers'[id])
            PROVE  FALSE
        <5>1. PICK other \in Waiting : timers[other] = timers'[id]
          BY <1>5, <2>1, <4>1
        <5> QED
          BY <1>4, <2>1, <5>1
      <4> QED
        BY <4>1
    <3>2. \A k \in 2 .. n : ~Carries(posted[k], timers'[id])
      BY <1>1, <1>3, <2>1
    <3>4. outcome'[timers'[id]] = "added"
      BY <1>3, <2>1
    <3>3. eventId[timers'[id]] = id
      BY <1>4, <2>1
    <3> QED
      BY <1>2, <3>1, <3>2, <3>3, <3>4
  <2>2. CASE id \in Waiting /\ timers'[id] = timers[id]
    <3>1. \A i \in 1 .. Len(w) : ~Carries(w[i], timers[id])
      BY <2>2
    <3> QED
      BY <1>2, <1>4, <2>2, <3>1 DEF AwaitedOnce
  <2> QED
    BY <2>1, <2>2
<1>8. NeverLost'
  <2> SUFFICES ASSUME NEW t \in EventTask, outcome'[t] = "added",
                      \A id \in Waiting' : timers'[id] # t
               PROVE  \E i \in Place' : Carries(posted'[i], t)
    BY DEF NeverLost
  <2>1. outcome[t] = "added" /\ t \notin ended /\ t \notin armed
    OBVIOUS
  <2>2. CASE \E i \in Place : Carries(posted[i], t)
    <3>1. PICK k \in 2 .. n : Carries(posted[k], t)
      BY <1>1, <2>1, <2>2
    <3>2. k - 1 \in 1 .. n - 1 /\ k = (k - 1) + 1 /\ k - 1 \in Place'
      BY <1>1
    <3>3. posted'[k - 1] = posted[k]
      BY <1>1, <3>2
    <3> QED
      BY <3>1, <3>2, <3>3
  <2>3. CASE \E id \in Waiting : timers[id] = t
    <3>1. PICK a \in 1 .. Len(w) : Carries(w[a], t)
      BY <2>3
    <3>2. n - 1 + a \in Place' /\ posted'[n - 1 + a] = w[a]
      BY <1>1
    <3> QED
      BY <3>1, <3>2
  <2> QED
    BY <2>1, <2>2, <2>3 DEF NeverLost
<1> QED
  BY <1>6, <1>7, <1>8

\* The steps that touch the timer of one id.
LEMMA OneTimerKeeps ==
  ASSUME SchedulerInv, SchedulerTypeOK', posted # <<>>,
         UNCHANGED eventId,
         NEW id \in Id, posted' = Tail(posted) \o AbortedWait(id),
         NEW ended \in SUBSET EventTask, NEW armed \in SUBSET EventTask,
         \A t \in EventTask : Carries(Head(posted), t) <=> t \in ended \/ t \in armed,
         \A t \in EventTask \ ended : outcome'[t] = outcome[t],
         \A t \in ended : outcome'[t] # "added" /\ t \notin armed,
         Waiting' \ {id} = Waiting \ {id},
         \A i \in Waiting \ {id} : timers'[i] = timers[i],
         \A t \in armed : id \in Waiting' /\ timers'[id] = t,
         id \in Waiting' => timers'[id] \in armed /\ eventId[timers'[id]] = id
  PROVE  SchedulerInv'
<1> DEFINE w == AbortedWait(id)
<1>0. posted' = Tail(posted) \o w
  OBVIOUS
<1>1. /\ w \in Seq(Handler)
      /\ id \in Waiting => w = <<WaitOver(timers[id], TRUE)>>
      /\ id \notin Waiting => w = <<>>
      /\ \A i \in Waiting : timers[i] \in EventTask /\ eventId[timers[i]] = i
  BY TimerTypes DEF AbortedWait, SchedulerInv, AwaitedOnce
<1> HIDE DEF w
<1>2. \A i \in Waiting : Carries(WaitOver(timers[id], TRUE), timers[i]) => timers[id] = timers[i]
  BY Handlers
<1>3. id \in Waiting => timers[id] \notin armed
  <2> SUFFICES ASSUME id \in Waiting, timers[id] \in armed PROVE FALSE
    OBVIOUS
  <2>1. Carries(posted[1], timers[id]) /\ 1 \in Place
    BY Requeued, EmptySeq DEF SchedulerInv, SchedulerTypeOK, Place
  <2> QED
    BY <2>1 DEF SchedulerInv, AwaitedOnce
<1>4. \A i \in 1 .. Len(w) : id \in Waiting /\ i = 1 /\ Carries(w[i], timers[id])
  <2>1. CASE id \in Waiting
    <3>1. Len(w) = 1 /\ w[1] = WaitOver(timers[id], TRUE)
      BY <1>1, <2>1 DEF WaitOver
    <3>2. \A i \in 1 .. 1 : i = 1
      OBVIOUS
    <3>3. Carries(w[1], timers[id])
      BY <3>1 DEF Carries, WaitOver
    <3> QED
      BY <2>1, <3>1, <3>2, <3>3
  <2>2. CASE id \notin Waiting
    <3>1. Len(w) = 0
      BY <1>1, <2>2
    <3> QED
      BY <3>1
  <2> QED
    BY <2>1, <2>2
<1>5. \A i \in Waiting' : \/ timers'[i] \in armed /\ eventId[timers'[i]] = i
                          \/ i \in Waiting /\ timers'[i] = timers[i]
  OBVIOUS
<1>6. \A t \in armed : \E i \in Waiting' : timers'[i] = t
  OBVIOUS
<1>7. \A i \in Waiting : (\E k \in 1 .. Len(w) : Carries(w[k], timers[i]))
                            <=> ~(i \in Waiting' /\ timers'[i] = timers[i])
  <2> TAKE i \in Waiting
  <2>1. CASE i = id
    <3>0. Len(w) = 1 /\ w[1] = WaitOver(timers[i], TRUE)
      BY <1>1, <2>1 DEF WaitOver
    <3>1. Carries(w[1], timers[i]) /\ 1 \in 1 .. Len(w)
      BY <3>0 DEF Carries, WaitOver
    <3>2. ~(i \in Waiting' /\ timers'[i] = timers[i])
      BY <1>3, <2>1
    <3> QED
      BY <3>1, <3>2
  <2>2. CASE i # id
    <3>1. ASSUME NEW k \in 1 .. Len(w), Carries(w[k], timers[i])
          PROVE  FALSE
      <4>1. id \in Waiting /\ k = 1 /\ w = <<WaitOver(timers[id], TRUE)>>
        BY <1>1, <1>4
      <4>2. timers[id] = timers[i]
        BY <1>2, <3>1, <4>1
      <4> QED
        BY <1>1, <2>2, <4>1, <4>2
    <3> QED
      BY <2>2, <3>1
  <2> QED
    BY <2>1, <2>2
<1>8. /\ \A i \in 1 .. Len(w) : \E k \in Waiting : Carries(w[i], timers[k])
      /\ \A i, j \in 1 .. Len(w), t \in EventTask :
            Carries(w[i], t) /\ Carries(w[j], t) => i = j
  BY <1>4
<1> QED
  BY <1>0, <1>1, <1>5, <1>6, <1>7, <1>8, ContextKeeps

LEMMA RunInsertKeeps ==
  ASSUME SchedulerInv, RunInsert
  PROVE  SchedulerInv'
<1> DEFINE t == Head(posted).task
           id == eventId[t]
<1>1. /\ posted # <<>> /\ posted \in Seq(Handler) /\ Head(posted) \in Handler
      /\ Head(posted).kind = "insert"
  BY HeadTailProperties DEF RunInsert, Run, SchedulerInv, SchedulerTypeOK
<1>2. t \in EventTask /\ id \in Id
  BY <1>1, HandlerKinds DEF SchedulerInv, SchedulerTypeOK
<1>3. /\ posted' = Tail(posted) \o AbortedWait(id)
      /\ timers' = [i \in DOMAIN timers \cup {id} |-> IF i = id THEN t ELSE timers[i]]
      /\ UNCHANGED <<terminated, stopped, lastEventId, eventId, outcome, asked>>
  BY DEF RunInsert, SetTimer
<1>4. posted' \in Seq(Handler)
  BY <1>1, <1>3, Requeued, TimerTypes DEF SchedulerInv
<1>5. timers' \in UNION {[ids -> EventTask \cup {None}] : ids \in SUBSET Id}
  <2>1. DOMAIN timers \cup {id} \in SUBSET Id
    BY <1>2, TimerTypes DEF SchedulerInv
  <2>2. timers' \in [DOMAIN timers \cup {id} -> EventTask \cup {None}]
    BY <1>2, <1>3, TimerTypes DEF SchedulerInv
  <2> QED
    BY <2>1, <2>2
<1>6. SchedulerTypeOK'
  BY <1>3, <1>4, <1>5 DEF SchedulerInv, SchedulerTypeOK
<1>7. /\ Waiting' = Waiting \cup {id} /\ timers'[id] = t
      /\ \A i \in Waiting \ {id} : timers'[i] = timers[i]
  BY <1>2, <1>3, SchedulerAssumption DEF Waiting
<1>8. \A u \in EventTask : Carries(Head(posted), u) <=> u \in {} \/ u \in {t}
  BY <1>1, HandlerKinds
<1>9. /\ {} \in SUBSET EventTask /\ {t} \in SUBSET EventTask
      /\ \A u \in EventTask \ {} : outcome'[u] = outcome[u]
      /\ \A u \in {} : outcome'[u] # "added" /\ u \notin {t}
      /\ \A u \in {t} : id \in Waiting' /\ timers'[id] = u
      /\ id \in Waiting' => timers'[id] \in {t} /\ eventId[timers'[id]] = id
      /\ Waiting' \ {id} = Waiting \ {id}
  BY <1>2, <1>3, <1>7
<1> HIDE DEF t, id
<1> QED
  BY <1>1, <1>2, <1>3, <1>6, <1>7, <1>8, <1>9, OneTimerKeeps

LEMMA RunCancelKeeps ==
  ASSUME SchedulerInv, RunCancel
  PROVE  SchedulerInv'
<1> DEFINE id == Head(posted).id
           none == {t \in EventTask : FALSE}
<1>1. /\ posted # <<>> /\ posted \in Seq(Handler) /\ Head(posted) \in Handler
      /\ Head(posted).kind = "cancel"
  BY HeadTailProperties DEF RunCancel, Run, SchedulerInv, SchedulerTypeOK
<1>2. id \in Id
  BY <1>1, HandlerKinds
<1>3. /\ posted' = Tail(posted) \o AbortedWait(id)
      /\ timers' = IF id \in DOMAIN timers THEN [timers EXCEPT ![id] = None] ELSE timers
      /\ UNCHANGED <<terminated, stopped, lastEventId, eventId, outcome, asked>>
  BY DEF RunCancel
<1>4. posted' \in Seq(Handler)
  BY <1>1, <1>3, Requeued, TimerTypes DEF SchedulerInv
<1>5. timers' \in UNION {[ids -> EventTask \cup {None}] : ids \in SUBSET Id}
  <2>1. PICK ids \in SUBSET Id : timers \in [ids -> EventTask \cup {None}]
    BY DEF SchedulerInv, SchedulerTypeOK
  <2>2. timers' \in [ids -> EventTask \cup {None}]
    BY <1>3, <2>1
  <2> QED
    BY <2>1, <2>2
<1>6. SchedulerTypeOK'
  BY <1>3, <1>4, <1>5 DEF SchedulerInv, SchedulerTypeOK
<1>7. /\ Waiting' = Waiting \ {id}
      /\ \A i \in Waiting \ {id} : timers'[i] = timers[i]
  BY <1>3 DEF Waiting
<1>8. \A u \in EventTask : Carries(Head(posted), u) <=> u \in none \/ u \in none
  BY <1>1, HandlerKinds
<1>9. /\ none \in SUBSET EventTask
      /\ \A u \in EventTask \ none : outcome'[u] = outcome[u]
      /\ \A u \in none : outcome'[u] # "added" /\ u \notin none
      /\ \A u \in none : id \in Waiting' /\ timers'[id] = u
      /\ id \in Waiting' => timers'[id] \in none /\ eventId[timers'[id]] = id
      /\ Waiting' \ {id} = Waiting \ {id}
  BY <1>2, <1>3, <1>7
<1> HIDE DEF id, none
<1> QED
  BY <1>1, <1>2, <1>3, <1>6, <1>7, <1>8, <1>9, OneTimerKeeps

LEMMA RunOverKeeps ==
  ASSUME SchedulerInv, RunOver
  PROVE  SchedulerInv'
<1> DEFINE h == Head(posted)
           t == h.task
           id == eventId[t]
           none == {u \in EventTask : FALSE}
<1>1. posted # <<>> /\ posted \in Seq(Handler) /\ h \in Handler /\ h.kind = "over"
  BY HeadTailProperties DEF RunOver, Run, SchedulerInv, SchedulerTypeOK
<1>2. t \in EventTask /\ id \in Id
  BY <1>1, HandlerKinds DEF SchedulerInv, SchedulerTypeOK
<1>3. /\ posted' = Tail(posted) \o AbortedWait(id)
      /\ timers' = [i \in DOMAIN timers \ {id} |-> timers[i]]
      /\ outcome' = [outcome EXCEPT ![t] =
                       IF h.aborted \/ terminated THEN "deleted" ELSE "dispatched"]
      /\ UNCHANGED <<terminated, stopped, lastEventId, eventId, asked>>
  BY DEF RunOver
<1>4. posted' \in Seq(Handler)
  BY <1>1, <1>3, Requeued, TimerTypes DEF SchedulerInv
<1>5. timers' \in UNION {[ids -> EventTask \cup {None}] : ids \in SUBSET Id}
  <2>1. DOMAIN timers \ {id} \in SUBSET Id
    BY TimerTypes DEF SchedulerInv
  <2>2. timers' \in [DOMAIN timers \ {id} -> EventTask \cup {None}]
    BY <1>3, TimerTypes DEF SchedulerInv
  <2> QED
    BY <2>1, <2>2
<1>6. SchedulerTypeOK'
  BY <1>2, <1>3, <1>4, <1>5 DEF SchedulerInv, SchedulerTypeOK
<1>7. /\ Waiting' = Waiting \ {id}
      /\ \A i \in Waiting \ {id} : timers'[i] = timers[i]
  BY <1>3 DEF Waiting
<1>8. \A u \in EventTask : Carries(Head(posted), u) <=> u \in {t} \/ u \in none
  BY <1>1, HandlerKinds
<1>9. /\ none \in SUBSET EventTask /\ {t} \in SUBSET EventTask
      /\ \A u \in EventTask \ {t} : outcome'[u] = outcome[u]
      /\ \A u \in {t} : outcome'[u] # "added" /\ u \notin none
      /\ \A u \in none : id \in Waiting' /\ timers'[id] = u
      /\ id \in Waiting' => timers'[id] \in none /\ eventId[timers'[id]] = id
      /\ Waiting' \ {id} = Waiting \ {id}
  BY <1>2, <1>3, <1>7 DEF SchedulerInv, SchedulerTypeOK
<1> HIDE DEF h, t, id, none
<1>10. Head(posted) = h
  BY DEF h
<1> QED
  BY <1>1, <1>2, <1>3, <1>6, <1>7, <1>8, <1>9, <1>10, OneTimerKeeps

LEMMA RunStopKeeps ==
  ASSUME SchedulerInv, RunStop
  PROVE  SchedulerInv'
<1> DEFINE n == Cardinality(Waiting)
           none == {u \in EventTask : FALSE}
<1>1. /\ posted # <<>> /\ posted \in Seq(Handler) /\ Head(posted) \in Handler
      /\ Head(posted).kind = "stop"
  BY HeadTailProperties DEF RunStop, Run, SchedulerInv, SchedulerTypeOK
<1>2. n \in Nat
  <2>1. IsFiniteSet(Id)
    BY SchedulerAssumption, FS_Interval DEF Id
  <2>2. Waiting \subseteq Id
    BY TimerTypes DEF SchedulerInv
  <2> QED
    BY <2>1, <2>2, FS_Subset, FS_CardinalityType
<1>3. PICK order \in Bijection(1 .. n, Waiting) :
         posted' = Tail(posted) \o [i \in DOMAIN order |-> WaitOver(timers[order[i]], TRUE)]
  BY DEF RunStop
<1> DEFINE w == [i \in DOMAIN order |-> WaitOver(timers[order[i]], TRUE)]
<1>4. /\ order \in [1 .. n -> Waiting]
      /\ \A i, j \in 1 .. n : order[i] = order[j] => i = j
      /\ \A id \in Waiting : \E i \in 1 .. n : order[i] = id
  BY DEF Bijection, Injection, Surjection, IsInjective
<1>5. \A i \in 1 .. n : /\ order[i] \in Waiting /\ timers[order[i]] \in EventTask
                        /\ WaitOver(timers[order[i]], TRUE) \in Handler
  BY <1>4, TimerTypes, Handlers DEF SchedulerInv
<1>6. /\ w \in Seq(Handler) /\ Len(w) = n
      /\ \A i \in 1 .. n : w[i] = WaitOver(timers[order[i]], TRUE)
  <2>1. DOMAIN order = 1 .. n
    BY <1>4
  <2>2. w = [i \in 1 .. n |-> WaitOver(timers[order[i]], TRUE)]
    BY <2>1
  <2> HIDE DEF w
  <2>3. w \in [1 .. n -> Handler]
    BY <1>5, <2>2
  <2>4. w \in Seq(Handler) /\ Len(w) = n
    BY <1>2, <2>3, IsASeq
  <2> QED
    BY <2>2, <2>4
<1> HIDE DEF w
<1>7. /\ posted' = Tail(posted) \o w
      /\ timers' = [i \in DOMAIN timers |-> None]
      /\ stopped' = TRUE
      /\ UNCHANGED <<terminated, lastEventId, eventId, outcome, asked>>
  BY <1>3 DEF RunStop, w
<1>8. SchedulerTypeOK'
  <2>1. posted' \in Seq(Handler)
    BY <1>1, <1>6, <1>7, Requeued
  <2>2. timers' \in UNION {[ids -> EventTask \cup {None}] : ids \in SUBSET Id}
    <3>1. DOMAIN timers \in SUBSET Id
      BY TimerTypes DEF SchedulerInv
    <3>2. timers' \in [DOMAIN timers -> EventTask \cup {None}]
      BY <1>7
    <3> QED
      BY <3>1, <3>2
  <2> QED
    BY <1>7, <2>1, <2>2 DEF SchedulerInv, SchedulerTypeOK
<1>9. Waiting' = {}
  BY <1>7 DEF Waiting
<1>10. \A i \in 1 .. n, t \in EventTask : Carries(w[i], t) <=> t = timers[order[i]]
  BY <1>5, <1>6 DEF Carries, WaitOver
<1>11. \A i \in 1 .. Len(w) : \E id \in Waiting : Carries(w[i], timers[id])
  BY <1>5, <1>6, <1>10
<1>12. \A id \in Waiting : \E i \in 1 .. Len(w) : Carries(w[i], timers[id])
  <2> SUFFICES ASSUME NEW id \in Waiting
               PROVE  \E i \in 1 .. n : Carries(w[i], timers[id])
    BY <1>6
  <2>1. PICK i \in 1 .. n : order[i] = id
    BY <1>4
  <2>2. timers[order[i]] \in EventTask
    BY <1>5
  <2>3. Carries(w[i], timers[order[i]])
    BY <1>10, <2>2
  <2> QED
    BY <2>1, <2>3
<1>13. \A i, j \in 1 .. Len(w), t \in EventTask :
          Carries(w[i], t) /\ Carries(w[j], t) => i = j
  <2> SUFFICES ASSUME NEW i \in 1 .. n, NEW j \in 1 .. n, timers[order[i]] = timers[order[j]]
               PROVE  i = j
    BY <1>6, <1>10
  <2>1. order[i] = order[j]
    BY <1>5 DEF SchedulerInv, AwaitedOnce
  <2> QED
    BY <1>4, <2>1
<1>14. /\ none \in SUBSET EventTask
       /\ \A u \in EventTask : Carries(Head(posted), u) <=> u \in none \/ u \in none
       /\ \A u \in EventTask \ none : outcome'[u] = outcome[u]
       /\ \A u \in none : outcome'[u] # "added" /\ u \notin none
       /\ \A u \in none : \E id \in Waiting' : timers'[id] = u
       /\ \A id \in Waiting' : \/ timers'[id] \in none /\ eventId[timers'[id]] = id
                               \/ id \in Waiting /\ timers'[id] = timers[id]
       /\ \A id \in Waiting : (\E i \in 1 .. Len(w) : Carries(w[i], timers[id]))
                                 <=> ~(id \in Waiting' /\ timers'[id] = timers[id])
  BY <1>1, <1>7, <1>9, <1>12, HandlerKinds
<1> HIDE DEF none
<1> QED
  BY <1>1, <1>6, <1>7, <1>8, <1>11, <1>13, <1>14, ContextKeeps

LEMMA ExpireKeeps ==
  ASSUME SchedulerInv, NEW id \in Id, Expire(id)
  PROVE  SchedulerInv'
<1> USE DEF SchedulerInv, Place
<1> DEFINE n == Len(posted)
           t == timers[id]
           h == WaitOver(t, FALSE)
<1>0. /\ id \in Waiting /\ posted' = Append(posted, h)
      /\ timers' = [timers EXCEPT ![id] = None]
      /\ UNCHANGED <<terminated, stopped, lastEventId, eventId, outcome, asked>>
  BY DEF Expire
<1>1. id \in Waiting /\ t \in EventTask /\ outcome[t] = "added" /\ eventId[t] = id
      /\ \A i \in Place : ~Carries(posted[i], t)
  BY <1>0, TimerTypes DEF AwaitedOnce
<1>2. h \in Handler /\ posted' = Append(posted, h) /\ \A u : Carries(h, u) <=> u = t
  BY <1>0, <1>1, Handlers
<1> HIDE DEF h
<1>3. /\ posted' \in Seq(Handler) /\ Len(posted') = n + 1 /\ n \in Nat
      /\ \A i \in 1 .. n : posted'[i] = posted[i]
      /\ posted'[n + 1] = h
  BY <1>2, Queued DEF SchedulerTypeOK
<1>4. \A i \in 1 .. n + 1 : i \in 1 .. n \/ i = n + 1
  BY <1>3
<1>5. Carries(posted'[n + 1], t) /\ n + 1 \in Place'
      /\ \A u \in EventTask : Carries(posted'[n + 1], u) => u = t
  BY <1>2, <1>3
<1>6. timers' = [timers EXCEPT ![id] = None] /\ UNCHANGED <<eventId, outcome>>
  BY <1>0
<1>7. /\ Waiting' = Waiting \ {id}
      /\ \A i \in Waiting \ {id} : timers'[i] = timers[i] /\ timers[i] # t
  BY <1>1, <1>6 DEF Waiting, AwaitedOnce
<1> HIDE DEF t
<1>8. SchedulerTypeOK'
  <2>1. PICK ids \in SUBSET Id : timers \in [ids -> EventTask \cup {None}]
    BY DEF SchedulerTypeOK
  <2>2. timers' \in [ids -> EventTask \cup {None}]
    BY <1>6, <2>1
  <2>3. timers' \in UNION {[i -> EventTask \cup {None}] : i \in SUBSET Id}
    BY <2>1, <2>2
  <2> QED
    BY <1>0, <1>3, <2>3 DEF SchedulerTypeOK
<1>9. CarriedOnce'
  <2>1. \A i \in 1 .. n : ~Carries(posted'[i], t)
    BY <1>1, <1>3 DEF t
  <2> QED
    BY <1>1, <1>3, <1>4, <1>5, <1>6, <2>1 DEF CarriedOnce
<1>10. AwaitedOnce'
  <2> SUFFICES ASSUME NEW k \in Waiting \ {id}
               PROVE  /\ eventId[timers[k]] = k
                      /\ outcome[timers[k]] = "added"
                      /\ \A i \in Place' : ~Carries(posted'[i], timers[k])
    BY <1>6, <1>7 DEF AwaitedOnce
  <2>1. timers[k] \in EventTask
    BY TimerTypes
  <2> QED
    BY <1>3, <1>4, <1>5, <1>7, <2>1 DEF AwaitedOnce
<1>11. NeverLost'
  <2> SUFFICES ASSUME NEW u \in EventTask, outcome[u] = "added",
                      \A k \in Waiting \ {id} : timers[k] # u
               PROVE  \E i \in Place' : Carries(posted'[i], u)
    BY <1>6, <1>7 DEF NeverLost
  <2>1. CASE u = t
    BY <1>5, <2>1
  <2>2. CASE u # t
    <3>1. PICK i \in 1 .. n : Carries(posted[i], u)
      BY <2>2 DEF NeverLost, t
    <3> QED
      BY <1>3, <3>1 DEF Place
  <2> QED
    BY <2>1, <2>2
<1> QED
  BY <1>8, <1>9, <1>10, <1>11

-----------------------------------------------------------------------------
(* The theorems.                                                           *)

\* The pointer of a task that was added is held in exactly one place: by one
\* handler or by the wait of its own timer, until it is handed on or deleted.
THEOREM OnePlaceEach == SchedulerSpec => []SchedulerInv
<1>1. SchedulerInit => SchedulerInv
  <2> SUFFICES ASSUME SchedulerInit PROVE SchedulerInv
    OBVIOUS
  <2> USE DEF SchedulerInit
  <2>1. posted \in Seq(Handler) /\ Len(posted) = 0
    OBVIOUS
  <2>2. DOMAIN timers = {} /\ timers \in [{} -> EventTask \cup {None}]
    OBVIOUS
  <2>3. 0 \in Id
    BY SchedulerAssumption DEF Id
  <2>4. timers \in UNION {[ids -> EventTask \cup {None}] : ids \in SUBSET Id}
    BY <2>2
  <2>5. SchedulerTypeOK
    BY <2>1, <2>3, <2>4 DEF SchedulerTypeOK
  <2>6. Waiting = {} /\ Place = {}
    BY <2>1, <2>2 DEF Waiting, Place
  <2> QED
    BY <2>5, <2>6 DEF SchedulerInv, CarriedOnce, AwaitedOnce, NeverLost
<1>2. SchedulerInv /\ [SchedulerNext]_schedVars => SchedulerInv'
  <2> SUFFICES ASSUME SchedulerInv, [SchedulerNext]_schedVars PROVE SchedulerInv'
    OBVIOUS
  <2>1. ASSUME NEW t \in EventTask, AddEvent(t) PROVE SchedulerInv'
    BY <2>1, AddEventKeeps
  <2>2. ASSUME NEW id \in Id, StopEvent(id) PROVE SchedulerInv'
    <3>1. /\ CancelOf(id) \in Handler /\ \A t : ~Carries(CancelOf(id), t)
          /\ posted' = Append(posted, CancelOf(id))
          /\ UNCHANGED <<terminated, stopped, lastEventId, eventId, timers, outcome>>
          /\ asked' = asked \cup {id}
      BY <2>2, Handlers DEF StopEvent
    <3>2. SchedulerTypeOK'
      BY <3>1, Queued DEF SchedulerInv, SchedulerTypeOK
    <3> QED
      BY <3>1, <3>2, PostedKeeps
  <2>3. ASSUME NEW id \in Id, Expire(id) PROVE SchedulerInv'
    BY <2>3, ExpireKeeps
  <2>4. CASE SchedulerShutdown
    <3>1. /\ StopContext \in Handler /\ \A t : ~Carries(StopContext, t)
          /\ posted' = Append(posted, StopContext)
          /\ UNCHANGED <<stopped, lastEventId, eventId, timers, outcome, asked>>
          /\ terminated' = TRUE
      BY <2>4, Handlers DEF SchedulerShutdown
    <3>2. SchedulerTypeOK'
      BY <3>1, Queued DEF SchedulerInv, SchedulerTypeOK
    <3> QED
      BY <3>1, <3>2, PostedKeeps
  <2>5. CASE ContextStep
    BY <2>5, RunInsertKeeps, RunCancelKeeps, RunOverKeeps, RunStopKeeps DEF ContextStep
  <2>6. CASE UNCHANGED schedVars
    BY <2>6 DEF schedVars, SchedulerInv, SchedulerTypeOK, CarriedOnce, AwaitedOnce,
                NeverLost, Place, Waiting
  <2> QED
    BY <2>1, <2>2, <2>3, <2>4, <2>5, <2>6 DEF SchedulerNext
<1> QED
  BY <1>1, <1>2, PTL DEF SchedulerSpec

\* The state variables have the types SchedulerTypeOK gives them.
THEOREM SchedulerTypeCorrect == SchedulerSpec => []SchedulerTypeOK
<1>1. SchedulerInv => SchedulerTypeOK
  BY DEF SchedulerInv
<1> QED
  BY <1>1, OnePlaceEach, PTL

\* What became of a task changes by one step of OneShotTimers at a time.
LEMMA OutcomeStep ==
  ASSUME SchedulerTypeOK, NEW t \in EventTask,
         NEW o \in {"added", "dispatched", "deleted"},
         outcome[t] = (IF o = "added" THEN "new" ELSE "added"),
         outcome' = [outcome EXCEPT ![t] = o]
  PROVE  Promise!TimersNext
<1> DEFINE s == IF o = "added" THEN "pending" ELSE IF o = "dispatched" THEN "fired" ELSE "cancelled"
<1>1. Status' = [Status EXCEPT ![t] = s]
  BY DEF Status, SchedulerTypeOK
<1>2. Status[t] = IF o = "added" THEN "idle" ELSE "pending"
  BY DEF Status
<1> QED
  BY <1>1, <1>2 DEF Promise!TimersNext, Promise!Request, Promise!Fire, Promise!Cancel,
                    Promise!Move

\* Each event that is requested is fired or cancelled once, whatever stopEvent,
\* the expiry, the wrap of the ids and shutdown race: the scheduler implements
\* OneShotTimers.
THEOREM SchedulerIsOneShot == SchedulerSpec => ImplementsTimers
<1>1. SchedulerInit => Promise!TimersInit
  BY DEF SchedulerInit, Promise!TimersInit, Status
<1>2. SchedulerInv /\ [SchedulerNext]_schedVars => [Promise!TimersNext]_Status
  <2> SUFFICES ASSUME SchedulerInv, [SchedulerNext]_schedVars
               PROVE  Promise!TimersNext \/ UNCHANGED Status
    OBVIOUS
  <2>1. ASSUME NEW t \in EventTask, AddEvent(t) PROVE Promise!TimersNext
    BY <2>1, OutcomeStep DEF AddEvent, SchedulerInv
  <2>2. CASE RunOver
    <3> DEFINE t == Head(posted).task
               o == IF Head(posted).aborted \/ terminated THEN "deleted" ELSE "dispatched"
    <3>1. /\ posted # <<>> /\ Head(posted) \in Handler /\ Head(posted).kind = "over"
          /\ Head(posted) = posted[1] /\ 1 \in Place
      BY <2>2, Requeued, EmptySeq DEF RunOver, Run, SchedulerInv, SchedulerTypeOK, Place
    <3>2. t \in EventTask /\ Carries(posted[1], t)
      BY <3>1, HandlerKinds
    <3>3. outcome[t] = "added"
      BY <3>1, <3>2 DEF SchedulerInv, CarriedOnce
    <3>4. outcome' = [outcome EXCEPT ![t] = o]
      BY <2>2 DEF RunOver
    <3>5. o \in {"dispatched", "deleted"}
      OBVIOUS
    <3> HIDE DEF o, t
    <3> QED
      BY <3>2, <3>3, <3>4, <3>5, OutcomeStep DEF SchedulerInv
  <2>3. ASSUME UNCHANGED outcome PROVE UNCHANGED Status
    BY <2>3 DEF Status
  <2>4. ASSUME NEW id \in Id, StopEvent(id) \/ Expire(id) PROVE UNCHANGED outcome
    BY <2>4 DEF StopEvent, Expire
  <2>5. CASE SchedulerShutdown \/ RunInsert \/ RunCancel \/ RunStop
    BY <2>3, <2>5 DEF SchedulerShutdown, RunInsert, RunCancel, RunStop
  <2>6. CASE UNCHANGED schedVars
    BY <2>3, <2>6 DEF schedVars
  <2> QED
    BY <2>1, <2>2, <2>3, <2>4, <2>5, <2>6 DEF SchedulerNext, ContextStep
<1> QED
  BY <1>1, <1>2, OnePlaceEach, PTL
     DEF SchedulerSpec, ImplementsTimers, Promise!TimersSpec

=============================================================================
