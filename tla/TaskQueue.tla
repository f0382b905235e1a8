------------------------------ MODULE TaskQueue ------------------------------
(***************************************************************************)
(* What the dispatcher promises the rest of the server: a queue that any   *)
(* thread may append to while it is open, and from which jobs are finished *)
(* in the order in which they were accepted, each exactly once.  A control *)
(* job (the one that ends the dispatcher) is accepted even when the queue  *)
(* is closed.                                                              *)
(***************************************************************************)
EXTENDS Sequences

CONSTANTS
    Job,      (* everything that may be queued                    *)
    Control   (* the jobs that are accepted by a closed queue too *)

VARIABLES
    pending,  (* accepted and not yet finished, oldest first      *)
    open      (* ordinary jobs are still accepted                 *)

queueVars == <<pending, open>>

QueueInit ==
    /\ pending = <<>>
    /\ open = TRUE

Accept(j) ==
    /\ open \/ j \in Control
    /\ pending' = Append(pending, j)
    /\ UNCHANGED open

Serve ==
    /\ pending # <<>>
    /\ pending' = Tail(pending)
    /\ open' \in {open, FALSE}

Close ==
    /\ open' = FALSE
    /\ UNCHANGED pending

QueueNext ==
    \/ \E j \in Job : Accept(j)
    \/ Serve
    \/ Close

QueueSpec == QueueInit /\ [][QueueNext]_queueVars

=============================================================================
