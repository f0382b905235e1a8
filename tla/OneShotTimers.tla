---------------------------- MODULE OneShotTimers ----------------------------
(***************************************************************************)
(* What the scheduler promises: an event that is requested ends exactly    *)
(* once, by being fired or by being cancelled, whatever races with what.   *)
(***************************************************************************)
CONSTANT Event

VARIABLE status

TimersInit == status = [e \in Event |-> "idle"]

Move(e, from, to) == status[e] = from /\ status' = [status EXCEPT ![e] = to]

Request(e) == Move(e, "idle", "pending")
Fire(e) == Move(e, "pending", "fired")
Cancel(e) == Move(e, "pending", "cancelled")

TimersNext == \E e \in Event : Request(e) \/ Fire(e) \/ Cancel(e)

TimersSpec == TimersInit /\ [][TimersNext]_status

=============================================================================
