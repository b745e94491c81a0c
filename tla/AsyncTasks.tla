----------------------------- MODULE AsyncTasks -----------------------------
(***************************************************************************)
(* What NgxThreadPool::post promises its caller: a task that was accepted  *)
(* is started in the order of acceptance by one of a fixed number of       *)
(* workers, runs once, and is delivered back to the event loop once, after *)
(* it ran; only then may it be submitted again.                            *)
(***************************************************************************)
EXTENDS Naturals, Sequences, FiniteSets

CONSTANTS Task,     \* the tasks
          Workers   \* how many tasks may run at once

VARIABLES pending,    \* accepted, not started; oldest first
          running,    \* being run by a worker
          finished,   \* ran, result not yet delivered
          lost        \* the post failed half way: the task is unusable

vars == <<pending, running, finished, lost>>

Taken == {pending[i] : i \in DOMAIN pending} \cup running \cup finished \cup lost

Init == /\ pending = <<>>
        /\ running = {} /\ finished = {} /\ lost = {}

Submit(k) == /\ k \notin Taken
             /\ pending' = Append(pending, k)
             /\ UNCHANGED <<running, finished, lost>>

Lose(k) == /\ k \notin Taken
           /\ lost' = lost \cup {k}
           /\ UNCHANGED <<pending, running, finished>>

Start == /\ pending # <<>>
         /\ Cardinality(running) < Workers
         /\ running' = running \cup {Head(pending)}
         /\ pending' = Tail(pending)
         /\ UNCHANGED <<finished, lost>>

Finish(k) == /\ k \in running
             /\ running' = running \ {k}
             /\ finished' = finished \cup {k}
             /\ UNCHANGED <<pending, lost>>

Deliver(k) == /\ k \in finished
              /\ finished' = finished \ {k}
              /\ UNCHANGED <<pending, running, lost>>

Next == \/ Start
        \/ \E k \in Task : Submit(k) \/ Lose(k) \/ Finish(k) \/ Deliver(k)

Spec == Init /\ [][Next]_vars
=============================================================================
