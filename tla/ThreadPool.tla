----------------------------- MODULE ThreadPool -----------------------------
(***************************************************************************)
(* The worker process's thread pool (ngx_thread_pool.c, wrapped by         *)
(* NgxThread.hpp) together with the notification path by which a pool      *)
(* thread wakes the event loop (CppEpollHandler::notify, notify_handler    *)
(* and the part of process_events that serves the eventfd).                *)
(*                                                                         *)
(* Actors: the main thread (event loop, posting, completion callbacks,     *)
(* destruction) and the pool threads.  A critical section of tp->mtx or of *)
(* ngx_thread_pool_done_lock is one step; everything between two sections  *)
(* interleaves.  pthread mutex calls are assumed to succeed.               *)
(***************************************************************************)
EXTENDS Integers, Sequences, FiniteSets, Functions

CONSTANTS Thread,         \* the tp->threads pool threads
          Task,           \* the ngx_thread_task_t objects of the application
          Exit,           \* the stack-allocated task of ngx_thread_pool_destroy
          None,           \* a thread that holds no task
          MaxQueue,       \* tp->max_queue
          IndexMax,       \* NGX_MAX_UINT32_VALUE, the wrap of notify.event.index
          SignalMayFail   \* whether pthread_cond_signal may report an error

ASSUME PoolAssumption ==
    /\ IsFiniteSet(Thread) /\ Thread # {}
    /\ IsFiniteSet(Task)
    /\ Exit \notin Task /\ None \notin Task /\ Exit # None
    /\ MaxQueue \in Nat \ {0}
    /\ IndexMax \in Nat \ {0}
    /\ SignalMayFail \in BOOLEAN

VARIABLES
    queue,      \* tp->queue: tasks waiting for a thread, oldest first
    waiting,    \* tp->waiting
    pc,         \* where each thread is in ngx_thread_pool_cycle
    task,       \* the local variable task of each thread's cycle
    active,     \* task->event.active
    done,       \* ngx_thread_pool_done
    efd,        \* the counter of the eventfd notify.fd
    edge,       \* the eventfd is on epoll's (edge triggered) ready list
    posted,     \* notify.event is on ngx_posted_events
    index,      \* notify.event.index
    main,       \* what the main thread is executing
    batch,      \* the list ngx_thread_pool_handler is walking
    lock,       \* the flag the destroying thread spins on
    exits,      \* n, the number of threads destroyed so far
    stranded    \* history: tasks whose post failed after setting active

poolVars   == <<queue, waiting, pc, task>>
notifyVars == <<efd, edge, posted, index>>
exitVars   == <<lock, exits>>
vars == <<poolVars, active, done, notifyVars, main, batch, exitVars, stranded>>

ThreadState == {"top",      \* about to lock tp->mtx
                "wait",     \* in pthread_cond_wait
                "woken",    \* leaving pthread_cond_wait, tp->mtx not yet held
                "run",      \* running task->handler
                "notify",   \* task is on the done list, ngx_notify not yet called
                "exited"}   \* pthread_exit

MainState == {"loop",       \* in the event loop, able to run request handlers
              "handler",    \* entered notify_handler
              "blocked",    \* read() of an eventfd whose counter is 0
              "drain",      \* about to take ngx_thread_pool_done
              "complete",   \* running the completion callbacks of batch
              "destroy",    \* top of the loop of ngx_thread_pool_destroy
              "spin",       \* while (lock) ngx_sched_yield()
              "abandoned",  \* ngx_thread_pool_destroy returned early
              "destroyed"}  \* condition variable and mutex destroyed

In(S)   == {t \in Thread : pc[t] \in S}
Waiters == In({"wait"})
Woken   == In({"woken"})
Idle    == In({"wait", "woken"})

TypeOK ==
    /\ queue \in Seq(Task \cup {Exit})
    /\ waiting \in Int
    /\ pc \in [Thread -> ThreadState]
    /\ task \in [Thread -> Task \cup {Exit, None}]
    /\ active \in [Task -> BOOLEAN]
    /\ done \in Seq(Task)
    /\ efd \in Nat
    /\ edge \in BOOLEAN
    /\ posted \in BOOLEAN
    /\ index \in 0 .. IndexMax - 1
    /\ main \in MainState
    /\ batch \in Seq(Task)
    /\ lock \in {0, 1}
    /\ exits \in 0 .. Cardinality(Thread)
    /\ stranded \in SUBSET Task

-----------------------------------------------------------------------------
(* State after ngx_thread_pool_init created the threads and                *)
(* init_notify_data registered an eventfd of value 0.                      *)
Init ==
    /\ queue = <<>> /\ waiting = 0
    /\ pc = [t \in Thread |-> "top"]
    /\ task = [t \in Thread |-> None]
    /\ active = [k \in Task |-> FALSE]
    /\ done = <<>>
    /\ efd = 0 /\ edge = FALSE /\ posted = FALSE /\ index = 0
    /\ main = "loop" /\ batch = <<>>
    /\ lock = 0 /\ exits = 0
    /\ stranded = {}

-----------------------------------------------------------------------------
(* ngx_thread_task_post, from the lock to the unlock.                      *)

\* Mutant of Signal: the wakeup is forgotten.
SignalForgotten == pc' = pc

\* pthread_cond_signal wakes one waiter, if there is one.
Signal ==
    IF Waiters = {}
      THEN pc' = pc
      ELSE \E t \in Waiters : pc' = [pc EXCEPT ![t] = "woken"]

\* The pool has room: overflow is judged by waiting, not by the queue.
HasRoom == waiting < MaxQueue

\* Mutant of Enqueue: signal only when the queue was empty.
EnqueueSignalsIfEmpty(k) ==
    /\ HasRoom
    /\ IF queue = <<>> THEN Signal ELSE pc' = pc
    /\ queue' = Append(queue, k)
    /\ waiting' = waiting + 1
    /\ UNCHANGED task

Enqueue(k) ==
    /\ HasRoom
    /\ Signal
    /\ queue' = Append(queue, k)
    /\ waiting' = waiting + 1
    /\ UNCHANGED task

\* Mutant of Post: the "already active" check is dropped.
PostAgain(k) ==
    /\ main \in {"loop", "complete"}
    /\ Enqueue(k)
    /\ active' = [active EXCEPT ![k] = TRUE]
    /\ UNCHANGED <<done, notifyVars, main, batch, exitVars, stranded>>

\* A request handler or a completion callback posts a task that is not active;
\* an active task or a full pool makes the post return NGX_ERROR unchanged.
Post(k) ==
    /\ main \in {"loop", "complete"}
    /\ ~active[k]
    /\ Enqueue(k)
    /\ active' = [active EXCEPT ![k] = TRUE]
    /\ UNCHANGED <<done, notifyVars, main, batch, exitVars, stranded>>

\* The error return after a failed signal: active stays set.
PostSignalFails(k) ==
    /\ SignalMayFail
    /\ main \in {"loop", "complete"}
    /\ ~active[k]
    /\ HasRoom
    /\ active' = [active EXCEPT ![k] = TRUE]
    /\ stranded' = stranded \cup {k}
    /\ UNCHANGED <<poolVars, done, notifyVars, main, batch, exitVars>>

-----------------------------------------------------------------------------
(* ngx_thread_pool_cycle.                                                  *)

\* Mutant of TakeOrWait: the newest task is taken.
TakeNewest(t) ==
    IF queue = <<>>
      THEN /\ pc' = [pc EXCEPT ![t] = "wait"]
           /\ UNCHANGED <<queue, task>>
      ELSE /\ pc' = [pc EXCEPT ![t] = "run"]
           /\ task' = [task EXCEPT ![t] = queue[Len(queue)]]
           /\ queue' = SubSeq(queue, 1, Len(queue) - 1)

\* Take the first task, or (re-)enter the wait: while (queue.first == NULL).
TakeOrWait(t) ==
    IF queue = <<>>
      THEN /\ pc' = [pc EXCEPT ![t] = "wait"]
           /\ UNCHANGED <<queue, task>>
      ELSE /\ pc' = [pc EXCEPT ![t] = "run"]
           /\ task' = [task EXCEPT ![t] = Head(queue)]
           /\ queue' = Tail(queue)

\* The top of the loop: waiting is decremented before the queue is looked at.
Fetch(t) ==
    /\ pc[t] = "top"
    /\ waiting' = waiting - 1
    /\ TakeOrWait(t)
    /\ UNCHANGED <<active, done, notifyVars, main, batch, exitVars, stranded>>

\* pthread_cond_wait may return without a signal.
SpuriousWakeup(t) ==
    /\ pc[t] = "wait"
    /\ pc' = [pc EXCEPT ![t] = "woken"]
    /\ UNCHANGED <<queue, waiting, task, active, done, notifyVars, main, batch,
                   exitVars, stranded>>

\* Mutant of Recheck: the decrement moved inside the wait loop.
RecheckDecrements(t) ==
    /\ pc[t] = "woken"
    /\ waiting' = waiting - 1
    /\ TakeOrWait(t)
    /\ UNCHANGED <<active, done, notifyVars, main, batch, exitVars, stranded>>

Recheck(t) ==
    /\ pc[t] = "woken"
    /\ TakeOrWait(t)
    /\ UNCHANGED <<waiting, active, done, notifyVars, main, batch, exitVars,
                   stranded>>

\* The task's handler ran; the task joins the done list under its spinlock.
Finish(t) ==
    /\ pc[t] = "run" /\ task[t] # Exit
    /\ done' = Append(done, task[t])
    /\ pc' = [pc EXCEPT ![t] = "notify"]
    /\ task' = [task EXCEPT ![t] = None]
    /\ UNCHANGED <<queue, waiting, active, notifyVars, main, batch, exitVars,
                   stranded>>

\* CppEpollHandler::notify: the write raises the counter and the edge.
Notify(t) ==
    /\ pc[t] = "notify"
    /\ efd' = efd + 1
    /\ edge' = TRUE
    /\ pc' = [pc EXCEPT ![t] = "top"]
    /\ UNCHANGED <<queue, waiting, task, active, done, posted, index, main,
                   batch, exitVars, stranded>>

\* Mutant of ExitThread: the flag is left set.
ExitKeepsLock(t) ==
    /\ pc[t] = "run" /\ task[t] = Exit
    /\ pc' = [pc EXCEPT ![t] = "exited"]
    /\ task' = [task EXCEPT ![t] = None]
    /\ UNCHANGED <<queue, waiting, active, done, notifyVars, main, batch,
                   exitVars, stranded>>

\* ngx_thread_pool_exit_handler.
ExitThread(t) ==
    /\ pc[t] = "run" /\ task[t] = Exit
    /\ lock' = 0
    /\ pc' = [pc EXCEPT ![t] = "exited"]
    /\ task' = [task EXCEPT ![t] = None]
    /\ UNCHANGED <<queue, waiting, active, done, notifyVars, main, batch, exits,
                   stranded>>

-----------------------------------------------------------------------------
(* The main thread's side of the notification.                             *)

\* epoll_wait polls what is on its ready list: a counter of 0 is not reported.
\* With the accept mutex held the event is posted, else its handler runs at
\* once.  ngx_process_events_and_timers empties the posted queue before it
\* calls epoll_wait again.
EpollWait ==
    /\ main = "loop" /\ edge /\ ~posted
    /\ edge' = FALSE
    /\ \/ efd = 0 /\ UNCHANGED <<posted, main>>
       \/ efd > 0 /\ posted' = TRUE /\ UNCHANGED main
       \/ efd > 0 /\ main' = "handler" /\ UNCHANGED posted
    /\ UNCHANGED <<poolVars, active, done, efd, index, batch, exitVars, stranded>>

\* Mutant of RunPosted: the event stays on the posted queue.
RunPostedKeeps ==
    /\ main = "loop" /\ posted
    /\ main' = "handler"
    /\ UNCHANGED <<poolVars, active, done, notifyVars, batch, exitVars, stranded>>

\* ngx_event_process_posted takes notify.event off the queue and calls it.
RunPosted ==
    /\ main = "loop" /\ posted
    /\ posted' = FALSE
    /\ main' = "handler"
    /\ UNCHANGED <<poolVars, active, done, efd, edge, index, batch, exitVars,
                   stranded>>

\* Mutant of NotifyHandler: > for == in the wrap test.
NotifyHandlerOffByOne ==
    /\ main = "handler"
    /\ index' = IF index + 1 > IndexMax THEN 0 ELSE index + 1
    /\ efd' = IF index + 1 > IndexMax THEN 0 ELSE efd
    /\ main' = "drain"
    /\ UNCHANGED <<poolVars, active, done, edge, posted, batch, exitVars, stranded>>

\* notify_handler: every IndexMax-th call reads (and so resets) the eventfd,
\* and a read of a counter of 0 blocks the event loop.
NotifyHandler ==
    /\ main = "handler"
    /\ IF index + 1 = IndexMax
         THEN /\ index' = 0
              /\ efd' = 0
              /\ main' = IF efd = 0 THEN "blocked" ELSE "drain"
         ELSE /\ index' = index + 1
              /\ main' = "drain"
              /\ UNCHANGED efd
    /\ UNCHANGED <<poolVars, active, done, edge, posted, batch, exitVars, stranded>>

\* Mutant of TakeDone: only the first task of the list is kept.
TakeFirstDone ==
    /\ main = "drain"
    /\ batch' = SubSeq(done, 1, 1)
    /\ done' = <<>>
    /\ main' = "complete"
    /\ UNCHANGED <<poolVars, active, notifyVars, exitVars, stranded>>

\* ngx_thread_pool_handler takes the whole done list ...
TakeDone ==
    /\ main = "drain"
    /\ batch' = done
    /\ done' = <<>>
    /\ main' = "complete"
    /\ UNCHANGED <<poolVars, active, notifyVars, exitVars, stranded>>

\* ... and clears active before it calls a task's callback, which may post the
\* task again.
Complete ==
    /\ main = "complete" /\ batch # <<>>
    /\ active' = [active EXCEPT ![Head(batch)] = FALSE]
    /\ batch' = Tail(batch)
    /\ UNCHANGED <<poolVars, done, notifyVars, main, exitVars, stranded>>

\* Mutant of HandlerReturns: the eventfd is read after the list was taken.
HandlerReadsLate ==
    /\ main = "complete" /\ batch = <<>>
    /\ main' = "loop"
    /\ efd' = 0
    /\ UNCHANGED <<poolVars, active, done, edge, posted, index, batch, exitVars,
                   stranded>>

HandlerReturns ==
    /\ main = "complete" /\ batch = <<>>
    /\ main' = "loop"
    /\ UNCHANGED <<poolVars, active, done, notifyVars, batch, exitVars, stranded>>

-----------------------------------------------------------------------------
(* ngx_thread_pool_destroy: one Exit task per thread, one at a time.       *)

\* The worker leaves its loop between two ngx_process_events_and_timers.
BeginDestroy ==
    /\ main = "loop" /\ ~posted
    /\ main' = "destroy"
    /\ exits' = 0
    /\ UNCHANGED <<poolVars, active, done, notifyVars, batch, lock, stranded>>

\* lock = 1 and the post of the Exit task, which may fail.
PostExit ==
    /\ main = "destroy" /\ exits < Cardinality(Thread)
    /\ lock' = 1
    /\ \/ Enqueue(Exit) /\ main' = "spin"
       \/ /\ ~HasRoom \/ SignalMayFail
          /\ main' = "abandoned"
          /\ UNCHANGED poolVars
    /\ UNCHANGED <<active, done, notifyVars, batch, exits, stranded>>

\* Mutant of ExitSeen: destroy does not wait for the flag.
ExitNotAwaited ==
    /\ main = "spin"
    /\ exits' = exits + 1
    /\ main' = "destroy"
    /\ UNCHANGED <<poolVars, active, done, notifyVars, batch, lock, stranded>>

ExitSeen ==
    /\ main = "spin" /\ lock = 0
    /\ exits' = exits + 1
    /\ main' = "destroy"
    /\ UNCHANGED <<poolVars, active, done, notifyVars, batch, lock, stranded>>

EndDestroy ==
    /\ main = "destroy" /\ exits = Cardinality(Thread)
    /\ main' = "destroyed"
    /\ UNCHANGED <<poolVars, active, done, notifyVars, batch, exitVars, stranded>>

\* The worker process exits.
Terminated ==
    /\ main \in {"abandoned", "destroyed"}
    /\ UNCHANGED vars

-----------------------------------------------------------------------------
ThreadStep(t) == \/ Fetch(t) \/ Recheck(t) \/ Finish(t) \/ Notify(t)
                 \/ ExitThread(t)

EventLoop == EpollWait \/ RunPosted \/ NotifyHandler \/ TakeDone \/ Complete
                \/ HandlerReturns

DestroyStep == PostExit \/ ExitSeen \/ EndDestroy

Next == \/ \E k \in Task : Post(k) \/ PostSignalFails(k)
        \/ \E t \in Thread : ThreadStep(t) \/ SpuriousWakeup(t)
        \/ EventLoop
        \/ BeginDestroy
        \/ DestroyStep
        \/ Terminated

Spec == Init /\ [][Next]_vars

(* Threads are scheduled and task handlers return; epoll_wait returns while *)
(* an event is ready, ngx_process_events_and_timers always goes on to the   *)
(* posted queue, and the callbacks return.  Nothing is assumed of Post,     *)
(* BeginDestroy and spurious wakeups.                                       *)
FairSpec == /\ Spec
            /\ \A t \in Thread : WF_vars(ThreadStep(t))
            /\ WF_vars(EpollWait \/ RunPosted)
            /\ WF_vars(NotifyHandler)
            /\ WF_vars(TakeDone)
            /\ WF_vars(Complete \/ HandlerReturns)
            /\ WF_vars(DestroyStep)

-----------------------------------------------------------------------------
(* Properties.                                                             *)

\* Main is still serving events (it is not in ngx_thread_pool_destroy).
Serving == main \in {"loop", "handler", "blocked", "drain", "complete"}

\* "the number may become negative": tp->waiting is the queue's length less the
\* threads that have announced themselves and hold no task, and it never
\* exceeds max_queue, so the queue holds at most max_queue + threads tasks.
WaitingAccounting ==
    /\ waiting = Len(queue) - Cardinality(Idle)
    /\ waiting <= MaxQueue

\* ngx_thread_task_post signals once per task, before it links the task: while
\* a thread sleeps, every queued task has a woken thread of its own coming.
NoLostWakeup == Waiters # {} => Len(queue) <= Cardinality(Woken)

Somewhere(k) == \/ k \in Range(queue)
                \/ k \in Range(done)
                \/ k \in Range(batch)
                \/ \E t \in Thread : task[t] = k

\* A task marked active is in the pool's hands: queued, running, done or about
\* to be completed.  (A failed signal leaves it active and nowhere.)
NoTaskLost == \A k \in Task : active[k] /\ k \notin stranded => Somewhere(k)

\* The intrusive next pointer allows a task on one list only: no task is twice
\* on a list, on two lists, held by two threads or listed while inactive.
NoTaskDuplicated ==
    /\ IsInjective(queue) /\ IsInjective(done) /\ IsInjective(batch)
    /\ Range(queue) \cap Range(done) = {}
    /\ Range(queue) \cap Range(batch) = {}
    /\ Range(done) \cap Range(batch) = {}
    /\ \A t \in Thread : task[t] # None =>
          /\ task[t] \notin Range(queue) \cup Range(done) \cup Range(batch)
          /\ \A u \in Thread : task[u] = task[t] => u = t
    /\ \A k \in Task : Somewhere(k) => active[k] /\ k \notin stranded

\* Every accepted task is in exactly one place at any time, through racing posts,
\* takes, detaches and re-posts from callbacks.
TasksAccounted == NoTaskLost /\ NoTaskDuplicated

\* Coalesced, edge-triggered, hardly ever read notifications lose nothing: a
\* task on the done list is always followed by a run of its handler.
DoneNotified ==
    Serving /\ done # <<>> =>
        \/ \E t \in Thread : pc[t] = "notify"
        \/ edge /\ efd > 0
        \/ posted
        \/ main \in {"handler", "drain"}

\* notify_handler's read() of the blocking eventfd finds it readable.
ReadNeverBlocks == main # "blocked"

\* When ngx_thread_pool_destroy destroys the mutex no thread can use it again
\* and every task accepted before was taken off the queue.
DestroyedQuiescent ==
    main = "destroyed" => queue = <<>> /\ \A t \in Thread : pc[t] = "exited"

\* Every accepted task's completion callback runs, unless the worker begins to
\* exit first.
TasksComplete ==
    \A k \in Task : (active[k] /\ k \notin stranded) ~> (~active[k] \/ ~Serving)

\* ngx_thread_pool_destroy does not spin for ever.
DestroyTerminates == (main = "destroy") ~> (main \in {"abandoned", "destroyed"})

-----------------------------------------------------------------------------
(* The pool implements AsyncTasks.                                         *)

\* The tasks in the queue; the Exit task can only be its last element.
PendingTasks ==
    IF queue # <<>> /\ queue[Len(queue)] = Exit
      THEN SubSeq(queue, 1, Len(queue) - 1)
      ELSE queue

RunningTasks == {task[t] : t \in Thread} \ {Exit, None}

Async == INSTANCE AsyncTasks WITH
            Workers  <- Cardinality(Thread),
            pending  <- PendingTasks,
            running  <- RunningTasks,
            finished <- Range(done) \cup Range(batch),
            lost     <- stranded

\* NgxThreadPool::post's promise: an accepted task starts in posting order, runs
\* once, is delivered once after it ran, and can only then be accepted again.
ImplementsAsyncTasks == Async!Spec

=============================================================================
