------------------------------- MODULE Shmtx -------------------------------
(***************************************************************************)
(* The mutex in shared memory that worker processes take around a zone     *)
(* (core/ngx_shmtx.c, built with atomic operations and POSIX semaphores):  *)
(* a lock word that holds the pid of its owner, a count of the processes   *)
(* that announced they will sleep, and a semaphore they sleep on.          *)
(*                                                                         *)
(* A process may die at any instruction.  The master reaps it and, if the  *)
(* lock word still holds its pid, unlocks in its name.  A pid comes back   *)
(* only after it was reaped, so a process and its successor share a name.  *)
(***************************************************************************)
EXTENDS Integers, FiniteSets

CONSTANTS Procs,       \* the processes that use the zone
          Free,        \* the value 0 of the lock word: no process
          MaxCrashes   \* bound: processes that die and calls of sem_wait that fail

ASSUME ShmtxAssumption ==
    /\ IsFiniteSet(Procs)
    /\ Free \notin Procs
    /\ MaxCrashes \in Nat

VARIABLES
    lock,     \* *mtx->lock
    wait,     \* *mtx->wait, as the signed number wakeup takes it for
    sem,      \* the value of mtx->sem
    pc,       \* where each process is in ngx_shmtx_lock and ngx_shmtx_unlock
    reaper,   \* where the master is in ngx_shmtx_force_unlock
    crashes,  \* bound: how many processes died and calls of sem_wait failed
    leaked,   \* history: announcements of processes that died, or gave up, before they were woken
    lost,     \* history: wakeups of processes that died before sem_post
    unwoken   \* history: a process died with the duty to wake the next one

shmtxVars == <<lock, wait, sem, pc, reaper, crashes, leaked, lost, unwoken>>

PC == {"out",     \* not using the zone
       "try",     \* at the top of the loop of ngx_shmtx_lock, spinning
       "woken",   \* there again, after sem_wait returned
       "inc",     \* about to announce itself in wait
       "retry",   \* announced, trying once more
       "dec",     \* has the lock, about to withdraw the announcement
       "sleep",   \* in sem_wait
       "cs",      \* has the lock
       "wakeup",  \* unlocked, at the top of ngx_shmtx_wakeup
       "post",    \* took one announcement, about to call sem_post
       "dead",    \* died, not yet reaped
       "gone"}    \* reaped, not yet respawned

Reaper == {"idle", "wakeup", "post"}

Announced == {"retry", "dec", "sleep"}
Owning == {"dec", "cs"}

ShmtxTypeOK ==
    /\ lock \in Procs \cup {Free}
    /\ wait \in Int /\ sem \in Nat
    /\ pc \in [Procs -> PC]
    /\ reaper \in Reaper
    /\ crashes \in 0 .. MaxCrashes
    /\ leaked \in Nat /\ lost \in Nat /\ unwoken \in BOOLEAN

ShmtxInit ==
    /\ lock = Free /\ wait = 0 /\ sem = 0
    /\ pc = [p \in Procs |-> "out"]
    /\ reaper = "idle"
    /\ crashes = 0 /\ leaked = 0 /\ lost = 0 /\ unwoken = FALSE

history == <<crashes, leaked, lost, unwoken>>

Go(p, from, to) == pc[p] = from /\ pc' = [pc EXCEPT ![p] = to]

-----------------------------------------------------------------------------
(* ngx_shmtx_lock.                                                         *)

Enter(p) ==
    /\ Go(p, "out", "try")
    /\ UNCHANGED <<lock, wait, sem, reaper, history>>

\* *mtx->lock == 0 && ngx_atomic_cmp_set(mtx->lock, 0, ngx_pid)
Acquire(p, from, to) ==
    /\ Go(p, from, to)
    /\ lock = Free
    /\ lock' = p
    /\ UNCHANGED <<wait, sem, reaper, history>>

Try(p) == Acquire(p, "try", "cs") \/ Acquire(p, "woken", "cs")

\* Every attempt while spinning found the lock taken.
GiveUp(p) ==
    /\ Go(p, "try", "inc") \/ Go(p, "woken", "inc")
    /\ lock # Free
    /\ UNCHANGED <<lock, wait, sem, reaper, history>>

\* Mutant of Announce: no second attempt after the announcement.
AnnounceAndSleep(p) ==
    /\ Go(p, "inc", "sleep")
    /\ wait' = wait + 1
    /\ UNCHANGED <<lock, sem, reaper, history>>

Announce(p) ==
    /\ Go(p, "inc", "retry")
    /\ wait' = wait + 1
    /\ UNCHANGED <<lock, sem, reaper, history>>

Retry(p) == Acquire(p, "retry", "dec")

\* Mutant of Withdraw: the announcement stays.
WithdrawForgotten(p) ==
    /\ Go(p, "dec", "cs")
    /\ UNCHANGED <<lock, wait, sem, reaper, history>>

Withdraw(p) ==
    /\ Go(p, "dec", "cs")
    /\ wait' = wait - 1
    /\ UNCHANGED <<lock, sem, reaper, history>>

RetryFails(p) ==
    /\ Go(p, "retry", "sleep")
    /\ lock # Free
    /\ UNCHANGED <<lock, wait, sem, reaper, history>>

\* sem_wait returns; an interrupted one is called again.
Awake(p) ==
    /\ Go(p, "sleep", "woken")
    /\ sem > 0
    /\ sem' = sem - 1
    /\ UNCHANGED <<lock, wait, reaper, history>>

\* sem_wait fails for another reason than EINTR: the process tries the lock again
\* as if it had been woken, and leaves its announcement behind.
SemWaitFails(p) ==
    /\ Go(p, "sleep", "woken")
    /\ crashes < MaxCrashes
    /\ crashes' = crashes + 1
    /\ leaked' = leaked + 1
    /\ UNCHANGED <<lock, wait, sem, reaper, lost, unwoken>>

-----------------------------------------------------------------------------
(* ngx_shmtx_unlock and ngx_shmtx_wakeup.  The loop around the compare and *)
(* set of wait ends with one successful exchange, or where wait is not     *)
(* positive.                                                               *)

Unlock(p) ==
    /\ \/ lock = p /\ lock' = Free /\ Go(p, "cs", "wakeup")
       \/ lock # p /\ UNCHANGED lock /\ Go(p, "cs", "out")
    /\ UNCHANGED <<wait, sem, reaper, history>>

Wakeup(p) ==
    /\ \/ wait > 0 /\ Go(p, "wakeup", "post") /\ wait' = wait - 1
       \/ wait <= 0 /\ Go(p, "wakeup", "out") /\ UNCHANGED wait
    /\ UNCHANGED <<lock, sem, reaper, history>>

Post(p) ==
    /\ Go(p, "post", "out")
    /\ sem' = sem + 1
    /\ UNCHANGED <<lock, wait, reaper, history>>

-----------------------------------------------------------------------------
(* Death of a process, and the master's handling of SIGCHLD.               *)

Crash(p) ==
    /\ pc[p] \notin {"dead", "gone"}
    /\ crashes < MaxCrashes
    /\ crashes' = crashes + 1
    /\ pc' = [pc EXCEPT ![p] = "dead"]
    /\ leaked' = IF pc[p] \in Announced THEN leaked + 1 ELSE leaked
    /\ lost' = IF pc[p] = "post" THEN lost + 1 ELSE lost
    /\ unwoken' = (unwoken \/ pc[p] \in {"wakeup", "woken"})
    /\ UNCHANGED <<lock, wait, sem, reaper>>

\* Mutant of ForceUnlock: the owner is not compared with the dead process.
ForceUnlockAny(p) ==
    /\ reaper = "idle"
    /\ Go(p, "dead", "gone")
    /\ lock' = Free /\ reaper' = "wakeup"
    /\ UNCHANGED <<wait, sem, history>>

\* ngx_process_get_status reaps p and ngx_unlock_mutexes calls force_unlock.
ForceUnlock(p) ==
    /\ reaper = "idle"
    /\ Go(p, "dead", "gone")
    /\ \/ lock = p /\ lock' = Free /\ reaper' = "wakeup"
       \/ lock # p /\ UNCHANGED <<lock, reaper>>
    /\ UNCHANGED <<wait, sem, history>>

ReaperWakeup ==
    /\ reaper = "wakeup"
    /\ \/ wait > 0 /\ wait' = wait - 1 /\ reaper' = "post"
       \/ wait <= 0 /\ reaper' = "idle" /\ UNCHANGED wait
    /\ UNCHANGED <<lock, sem, pc, history>>

ReaperPost ==
    /\ reaper = "post"
    /\ sem' = sem + 1
    /\ reaper' = "idle"
    /\ UNCHANGED <<lock, wait, pc, history>>

\* ngx_reap_children, in the main loop of the master, forks the successor.
Respawn(p) ==
    /\ reaper = "idle"
    /\ Go(p, "gone", "out")
    /\ UNCHANGED <<lock, wait, sem, reaper, history>>

-----------------------------------------------------------------------------
\* What a process does once it decided to take the lock.
Locking(p) ==
    Try(p) \/ GiveUp(p) \/ Announce(p) \/ Retry(p) \/ Withdraw(p)
        \/ RetryFails(p) \/ Awake(p)

Unlocking(p) == Unlock(p) \/ Wakeup(p) \/ Post(p)

Master == ReaperWakeup \/ ReaperPost \/ \E p \in Procs : ForceUnlock(p) \/ Respawn(p)

ShmtxNext ==
    \/ \E p \in Procs : Enter(p) \/ Locking(p) \/ Unlocking(p) \/ SemWaitFails(p) \/ Crash(p)
    \/ Master

ShmtxSpec == ShmtxInit /\ [][ShmtxNext]_shmtxVars

-----------------------------------------------------------------------------
(* Properties.                                                             *)

Count(S) == Cardinality({p \in Procs : pc[p] \in S})

\* The lock word names the only process inside; a dead owner keeps it until the
\* master has reaped it.
MutualExclusion ==
    \A p \in Procs :
        /\ pc[p] \in Owning => lock = p
        /\ lock = p => pc[p] \in Owning \cup {"dead"}

\* Tokens on their way to sleepers: counted in wait, in the semaphore, or taken by
\* a process or the master that is about to post.
Tokens == wait + sem + Count({"post"}) + (IF reaper = "post" THEN 1 ELSE 0)

\* Every announcement is matched by one token, whoever wins which race: a locker
\* that withdraws an announcement somebody already answered drives wait below zero
\* and leaves the answer in the semaphore for the next sleeper.  Deaths between
\* announcing and waking up, and failures of sem_wait, add tokens, a death before
\* sem_post takes one away.
TokenAccounting == Tokens = Count(Announced) + leaked - lost

\* Every process is outside or asleep, and the master has nothing to do.
Quiet ==
    /\ reaper = "idle"
    /\ \A p \in Procs : pc[p] \in {"out", "sleep", "gone"}

\* A process sleeps on the semaphore of a lock nobody will unlock only if some
\* process died in ngx_shmtx_wakeup, between unlocking and sem_post, or after it was
\* woken and before it had the lock.
NoStrandedSleeper ==
    Quiet /\ sem = 0 /\ (\E p \in Procs : pc[p] = "sleep") => lost > 0 \/ unwoken
=============================================================================
