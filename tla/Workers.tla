------------------------------ MODULE Workers ------------------------------
(***************************************************************************)
(* Worker processes that share listening sockets through the accept mutex  *)
(* and a memory zone through a Shmtx (event/ngx_event.c,                   *)
(* ngx_process_events_and_timers; event/ngx_event_accept.c).  The other    *)
(* users of the zone, such as the cache manager, are processes that do not *)
(* accept.                                                                 *)
(*                                                                         *)
(* The accept mutex is tried once per loop iteration and never waited for, *)
(* so of its Shmtx only the lock word, acceptLock, matters.                *)
(***************************************************************************)
EXTENDS Shmtx

CONSTANTS Worker,      \* the processes that accept
          NListening,  \* number of listening sockets
          Reserve,     \* connection_n / 8
          MaxFree,     \* connections that are not taken by others
          MaxClients,  \* bound: clients waiting in the kernel's backlog
          MaxFaults    \* bound: failed epoll_ctl calls, EMFILE errors and deaths

ASSUME WorkersAssumption ==
    /\ Worker \subseteq Procs
    /\ {NListening, Reserve, MaxFree, MaxClients, MaxFaults} \subseteq Nat
    /\ MaxFree < 8 * Reserve

VARIABLES
    acceptLock,  \* the lock word of ngx_accept_mutex
    at,          \* where a worker is in its loop
    held,        \* ngx_accept_mutex_held
    disabled,    \* ngx_accept_disabled
    enabled,     \* listening sockets whose read event is active
    free,        \* free_connection_n
    batch,       \* listening sockets whose events are still to be handled
    backlog,     \* clients waiting on each listening socket
    faults,      \* bound: faults that happened
    skipped,     \* history: this iteration did not try the mutex
    partial      \* history: only some of the listening sockets were added or taken out

acceptVars == <<acceptLock, at, held, disabled, enabled, batch, free,
                backlog, faults, skipped, partial>>
vars == <<shmtxVars, acceptVars>>

Listening == 1 .. NListening

At == {"top",       \* about to try the mutex
       "events",    \* in epoll_wait
       "accept",    \* in ngx_event_accept, called at once or from the posted queue
       "handlers",  \* past the accept events: timers and posted events
       "last"}      \* in the last of them

TypeOK ==
    /\ ShmtxTypeOK
    /\ acceptLock \in Worker \cup {Free}
    /\ at \in [Worker -> At]
    /\ held \in [Worker -> BOOLEAN]
    /\ disabled \in [Worker -> -MaxFree .. Reserve]
    /\ enabled \in [Worker -> SUBSET Listening]
    /\ batch \in [Worker -> SUBSET Listening]
    /\ free \in [Worker -> 0 .. MaxFree]
    /\ backlog \in [Listening -> 0 .. MaxClients]
    /\ faults \in 0 .. MaxFaults
    /\ skipped \in [Worker -> BOOLEAN] /\ partial \in [Worker -> BOOLEAN]

\* ngx_event_process_init leaves the listening sockets out of the epoll set.
Init ==
    /\ ShmtxInit
    /\ acceptLock = Free
    /\ at = [w \in Worker |-> "top"]
    /\ held = [w \in Worker |-> FALSE]
    /\ disabled = [w \in Worker |-> 0]
    /\ enabled = [w \in Worker |-> {}]
    /\ batch = [w \in Worker |-> {}]
    /\ free = [w \in Worker |-> MaxFree]
    /\ backlog = [l \in Listening |-> 0]
    /\ faults = 0
    /\ skipped = [w \in Worker |-> FALSE]
    /\ partial = [w \in Worker |-> FALSE]

Running(w) == pc[w] = "out"
Moves(w, from, to) == Running(w) /\ at[w] = from /\ at' = [at EXCEPT ![w] = to]

\* ngx_shmtx_unlock(&ngx_accept_mutex): nothing, unless w owns it.
ReleaseAccept(w) == acceptLock' = IF acceptLock = w THEN Free ELSE acceptLock

Fault == faults + crashes < MaxFaults /\ faults' = faults + 1

-----------------------------------------------------------------------------
(* ngx_trylock_accept_mutex and the code around it.                        *)

\* Too few free connections: the mutex is not tried.
SkipMutex(w) ==
    /\ Moves(w, "top", "events")
    /\ disabled[w] > 0
    /\ disabled' = [disabled EXCEPT ![w] = @ - 1]
    /\ skipped' = [skipped EXCEPT ![w] = TRUE]
    /\ UNCHANGED <<acceptLock, held, enabled, batch, free, backlog, faults, partial>>

TryingMutex(w) ==
    /\ disabled[w] <= 0
    /\ skipped' = [skipped EXCEPT ![w] = FALSE]
    /\ UNCHANGED <<disabled, batch, free, backlog>>

\* Mutant of MutexTaken: the listening sockets are not added.
MutexTakenNoEvents(w) ==
    /\ Moves(w, "top", "events") /\ TryingMutex(w)
    /\ acceptLock = Free
    /\ acceptLock' = w
    /\ held' = [held EXCEPT ![w] = TRUE]
    /\ UNCHANGED <<enabled, faults, partial>>

\* ngx_enable_accept_events adds what is not active.
MutexTaken(w) ==
    /\ Moves(w, "top", "events") /\ TryingMutex(w)
    /\ acceptLock = Free
    /\ acceptLock' = w
    /\ enabled' = IF held[w] THEN enabled ELSE [enabled EXCEPT ![w] = Listening]
    /\ held' = [held EXCEPT ![w] = TRUE]
    /\ UNCHANGED <<faults, partial>>

\* The epoll_ctl call for socket k + 1 fails: the mutex is released and the iteration
\* ends.  One step with taking it, since nobody waits for this mutex: a worker that would
\* find it taken in between tries it again in its next iteration.
EnableFails(w) ==
    /\ Moves(w, "top", "top") /\ TryingMutex(w) /\ Fault
    /\ acceptLock = Free /\ ~held[w]
    /\ UNCHANGED <<acceptLock, held>>
    /\ \E k \in 0 .. NListening - 1 :
         /\ k + 1 \notin enabled[w]
         /\ enabled' = [enabled EXCEPT ![w] = @ \cup 1 .. k]
         /\ partial' = [partial EXCEPT ![w] = @ \/ k > 0]

\* Mutant of MutexBusy: the former holder keeps its sockets.
MutexBusyKeeps(w) ==
    /\ Moves(w, "top", "events") /\ TryingMutex(w)
    /\ acceptLock # Free
    /\ UNCHANGED <<acceptLock, held, enabled, faults, partial>>

\* The mutex is another's: a former holder takes its sockets out.
MutexBusy(w) ==
    /\ Moves(w, "top", "events") /\ TryingMutex(w)
    /\ acceptLock # Free
    /\ enabled' = IF held[w] THEN [enabled EXCEPT ![w] = {}] ELSE enabled
    /\ held' = [held EXCEPT ![w] = FALSE]
    /\ UNCHANGED <<acceptLock, faults, partial>>

DisableFails(w) ==
    /\ Moves(w, "top", "top") /\ TryingMutex(w) /\ Fault
    /\ acceptLock # Free /\ held[w]
    /\ UNCHANGED <<acceptLock, held>>
    /\ \E k \in 0 .. NListening - 1 :
         /\ k + 1 \in enabled[w]
         /\ enabled' = [enabled EXCEPT ![w] = @ \ (1 .. k)]
         /\ partial' = [partial EXCEPT ![w] = @ \/ k > 0]

-----------------------------------------------------------------------------
(* process_events and ngx_event_accept.  Listening sockets are watched     *)
(* level-triggered: one with a client waiting is always reported.  With    *)
(* the mutex the event is posted and taken from the queue right after,     *)
(* without it the handler is called at once.                               *)

EventsReported(w) ==
    /\ Moves(w, "events", "accept")
    /\ batch' = [batch EXCEPT ![w] = {l \in enabled[w] : backlog[l] > 0}]
    /\ UNCHANGED <<acceptLock, held, disabled, enabled, free, backlog, faults,
                   skipped, partial>>

Handles(w, l) ==
    /\ Running(w) /\ at[w] = "accept" /\ l \in batch[w]
    /\ batch' = [batch EXCEPT ![w] = @ \ {l}]
    /\ UNCHANGED <<at, skipped>>

\* Mutant of Accepts: a connection is taken whether or not one is free.
AcceptsUnchecked(w, l) ==
    /\ Handles(w, l)
    /\ backlog[l] > 0
    /\ backlog' = [backlog EXCEPT ![l] = @ - 1]
    /\ disabled' = [disabled EXCEPT ![w] = Reserve - free[w]]
    /\ free' = [free EXCEPT ![w] = @ - 1]
    /\ UNCHANGED <<acceptLock, held, enabled, faults, partial>>

\* A descriptor was accepted.  Without a free connection it is closed again.
Accepts(w, l) ==
    /\ Handles(w, l)
    /\ backlog[l] > 0
    /\ backlog' = [backlog EXCEPT ![l] = @ - 1]
    /\ disabled' = [disabled EXCEPT ![w] = Reserve - free[w]]
    /\ free' = [free EXCEPT ![w] = IF @ > 0 THEN @ - 1 ELSE 0]
    /\ UNCHANGED <<acceptLock, held, enabled, faults, partial>>

\* NGX_EAGAIN: another worker took the client first.
AcceptsNothing(w, l) ==
    /\ Handles(w, l)
    /\ backlog[l] = 0
    /\ UNCHANGED <<acceptLock, held, disabled, enabled, free, backlog, faults, partial>>

\* Mutant of OutOfFiles: held is cleared and the mutex kept.
OutOfFilesLocked(w, l) ==
    /\ Handles(w, l) /\ Fault
    /\ backlog[l] > 0
    /\ enabled' = [enabled EXCEPT ![w] = {}]
    /\ held' = [held EXCEPT ![w] = FALSE]
    /\ disabled' = [disabled EXCEPT ![w] = 1]
    /\ UNCHANGED <<acceptLock, free, backlog, partial>>

\* Mutant of OutOfFiles: the mutex is passed on and the sockets stay.
OutOfFilesEnabled(w, l) ==
    /\ Handles(w, l) /\ Fault
    /\ backlog[l] > 0
    /\ IF held[w] THEN ReleaseAccept(w) ELSE UNCHANGED acceptLock
    /\ held' = [held EXCEPT ![w] = FALSE]
    /\ disabled' = [disabled EXCEPT ![w] = 1]
    /\ UNCHANGED <<enabled, free, backlog, partial>>

\* NGX_EMFILE: stop listening and let the others accept.
OutOfFiles(w, l) ==
    /\ Handles(w, l) /\ Fault
    /\ backlog[l] > 0
    /\ enabled' = [enabled EXCEPT ![w] = {}]
    /\ IF held[w] THEN ReleaseAccept(w) ELSE UNCHANGED acceptLock
    /\ held' = [held EXCEPT ![w] = FALSE]
    /\ disabled' = [disabled EXCEPT ![w] = 1]
    /\ UNCHANGED <<free, backlog, partial>>

\* The same, but the sockets cannot be taken out: the handler returns at once.
OutOfFilesListening(w, l) ==
    /\ Handles(w, l) /\ Fault
    /\ backlog[l] > 0
    /\ \E k \in 0 .. NListening - 1 :
         /\ k + 1 \in enabled[w]
         /\ enabled' = [enabled EXCEPT ![w] = @ \ (1 .. k)]
         /\ partial' = [partial EXCEPT ![w] = @ \/ k > 0]
    /\ UNCHANGED <<acceptLock, held, disabled, free, backlog>>

\* if (ngx_accept_mutex_held) ngx_shmtx_unlock(&ngx_accept_mutex)
UnlockAccept(w) ==
    /\ Moves(w, "accept", "handlers")
    /\ batch[w] = {}
    /\ IF held[w] THEN ReleaseAccept(w) ELSE UNCHANGED acceptLock
    /\ skipped' = [skipped EXCEPT ![w] = FALSE]
    /\ UNCHANGED <<held, disabled, enabled, batch, free, backlog, faults, partial>>

-----------------------------------------------------------------------------
(* Handlers: they may close connections and use the zone.                  *)

CloseConnection(w) ==
    /\ Moves(w, "handlers", "handlers")
    /\ free[w] < MaxFree
    /\ free' = [free EXCEPT ![w] = @ + 1]
    /\ UNCHANGED <<acceptLock, held, disabled, enabled, batch, backlog, faults,
                   skipped, partial>>

IterationEnds(w) ==
    /\ \E h \in {"handlers", "last"} : Moves(w, h, "top")
    /\ UNCHANGED <<acceptLock, held, disabled, enabled, batch, free, backlog,
                   faults, skipped, partial>>

\* At most one use per iteration; the other processes use it whenever they like.
UseZone(p) ==
    /\ Enter(p)
    /\ IF p \in Worker THEN Moves(p, "handlers", "last") ELSE UNCHANGED at
    /\ UNCHANGED <<acceptLock, held, disabled, enabled, batch, free, backlog,
                   faults, skipped, partial>>

InZone(p) == (Locking(p) \/ Unlocking(p)) /\ UNCHANGED acceptVars

-----------------------------------------------------------------------------
ClientConnects(l) ==
    /\ backlog[l] < MaxClients
    /\ backlog' = [backlog EXCEPT ![l] = @ + 1]
    /\ UNCHANGED <<shmtxVars, acceptLock, at, held, disabled, enabled, batch, free,
                   faults, skipped, partial>>

Dies(p) == faults + crashes < MaxFaults /\ Crash(p) /\ UNCHANGED acceptVars

WaitFails(p) == faults + crashes < MaxFaults /\ SemWaitFails(p) /\ UNCHANGED acceptVars

\* ngx_unlock_mutexes: the accept mutex first, then the zone's.  The kernel closed the
\* dead process's epoll set; its successor starts with fresh variables.
Reap(p) ==
    /\ ForceUnlock(p)
    /\ IF p \in Worker
       THEN /\ ReleaseAccept(p)
            /\ at' = [at EXCEPT ![p] = "top"]
            /\ held' = [held EXCEPT ![p] = FALSE]
            /\ disabled' = [disabled EXCEPT ![p] = 0]
            /\ enabled' = [enabled EXCEPT ![p] = {}]
            /\ batch' = [batch EXCEPT ![p] = {}]
            /\ free' = [free EXCEPT ![p] = MaxFree]
            /\ skipped' = [skipped EXCEPT ![p] = FALSE]
            /\ partial' = [partial EXCEPT ![p] = FALSE]
            /\ UNCHANGED <<backlog, faults>>
       ELSE UNCHANGED acceptVars

Restart(p) == Respawn(p) /\ UNCHANGED acceptVars

ReaperWakes == (ReaperWakeup \/ ReaperPost) /\ UNCHANGED acceptVars

-----------------------------------------------------------------------------
Loop(w) ==
    \/ SkipMutex(w) \/ MutexTaken(w) \/ EnableFails(w) \/ MutexBusy(w) \/ DisableFails(w)
    \/ EventsReported(w)
    \/ \E l \in Listening :
         Accepts(w, l) \/ AcceptsNothing(w, l) \/ OutOfFiles(w, l) \/ OutOfFilesListening(w, l)
    \/ UnlockAccept(w) \/ CloseConnection(w) \/ IterationEnds(w)

LoopStep(w) == Loop(w) /\ UNCHANGED shmtxVars

MasterStep == ReaperWakes \/ \E p \in Procs : Reap(p) \/ Restart(p)

Next ==
    \/ \E w \in Worker : LoopStep(w)
    \/ \E p \in Procs : UseZone(p) \/ InZone(p) \/ WaitFails(p) \/ Dies(p)
    \/ \E l \in Listening : ClientConnects(l)
    \/ MasterStep

Spec == Init /\ [][Next]_vars

\* Every process runs, critical sections and handlers end, and the master handles
\* its signals.  Nothing is assumed of clients, faults and deaths.
FairSpec ==
    /\ Spec
    /\ \A w \in Worker : WF_vars(LoopStep(w) /\ <<at, batch>>' # <<at, batch>>)
    /\ \A p \in Procs : WF_vars(InZone(p))
    /\ WF_vars(MasterStep)

-----------------------------------------------------------------------------
(* Properties.                                                             *)

\* No worker starts an iteration, or runs the long handlers, with the accept mutex:
\* nobody else could accept meanwhile.  Also after EMFILE and after failed epoll_ctl
\* calls; a dead owner loses it when it is reaped.
AcceptMutexReleased ==
    \A w \in Worker :
        acceptLock = w => pc[w] = "dead" \/ at[w] \in {"events", "accept"}

\* A worker accepts only while it owns the mutex, unless it skipped the mutex because
\* it runs out of connections, an epoll_ctl failed half way, or it withdrew from
\* listening (EMFILE) with events left in the queue.
AcceptsUnderMutex ==
    \A w \in Worker :
        batch[w] # {} /\ pc[w] = "out" =>
            acceptLock = w \/ skipped[w] \/ partial[w] \/ enabled[w] = {}

\* A worker whose sockets are in its epoll set knows that it has to take them out
\* when the mutex goes to another.
ListenersRemembered ==
    \A w \in Worker : enabled[w] # {} => held[w] \/ partial[w]

\* Who holds the mutex, who accepts, and who knows that he listens.
AcceptDiscipline ==
    TypeOK /\ AcceptMutexReleased /\ AcceptsUnderMutex /\ ListenersRemembered

\* A full backlog is served in the end, whatever the workers' shortage of connections
\* or descriptors and whoever dies with the mutex, unless a sleeper is stranded or an
\* epoll_ctl failed half way.
ClientsAccepted ==
    \A l \in Listening :
        backlog[l] = MaxClients
            ~> \/ backlog[l] < MaxClients
               \/ lost > 0 \/ unwoken \/ \E w \in Worker : partial[w]

\* "free connections fewer than 1/8 of the total: stop accepting connections for the
\* time being" (ngx_event.c:127, ngx_event_accept.c:174): an iteration that skipped
\* the mutex for that reason accepts nobody.
OverloadedAcceptsNobody == \A w \in Worker : skipped[w] => batch[w] = {}
=============================================================================
