--------------------------- MODULE MasterProcess ---------------------------
(***************************************************************************)
(* The master process of nginx and its children                            *)
(* (os/unix/ngx_process_cycle.c, os/unix/ngx_process.c): reload, graceful  *)
(* and fast shutdown, replacement of children that die, upgrade of the     *)
(* binary.                                                                 *)
(*                                                                         *)
(* Signals are blocked except in sigsuspend, so what the master does       *)
(* between two calls of it is one step, Wake, composed of the parts of the *)
(* loop body in their order; each part maps the master's state to a new    *)
(* one.  The cache manager is a child like any worker.  Left out: SIGIO,   *)
(* which only wakes the loop once more, and the channel messages that      *)
(* announce channels to siblings.                                          *)
(***************************************************************************)
EXTENDS Naturals, FiniteSets, TLC

CONSTANTS NWorkers,    \* ccf->worker_processes
          MaxProcesses,\* NGX_MAX_PROCESSES
          KillDelay,   \* doublings of delay after which SIGKILL is sent
          MaxSignals,  \* bound: signals the operator sends
          MaxFaults    \* bound: faults that happen, each kind at most once

ASSUME MasterAssumption ==
    /\ {NWorkers, MaxProcesses, KillDelay, MaxSignals, MaxFaults} \subseteq Nat
    /\ NWorkers > 0 /\ KillDelay > 0

VARIABLES
    m,        \* the master: its globals and the table ngx_processes
    child,    \* the process in each slot of the table
    pending,  \* signals the kernel holds for the master, SIGCHLD apart
    sent,     \* bound: operator signals sent
    faults    \* the faults that happened

vars == <<m, child, pending, sent, faults>>

Slot == 0 .. MaxProcesses - 1

\* A child dies, or with exit code 2, or hangs; a wakeup in which fork fails; a
\* configuration file that cannot be loaded.
Fault == {"dies", "fatal", "hangs", "fork", "conf"}

Operator == {"quit", "terminate", "reconfigure", "reopen", "noaccept", "changebin"}

\* ngx_process_t
Entry == [used : BOOLEAN,       \* pid != -1
          exiting : BOOLEAN, exited : BOOLEAN, respawn : BOOLEAN,
          just_spawn : BOOLEAN, detached : BOOLEAN]

Unused == [used |-> FALSE, exiting |-> FALSE, exited |-> FALSE, respawn |-> FALSE,
           just_spawn |-> FALSE, detached |-> FALSE]

Child == [st : {"none",     \* no process
                "run", "drain",   \* serving; closing its connections (ngx_exiting)
                "hung",     \* does not come back to its loop
                "zombie"},  \* ended, not yet waited for
          fatal : BOOLEAN,  \* ended with exit code 2
          cycle : 0 .. MaxSignals,       \* the configuration it was forked with
          inbox : SUBSET {"quit", "terminate", "reopen"}]

NoChild == [st |-> "none", fatal |-> FALSE, cycle |-> 0, inbox |-> {}]

Master == [up : BOOLEAN,
           table : [Slot -> Entry], last : 0 .. MaxProcesses,
           live : BOOLEAN, sigio : Nat, delay : 0 .. KillDelay,
           flags : SUBSET (Operator \cup {"reap", "sigalrm", "restart"}),
           noaccepting : BOOLEAN,
           new_binary : {"none", "running", "failed"},  \* 0, a pid, NGX_INVALID_PID
           cycle : 0 .. MaxSignals,
           uncounted : BOOLEAN,  \* history: workers were started with live unset
           refused : BOOLEAN]    \* history: the table was full

TypeOK ==
    /\ m \in Master
    /\ child \in [Slot -> Child]
    /\ pending \in SUBSET (Operator \cup {"sigalrm"})
    /\ sent \in 0 .. MaxSignals
    /\ faults \in SUBSET Fault /\ Cardinality(faults) <= MaxFaults

-----------------------------------------------------------------------------
(* ngx_spawn_process.  A state has the master, its children, whether this  *)
(* wakeup can fork, and whether the configuration file is good.            *)

\* The first unused slot below last, or last.
SpawnSlot(s) ==
    LET holes == {i \in Slot : i < s.m.last /\ ~s.m.table[i].used}
    IN IF holes = {} THEN s.m.last ELSE CHOOSE i \in holes : \A j \in holes : i <= j

Forked(s) == [NoChild EXCEPT !.st = "run", !.cycle = s.m.cycle]

\* Mutant: the limit is not checked.
SpawnUnbounded(s, entry) ==
    LET i == SpawnSlot(s)
    IN IF ~s.forks THEN s
       ELSE [s EXCEPT !.m.table = (i :> entry) @@ @,
                      !.m.last = IF i = @ THEN @ + 1 ELSE @,
                      !.child = (i :> Forked(s)) @@ @]

Spawn(s, entry) ==
    LET i == SpawnSlot(s)
    IN IF i = MaxProcesses THEN [s EXCEPT !.m.refused = TRUE]
       ELSE IF ~s.forks THEN s
       ELSE [s EXCEPT !.m.table[i] = entry,
                      !.m.last = IF i = @ THEN @ + 1 ELSE @,
                      !.child[i] = Forked(s)]

\* NGX_PROCESS_RESPAWN and NGX_PROCESS_JUST_RESPAWN
Worker(just) == [Unused EXCEPT !.used = TRUE, !.respawn = TRUE, !.just_spawn = just]

\* ngx_start_worker_processes
StartWorkers(s, just) ==
    LET start[n \in 0 .. NWorkers] ==
          IF n = 0 THEN s ELSE Spawn(start[n - 1], Worker(just))
    IN start[NWorkers]

-----------------------------------------------------------------------------
(* ngx_signal_worker_processes: through the channel or, where that fails,  *)
(* by kill; SIGKILL ends the process.  kill finds no process where a       *)
(* respawn failed.                                                         *)

Addressed(s, i, sig) ==
    LET e == s.m.table[i]
    IN /\ e.used /\ i < s.m.last
       /\ ~e.detached /\ ~e.just_spawn
       /\ ~(e.exiting /\ sig = "quit")

SignalWorkers(s, sig) ==
    LET to == {i \in Slot : Addressed(s, i, sig)}
        gone == {i \in to : s.child[i].st = "none"}
        entry(i) == LET e == s.m.table[i] IN
          [e EXCEPT !.just_spawn = FALSE,
                    !.exiting = (e.exiting \/ (i \in to /\ sig # "reopen")) /\ i \notin gone]
        told(i) == LET c == s.child[i] IN
          IF i \notin to \ gone THEN c
          ELSE IF sig = "kill" THEN [c EXCEPT !.st = "zombie"]
          ELSE [c EXCEPT !.inbox = c.inbox \cup {sig}]
    IN [s EXCEPT !.m.flags = IF gone = {} THEN @ ELSE @ \cup {"reap"},
                 !.m.table = [i \in Slot |-> entry(i)],
                 !.child = [i \in Slot |-> told(i)]]

-----------------------------------------------------------------------------
(* The parts of the loop body.                                             *)

\* Mutant: SIGCHLD is noted, waitpid not called for all that ended.
HandledOne(s) ==
    LET ended == {i \in Slot : s.child[i].st = "zombie" /\ \A j \in Slot : j < i => s.child[j].st # "zombie"}
    IN [s EXCEPT
          !.m.flags = (@ \cup pending) \cup (IF ended = {} THEN {} ELSE {"reap"}),
          !.child = [i \in Slot |-> IF i \in ended THEN NoChild ELSE @[i]]]

\* ngx_signal_handler, for the signals pending in sigsuspend, with
\* ngx_process_get_status for every child that ended.
Handled(s) ==
    LET ended == {i \in Slot : s.child[i].st = "zombie"}
        ignored == IF s.m.new_binary = "running" THEN {"changebin"} ELSE {}
        entry(i) == LET e == s.m.table[i] IN
          IF i \notin ended THEN e
          ELSE [e EXCEPT !.exited = TRUE, !.respawn = e.respawn /\ ~s.child[i].fatal]
    IN [s EXCEPT
          !.m.flags = (@ \cup (pending \ ignored)) \cup (IF ended = {} THEN {} ELSE {"reap"}),
          !.m.table = [i \in Slot |-> entry(i)],
          !.child = [i \in Slot |-> IF i \in ended THEN NoChild ELSE @[i]]]

Clear(s, flag) == [s EXCEPT !.m.flags = @ \ {flag}]

\* The children ngx_reap_children starts again, in their own slots.
Respawned(s) ==
    {i \in Slot : /\ s.m.table[i].used /\ s.m.table[i].exited
                  /\ s.m.table[i].respawn /\ ~s.m.table[i].exiting
                  /\ s.m.flags \cap {"terminate", "quit"} = {}}

\* Mutant: a freed slot always shortens the table.
ReapAlwaysShortens(s) ==
    LET freed == {i \in Slot : s.m.table[i].used /\ s.m.table[i].exited} \ Respawned(s)
        again == IF s.forks THEN Respawned(s) ELSE {}
    IN [s EXCEPT
          !.m.table = [i \in Slot |-> IF i \in freed THEN Unused
                                      ELSE [@[i] EXCEPT !.exited = @ /\ i \notin again]],
          !.m.last = IF freed # {} THEN @ - 1 ELSE @,
          !.child = [i \in Slot |-> IF i \in again THEN Forked(s) ELSE @[i]]]

\* ngx_reap_children; it shortens the table by at most one slot, and leaves the entry
\* of a child it cannot fork as it is.
ReapChildren(s) ==
    LET again == Respawned(s)
        forked == IF s.forks THEN again ELSE {}
        freed == {i \in Slot : s.m.table[i].used /\ s.m.table[i].exited} \ again
        binary == \E i \in freed : s.m.table[i].detached
        restart == binary /\ s.m.noaccepting
        entry(i) == LET e == s.m.table[i] IN
          IF i \in freed THEN Unused ELSE [e EXCEPT !.exited = e.exited /\ i \notin forked]
    IN [s EXCEPT
          !.m.table = [i \in Slot |-> entry(i)],
          !.m.last = IF @ > 0 /\ @ - 1 \in freed THEN @ - 1 ELSE @,
          !.m.live = \/ forked # {}
                     \/ \E i \in Slot : LET e == s.m.table[i] IN
                          e.used /\ ~e.exited /\ (e.exiting \/ ~e.detached),
          !.m.new_binary = IF binary THEN "none" ELSE @,
          !.m.flags = IF restart THEN @ \cup {"restart"} ELSE @,
          !.m.noaccepting = @ /\ ~restart,
          !.m.uncounted = FALSE,
          !.child = [i \in Slot |-> IF i \in forked THEN Forked(s) ELSE @[i]]]

Reap(s) == IF "reap" \in s.m.flags THEN ReapChildren(Clear(s, "reap")) ELSE s

\* Mutant: the master does not wait for its children.
LeavesAtOnce(s) == s.m.flags \cap {"terminate", "quit"} # {}

Leaves(s) == ~s.m.live /\ s.m.flags \cap {"terminate", "quit"} # {}

\* ngx_master_process_exit
MasterExit(s) == [s EXCEPT !.m.up = FALSE]

\* Mutant: never SIGKILL.
TerminateMildly(s) ==
    IF s.m.sigio > 0 THEN [s EXCEPT !.m.sigio = @ - 1]
    ELSE SignalWorkers([s EXCEPT !.m.sigio = NWorkers + 2, !.m.delay = 1], "terminate")

\* Fast shutdown: the signal is repeated after an alarm, or after as many wakeups as
\* there are children, and becomes SIGKILL in the end.
Terminate(s) ==
    LET d == IF s.m.delay = 0 THEN 1 ELSE s.m.delay
        started == [s EXCEPT !.m.delay = d]
    IN IF s.m.sigio > 0 THEN [started EXCEPT !.m.sigio = @ - 1]
       ELSE SignalWorkers([started EXCEPT !.m.sigio = NWorkers + 2],
                          IF d >= KillDelay THEN "kill" ELSE "terminate")

\* Reload.  With a new binary running, or one that could not be started, it starts
\* the old one's workers again.
ReloadBesideBinary(s) ==
    LET t == StartWorkers(Clear(s, "reconfigure"), FALSE)
    IN [t EXCEPT !.m.noaccepting = FALSE, !.m.uncounted = ~s.m.live]

\* Mutants: the new workers are not marked; the old ones are not told.
ReloadUnmarked(s) ==
    LET t == [Clear(s, "reconfigure") EXCEPT !.m.cycle = @ + 1]
    IN SignalWorkers([StartWorkers(t, FALSE) EXCEPT !.m.live = TRUE], "quit")

ReloadSilent(s) ==
    LET t == [Clear(s, "reconfigure") EXCEPT !.m.cycle = @ + 1]
    IN [StartWorkers(t, TRUE) EXCEPT !.m.live = TRUE]

Reload(s) ==
    LET t == [Clear(s, "reconfigure") EXCEPT !.m.cycle = @ + 1]
    IN SignalWorkers([StartWorkers(t, TRUE) EXCEPT !.m.live = TRUE,
                                                   !.m.uncounted = FALSE], "quit")

\* Mutant: the flag is cleared and nothing started.
RestartForgotten(s) == Clear(s, "restart")

Restart(s) ==
    IF "restart" \in s.m.flags
    THEN [StartWorkers(Clear(s, "restart"), FALSE) EXCEPT !.m.live = TRUE,
                                                          !.m.uncounted = FALSE]
    ELSE s

Reopen(s) ==
    IF "reopen" \in s.m.flags THEN SignalWorkers(Clear(s, "reopen"), "reopen") ELSE s

\* ngx_exec_new_binary: a detached child.
ChangeBinary(s) ==
    LET t == Spawn(Clear(s, "changebin"), [Unused EXCEPT !.used = TRUE, !.detached = TRUE])
    IN IF "changebin" \in s.m.flags
       THEN [t EXCEPT !.m.new_binary = IF t.child = s.child THEN "failed" ELSE "running"]
       ELSE s

NoAccept(s) ==
    IF "noaccept" \in s.m.flags
    THEN SignalWorkers([Clear(s, "noaccept") EXCEPT !.m.noaccepting = TRUE], "quit")
    ELSE s

\* What follows the reload in the body.
Rest(s) == NoAccept(ChangeBinary(Reopen(Restart(s))))

Body(s) ==
    LET r == Reap(s)
    IN CASE Leaves(r)                    -> MasterExit(r)
         [] "terminate" \in r.m.flags    -> Terminate(r)
         [] "quit" \in r.m.flags         -> SignalWorkers(r, "quit")
         [] "reconfigure" \in r.m.flags  ->
               IF r.m.new_binary # "none" THEN ReloadBesideBinary(r)
               ELSE IF r.conf THEN Rest(Reload(r))
               ELSE Clear(r, "reconfigure")
         [] OTHER                        -> Rest(r)

\* The top of the loop: an alarm doubles delay, and the timer is set again.
Top(s) ==
    IF s.m.delay > 0 /\ "sigalrm" \in s.m.flags
    THEN [Clear(s, "sigalrm") EXCEPT !.m.sigio = 0,
                                     !.m.delay = IF @ < KillDelay THEN @ + 1 ELSE @]
    ELSE s

-----------------------------------------------------------------------------
(* Actions.                                                                *)

EmptyTable == [up |-> TRUE, table |-> [i \in Slot |-> Unused], last |-> 0,
               live |-> TRUE, sigio |-> 0, delay |-> 0, flags |-> {},
               noaccepting |-> FALSE, new_binary |-> "none", cycle |-> 0,
               uncounted |-> FALSE, refused |-> FALSE]

Init ==
    /\ LET s == StartWorkers([m |-> EmptyTable, child |-> [i \in Slot |-> NoChild],
                              forks |-> TRUE, conf |-> TRUE], FALSE)
       IN m = s.m /\ child = s.child
    /\ pending = {}
    /\ sent = 0 /\ faults = {}

May(fs) == fs \cap faults = {} /\ Cardinality(faults \cup fs) <= MaxFaults

Woken == m.up /\ (pending # {} \/ \E i \in Slot : child[i].st = "zombie")

\* sigsuspend returns, the body runs, and the master waits again.
Wake ==
    /\ Woken
    /\ \E fs \in SUBSET {"fork", "conf"} :
         LET s == Top(Body(Handled([m |-> m, child |-> child,
                                    forks |-> "fork" \notin fs, conf |-> "conf" \notin fs])))
         IN /\ May(fs)
            /\ m' = s.m /\ child' = s.child
            /\ faults' = faults \cup fs
    /\ pending' = {}
    /\ UNCHANGED sent

AlarmFires ==
    /\ m.up /\ m.delay > 0
    /\ pending' = pending \cup {"sigalrm"}
    /\ UNCHANGED <<m, child, sent, faults>>

Signalled(sig) ==
    /\ m.up /\ sent < MaxSignals
    /\ sent' = sent + 1
    /\ pending' = pending \cup {sig}
    /\ UNCHANGED <<m, child, faults>>

Alive(i) == child[i].st \in {"run", "drain"}

\* A child of its own accord, or killed; code 2 if it could not initialise.
Dies(i) ==
    /\ Alive(i)
    /\ \E f \in {"dies", "fatal"} :
         /\ May({f})
         /\ faults' = faults \cup {f}
         /\ child' = [child EXCEPT ![i].st = "zombie", ![i].fatal = (f = "fatal")]
    /\ UNCHANGED <<m, pending, sent>>

\* A worker that blocks or spins and reads no command any more.
Hangs(i) ==
    /\ Alive(i) /\ May({"hangs"})
    /\ faults' = faults \cup {"hangs"}
    /\ child' = [child EXCEPT ![i].st = "hung"]
    /\ UNCHANGED <<m, pending, sent>>

\* ngx_channel_handler or ngx_signal_handler, then the end of the worker's loop.
TakesTerminate(i) ==
    /\ Alive(i) /\ "terminate" \in child[i].inbox
    /\ child' = [child EXCEPT ![i].st = "zombie"]
    /\ UNCHANGED <<m, pending, sent, faults>>

TakesQuit(i) ==
    /\ child[i].st = "run" /\ "quit" \in child[i].inbox
    /\ child' = [child EXCEPT ![i].st = "drain", ![i].inbox = @ \ {"quit"}]
    /\ UNCHANGED <<m, pending, sent, faults>>

TakesReopen(i) ==
    /\ Alive(i) /\ "reopen" \in child[i].inbox
    /\ child' = [child EXCEPT ![i].inbox = @ \ {"reopen"}]
    /\ UNCHANGED <<m, pending, sent, faults>>

\* The last timer is gone: ngx_worker_process_exit.
Drained(i) ==
    /\ child[i].st = "drain"
    /\ child' = [child EXCEPT ![i].st = "zombie"]
    /\ UNCHANGED <<m, pending, sent, faults>>

Obeys(i) == TakesTerminate(i) \/ TakesQuit(i) \/ TakesReopen(i) \/ Drained(i)

Next ==
    \/ Wake \/ AlarmFires
    \/ \E sig \in Operator : Signalled(sig)
    \/ \E i \in Slot : Dies(i) \/ Hangs(i) \/ Obeys(i)

Spec == Init /\ [][Next]_vars

\* The master runs and its timer fires; children that do not hang take their commands
\* and, asked to quit, finish their connections.  The first conjunct is WF_vars(Wake),
\* with Woken, its guard, for ENABLED <<Wake>>_vars (Wake always changes pending or a
\* zombie).
FairSpec ==
    /\ Spec
    /\ []<>~Woken \/ []<><<Wake>>_vars
    /\ WF_vars(AlarmFires)
    /\ \A i \in Slot : WF_vars(Obeys(i))

-----------------------------------------------------------------------------
(* Properties.                                                             *)

Ours(i) == m.table[i].used /\ ~m.table[i].detached

Living(i) == child[i].st \in {"run", "drain", "hung"}

\* Every process the master started is in the part of ngx_processes it looks at: it can
\* be signalled and its end will be noticed, whatever slots were freed and taken again.
TableAgrees ==
    m.up => \A i \in Slot : child[i].st # "none" =>
               m.table[i].used /\ ~m.table[i].exited /\ i < m.last

\* The table of processes and the processes agree.
ChildrenTracked == TypeOK /\ TableAgrees

\* The master leaves only when none of its workers lives (ngx_process_cycle.c:237).
NoWorkerOrphaned ==
    ~m.up => \A i \in Slot : Living(i) => m.table[i].detached

\* The only way to leave workers behind is a reload beside a new binary after the old
\* workers had gone, which starts workers without setting live.
OrphansOnlyBesideBinary == m.uncounted \/ NoWorkerOrphaned

\* The workers that were not asked to leave.
Serving == {i \in Slot : Ours(i) /\ ~m.table[i].exiting}

\* As long as nobody asks for a shutdown or for no more accepting, worker_processes
\* children serve: one that dies is replaced, and a new binary that dies gives the old
\* one its workers back.  Excepted: exit code 2, failing forks, a full table, and a
\* restart that a failed reload puts off.
Capacity ==
    (/\ m.up /\ m.flags \cap {"quit", "terminate", "restart"} = {} /\ ~m.noaccepting
     /\ faults \cap {"fatal", "fork"} = {} /\ ~m.refused)
      => Cardinality(Serving) >= NWorkers

\* A reload hands over: of the children it leaves, those with the new configuration
\* were told nothing and all the others to quit.
HandsOver ==
    [][ (m'.cycle > m.cycle /\ "noaccept" \notin pending \cup m.flags) =>
          \A i \in Slot : (Ours(i) /\ child[i].st # "none")' =>
             (m'.table[i].exiting <=> child'[i].cycle < m'.cycle) ]_vars

\* live is set and there is no child it could count: forks failed in a reload or restart
\* when no old worker was left.  Such a master can no longer be stopped.
Wedged == m.live /\ \A i \in Slot : ~Ours(i)

\* A fast shutdown ends the master, hung workers or not.
TerminateEnds == ("terminate" \in m.flags /\ ~Wedged) ~> ~m.up

\* A graceful shutdown ends it unless a worker hangs.
QuitEnds == ("quit" \in m.flags /\ ~Wedged) ~> (~m.up \/ "hangs" \in faults)

\* The workers of an old configuration leave unless they hang.
Old(i) == Living(i) /\ Ours(i) /\ child[i].cycle < m.cycle

OldWorkersLeave == (\E i \in Slot : Old(i)) ~> ("hangs" \in faults \/ \A i \in Slot : ~Old(i))
=============================================================================
