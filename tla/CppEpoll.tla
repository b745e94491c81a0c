------------------------------ MODULE CppEpoll ------------------------------
(***************************************************************************)
(* The event module CppEpollHandler and what it shares with the connection *)
(* table of the worker (ngx_connection.c) and the posted queues            *)
(* (ngx_event_posted.c): registering interest, one iteration of            *)
(* ngx_process_events_and_timers, and the handlers it calls.               *)
(*                                                                         *)
(* A handler is application code: it performs any sequence of the          *)
(* operations on connections below before it returns.  The worker was built *)
(* with CppEpollHandler or with the module it re-implements,               *)
(* ngx_epoll_module.c, which differ in which event they pass on when a     *)
(* socket is writable.                                                     *)
(***************************************************************************)
EXTENDS Integers, Sequences, FiniteSets, Functions, Lists

CONSTANTS Slot,         \* the ngx_connection_t objects of cycle->connections
          Listener,     \* the one that belongs to a listening socket
          Events,       \* cpp_epoll_events, the size of event_list
          DrainMax,     \* how many connections ngx_drain_connections may close
          MaxGen,       \* bound: how often a slot is taken into use
          EventModules  \* the event modules a worker may have been built with

ASSUME EpollAssumption ==
    /\ IsFiniteSet(Slot) /\ Listener \in Slot
    /\ Events \in Nat \ {0} /\ DrainMax \in Nat /\ MaxGen \in Nat
    /\ EventModules \subseteq {"cpp_epoll", "ngx_epoll"}

VARIABLES
    module,     \* ngx_event_actions: the event module in use
    open,       \* c->fd is valid
    instance,   \* the stale-detection bit of c->read and c->write
    active,     \* ev->active of each event
    interest,   \* kernel: what the epoll set watches on the slot's descriptor
    regInst,    \* kernel: the instance bit stored in data.ptr
    free,       \* ngx_cycle->free_connections, a stack
    reusable,   \* ngx_cycle->reusable_connections_queue, newest first
    list,       \* event_list, from the entry being processed on
    acceptQ,    \* ngx_posted_accept_events
    postedQ,    \* ngx_posted_events
    posting,    \* flags & NGX_POST_EVENTS in this iteration
    phase,      \* where ngx_process_events_and_timers is
    back,       \* where the running handler returns to
    gen,        \* history: how often the slot was taken into use
    call,       \* history: the handler call being made
    owed        \* history: events marked ready whose handler has not run since

slotVars  == <<open, instance, active, interest, regInst, free, reusable, gen>>
queueVars == <<acceptQ, postedQ>>
loopVars  == <<module, list, posting, phase, back, call>>
vars == <<slotVars, queueVars, loopVars, owed>>

Dir   == {"r", "w"}
Event == Slot \X Dir
Flag  == {"IN", "OUT", "ERR"}      \* ERR stands for EPOLLERR and EPOLLHUP
Entry == [slot : Slot, instance : {0, 1}, gen : 0 .. MaxGen, flags : SUBSET Flag]
Queued == [ev : Event, gen : 0 .. MaxGen]
Phase == {"wait", "entry", "write", "accept", "timers", "posted", "handler"}
Call == [handler : Event, arg : Event, gen : 0 .. MaxGen,
         from : {"none", "list", "queue", "timer"}]

NoCall == [handler |-> <<Listener, "r">>, arg |-> <<Listener, "r">>, gen |-> 0,
           from |-> "none"]

Other(d) == IF d = "r" THEN "w" ELSE "r"
EventsOf(s) == {s} \X Dir
QueuedEvents(q) == {x.ev : x \in Range(q)}
Without(q, S) == Minus(q, {x \in Range(q) : x.ev \in S})

TypeOK ==
    /\ module \in EventModules
    /\ open \in [Slot -> BOOLEAN]
    /\ instance \in [Slot -> {0, 1}]
    /\ active \in [Event -> BOOLEAN]
    /\ interest \in [Slot -> SUBSET Dir]
    /\ regInst \in [Slot -> {0, 1}]
    /\ free \in Seq(Slot) /\ reusable \in Seq(Slot)
    /\ list \in Seq(Entry)
    /\ acceptQ \in Seq(Queued) /\ postedQ \in Seq(Queued)
    /\ posting \in BOOLEAN
    /\ phase \in Phase /\ back \in Phase
    /\ gen \in [Slot -> 0 .. MaxGen]
    /\ call \in Call
    /\ owed \in SUBSET Event

-----------------------------------------------------------------------------
(* The listening socket is registered for reading; all other slots are     *)
(* free.                                                                   *)
Init ==
    /\ module \in EventModules
    /\ open = [s \in Slot |-> s = Listener]
    /\ instance = [s \in Slot |-> 0]
    /\ active = [e \in Event |-> e = <<Listener, "r">>]
    /\ interest = [s \in Slot |-> IF s = Listener THEN {"r"} ELSE {}]
    /\ regInst = [s \in Slot |-> 0]
    /\ free \in {f \in [1 .. Cardinality(Slot) - 1 -> Slot \ {Listener}] :
                    Range(f) = Slot \ {Listener}}
    /\ reusable = <<>>
    /\ list = <<>> /\ acceptQ = <<>> /\ postedQ = <<>>
    /\ posting = FALSE /\ phase = "wait" /\ back = "wait"
    /\ gen = [s \in Slot |-> 0]
    /\ call = NoCall
    /\ owed = {}

-----------------------------------------------------------------------------
(* Operations a handler performs.  epoll_ctl refuses EPOLL_CTL_ADD of a    *)
(* descriptor it watches and MOD or DEL of one it does not, and ADD may    *)
(* fail for want of memory; a refused call changes nothing, so only the    *)
(* successful ones are steps.                                              *)

InHandler == phase = "handler"

Registered(s) == interest[s] # {}

EpollCtl(op, s, dirs) ==
    /\ (op = "ADD") <=> ~Registered(s)
    /\ interest' = [interest EXCEPT ![s] = dirs]
    /\ regInst' = [regInst EXCEPT ![s] = IF op = "DEL" THEN @ ELSE instance[s]]

\* Handlers register the events of open connections; a listening socket is only
\* read, and ngx_trylock_accept_mutex also (un)registers it before epoll_wait.
MayRegister(s, d) ==
    /\ open[s]
    /\ IF s = Listener THEN d = "r" /\ phase \in {"handler", "wait"} ELSE InHandler

\* add: MOD if the other event is active, else ADD.
Add(s, d) ==
    /\ MayRegister(s, d)
    /\ IF active[<<s, Other(d)>>]
         THEN EpollCtl("MOD", s, Dir)
         ELSE EpollCtl("ADD", s, {d})
    /\ active' = [active EXCEPT ![<<s, d>>] = TRUE]
    /\ UNCHANGED <<open, instance, free, reusable, gen, queueVars, loopVars, owed>>

\* Mutant of Del: the descriptor is dropped though the other event is active.
DelBoth(s, d) ==
    /\ MayRegister(s, d)
    /\ EpollCtl("DEL", s, {})
    /\ active' = [active EXCEPT ![<<s, d>>] = FALSE]
    /\ UNCHANGED <<open, instance, free, reusable, gen, queueVars, loopVars, owed>>

\* del without NGX_CLOSE_EVENT: keep watching for the other event, if active.
Del(s, d) ==
    /\ MayRegister(s, d)
    /\ IF active[<<s, Other(d)>>]
         THEN EpollCtl("MOD", s, {Other(d)})
         ELSE EpollCtl("DEL", s, {})
    /\ active' = [active EXCEPT ![<<s, d>>] = FALSE]
    /\ UNCHANGED <<open, instance, free, reusable, gen, queueVars, loopVars, owed>>

AddConn(s) ==
    /\ InHandler /\ open[s] /\ s # Listener
    /\ EpollCtl("ADD", s, Dir)
    /\ active' = [e \in Event |-> e[1] = s \/ active[e]]
    /\ UNCHANGED <<open, instance, free, reusable, gen, queueVars, loopVars, owed>>

DelConn(s) ==
    /\ InHandler /\ open[s] /\ s # Listener
    /\ EpollCtl("DEL", s, {})
    /\ active' = [e \in Event |-> e[1] # s /\ active[e]]
    /\ UNCHANGED <<open, instance, free, reusable, gen, queueVars, loopVars, owed>>

\* Mutant of Forget: a closed connection stays on the reusable queue.
ForgetKeepsReusable(S) ==
    /\ interest' = [s \in Slot |-> IF s \in S THEN {} ELSE interest[s]]
    /\ acceptQ' = Without(acceptQ, S \X Dir)
    /\ postedQ' = Without(postedQ, S \X Dir)
    /\ owed' = owed \ (S \X Dir)
    /\ UNCHANGED reusable

\* Mutant of Forget: posted events of a closed connection stay queued.
ForgetKeepsPosted(S) ==
    /\ interest' = [s \in Slot |-> IF s \in S THEN {} ELSE interest[s]]
    /\ reusable' = Minus(reusable, S)
    /\ owed' = owed \ (S \X Dir)
    /\ UNCHANGED queueVars

\* ngx_close_connection of the slots in S, short of the free stack and the
\* event flags: both posted entries removed, off the reusable queue; closing
\* the descriptor ends the kernel's interest.
Forget(S) ==
    /\ interest' = [s \in Slot |-> IF s \in S THEN {} ELSE interest[s]]
    /\ acceptQ' = Without(acceptQ, S \X Dir)
    /\ postedQ' = Without(postedQ, S \X Dir)
    /\ reusable' = Minus(reusable, S)
    /\ owed' = owed \ (S \X Dir)

\* A connection that is already closed is left alone.
Close(s) ==
    /\ InHandler /\ open[s] /\ s # Listener
    /\ Forget({s})
    /\ open' = [open EXCEPT ![s] = FALSE]
    /\ active' = [e \in Event |-> e[1] # s /\ active[e]]
    /\ free' = <<s>> \o free
    /\ UNCHANGED <<instance, regInst, gen, loopVars>>

\* ngx_reusable_connection.
SetReusable(s, on) ==
    /\ InHandler /\ open[s] /\ s # Listener
    /\ reusable' = LET rest == Minus(reusable, {s})
                   IN  IF on THEN <<s>> \o rest ELSE rest
    /\ UNCHANGED <<open, instance, active, interest, regInst, free, gen,
                   queueVars, loopVars, owed>>

\* ngx_drain_connections: the read handlers of up to DrainMax connections at
\* the reusable queue's tail see c->close and close their connection.
Drained ==
    IF free # <<>>
      THEN <<>>
      ELSE LET n == Len(reusable)
           IN  SubSeq(reusable, IF n > DrainMax THEN n - DrainMax + 1 ELSE 1, n)

\* Mutant of Get: the instance bit is counted up, not flipped.
GetCountsInstance ==
    /\ InHandler /\ free # <<>> /\ gen[Head(free)] < MaxGen
    /\ open' = [open EXCEPT ![Head(free)] = TRUE]
    /\ free' = Tail(free)
    /\ instance' = [instance EXCEPT ![Head(free)] = @ + 1]
    /\ gen' = [gen EXCEPT ![Head(free)] = @ + 1]
    /\ UNCHANGED <<active, interest, reusable, queueVars, owed, regInst, loopVars>>

\* ngx_get_connection: drain if no slot is free, pop a slot, zero its events
\* and flip the instance bit.
Get ==
    /\ InHandler
    /\ LET avail == Drained \o free
           S == Range(Drained)
           s == Head(avail)
       IN /\ avail # <<>>
          /\ gen[s] < MaxGen
          /\ Forget(S)
          /\ open' = [x \in Slot |-> x = s \/ (x \notin S /\ open[x])]
          /\ active' = [e \in Event |-> e[1] \notin S \cup {s} /\ active[e]]
          /\ free' = Tail(avail)
          /\ instance' = [instance EXCEPT ![s] = 1 - @]
          /\ gen' = [gen EXCEPT ![s] = @ + 1]
    /\ UNCHANGED <<regInst, loopVars>>

-----------------------------------------------------------------------------
(* One iteration of ngx_process_events_and_timers.                         *)

\* What epoll may report for a watched descriptor: IN and OUT as far as it is
\* watched for them, or an error alone.  (An error that comes with IN or OUT is
\* treated like them, but for c->error.)
Reportable(s) ==
    {{"ERR"}} \cup (SUBSET {IF d = "r" THEN "IN" ELSE "OUT" : d \in interest[s]}
                      \ {{}})

Reports == UNION {[slot : {s}, instance : {regInst[s]}, gen : {gen[s]},
                   flags : Reportable(s)] : s \in {x \in Slot : Registered(x)}}

\* epoll_wait fills event_list with distinct watched descriptors, or returns
\* with none on a timeout, a signal or an error.
EpollWait ==
    /\ phase = "wait"
    /\ \E n \in 0 .. Events :
         list' \in {r \in [1 .. n -> Reports] :
                      \A i, j \in 1 .. n : r[i].slot = r[j].slot => i = j}
    /\ posting' \in BOOLEAN
    /\ phase' = "entry"
    /\ UNCHANGED <<module, slotVars, queueVars, back, call, owed>>

Stale(x) == ~open[x.slot] \/ instance[x.slot] # x.instance

\* An error without IN or OUT is handed to every active handler.
Revents(x) == IF x.flags = {"ERR"} THEN {"IN", "OUT"} ELSE x.flags

ReadDue(x)  == "IN" \in Revents(x) /\ active[<<x.slot, "r">>]
WriteDue(x) == "OUT" \in Revents(x) /\ active[<<x.slot, "w">>]

\* Mutant of WriteArg: rev for wev.
WriteArgRead(s) == <<s, "r">>

\* The event handed on for a writable socket: rev in CppEpollHandler.
WriteArg(s) == IF module = "cpp_epoll" THEN <<s, "r">> ELSE <<s, "w">>

\* ngx_post_event: an event is on a queue at most once.
PostTo(q, e, g, already) ==
    IF e \in already THEN q ELSE Append(q, [ev |-> e, gen |-> g])

\* process_events_list with NGX_POST_EVENTS: one entry of event_list.
PostEntry ==
    /\ phase = "entry" /\ posting /\ list # <<>>
    /\ list' = Tail(list)
    /\ LET x == Head(list)
           e == <<x.slot, "r">>
           before == QueuedEvents(acceptQ) \cup QueuedEvents(postedQ)
           after  == IF ReadDue(x) THEN before \cup {e} ELSE before
           readQ(q) == IF ReadDue(x) THEN PostTo(q, e, x.gen, before) ELSE q
           writeQ(q) == IF WriteDue(x)
                          THEN PostTo(q, WriteArg(x.slot), x.gen, after) ELSE q
           isAccept == x.slot = Listener
       IN IF Stale(x)
            THEN UNCHANGED <<queueVars, owed>>
            ELSE /\ acceptQ' = IF isAccept THEN readQ(acceptQ) ELSE acceptQ
                 /\ postedQ' = writeQ(IF isAccept THEN postedQ ELSE readQ(postedQ))
                 /\ owed' = owed \cup (IF ReadDue(x) THEN {e} ELSE {})
                                 \cup (IF WriteDue(x) THEN {<<x.slot, "w">>} ELSE {})
    /\ UNCHANGED <<module, slotVars, posting, phase, back, call>>

\* Call h(arg) and come back to phase b.
CallHandler(h, arg, g, from, b) ==
    /\ call' = [handler |-> h, arg |-> arg, gen |-> g, from |-> from]
    /\ owed' = IF h = arg THEN owed \ {h} ELSE owed \cup {h}
    /\ phase' = "handler"
    /\ back' = b

\* process_events_list without NGX_POST_EVENTS: the read half of an entry ...
ReadNow ==
    /\ phase = "entry" /\ ~posting /\ list # <<>>
    /\ LET x == Head(list) IN
       IF Stale(x)
         THEN list' = Tail(list) /\ UNCHANGED <<phase, back, call, owed>>
         ELSE /\ UNCHANGED list
              /\ IF ReadDue(x)
                   THEN CallHandler(<<x.slot, "r">>, <<x.slot, "r">>, x.gen,
                                    "list", "write")
                   ELSE phase' = "write" /\ UNCHANGED <<back, call, owed>>
    /\ UNCHANGED <<module, slotVars, queueVars, posting>>

\* Mutant of WriteNow: the check is not repeated.
WriteUnchecked ==
    /\ phase = "write"
    /\ list' = Tail(list)
    /\ LET x == Head(list) IN
       IF WriteDue(x)
         THEN CallHandler(<<x.slot, "w">>, WriteArg(x.slot), x.gen, "list", "entry")
         ELSE phase' = "entry" /\ UNCHANGED <<back, call, owed>>
    /\ UNCHANGED <<module, slotVars, queueVars, posting>>

\* ... and the write half, which repeats the check: the read handler may have
\* closed the connection.
WriteNow ==
    /\ phase = "write"
    /\ list' = Tail(list)
    /\ LET x == Head(list) IN
       IF WriteDue(x) /\ ~Stale(x)
         THEN CallHandler(<<x.slot, "w">>, WriteArg(x.slot), x.gen, "list", "entry")
         ELSE phase' = "entry" /\ UNCHANGED <<back, call, owed>>
    /\ UNCHANGED <<module, slotVars, queueVars, posting>>

ListDone ==
    /\ phase = "entry" /\ list = <<>>
    /\ phase' = "accept"
    /\ posting' = FALSE
    /\ UNCHANGED <<module, slotVars, queueVars, list, back, call, owed>>

\* ngx_event_process_posted of both queues, the accept events first.
RunAccept ==
    /\ phase = "accept"
    /\ IF acceptQ = <<>>
         THEN phase' = "timers" /\ UNCHANGED <<acceptQ, back, call, owed>>
         ELSE LET x == Head(acceptQ) IN
              /\ acceptQ' = Tail(acceptQ)
              /\ CallHandler(x.ev, x.ev, x.gen, "queue", "accept")
    /\ UNCHANGED <<module, slotVars, postedQ, list, posting>>

\* ngx_event_expire_timers calls the handlers of events whose timer expired,
\* between the two queues.
ExpireTimer(s) ==
    /\ phase = "timers" /\ open[s] /\ s # Listener
    /\ \E d \in Dir : CallHandler(<<s, d>>, <<s, d>>, gen[s], "timer", "timers")
    /\ UNCHANGED <<module, slotVars, queueVars, list, posting>>

TimersDone ==
    /\ phase = "timers"
    /\ phase' = "posted"
    /\ UNCHANGED <<module, slotVars, queueVars, list, posting, back, call, owed>>

RunPosted ==
    /\ phase = "posted"
    /\ IF postedQ = <<>>
         THEN phase' = "wait" /\ UNCHANGED <<postedQ, back, call, owed>>
         ELSE LET x == Head(postedQ) IN
              /\ postedQ' = Tail(postedQ)
              /\ CallHandler(x.ev, x.ev, x.gen, "queue", "posted")
    /\ UNCHANGED <<module, slotVars, acceptQ, list, posting>>

HandlerReturns ==
    /\ InHandler
    /\ phase' = back
    /\ back' = "wait" /\ call' = NoCall
    /\ UNCHANGED <<module, slotVars, queueVars, list, posting, owed>>

-----------------------------------------------------------------------------
HandlerStep ==
    \/ \E s \in Slot : \/ \E d \in Dir : Add(s, d) \/ Del(s, d)
                       \/ AddConn(s) \/ DelConn(s) \/ Close(s)
                       \/ \E on \in BOOLEAN : SetReusable(s, on)
    \/ Get

LoopStep == \/ EpollWait \/ PostEntry \/ ReadNow \/ WriteNow \/ ListDone
            \/ RunAccept \/ TimersDone \/ RunPosted \/ HandlerReturns
            \/ \E s \in Slot : ExpireTimer(s)

Next == HandlerStep \/ LoopStep

Spec == Init /\ [][Next]_vars

-----------------------------------------------------------------------------
(* Properties.                                                             *)

\* add, del, add_conn, del_conn, closing and reuse keep ev->active, on which the
\* choice between ADD, MOD and DEL rests, equal to what the kernel watches, and
\* the kernel hands back the slot's current instance bit.
KernelAgrees ==
    \A s \in Slot :
        /\ interest[s] = {d \in Dir : active[<<s, d>>]}
        /\ Registered(s) => open[s] /\ regInst[s] = instance[s]

\* ngx_get_connection, ngx_close_connection and draining keep the free stack,
\* the reusable queue and the descriptors consistent: a slot is either free,
\* once, or in use, and only slots in use can be drained.
SlotAccounting ==
    /\ Range(free) = {s \in Slot : ~open[s]} /\ IsInjective(free)
    /\ \A s \in Range(reusable) : open[s] /\ s # Listener
    /\ IsInjective(reusable)

\* Flags, kernel, free stack and reusable queue agree after any sequence of
\* registrations, closes, drains and reuses, in any phase of an iteration.
TableConsistent == TypeOK /\ KernelAgrees /\ SlotAccounting

\* A closed connection leaves no event behind on a posted queue: what is queued
\* belongs to the current use of its slot, and is queued once.
PostedAreCurrent ==
    LET q == acceptQ \o postedQ IN
    \A i \in DOMAIN q :
        /\ open[q[i].ev[1]] /\ q[i].gen = gen[q[i].ev[1]]
        /\ \A j \in DOMAIN q : q[i].ev = q[j].ev => i = j

Calls == phase # "handler" /\ phase' = "handler"

\* The slot of a called handler is in use, and an event kept from epoll_wait is
\* never delivered to the next user of its slot: the instance bit catches a slot
\* that was closed and taken again (an odd number of times).
CallsMatchInstance ==
    [][Calls => /\ open[call'.handler[1]]
                /\ (gen[call'.handler[1]] - call'.gen) % 2 = 0]_vars

\* "置instance标志，用于检查连接是否失效": the bit identifies stale events, so a
\* handler is only called for the use of the slot its event was reported for.
CallsAreFresh == [][Calls => call'.gen = gen[call'.handler[1]]]_vars

\* Every event process_events_list marks ready has its own handler called, with
\* that event, before epoll_wait is called again (unless it was closed).
ReadinessDelivered == phase = "wait" => owed = {}

\* What holds of both modules: a readable event always reaches its handler in the
\* iteration that reported it, whatever the handlers before it closed, took into
\* use or registered; and in ngx_epoll_module.c a writable event does so too.
ReadsDelivered ==
    phase = "wait" => owed \subseteq IF module = "cpp_epoll" THEN Slot \X {"w"} ELSE {}

=============================================================================
