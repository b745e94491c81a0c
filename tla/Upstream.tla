------------------------------ MODULE Upstream ------------------------------
(***************************************************************************)
(* Requests that a worker passes to the servers of an upstream{} block:    *)
(* choosing a peer, connecting, trying the next one and the account of     *)
(* failures that all requests share (ngx_http_upstream.c,                  *)
(* ngx_http_upstream_round_robin.c), with the balancer of this repository  *)
(* (NdgLoadBalanceHandler.hpp, NgxLoadBalance.hpp) or round robin.         *)
(*                                                                         *)
(* The worker is one thread: a request that connects, fails at once and    *)
(* tries the next peer does so without a step of any other request, and    *)
(* the cached time stands still meanwhile.  Left out: cached responses,    *)
(* keepalive connections to peers, SSL, name resolution at run time.       *)
(***************************************************************************)
EXTENDS Integers, Sequences, FiniteSetsExt, Functions

CONSTANTS Request,      \* the requests the worker handles
          None,         \* no request is running
          Confs,        \* the configurations: servers, balancer, next_upstream ...
          RandomTries,  \* after so many random choices more, NdgLoadBalance uses round robin
          FailTimeout,  \* fail_timeout of every server, in seconds
          NextTimeout,  \* next_upstream_timeout, 0 if it is off
          MaxTime       \* bound: seconds that pass

ASSUME UpstreamAssumption ==
    /\ None \notin Request
    /\ RandomTries \in Nat /\ FailTimeout \in Nat /\ NextTimeout \in Nat /\ MaxTime \in Nat

\* What the server directive and the parsers of the location's directives accept: a
\* weight of 0 is refused, and so is a block without a primary server.
ASSUME ConfAssumption ==
    \A c \in Confs :
        /\ c.servers \in Seq([weight : Nat \ {0}, max_fails : Nat,
                              down : BOOLEAN, backup : BOOLEAN])
        /\ \E p \in DOMAIN c.servers : ~c.servers[p].backup
        /\ c.balancer \in {"rr", "ndg"} /\ c.tries \in Nat
        /\ c.next \subseteq {"error", "timeout", "invalid_header", "http_500", "http_404"}
        /\ c.kinds \subseteq {"plain", "unbuffered", "cacheable"}

VARIABLES conf,    \* the configuration of the upstream{} block and its location
          peer,    \* ngx_http_upstream_rr_peer_t, by number
          rq,      \* of each request: u, u->peer and its rr_peer_data
          run,     \* the request inside ngx_http_upstream_connect
          now,     \* ngx_time()
          hist     \* history: failures of each peer and the time of the last

vars == <<conf, peer, rq, run, now, hist>>

Peers == DOMAIN conf.servers

\* peers->peer of the primary and of the backup servers.
Group(backup) == {p \in Peers : conf.servers[p].backup = backup}

Single == Cardinality(Peers) = 1

\* ft_type: what went wrong.  "nolive" is in no next_upstream mask.
Failure == {"error", "timeout", "invalid_header", "http_500", "http_404", "nolive"}

State == {"new", "connect", "connecting", "sent", "responding", "done"}

End == {"none", "nolive", "failed", "internal", "closed", "answered", "cut"}

TypeOK ==
    /\ conf \in Confs
    /\ peer \in [Peers -> [cw : Int, ew : Nat, fails : Nat, accessed : Nat, checked : Nat]]
    /\ rq \in [Request -> [st : State, kind : {"plain", "unbuffered", "cacheable"},
                           backup : BOOLEAN, current : Nat, tried : SUBSET Peers,
                           random : Nat, tries : Nat, start : Nat, used : {0} \cup Peers,
                           error : BOOLEAN, end : End, conns : Seq(Peers), sends : Nat]]
    /\ run \in Request \cup {None}
    /\ now \in Nat
    /\ hist \in [Peers -> [failed : Nat, last : Nat]]

\* ngx_http_upstream_init_round_robin; the clock is far past the epoch.
Init ==
    /\ conf \in Confs
    /\ peer = [p \in Peers |-> [cw |-> 0, ew |-> conf.servers[p].weight, fails |-> 0,
                                accessed |-> 0, checked |-> 0]]
    /\ \E kind \in [Request -> conf.kinds] :
         rq = [r \in Request |->
                 [st |-> "new", kind |-> kind[r], backup |-> FALSE, current |-> 0,
                  tried |-> {}, random |-> 0, tries |-> 0, start |-> 0, used |-> 0,
                  error |-> FALSE, end |-> "none", conns |-> <<>>, sends |-> 0]]
    /\ run = None
    /\ now = FailTimeout + 1
    /\ hist = [p \in Peers |-> [failed |-> 0, last |-> 0]]

-----------------------------------------------------------------------------
(* Round robin.  The operators take and return the request's record q and  *)
(* the peers ps.                                                           *)

\* Mutant of Current: the index is applied to the primary servers.
CurrentPrimary(q) == 1 + q.current

\* &rrp->peers->peer[rrp->current]
Current(q) == Min(Group(q.backup)) + q.current

Excluded(ps, p) ==
    /\ conf.servers[p].max_fails # 0
    /\ ps[p].fails >= conf.servers[p].max_fails
    /\ now - ps[p].checked <= FailTimeout

\* The peers ngx_http_upstream_get_peer considers; with one server, just whether it
\* is down.
Candidates(q, ps) ==
    {p \in Group(q.backup) :
       ~conf.servers[p].down /\ (Single \/ (p \notin q.tried /\ ~Excluded(ps, p)))}

Raised(ps, p) == ps[p].cw + ps[p].ew

\* Mutant of GetPeer: the total is taken after the weights have recovered.
GetPeerLateTotal(q, ps) ==
    LET C == Candidates(q, ps)
        best == CHOOSE p \in C : \A x \in C : Raised(ps, p) > Raised(ps, x)
                                                \/ (Raised(ps, p) = Raised(ps, x) /\ p <= x)
        grown(p) == IF ps[p].ew < conf.servers[p].weight THEN ps[p].ew + 1 ELSE ps[p].ew
        total == SumFunction([p \in C |-> grown(p)])
    IN [q  |-> [q EXCEPT !.used = best, !.current = best - Min(Group(q.backup)),
                         !.tried = @ \cup {best}],
        ps |-> [p \in Peers |->
                  IF p \notin C THEN ps[p]
                  ELSE [ps[p] EXCEPT !.cw = Raised(ps, p) - (IF p = best THEN total ELSE 0),
                                     !.ew = grown(p),
                                     !.checked = IF p = best /\ now - @ > FailTimeout
                                                 THEN now ELSE @]]]

\* ngx_http_upstream_get_peer: of the first of those with the greatest raised weight;
\* with one server there is nothing to choose or to account.
GetPeer(q, ps) ==
    LET C == Candidates(q, ps)
        best == CHOOSE p \in C : \A x \in C : Raised(ps, p) > Raised(ps, x)
                                                \/ (Raised(ps, p) = Raised(ps, x) /\ p <= x)
        total == SumFunction([p \in C |-> ps[p].ew])
    IN IF Single THEN [q |-> [q EXCEPT !.used = best], ps |-> ps]
       ELSE [q  |-> [q EXCEPT !.used = best, !.current = best - Min(Group(q.backup)),
                              !.tried = @ \cup {best}],
             ps |-> [p \in Peers |->
                       IF p \notin C THEN ps[p]
                       ELSE [ps[p] EXCEPT
                               !.cw = Raised(ps, p) - (IF p = best THEN total ELSE 0),
                               !.ew = IF @ < conf.servers[p].weight THEN @ + 1 ELSE @,
                               !.checked = IF p = best /\ now - @ > FailTimeout
                                           THEN now ELSE @]]]

\* "all peers failed, mark them as live for quick recovery"
Forgiven(ps, S) == [p \in Peers |-> IF p \in S THEN [ps[p] EXCEPT !.fails = 0] ELSE ps[p]]

\* Mutant of GetRoundRobin: the backup servers are forgotten.
GetRoundRobinPrimary(q, ps) ==
    IF Candidates(q, ps) # {} THEN GetPeer(q, ps)
    ELSE [q |-> q, ps |-> Forgiven(ps, Group(q.backup))]

\* ngx_http_upstream_get_round_robin_peer; used = 0 in the result is NGX_BUSY.
GetRoundRobin(q, ps) ==
    LET spare == [q EXCEPT !.backup = TRUE, !.tried = {}]
        failover == ~q.backup /\ Group(TRUE) # {}
    IN CASE Candidates(q, ps) # {}                     -> GetPeer(q, ps)
         [] Candidates(q, ps) = {} /\ ~failover        -> [q |-> q, ps |-> Forgiven(ps, Group(q.backup))]
         [] OTHER -> IF Candidates(spare, ps) # {} THEN GetPeer(spare, ps)
                     ELSE [q |-> spare, ps |-> Forgiven(ps, Peers)]

\* NdgLoadBalanceCallback::get: rand() % number, or round robin after enough tries.
Get(q, ps) ==
    IF conf.balancer = "rr" THEN {GetRoundRobin(q, ps)}
    ELSE LET q1 == [q EXCEPT !.random = @ + 1]
         IN IF q.random > RandomTries \/ Single THEN {GetRoundRobin(q1, ps)}
            ELSE {[q |-> [q1 EXCEPT !.used = p], ps |-> ps] : p \in Group(q.backup)}

\* ngx_http_upstream_free_round_robin_peer.
Free(q, ps, failed) ==
    LET p == Current(q)
        s == conf.servers[p]
    IN IF Single THEN [q |-> [q EXCEPT !.used = 0, !.tries = 0], ps |-> ps]
       ELSE [q  |-> [q EXCEPT !.used = 0, !.tries = IF @ > 0 THEN @ - 1 ELSE 0],
             ps |-> IF failed
                    THEN [ps EXCEPT ![p].fails = @ + 1,
                                    ![p].accessed = now, ![p].checked = now,
                                    ![p].ew = IF s.max_fails = 0 THEN @
                                              ELSE Max({0, @ - s.weight \div s.max_fails})]
                    ELSE [ps EXCEPT ![p].fails = IF ps[p].accessed < ps[p].checked THEN 0 ELSE @]]

-----------------------------------------------------------------------------
(* One request.                                                            *)

Enters(r, q, ps) == rq' = [rq EXCEPT ![r] = q] /\ peer' = ps

\* ngx_http_upstream_finalize_request: a peer still held is given back as if it had
\* served, whatever the reason.
Finalize(r, q, ps, end) ==
    LET g == IF q.used = 0 THEN [q |-> q, ps |-> ps] ELSE Free(q, ps, FALSE)
    IN Enters(r, [g.q EXCEPT !.st = "done", !.end = end], g.ps) /\ run' = None

\* A try is followed by another one unless ...
GivesUp(q, ft) ==
    \/ q.tries = 0
    \/ ft \notin conf.next
    \/ q.kind = "unbuffered" /\ q.st = "sent"
    \/ NextTimeout # 0 /\ now - q.start >= NextTimeout

\* Mutant of NextPeer: a request whose client has gone is left as it is.
NextPeerSilent(r, q, ps, ft) ==
    LET g == IF q.used = 0 THEN [q |-> q, ps |-> ps] ELSE Free(q, ps, ft # "http_404")
    IN IF q.error THEN Enters(r, [g.q EXCEPT !.st = "forgotten"], g.ps) /\ run' = None
       ELSE IF GivesUp(g.q, ft)
            THEN Finalize(r, g.q, g.ps, IF ft = "nolive" THEN "nolive" ELSE "failed")
            ELSE Enters(r, [g.q EXCEPT !.st = "connect"], g.ps) /\ run' = r

\* Mutant of NextPeer: the tries that are left are not looked at.
NextPeerUnlimited(r, q, ps, ft) ==
    LET g == IF q.used = 0 THEN [q |-> q, ps |-> ps] ELSE Free(q, ps, ft # "http_404")
    IN IF q.error \/ ft = "nolive" THEN Finalize(r, g.q, g.ps, "closed")
       ELSE Enters(r, [g.q EXCEPT !.st = "connect"], g.ps) /\ run' = r

\* ngx_http_upstream_next.
NextPeer(r, q, ps, ft) ==
    LET g == IF q.used = 0 THEN [q |-> q, ps |-> ps] ELSE Free(q, ps, ft # "http_404")
    IN IF q.error THEN Finalize(r, g.q, g.ps, "closed")
       ELSE IF GivesUp(g.q, ft)
            THEN Finalize(r, g.q, g.ps, IF ft = "nolive" THEN "nolive" ELSE "failed")
            ELSE Enters(r, [g.q EXCEPT !.st = "connect"], g.ps) /\ run' = r

\* History of a failure of the peer in use.
Fault(q) == hist' = [hist EXCEPT ![q.used].failed = @ + 1, ![q.used].last = now]

\* ngx_http_upstream_init_request and the balancer's init_peer.
Start(r) ==
    /\ run = None /\ rq[r].st = "new"
    /\ rq' = [rq EXCEPT ![r].st = "connect", ![r].start = now,
                        ![r].tries = IF conf.tries # 0 /\ Cardinality(Peers) > conf.tries
                                     THEN conf.tries ELSE Cardinality(Peers)]
    /\ run' = r
    /\ UNCHANGED <<conf, peer, now, hist>>

\* ngx_http_upstream_connect and ngx_event_connect_peer: no peer is live, no socket or
\* connection is to be had, the connection is refused at once, or it is under way.
Connect(r) ==
    /\ run = r
    /\ \E g \in Get(rq[r], peer) :
         LET q == [g.q EXCEPT !.conns = IF g.q.used = 0 THEN @ ELSE Append(@, g.q.used)]
         IN \/ g.q.used = 0 /\ NextPeer(r, q, g.ps, "nolive") /\ UNCHANGED hist
            \/ g.q.used # 0 /\ Finalize(r, q, g.ps, "internal") /\ UNCHANGED hist
            \/ g.q.used # 0 /\ NextPeer(r, q, g.ps, "error") /\ Fault(q)
            \/ /\ g.q.used # 0
               /\ Enters(r, [q EXCEPT !.st = "connecting"], g.ps)
               /\ run' = None /\ UNCHANGED hist
    /\ UNCHANGED <<conf, now>>

Event(r, states) == run = None /\ rq[r].st \in states

\* ngx_http_upstream_send_request
SendRequest(r) ==
    /\ Event(r, {"connecting"})
    /\ rq' = [rq EXCEPT ![r].st = "sent", ![r].sends = @ + 1]
    /\ UNCHANGED <<conf, peer, run, now, hist>>

\* The connection or the peer fails, or one of the timers expires.
Fails(r) ==
    /\ Event(r, {"connecting", "sent"})
    /\ \E ft \in {"error", "timeout"} \cup (IF rq[r].st = "sent" THEN {"invalid_header"} ELSE {}) :
         NextPeer(r, rq[r], peer, ft)
    /\ Fault(rq[r])
    /\ UNCHANGED <<conf, now>>

\* ngx_http_upstream_process_header with a response; ngx_http_upstream_test_next.
Answers(r) ==
    /\ Event(r, {"sent"})
    /\ \E ft \in {"none", "http_500", "http_404"} :
         IF rq[r].tries > 1 /\ ft \in conf.next
         THEN /\ NextPeer(r, rq[r], peer, ft)
              /\ IF ft = "http_404" THEN UNCHANGED hist ELSE Fault(rq[r])
         ELSE rq' = [rq EXCEPT ![r].st = "responding"] /\ UNCHANGED <<peer, run, hist>>
    /\ UNCHANGED <<conf, now>>

\* The module cannot process the header (NGX_ERROR): an internal error, which is not
\* held against the peer.
HeaderError(r) ==
    /\ Event(r, {"sent"})
    /\ Finalize(r, rq[r], peer, "failed")
    /\ UNCHANGED <<conf, now, hist>>

\* The end of the response, or of the connection to the peer before that.
ResponseEnds(r) ==
    /\ Event(r, {"responding"})
    /\ \E end \in {"answered", "cut"} : Finalize(r, rq[r], peer, end)
    /\ UNCHANGED <<conf, now, hist>>

\* ngx_http_upstream_check_broken_connection, and downstream_error later on.
ClientCloses(r) ==
    /\ Event(r, {"connecting", "sent", "responding"}) /\ ~rq[r].error
    /\ LET q == [rq[r] EXCEPT !.error = TRUE]
       IN IF q.kind = "cacheable"
          THEN rq' = [rq EXCEPT ![r] = q] /\ UNCHANGED <<peer, run>>
          ELSE Finalize(r, q, peer, "closed")
    /\ UNCHANGED <<conf, now, hist>>

Tick ==
    /\ run = None /\ now < MaxTime
    /\ now' = now + 1
    /\ UNCHANGED <<conf, peer, rq, run, hist>>

Proceeds(r) ==
    Start(r) \/ Connect(r) \/ SendRequest(r) \/ Fails(r) \/ Answers(r)
        \/ HeaderError(r) \/ ResponseEnds(r)

Next == Tick \/ \E r \in Request : Proceeds(r) \/ ClientCloses(r)

Spec == Init /\ [][Next]_vars

\* When Proceeds(r) is enabled: always, save inside another request's connect.
Able(r) == rq[r].st \in State \ {"done"} /\ run \in {None, r}

\* The event loop runs, and a peer that keeps silent runs into a timeout: the weak
\* fairness of Proceeds(r), with ENABLED written out for TLC's sake.
FairSpec == Spec /\ \A r \in Request : []<>~Able(r) \/ []<><<Proceeds(r)>>_vars

-----------------------------------------------------------------------------
(* Properties.                                                             *)

\* The weights by which requests are shared out stay in balance, whichever requests
\* overlap, fail or find peers excluded: in each group the current weights add up to
\* zero, and no failure takes an effective weight below zero or above its weight.
WeightsBalance ==
    /\ \A b \in BOOLEAN : SumFunction([p \in Group(b) |-> peer[p].cw]) = 0
    /\ \A p \in Peers : peer[p].ew \in 0 .. conf.servers[p].weight

PeersConsistent == TypeOK /\ WeightsBalance

\* "release an upstream address, maintain the balancing information"
\* (ngx_event_connect.h:30): a peer's account only holds failures of its own.
BlamesUsedPeer ==
    \A p \in Peers :
        /\ peer[p].fails <= hist[p].failed
        /\ peer[p].ew < conf.servers[p].weight => hist[p].failed > 0

\* Round robin keeps to that with any number of requests at the same time.
RoundRobinBlames == conf.balancer = "rr" => BlamesUsedPeer

\* A request makes no more tries than it has, round robin no two at the same peer, and
\* a request body that is not kept is sent once.
TriesBounded ==
    \A r \in Request :
        /\ Len(rq[r].conns) <= Cardinality(Peers)
        /\ conf.tries # 0 => Len(rq[r].conns) <= conf.tries
        /\ conf.balancer = "rr" => IsInjective(rq[r].conns)
        /\ rq[r].kind = "unbuffered" => rq[r].sends <= 1

\* "no live upstreams" is said only if there is none: every server is down, has been
\* tried by this request, has failed within fail_timeout, or is being probed by another
\* request.  A request that has moved on to the backup servers does not come back to the
\* primary ones, so only the backups count for it.
NoLiveMeansNone ==
    [][ \A r \in Request :
          conf.balancer = "rr" /\ rq[r].end = "none" /\ rq'[r].end = "nolive" =>
            \A p \in IF rq[r].backup THEN Group(TRUE) ELSE Peers :
                \/ conf.servers[p].down
                \/ p \in Range(rq[r].conns)
                \/ now - hist[p].last <= FailTimeout
                \/ \E x \in Request : rq[x].used = p ]_vars

\* Every request comes to an end.
RequestsEnd == \A r \in Request : (rq[r].st = "connect") ~> (rq[r].st = "done")
=============================================================================
