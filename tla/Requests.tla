------------------------------ MODULE Requests ------------------------------
(***************************************************************************)
(* One HTTP connection with a main request and its subrequests: creation   *)
(* (ngx_http_subrequest), posted requests, finalization and reference      *)
(* counting (ngx_http_request.c), the order of their output                *)
(* (ngx_http_postpone_filter), and the subrequest and data hook modules    *)
(* built on them (NgxSubRequest, NdgSubrequestHandler, NdgDataHookHandler).*)
(*                                                                         *)
(* A content handler is "plain" (it sends some output), "ssi" (it also     *)
(* starts subrequests in the middle of its output) or "ndg" (the handler   *)
(* of the subrequest module).  It may wait for an event between two of its *)
(* steps.  An event handler runs to its end, and then the posted requests  *)
(* run, before the next event.  Error pages and keep-alive, r->buffered,   *)
(* r->blocked and r->waited are left out.                                  *)
(***************************************************************************)
EXTENDS Naturals, Sequences, FiniteSets, SequencesExt

CONSTANTS NReq,     \* bound: requests of the connection
          MaxOut,   \* bound: buffers a handler sends
          MaxFull,  \* bound: times the socket buffer fills
          Builds    \* [hook : the data hook filter is compiled in,
                    \*  kinds : the handlers in use,
                    \*  limit : NGX_HTTP_MAX_SUBREQUESTS + 1, in 8 bits]

Kind == {"plain", "ssi", "ndg"}

ASSUME RequestsAssumption ==
    /\ {NReq, MaxOut, MaxFull} \subseteq Nat /\ NReq > 0
    /\ \A b \in Builds : /\ b.hook \in BOOLEAN /\ b.kinds \subseteq Kind
                         /\ b.limit \in 1 .. 255
                         /\ "ndg" \in b.kinds => b.hook

VARIABLES s,      \* the connection and its requests
          build

vars == <<s, build>>

Req == 1 .. NReq
Main == 1
None == 0

\* The n-th buffer of request by; n = 0: the place of the output of subrequest by.
Item == [by : Req, n : Nat]

Request ==
    [st : {"none", "made", "handling", "over"},
     parent : 0 .. NReq, kind : Kind \cup {""},
     weh : {"handler", "empty", "downstream", "writer", "finalizer", "parent_post",
            "terminate"},                \* write_event_handler
     postponed : Seq(Item), header_sent : BOOLEAN, done : BOOLEAN,
     post : BOOLEAN,                     \* post_subrequest is set
     hook : BOOLEAN, do_hook : BOOLEAN,  \* NdgDataHookCtx
     status : {0, 200, 500}, body : Seq(Item),
     nout : Nat, paused : BOOLEAN,
     doc : Seq(Item)]                    \* history: what the handler sent, in its order

Fresh(parent, post) ==
    [st |-> "made", parent |-> parent, kind |-> "", weh |-> "handler", postponed |-> <<>>,
     header_sent |-> FALSE, done |-> FALSE, post |-> post, hook |-> FALSE,
     do_hook |-> FALSE, status |-> 0, body |-> <<>>, nout |-> 0, paused |-> FALSE,
     doc |-> <<>>]

Connection ==
    [q : [Req -> Request], made : Req,
     data : Req, posted : Seq(Req),      \* c->data, posted_requests
     count : 0 .. 255, subrequests : 0 .. build.limit,
     sent : Seq(Item), buffered : BOOLEAN, full : BOOLEAN, nfull : 0 .. MaxFull,
     run : 0 .. NReq,                    \* the request whose handler has the CPU
     closed : BOOLEAN,
     failed : BOOLEAN,                   \* history: terminated for an error
     stalled : BOOLEAN,                  \* history: timed out with a writable socket
     alert : BOOLEAN]                    \* history: "http request count is zero"

TypeOK == s \in Connection /\ build \in Builds

-----------------------------------------------------------------------------
(* Output.                                                                 *)

Post(t, r) == [t EXCEPT !.posted = Append(@, r)]

\* ngx_http_write_filter: the socket takes the data or keeps it buffered; ch says
\* whether this write fills it.
Emit(t, items, ch) ==
    IF items = <<>> /\ ~t.buffered THEN t
    ELSE LET fills == t.full \/ (ch /\ t.nfull < MaxFull)
         IN [t EXCEPT !.sent = @ \o items, !.buffered = fills, !.full = fills,
                      !.nfull = IF fills /\ ~t.full THEN @ + 1 ELSE @]

\* The buffers of a list before its first subrequest.
Leading(items) ==
    LET subs == {i \in DOMAIN items : items[i].n = 0}
    IN IF subs = {} THEN items
       ELSE SubSeq(items, 1, (CHOOSE i \in subs : \A j \in subs : i <= j) - 1)

\* Mutant: every request writes at once.
PostponeNothing(t, r, in, ch) == Emit(t, in, ch)

\* ngx_http_postpone_filter; in = <<>> is NULL.
PostponeFilter(t, r, in, ch) ==
    LET list == t.q[r].postponed \o in
        lead == Leading(list)
        rest == SubSeq(list, Len(lead) + 1, Len(list))
        out == Emit(t, lead, ch)
    IN IF r # t.data THEN [t EXCEPT !.q[r].postponed = list]
       ELSE IF t.q[r].postponed = <<>> THEN Emit(t, in, ch)
       ELSE IF rest = <<>> THEN [out EXCEPT !.q[r].postponed = <<>>]
       ELSE Post([out EXCEPT !.q[r].postponed = Tail(rest), !.data = Head(rest).by],
                 Head(rest).by)

\* NdgDataHookHandler::body_filter, which runs before: NULL stops here, and the output
\* of a hooked subrequest goes to its parent.
BodyFilter(t, r, in, ch) ==
    IF ~build.hook THEN PostponeFilter(t, r, in, ch)
    ELSE IF in = <<>> THEN t
    ELSE IF t.q[r].do_hook THEN [t EXCEPT !.q[t.q[r].parent].body = @ \o in]
    ELSE PostponeFilter(t, r, in, ch)

\* ngx_http_send_header, with NdgDataHookHandler::header_filter.
SendHeader(t, r) ==
    LET p == t.q[r].parent
        hooked == build.hook /\ p # None /\ t.q[p].hook
    IN [t EXCEPT !.q[r].header_sent = TRUE, !.q[r].do_hook = hooked]

\* A handler sends one buffer, after the header if that is still to be sent.
Send(t, r, item, ch) ==
    LET h == IF t.q[r].header_sent THEN t ELSE SendHeader(t, r)
    IN BodyFilter([h EXCEPT !.q[r].doc = Append(@, item)], r, <<item>>, ch)

NextBuffer(t, r) == [by |-> r, n |-> t.q[r].nout + 1]

SendNext(t, r, ch) == Send([t EXCEPT !.q[r].nout = @ + 1], r, NextBuffer(t, r), ch)

-----------------------------------------------------------------------------
(* Finalization.                                                           *)

\* ngx_http_close_request; count has 8 bits.
CloseRequest(t) ==
    [t EXCEPT !.alert = @ \/ t.count = 0,
              !.count = (@ + 255) % 256,
              !.closed = (t.count = 1)]

\* ngx_http_finalize_connection: with count = 1 the request is freed, one way or other.
FinalizeConnection(t) == CloseRequest(t)

\* ngx_http_terminate_request
TerminateRequest(t) ==
    [t EXCEPT !.q[Main].weh = "terminate", !.posted = <<Main>>, !.failed = TRUE]

\* NgxSubRequestHandler::sub_post and NdgSubrequestCallback::sub_post; the parent's
\* status is set once.
SubPost(t, r, rc) ==
    LET p == t.q[r].parent
    IN [t EXCEPT !.q[p].weh = "parent_post",
                 !.q[p].status = IF @ # 0 THEN @ ELSE IF rc = "OK" THEN 200 ELSE 500]

\* The active subrequest leaves: the connection goes to the parent.
Leave(t, r) ==
    LET p == t.q[r].parent
        first == t.q[p].postponed # <<>> /\ Head(t.q[p].postponed) = [by |-> r, n |-> 0]
    IN [t EXCEPT !.count = (@ + 255) % 256, !.subrequests = @ + 1,
                 !.q[r].done = TRUE, !.data = p,
                 !.q[p].postponed = IF first THEN Tail(@) ELSE @]

\* Mutants: a waiting subrequest gives its place back too; the reference is kept; a
\* waiting subrequest is not finalized again.
FinalizeSubTwice(t, r) ==
    Post(IF r = t.data THEN Leave(t, r)
         ELSE [t EXCEPT !.q[r].weh = "finalizer", !.subrequests = @ + 1], t.q[r].parent)

FinalizeSubKeeps(t, r) ==
    Post(IF r = t.data THEN [Leave(t, r) EXCEPT !.count = t.count]
         ELSE [t EXCEPT !.q[r].weh = "finalizer"], t.q[r].parent)

FinalizeSubForgotten(t, r) ==
    Post(IF r = t.data THEN Leave(t, r) ELSE t, t.q[r].parent)

\* A subrequest with nothing left to send: the active one ends, another one waits for
\* its turn.  The parent is posted.
FinalizeSub(t, r) ==
    Post(IF r = t.data THEN Leave(t, r) ELSE [t EXCEPT !.q[r].weh = "finalizer"],
         t.q[r].parent)

\* Mutant: data the socket did not take is forgotten.
FinalizeOKEarly(t, r) ==
    IF t.q[r].postponed # <<>> THEN [t EXCEPT !.q[r].weh = "writer"]
    ELSE IF r # Main THEN FinalizeSub(t, r)
    ELSE FinalizeConnection([t EXCEPT !.q[r].done = TRUE, !.q[r].weh = "empty"])

FinalizeOK(t, r) ==
    IF t.q[r].postponed # <<>> \/ (r = Main /\ t.buffered)
    THEN [t EXCEPT !.q[r].weh = "writer"]
    ELSE IF r # Main THEN FinalizeSub(t, r)
    ELSE IF r # t.data THEN t
    ELSE FinalizeConnection([t EXCEPT !.q[r].done = TRUE, !.q[r].weh = "empty"])

\* ngx_http_finalize_request.  A status code sends an error page, if the header was not
\* sent, and the request is finalized again.
Finalize(t, r, rc, ch) ==
    LET posted == r # Main /\ t.q[r].post
        u == IF posted THEN SubPost(t, r, rc) ELSE t
    IN IF rc = "DONE" THEN FinalizeConnection(t)
       ELSE IF posted \/ rc = "OK" THEN FinalizeOK(u, r)
       ELSE IF rc = "ERROR" \/ t.q[r].header_sent THEN TerminateRequest(t)
       ELSE FinalizeOK(SendNext(t, r, ch), r)

-----------------------------------------------------------------------------
(* Subrequests.                                                            *)

CanCreate(t) == t.subrequests > 1

\* ngx_http_subrequest
Subrequest(t, r, post) ==
    LET n == t.made + 1
    IN Post([t EXCEPT !.subrequests = @ - 1, !.made = n, !.count = (@ + 1) % 256,
                      !.q[n] = Fresh(r, post),
                      !.data = IF t.data = r /\ t.q[r].postponed = <<>> THEN n ELSE @,
                      !.q[r].postponed = Append(@, [by |-> n, n |-> 0])], n)

\* NdgSubrequestHandler::handler.  Its refusal of a request that is not a GET is that of
\* a plain handler that finishes with an error code at once.
NdgHandler(t, r, ch) ==
    IF CanCreate(t)
    THEN Finalize([Subrequest(t, r, TRUE) EXCEPT !.q[r].hook = TRUE, !.q[r].status = 0,
                                                 !.q[r].body = <<>>], r, "DONE", ch)
    ELSE Finalize(t, r, "ERROR", ch)

\* NgxSubRequestHandler::parent_post and NdgSubrequestCallback::parent_post: what the
\* subrequest sent, and a text of its own.
ParentPost(t, r, ch) ==
    LET all == Append(t.q[r].body, NextBuffer(t, r))
        h == SendHeader(t, r)
        u == [h EXCEPT !.q[r].nout = @ + 1, !.q[r].doc = @ \o all]
    IN IF t.q[r].status # 200 THEN Finalize(t, r, "500", ch)
       ELSE Finalize(BodyFilter(u, r, all, ch), r, "OK", ch)

\* Mutant: the filters are not called.
WriterIdle(t, r, ch) == t

\* ngx_http_writer
Writer(t, r, ch) ==
    LET u == BodyFilter(t, r, <<>>, ch)
    IN IF u.q[r].postponed # <<>> \/ (r = Main /\ u.buffered) THEN u
       ELSE FinalizeOK([(IF u.q[r].post THEN SubPost(u, r, "OK") ELSE u)
                          EXCEPT !.q[r].weh = "empty"], r)

\* r->write_event_handler(r); the content handler gets the CPU.
WriteEventHandler(t, r, ch) ==
    CASE t.q[r].weh = "handler"     -> [t EXCEPT !.q[r].st = "handling", !.q[r].weh = "empty",
                                                 !.run = r]
      [] t.q[r].weh = "empty"       -> t
      [] t.q[r].weh = "downstream"  -> BodyFilter(t, r, <<>>, ch)
      [] t.q[r].weh = "writer"      -> Writer(t, r, ch)
      [] t.q[r].weh = "finalizer"   -> Finalize(t, r, "OK", ch)
      [] t.q[r].weh = "parent_post" -> ParentPost(t, r, ch)
      [] t.q[r].weh = "terminate"   -> CloseRequest([t EXCEPT !.count = 1])

-----------------------------------------------------------------------------
(* Actions.                                                                *)

Init ==
    /\ build \in Builds
    /\ s = [q |-> [r \in Req |-> IF r = Main THEN Fresh(None, FALSE)
                                 ELSE [Fresh(None, FALSE) EXCEPT !.st = "none"]],
            made |-> Main, data |-> Main, posted |-> <<Main>>, count |-> 1,
            subrequests |-> build.limit, sent |-> <<>>, buffered |-> FALSE,
            full |-> FALSE, nfull |-> 0, run |-> None, closed |-> FALSE,
            failed |-> FALSE, stalled |-> FALSE, alert |-> FALSE]

Idle == s.run = None /\ ~s.closed

\* One turn of ngx_http_run_posted_requests.
RunPosted ==
    /\ Idle /\ s.posted # <<>>
    /\ \E ch \in BOOLEAN :
         s' = WriteEventHandler([s EXCEPT !.posted = Tail(@)], Head(s.posted), ch)
    /\ UNCHANGED build

\* The handler of r is found to be one of the kinds.
Chosen(r, kind) ==
    /\ s.run = r /\ s.q[r].kind = ""
    /\ kind = "ndg" => s.made < NReq
    /\ \E ch \in BOOLEAN :
         LET t == [s EXCEPT !.q[r].kind = kind]
         IN s' = IF kind = "ndg"
                 THEN NdgHandler([t EXCEPT !.q[r].st = "over", !.run = None], r, ch) ELSE t
    /\ UNCHANGED build

Handling(r) == s.run = r /\ s.q[r].kind \in {"plain", "ssi"}

SendsBuffer(r) ==
    /\ Handling(r) /\ s.q[r].nout < MaxOut
    /\ \E ch \in BOOLEAN : s' = SendNext(s, r, ch)
    /\ UNCHANGED build

StartsSubrequest(r) ==
    /\ Handling(r) /\ s.q[r].kind = "ssi" /\ s.made < NReq /\ CanCreate(s)
    /\ s' = [Subrequest(s, r, FALSE) EXCEPT
               !.q[r].doc = Append(@, [by |-> s.made + 1, n |-> 0])]
    /\ UNCHANGED build

\* The handler waits for an event of its own, and flushes its output meanwhile, as
\* ngx_http_upstream_process_downstream does; the next one is the event.
Pauses(r) ==
    /\ Handling(r) /\ ~s.q[r].paused
    /\ s' = [s EXCEPT !.run = None, !.q[r].paused = TRUE, !.q[r].weh = "downstream"]
    /\ UNCHANGED build

Resumes(r) ==
    /\ Idle /\ s.posted = <<>>
    /\ s.q[r].st = "handling"
    /\ s' = [s EXCEPT !.run = r]
    /\ UNCHANGED build

\* The handler returns; a response that succeeds ends with the last buffer.
Finishes(r, rc) ==
    /\ Handling(r)
    /\ \E ch \in BOOLEAN :
         LET t == [s EXCEPT !.run = None, !.q[r].st = "over"]
         IN s' = Finalize(IF rc = "OK" THEN SendNext(t, r, ch) ELSE t, r, rc, ch)
    /\ UNCHANGED build

\* A subrequest in memory, or whose response has only a header.
FinishesEmpty(r) ==
    /\ Handling(r) /\ r # Main /\ s.q[r].doc = <<>>
    /\ \E ch \in BOOLEAN :
         s' = Finalize(SendHeader([s EXCEPT !.run = None, !.q[r].st = "over"], r), r, "OK", ch)
    /\ UNCHANGED build

\* The client reads; ngx_http_request_handler.
SocketWritable ==
    /\ Idle /\ s.posted = <<>> /\ s.full
    /\ \E ch \in BOOLEAN : s' = WriteEventHandler([s EXCEPT !.full = FALSE], s.data, ch)
    /\ UNCHANGED build

\* send_timeout: ngx_http_writer finalizes with 408.
SendTimesOut ==
    /\ Idle /\ s.posted = <<>> /\ s.q[s.data].weh = "writer"
    /\ s' = TerminateRequest([s EXCEPT !.stalled = ~s.full])
    /\ UNCHANGED build

Next ==
    \/ RunPosted \/ SocketWritable \/ SendTimesOut
    \/ \E r \in Req :
         \/ \E kind \in build.kinds : Chosen(r, kind)
         \/ SendsBuffer(r) \/ StartsSubrequest(r) \/ Pauses(r) \/ Resumes(r) \/ FinishesEmpty(r)
         \/ \E rc \in {"OK", "ERROR", "500"} : Finishes(r, rc)

Spec == Init /\ [][Next]_vars

\* The event loop runs what is ready, clients read or time out, and every handler ends.
FairSpec == Spec /\ WF_vars(Next)

-----------------------------------------------------------------------------
(* Properties.                                                             *)

\* The response as the handlers sent it, subrequests in place.
Document ==
    LET text[r \in Req] ==
          FoldLeft(LAMBDA acc, i : IF i.n = 0 THEN acc \o text[i.by] ELSE Append(acc, i),
                   <<>>, s.q[r].doc)
    IN text[Main]

\* What the client gets is in the order of the document, whichever subrequest is ready
\* first and whenever the socket blocks.
OutputInOrder == IsPrefix(s.sent, Document)

Open == {r \in Req : r # Main /\ s.q[r].st # "none" /\ ~s.q[r].done}

NdgReturns == {r \in Req : s.q[r].hook}

\* The reference count is one for the main request and one for every subrequest that is
\* not done, less one for every handler of the subrequest module that returned NGX_DONE;
\* the subrequests that may still be started and those that run make up the limit.
CountsRequests ==
    ~s.closed /\ s.q[Main].weh # "terminate" =>
      /\ (s.q[Main].done \/ (s.count + Cardinality(NdgReturns)) % 256 = 1 + Cardinality(Open))
      /\ s.subrequests + Cardinality(Open) = build.limit

\* The tree of requests and the two counters that decide its life agree.
TreeConsistent == TypeOK /\ CountsRequests

\* A connection that is closed without an error has had all of the response, and no
\* subrequest is left.
Complete ==
    s.closed /\ ~s.failed => s.sent = Document /\ ~s.buffered /\ Open = {}

\* The client gets the document, in order and without holes, and on a connection that
\* is closed without an error all of it.
OutputExact == OutputInOrder /\ Complete

\* A response is cut only by an error or by a client that does not read: a rest that
\* the socket did not take is sent when it is writable again
\* (ngx_http_request.c:3135-3139).
NeverStalled == ~s.stalled

\* Without the data hook filter, as well.
StallsOnlyWithHook == build.hook \/ NeverStalled

\* The reference count is at least one when an operation ends
\* (ngx_http_request.c:4094-4097).
CountNeverZero == ~s.alert

\* Without the modules of this repository every request comes to its end.
RequestEnds == ~build.hook ~> s.closed
=============================================================================
