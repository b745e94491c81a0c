--------------------------- MODULE RequestsProofs ---------------------------
(***************************************************************************)
(* The tree of requests of a connection, its reference count and its       *)
(* progress, for any number of requests, of buffers and of full sockets.   *)
(***************************************************************************)
EXTENDS Requests, Integers, TLAPS, SequenceTheorems, FiniteSetTheorems,
        WellFoundedInduction

\* A set of natural numbers with an element has a least one.
LEMMA LeastNat ==
    ASSUME NEW T \in SUBSET Nat, T # {}
    PROVE  \E n \in T : \A k \in T : n <= k
<1> DEFINE R == {ss \in Nat \X Nat : ss[1] < ss[2]}
<1>1. IsWellFoundedOn(R, Nat)
  BY NatLessThanWellFounded DEF OpToRel
<1>2. PICK x \in T : \A y \in T : ~(<<y, x>> \in R)
  BY <1>1, WFMin, Zenon
<1>3. ASSUME NEW y \in T PROVE x <= y
  <2>1. x \in Nat /\ y \in Nat
    OBVIOUS
  <2>2. ~(<<y, x>> \in R)
    BY <1>2
  <2>3. ~(y < x)
    BY <2>1, <2>2
  <2> QED  BY <2>1, <2>3
<1> QED  BY <1>3

\* A count of eight bits.
LEMMA Byte ==
    ASSUME NEW c \in 0 .. 255
    PROVE  (c + 255) % 256 \in 0 .. 255 /\ (c + 1) % 256 \in 0 .. 255
OBVIOUS

\* The test of the reference count c, with n returns of the subrequest module and o open
\* subrequests: one subrequest less; one return more; one subrequest more.
LEMMA CountMinus ==
    ASSUME NEW c \in 0 .. 255, NEW n \in Nat, NEW o \in Nat,
           (c + n) % 256 = 1 + o, 1 + o < 256
    PROVE  /\ o # 0 => (((c + 255) % 256) + n) % 256 = 1 + (o - 1)
           /\ (((c + 255) % 256) + (n + 1)) % 256 = 1 + o
           /\ 1 + (o + 1) < 256 => (((c + 1) % 256) + n) % 256 = 1 + (o + 1)
OBVIOUS

-----------------------------------------------------------------------------
(* The inductive invariant.                                                *)

\* A subrequest in a list of postponed output.
Sub(c) == [by |-> c, n |-> 0]

\* c waits for its turn among the output of r.
Listed(t, r, c) == \E i \in DOMAIN t.q[r].postponed : t.q[r].postponed[i] = Sub(c)

\* P holds the requests from the main one to the active one, each the child of the
\* one before.
Path(t, P) ==
    /\ P \subseteq 1 .. t.made
    /\ Main \in P /\ t.data \in P
    /\ \A r \in P : r <= t.data
    /\ \A c \in P \ {Main} : /\ t.q[c].parent \in P /\ ~t.q[c].done
                             /\ \A r \in P : r <= t.q[c].parent \/ c <= r

\* A subrequest that is not done is on the path or waits in the list of its parent,
\* which is not done either.
Reached(t, P, c) ==
    ~t.q[c].done => /\ c \in P \/ Listed(t, t.q[c].parent, c)
                    /\ t.q[c].parent = Main \/ ~t.q[t.q[c].parent].done

\* What is listed i-th at r is output, or a child of r that is not done, listed once,
\* and first if it is active.
Waiting(t, P, r, i) ==
    t.q[r].postponed[i].n = 0 =>
      /\ t.q[r].postponed[i].by \in 2 .. t.made
      /\ t.q[t.q[r].postponed[i].by].parent = r /\ ~t.q[t.q[r].postponed[i].by].done
      /\ \A j \in DOMAIN t.q[r].postponed :
            t.q[r].postponed[j].n = 0 /\ t.q[r].postponed[j].by = t.q[r].postponed[i].by
              => i = j
      /\ t.q[r].postponed[i].by \in P => i = 1

Tree(t) ==
    \E P \in SUBSET Req :
      /\ Path(t, P)
      /\ \A c \in 2 .. t.made : Reached(t, P, c)
      /\ \A r \in Req : \A i \in DOMAIN t.q[r].postponed : Waiting(t, P, r, i)

\* What holds of each request by itself: its stage agrees with its write event handler.
Row(t, r) ==
    /\ t.q[r].st # "none" <=> r <= t.made
    /\ r = Main => t.q[r].parent = None
    /\ r \in 2 .. t.made => t.q[r].parent \in 1 .. r - 1
    /\ r > t.made => t.q[r].postponed = <<>> /\ ~t.q[r].done /\ t.q[r].kind = ""
    /\ t.q[r].post => r # Main /\ r <= t.made /\ t.q[t.q[r].parent].st = "over"
    /\ t.q[r].hook => t.q[r].kind = "ndg"
    /\ t.q[r].done => t.q[r].st = "over"
    /\ t.q[r].weh = "handler" => t.q[r].st \in {"none", "made"}
    /\ t.q[r].weh \in {"writer", "finalizer", "parent_post"} => t.q[r].st = "over"
    /\ t.q[r].weh # "terminate"
    /\ t.run = r => t.q[r].st = "handling"

Rows(t) == \A r \in Req : Row(t, r)

\* What the data hook keeps of a request is output of a subrequest.
Side(t) ==
    \A r \in Req : /\ t.q[r].do_hook => r # Main /\ r <= t.made
                   /\ \A i \in DOMAIN t.q[r].body : t.q[r].body[i].n # 0

Reach(t) == t.run <= t.made /\ \A i \in DOMAIN t.posted : t.posted[i] <= t.made

OpenOf(t) == {r \in Req : r # Main /\ t.q[r].st # "none" /\ ~t.q[r].done}

HookedOf(t) == {r \in Req : t.q[r].hook}

Counts(t) ==
    /\ (t.q[Main].done \/ (t.count + Cardinality(HookedOf(t))) % 256 = 1 + Cardinality(OpenOf(t)))
    /\ t.subrequests + Cardinality(OpenOf(t)) = build.limit
    /\ t.subrequests >= 1 /\ build.limit \in 1 .. 255

\* The connection is in use, or it is closed or about to be.
Good(t) == ~t.closed /\ Rows(t) /\ Side(t) /\ Reach(t) /\ Tree(t) /\ Counts(t)

Dead(t) == t.run = None /\ (t.closed \/ (t.q[Main].weh = "terminate" /\ t.posted = <<Main>>))

Sound(t) == t \in Connection /\ (Good(t) \/ Dead(t))

-----------------------------------------------------------------------------
(* The records.                                                            *)

Stages == {"none", "made", "handling", "over"}
Wehs == {"handler", "empty", "downstream", "writer", "finalizer", "parent_post", "terminate"}
Codes == {0, 200, 500}
Kinds == Kind \cup {""}
Parents == 0 .. NReq
Items == Seq(Item)

\* The fields of a request, their sets by name.
LEMMA RequestIs ==
    Request = [st : Stages, parent : Parents, kind : Kinds, weh : Wehs, postponed : Items,
               header_sent : BOOLEAN, done : BOOLEAN, post : BOOLEAN, hook : BOOLEAN,
               do_hook : BOOLEAN, status : Codes, body : Items, nout : Nat,
               paused : BOOLEAN, doc : Items]
BY DEF Request, Stages, Wehs, Codes, Kinds, Parents, Items

LEMMA NamesIn ==
    /\ "made" \in Stages /\ "handling" \in Stages /\ "over" \in Stages
    /\ "handler" \in Wehs /\ "empty" \in Wehs /\ "downstream" \in Wehs /\ "writer" \in Wehs
    /\ "finalizer" \in Wehs /\ "parent_post" \in Wehs /\ "terminate" \in Wehs
    /\ 0 \in Codes /\ 200 \in Codes /\ 500 \in Codes /\ Kind \subseteq Kinds /\ "" \in Kinds
BY ZenonT(30) DEF Stages, Wehs, Codes, Kinds

LEMMA MainIn == Main \in Req /\ Req \subseteq Nat
BY RequestsAssumption DEF Req, Main

LEMMA HeadMain == Head(<<Main>>) = Main
OBVIOUS

LEMMA ParentsIn == 0 \in Parents /\ Req \subseteq Parents
BY RequestsAssumption DEF Parents, Req

LEMMA EmptyIn == <<>> \in Items
BY DEF Items

LEMMA Parts ==
    ASSUME NEW t \in Connection
    PROVE  /\ t.q \in [Req -> Request] /\ t.made \in Req
           /\ t.data \in Req /\ t.posted \in Seq(Req)
           /\ t.count \in 0 .. 255 /\ t.subrequests \in 0 .. build.limit
           /\ t.sent \in Items /\ t.buffered \in BOOLEAN /\ t.full \in BOOLEAN
           /\ t.nfull \in 0 .. MaxFull /\ t.run \in 0 .. NReq /\ t.closed \in BOOLEAN
           /\ t.failed \in BOOLEAN /\ t.stalled \in BOOLEAN /\ t.alert \in BOOLEAN
BY DEF Connection, Items

LEMMA RowParts ==
    ASSUME NEW a \in Request
    PROVE  /\ a.st \in Stages /\ a.parent \in Parents /\ a.kind \in Kinds /\ a.weh \in Wehs
           /\ a.postponed \in Seq(Item) /\ a.body \in Seq(Item) /\ a.doc \in Seq(Item)
           /\ a.done \in BOOLEAN /\ a.post \in BOOLEAN /\ a.hook \in BOOLEAN
           /\ a.do_hook \in BOOLEAN /\ a.header_sent \in BOOLEAN
           /\ a.status \in Codes /\ a.nout \in Nat /\ a.paused \in BOOLEAN
BY RequestIs DEF Items

\* A connection with another row for request r.
Put(t, r, row) == [t EXCEPT !.q = [t.q EXCEPT ![r] = row]]

\* The fields that no write to a row changes.
SameRest(t, u) ==
    /\ u.made = t.made /\ u.data = t.data /\ u.posted = t.posted /\ u.count = t.count
    /\ u.subrequests = t.subrequests /\ u.run = t.run /\ u.closed = t.closed
    /\ u.failed = t.failed /\ u.stalled = t.stalled

LEMMA PutFacts ==
    ASSUME NEW t \in Connection, NEW r \in Req, NEW row \in Request
    PROVE  /\ Put(t, r, row) \in Connection
           /\ Put(t, r, row).q[r] = row
           /\ \A x \in Req \ {r} : Put(t, r, row).q[x] = t.q[x]
           /\ SameRest(t, Put(t, r, row))
           /\ Put(t, r, row).buffered = t.buffered /\ Put(t, r, row).full = t.full
BY ZenonT(30) DEF Connection, Put, SameRest

\* What the tree and the counters read of a request.
SameRow(a, b) ==
    /\ b.st = a.st /\ b.parent = a.parent /\ b.kind = a.kind /\ b.weh = a.weh
    /\ b.done = a.done /\ b.post = a.post /\ b.hook = a.hook

SameHook(a, b) == b.do_hook = a.do_hook /\ b.body = a.body

\* A step that leaves the tree alone, and one that may only move output.
Quiet(t, u) ==
    /\ u \in Connection /\ SameRest(t, u)
    /\ \A x \in Req : SameRow(t.q[x], u.q[x]) /\ u.q[x].postponed = t.q[x].postponed

Loose(t, u) ==
    /\ u \in Connection
    /\ u.made = t.made /\ u.count = t.count /\ u.subrequests = t.subrequests
    /\ u.run = t.run /\ u.closed = t.closed /\ u.failed = t.failed /\ u.stalled = t.stalled
    /\ \A x \in Req : SameRow(t.q[x], u.q[x])

LEMMA LooseFacts ==
    /\ \A t, u : Quiet(t, u) => Loose(t, u)
    /\ \A t, u, v : Loose(t, u) /\ Loose(u, v) => Loose(t, v)
    /\ \A t, u, v : Quiet(t, u) /\ Quiet(u, v) => Quiet(t, v)
    /\ \A t : t \in Connection => Quiet(t, t)
BY DEF Quiet, Loose, SameRow, SameRest

LEMMA PutQuiet ==
    ASSUME NEW t \in Connection, NEW r \in Req, NEW row \in Request,
           SameRow(t.q[r], row), row.postponed = t.q[r].postponed
    PROVE  Quiet(t, Put(t, r, row))
BY PutFacts DEF Quiet, SameRow

\* The writes to a row that leave the tree alone.
LEMMA RowDoc ==
    ASSUME NEW a \in Request, NEW d \in Items
    PROVE  /\ [a EXCEPT !.doc = d] \in Request /\ SameRow(a, [a EXCEPT !.doc = d])
           /\ [a EXCEPT !.doc = d].postponed = a.postponed
           /\ SameHook(a, [a EXCEPT !.doc = d])
BY RequestIs DEF SameRow, SameHook

LEMMA RowNout ==
    ASSUME NEW a \in Request, NEW n \in Nat
    PROVE  /\ [a EXCEPT !.nout = n] \in Request /\ SameRow(a, [a EXCEPT !.nout = n])
           /\ [a EXCEPT !.nout = n].postponed = a.postponed
           /\ SameHook(a, [a EXCEPT !.nout = n])
BY RequestIs DEF SameRow, SameHook

\* The write filter.
LEMMA EmitFacts ==
    ASSUME NEW t \in Connection, NEW items \in Seq(Item), NEW ch \in BOOLEAN
    PROVE  /\ Quiet(t, Emit(t, items, ch)) /\ Emit(t, items, ch).q = t.q
           /\ (t.full => t.buffered)
                => (Emit(t, items, ch).buffered <=> Emit(t, items, ch).full)
<1> DEFINE fills == t.full \/ (ch /\ t.nfull < MaxFull)
           n == IF fills /\ ~t.full THEN t.nfull + 1 ELSE t.nfull
           so == t.sent \o items
           u == [t EXCEPT !.sent = so, !.buffered = fills, !.full = fills, !.nfull = n]
<1>1. Emit(t, items, ch) = IF items = <<>> /\ ~t.buffered THEN t ELSE u
  BY DEF Emit
<1>2. fills \in BOOLEAN /\ n \in 0 .. MaxFull /\ so \in Seq(Item)
  BY Parts, ConcatProperties, RequestsAssumption DEF Items
<1> HIDE DEF fills, n, so
<1>3. u \in Connection /\ u.q = t.q /\ SameRest(t, u) /\ (u.buffered <=> u.full)
  BY <1>2, ZenonT(30) DEF Connection, SameRest
<1> HIDE DEF u
<1>4. Quiet(t, u)
  BY <1>3 DEF Quiet, SameRow
<1> QED  BY <1>1, <1>3, <1>4, LooseFacts
-----------------------------------------------------------------------------
(* Output.                                                                 *)

\* The buffers before the first subrequest, and the rest.
LEMMA LeadingFacts ==
    ASSUME NEW list \in Seq(Item)
    PROVE  /\ Leading(list) \in Seq(Item)
           /\ (\A i \in DOMAIN list : list[i].n # 0) => Leading(list) = list
           /\ (\E i \in DOMAIN list : list[i].n = 0) =>
                \E i \in 1 .. Len(list) :
                  /\ list[i].n = 0 /\ \A j \in 1 .. i - 1 : list[j].n # 0
                  /\ Len(Leading(list)) = i - 1
<1> DEFINE subs == {i \in DOMAIN list : list[i].n = 0}
<1>1. /\ Len(list) \in Nat /\ DOMAIN list = 1 .. Len(list) /\ subs \in SUBSET Nat
  BY LenProperties
<1>2. CASE subs = {}
  <2>1. Leading(list) = list /\ ~\E i \in DOMAIN list : list[i].n = 0
    BY <1>2 DEF Leading
  <2> QED  BY <2>1
<1>3. CASE subs # {}
  <2>1. \E i \in subs : \A j \in subs : i <= j
    BY <1>1, <1>3, LeastNat
  <2> DEFINE k == CHOOSE i \in subs : \A j \in subs : i <= j
  <2>2. k \in subs /\ \A j \in subs : k <= j
    BY <2>1, Zenon
  <2>3. Leading(list) = SubSeq(list, 1, k - 1)
    BY <1>3 DEF Leading
  <2> HIDE DEF k
  <2>4. k \in 1 .. Len(list) /\ list[k].n = 0 /\ \A j \in 1 .. k - 1 : list[j].n # 0
    BY <1>1, <2>2
  <2>5. SubSeq(list, 1, k - 1) \in Seq(Item) /\ Len(SubSeq(list, 1, k - 1)) = k - 1
    BY <1>1, <2>4, SubSeqProperties
  <2>6. ~\A i \in DOMAIN list : list[i].n # 0
    BY <1>1, <2>4
  <2> QED  BY <2>3, <2>4, <2>5, <2>6
<1> QED  BY <1>2, <1>3

\* The list after its first i elements.
LEMMA AfterFacts ==
    ASSUME NEW list \in Seq(Item), NEW i \in 1 .. Len(list)
    PROVE  /\ SubSeq(list, i, Len(list)) # <<>>
           /\ Head(SubSeq(list, i, Len(list))) = list[i]
           /\ Tail(SubSeq(list, i, Len(list))) \in Seq(Item)
           /\ DOMAIN Tail(SubSeq(list, i, Len(list))) = 1 .. Len(list) - i
           /\ \A k \in 1 .. Len(list) - i : Tail(SubSeq(list, i, Len(list)))[k] = list[i + k]
<1> DEFINE rest == SubSeq(list, i, Len(list))
           m == Len(list)
<1>1. m \in Nat /\ DOMAIN list = 1 .. m
  BY LenProperties
<1>2. rest \in Seq(Item) /\ Len(rest) = m - i + 1 /\ \A k \in 1 .. m - i + 1 : rest[k] = list[i + k - 1]
  BY <1>1, SubSeqProperties
<1> HIDE DEF rest, m
<1>3. i \in 1 .. m
  BY DEF m
<1>4. rest # <<>> 
  BY <1>1, <1>2, <1>3, EmptySeq
<1>5. /\ Head(rest) = rest[1] /\ Tail(rest) \in Seq(Item) /\ Len(Tail(rest)) = m - i
      /\ \A k \in 1 .. m - i : Tail(rest)[k] = rest[k + 1]
  BY <1>1, <1>2, <1>3, <1>4, HeadTailProperties
<1>6. DOMAIN Tail(rest) = 1 .. m - i
  BY <1>5, LenProperties
<1>7. rest[1] = list[i]
  BY <1>1, <1>2, <1>3
<1>8. \A k \in 1 .. m - i : Tail(rest)[k] = list[i + k]
  <2> TAKE k \in 1 .. m - i
  <2>1. k + 1 \in 1 .. m - i + 1 /\ i + (k + 1) - 1 = i + k
    BY <1>1, <1>3
  <2> QED  BY <1>2, <1>5, <2>1
<1> QED  BY <1>4, <1>5, <1>6, <1>7, <1>8 DEF rest, m

LEMMA ItemFacts == \A i \in Item : i.by \in Req /\ i.n \in Nat
BY DEF Item

\* What the postpone filter makes of list, the postponed output of r and the new one: r
\* is not active and keeps it; there is no subrequest in it and it is sent; or the first
\* subrequest in it becomes active and is posted.
Moved(t, u, r, list) ==
    \/ /\ r # t.data /\ u.data = t.data /\ u.posted = t.posted
       /\ u.q[r].postponed = list
    \/ /\ r = t.data /\ u.data = t.data /\ u.posted = t.posted
       /\ u.q[r].postponed = <<>>
       /\ t.q[r].postponed = <<>> \/ \A i \in DOMAIN list : list[i].n # 0
    \/ /\ r = t.data /\ t.q[r].postponed # <<>>
       /\ \E i \in 1 .. Len(list) :
            /\ list[i].n = 0 /\ \A j \in 1 .. i - 1 : list[j].n # 0
            /\ DOMAIN u.q[r].postponed = 1 .. Len(list) - i
            /\ \A k \in 1 .. Len(list) - i : u.q[r].postponed[k] = list[i + k]
            /\ u.data = list[i].by /\ u.posted = Append(t.posted, list[i].by)

LEMMA RowPostponed ==
    ASSUME NEW a \in Request, NEW p \in Items
    PROVE  /\ [a EXCEPT !.postponed = p] \in Request
           /\ SameRow(a, [a EXCEPT !.postponed = p])
           /\ [a EXCEPT !.postponed = p].postponed = p
           /\ SameHook(a, [a EXCEPT !.postponed = p])
BY RequestIs DEF SameRow, SameHook

\* A request of the connection gets another list.
SameSocket(t, u) == u.buffered = t.buffered /\ u.full = t.full

WithList(t, r, p) == [t EXCEPT !.q[r].postponed = p]

LEMMA PutPostponed ==
    ASSUME NEW t \in Connection, NEW r \in Req, NEW p \in Items
    PROVE  /\ Loose(t, WithList(t, r, p)) /\ SameRest(t, WithList(t, r, p))
           /\ \A x \in Req \ {r} : WithList(t, r, p).q[x] = t.q[x]
           /\ WithList(t, r, p).q[r].postponed = p
           /\ SameHook(t.q[r], WithList(t, r, p).q[r])
           /\ SameSocket(t, WithList(t, r, p))
<1> DEFINE row == [t.q[r] EXCEPT !.postponed = p]
<1>1. t.q[r] \in Request
  BY Parts
<1>2. /\ row \in Request /\ SameRow(t.q[r], row) /\ row.postponed = p
      /\ SameHook(t.q[r], row)
  BY <1>1, RowPostponed
<1>3. WithList(t, r, p) = Put(t, r, row)
  BY DEF Put, WithList
<1> HIDE DEF row
<1>4. Loose(t, Put(t, r, row))
  BY <1>2, PutFacts DEF Loose, SameRest, SameRow
<1> QED  BY <1>2, <1>3, <1>4, PutFacts DEF SameSocket

\* What a filter leaves alone.
Kept(t, u, r) ==
    /\ Loose(t, u)
    /\ \A x \in Req \ {r} : u.q[x] = t.q[x]
    /\ SameHook(t.q[r], u.q[r])
    /\ r # t.data => SameSocket(t, u)
    /\ r = t.data /\ (t.full => t.buffered) => (u.buffered <=> u.full)

\* The active request changes, and the requests that are posted.
Hand(v, c, posts) == [v EXCEPT !.data = c, !.posted = posts]

HandSays(v, w, c, posts) ==
    /\ w \in Connection /\ w.q = v.q /\ w.data = c /\ w.posted = posts
    /\ w.buffered = v.buffered /\ w.full = v.full
    /\ w.made = v.made /\ w.count = v.count /\ w.subrequests = v.subrequests
    /\ w.run = v.run /\ w.closed = v.closed /\ w.failed = v.failed
    /\ w.stalled = v.stalled

LEMMA HandFacts ==
    ASSUME NEW v \in Connection, NEW c \in Req, NEW posts \in Seq(Req)
    PROVE  HandSays(v, Hand(v, c, posts), c, posts)
BY ZenonT(40) DEF Connection, Hand, HandSays

LEMMA PostponeFacts ==
    ASSUME NEW t \in Connection, NEW r \in Req, NEW in \in Seq(Item), NEW ch \in BOOLEAN
    PROVE  /\ t.q[r].postponed \o in \in Seq(Item)
           /\ Kept(t, PostponeFilter(t, r, in, ch), r)
           /\ Moved(t, PostponeFilter(t, r, in, ch), r, t.q[r].postponed \o in)
<1> DEFINE list == t.q[r].postponed \o in
           lead == Leading(list)
           rest == SubSeq(list, Len(lead) + 1, Len(list))
           out == Emit(t, lead, ch)
           res == PostponeFilter(t, r, in, ch)
<1>1. t.q[r].postponed \in Seq(Item) /\ list \in Seq(Item) /\ t.q[r].postponed \in Items
  BY Parts, RowParts, ConcatProperties DEF Items
<1>2. res = IF r # t.data THEN [t EXCEPT !.q[r].postponed = list]
            ELSE IF t.q[r].postponed = <<>> THEN Emit(t, in, ch)
            ELSE IF rest = <<>> THEN [out EXCEPT !.q[r].postponed = <<>>]
            ELSE Post([out EXCEPT !.q[r].postponed = Tail(rest), !.data = Head(rest).by],
                      Head(rest).by)
  BY DEF PostponeFilter
<1> SUFFICES list \in Seq(Item) /\ Kept(t, res, r) /\ Moved(t, res, r, list)
  OBVIOUS
<1> HIDE DEF res
<1>3. lead \in Seq(Item) /\ Len(list) \in Nat /\ Len(lead) \in Nat /\ DOMAIN list = 1 .. Len(list)
  BY <1>1, LeadingFacts, LenProperties
<1>4. /\ out \in Connection /\ out.q = t.q /\ Loose(t, out) /\ SameRest(t, out)
      /\ (t.full => t.buffered) => (out.buffered <=> out.full)
  BY <1>3, EmitFacts, LooseFacts DEF Quiet
<1>5. CASE r # t.data
  <2>1. res = WithList(t, r, list) /\ list \in Items
    BY <1>1, <1>2, <1>5 DEF Items, WithList
  <2> HIDE DEF list
  <2>2. /\ Loose(t, res) /\ SameRest(t, res) /\ \A x \in Req \ {r} : res.q[x] = t.q[x]
        /\ res.q[r].postponed = list
        /\ SameHook(t.q[r], res.q[r])
        /\ res.buffered = t.buffered /\ res.full = t.full
    BY <2>1, PutPostponed DEF SameSocket
  <2> QED  BY <1>1, <1>5, <2>2 DEF Kept, Moved, SameRest, SameSocket
<1>6. CASE r = t.data /\ t.q[r].postponed = <<>>
  <2>1. res = Emit(t, in, ch)
    BY <1>2, <1>6
  <2>2. /\ Loose(t, res) /\ SameRest(t, res) /\ res.q = t.q
        /\ (t.full => t.buffered) => (res.buffered <=> res.full)
    BY <2>1, EmitFacts, LooseFacts DEF Quiet
  <2> QED  BY <1>1, <1>6, <2>2 DEF Kept, Moved, SameRest, SameHook
<1>7. CASE r = t.data /\ t.q[r].postponed # <<>> /\ \A i \in DOMAIN list : list[i].n # 0
  <2>1. rest = <<>>
    <3>1. lead = list
      BY <1>1, <1>7, LeadingFacts, ZenonT(30)
    <3> QED  BY <1>1, <1>3, <3>1, SubSeqProperties, SubSeqEmpty
  <2>2. res = WithList(out, r, <<>>) /\ <<>> \in Items
    BY <1>2, <1>7, <2>1, EmptyIn, ZenonT(30) DEF WithList
  <2> HIDE DEF out
  <2>3. /\ Loose(out, res) /\ SameRest(out, res) /\ \A x \in Req \ {r} : res.q[x] = out.q[x]
        /\ res.q[r].postponed = <<>>
        /\ SameHook(t.q[r], res.q[r])
        /\ res.buffered = out.buffered /\ res.full = out.full
    BY <1>4, <2>2, PutPostponed DEF SameSocket
  <2>4. Loose(t, res)
    BY <1>4, <2>3, LooseFacts
  <2> QED  BY <1>1, <1>4, <1>7, <2>3, <2>4, ZenonT(30) DEF Kept, Moved, SameRest
<1>8. CASE r = t.data /\ t.q[r].postponed # <<>> /\ \E i \in DOMAIN list : list[i].n = 0
  <2>1. PICK i \in 1 .. Len(list) : /\ list[i].n = 0 /\ \A j \in 1 .. i - 1 : list[j].n # 0
                                    /\ Len(lead) = i - 1
    BY <1>1, <1>8, LeadingFacts
  <2>2. rest = SubSeq(list, i, Len(list))
    <3>1. Len(lead) + 1 = i
      BY <1>3, <2>1
    <3> QED  BY <3>1
  <2>3. /\ rest # <<>> /\ Head(rest) = list[i] /\ Tail(rest) \in Items
        /\ DOMAIN Tail(rest) = 1 .. Len(list) - i
        /\ \A k \in 1 .. Len(list) - i : Tail(rest)[k] = list[i + k]
    <3> HIDE DEF rest, list
    <3> QED  BY <1>1, <2>2, AfterFacts DEF Items
  <2>4. list[i] \in Item /\ list[i].by \in Req
    BY <1>1, <1>3, ElementOfSeq, ItemFacts, ZenonT(30)
  <2> DEFINE v == WithList(out, r, Tail(rest))
             c == list[i].by
             posts == Append(v.posted, c)
             w == Hand(v, c, posts)
  <2>5. res = w
    <3>1. res = Post([out EXCEPT !.q[r].postponed = Tail(rest), !.data = c], c)
      BY <1>2, <1>8, <2>3, ZenonT(30)
    <3> HIDE DEF rest, c, out
    <3> QED  BY <1>4, <3>1, ZenonT(30) DEF Post, Connection, WithList, Hand
  <2> HIDE DEF rest, out, list
  <2>6. /\ Loose(out, v) /\ SameRest(out, v) /\ \A x \in Req \ {r} : v.q[x] = out.q[x]
        /\ v.q[r].postponed = Tail(rest)
        /\ SameHook(t.q[r], v.q[r])
        /\ v.buffered = out.buffered /\ v.full = out.full
    <3>1. out \in Connection /\ out.q = t.q /\ Tail(rest) \in Items
      BY <1>4, <2>3
    <3> DEFINE l == Tail(rest)
    <3>2. v = WithList(out, r, l) /\ l \in Items
      BY <3>1
    <3> HIDE DEF l, v
    <3>3. /\ Loose(out, v) /\ SameRest(out, v) /\ v.q[r].postponed = l
          /\ \A x \in Req \ {r} : v.q[x] = out.q[x]
      BY <3>1, <3>2, PutPostponed
    <3>4. SameSocket(out, v) /\ SameHook(out.q[r], v.q[r])
      BY <3>1, <3>2, PutPostponed
    <3> QED  BY <3>1, <3>3, <3>4 DEF l, SameSocket
  <2>7. Loose(t, v)
    BY <1>4, <2>6, LooseFacts
  <2>8. /\ posts \in Seq(Req) /\ c \in Req /\ posts = Append(t.posted, c)
        /\ v \in Connection
    <3>1. v.posted = t.posted /\ v \in Connection /\ c \in Req
      BY <1>4, <2>4, <2>6 DEF Loose, SameRest
    <3> HIDE DEF v, c
    <3> QED  BY <3>1, Parts, AppendProperties
  <2> HIDE DEF v, c, posts
  <2>9. /\ w \in Connection /\ w.q = v.q /\ w.data = c /\ w.posted = Append(t.posted, c)
        /\ w.buffered = v.buffered /\ w.full = v.full
        /\ w.made = v.made /\ w.count = v.count /\ w.subrequests = v.subrequests
        /\ w.run = v.run /\ w.closed = v.closed /\ w.failed = v.failed /\ w.stalled = v.stalled
    <3>1. HandSays(v, w, c, posts)
      BY <2>8, HandFacts
    <3> HIDE DEF w
    <3> QED  BY <2>8, <3>1 DEF HandSays
  <2> HIDE DEF w
  <2>10. Loose(t, w)
    BY <2>7, <2>9 DEF Loose
  <2>11. Kept(t, res, r)
    <3>1. \A x \in Req \ {r} : w.q[x] = t.q[x]
      BY <1>4, <2>6, <2>9
    <3>2. SameHook(t.q[r], w.q[r])
      BY <2>6, <2>9
    <3>3. (t.full => t.buffered) => (w.buffered <=> w.full)
      BY <1>4, <2>6, <2>9
    <3> QED  BY <1>8, <2>5, <2>10, <3>1, <3>2, <3>3 DEF Kept
  <2>12. Moved(t, res, r, list)
    <3>1. /\ res.q[r].postponed = Tail(rest) /\ res.data = list[i].by
          /\ res.posted = Append(t.posted, list[i].by)
      BY <2>5, <2>6, <2>9 DEF c
    <3> QED  BY <1>8, <2>1, <2>3, <3>1 DEF Moved
  <2> QED  BY <1>1, <2>11, <2>12
<1> QED  BY <1>5, <1>6, <1>7, <1>8

-----------------------------------------------------------------------------
(* The tree.                                                               *)

\* The tree with P as its path.
TreeAt(t, P) ==
    /\ Path(t, P)
    /\ \A c \in 2 .. t.made : Reached(t, P, c)
    /\ \A r \in Req : \A i \in DOMAIN t.q[r].postponed : Waiting(t, P, r, i)

LEMMA TreeIs == \A t : Tree(t) <=> \E P \in SUBSET Req : TreeAt(t, P)
BY DEF Tree, TreeAt

\* What the tree reads of a connection.
SameTree(t, u) ==
    /\ u.made = t.made /\ u.data = t.data
    /\ \A x \in Req : /\ u.q[x].parent = t.q[x].parent /\ u.q[x].done = t.q[x].done
                      /\ u.q[x].postponed = t.q[x].postponed

LEMMA MadeFacts ==
    ASSUME NEW t \in Connection
    PROVE  /\ t.made \in Nat \ {0} /\ 1 .. t.made \subseteq Req /\ 2 .. t.made \subseteq Req
           /\ \A c \in 2 .. t.made : 1 .. c - 1 \subseteq Req
           /\ \A x \in Req : /\ x \in Nat \ {0}
                             /\ x <= t.made => x \in 1 .. t.made
                             /\ x <= t.made /\ x # Main => x \in 2 .. t.made
                             /\ x \in 1 .. t.made => ~(x > t.made)
<1>1. t.made \in 1 .. NReq /\ NReq \in Nat
  BY Parts, RequestsAssumption DEF Req
<1> QED  BY <1>1 DEF Req, Main

LEMMA MadeSubs ==
    ASSUME NEW t \in Connection
    PROVE  \A c \in 2 .. t.made : c \in Req /\ c \in Nat /\ c > 1 /\ c # Main
BY MadeFacts DEF Main

\* The parents of a connection are requests.
LEMMA ParentFacts ==
    ASSUME NEW t \in Connection, Rows(t), NEW c \in 2 .. t.made
    PROVE  c \in Req /\ t.q[c].parent \in Req /\ t.q[c].parent \in 1 .. c - 1
<1>1. c \in Req /\ c \in Nat /\ t.made \in Nat
  BY MadeFacts
<1>2. t.q[c].parent \in 1 .. c - 1
  BY <1>1, ZenonT(30) DEF Rows, Row
<1> QED  BY <1>1, <1>2, MadeFacts

\* A list that stays, of children that stay.
LEMMA WaitingStays ==
    ASSUME NEW t, NEW u, NEW P, NEW Q, NEW x, NEW i, Waiting(t, P, x, i),
           u.made = t.made, u.q[x].postponed = t.q[x].postponed,
           \A d \in 2 .. t.made : t.q[d].parent = x /\ ~t.q[d].done =>
             u.q[d].parent = x /\ ~u.q[d].done /\ (d \in Q => d \in P)
    PROVE  Waiting(u, Q, x, i)
<1> DEFINE l == t.q[x].postponed
           d == l[i].by
<1>1. l[i].n = 0 =>
        /\ d \in 2 .. t.made /\ t.q[d].parent = x /\ ~t.q[d].done /\ (d \in P => i = 1)
        /\ \A j \in DOMAIN l : l[j].n = 0 /\ l[j].by = d => i = j
  BY DEF Waiting
<1>2. u.q[x].postponed = l
  OBVIOUS
<1>3. Waiting(u, Q, x, i) <=>
        (l[i].n = 0 =>
           /\ d \in 2 .. u.made /\ u.q[d].parent = x /\ ~u.q[d].done
           /\ \A j \in DOMAIN l : l[j].n = 0 /\ l[j].by = d => i = j
           /\ d \in Q => i = 1)
  BY <1>2 DEF Waiting
<1> HIDE DEF l, d
<1> QED  BY <1>1, <1>3, ZenonT(30)

LEMMA SameTreeAt ==
    ASSUME NEW t \in Connection, NEW u \in Connection, NEW P \in SUBSET Req, Rows(t),
           SameTree(t, u), TreeAt(t, P)
    PROVE  TreeAt(u, P)
<1>1. Path(u, P)
  BY DEF TreeAt, Path, SameTree, Main
<1>2. ASSUME NEW c \in 2 .. u.made PROVE Reached(u, P, c)
  <2>1. c \in 2 .. t.made /\ c \in Req /\ t.q[c].parent \in Req
    BY <1>2, ParentFacts DEF SameTree
  <2>2. Reached(t, P, c)
    BY <2>1, ZenonT(30) DEF TreeAt
  <2> QED  BY <2>1, <2>2, ZenonT(30) DEF Reached, Listed, SameTree
<1>3. ASSUME NEW r \in Req, NEW i \in DOMAIN u.q[r].postponed PROVE Waiting(u, P, r, i)
  <2>1. i \in DOMAIN t.q[r].postponed
    BY DEF SameTree
  <2>2. Waiting(t, P, r, i)
    BY <2>1 DEF TreeAt
  <2>3. t.q[r].postponed[i].n = 0 => t.q[r].postponed[i].by \in Req
    BY <2>2, MadeFacts DEF Waiting
  <2> QED  BY <2>2, <2>3, ZenonT(30) DEF Waiting, SameTree
<1> QED  BY <1>1, <1>2, <1>3 DEF TreeAt

\* Two lists one after another, the second without a subrequest.
LEMMA JoinFacts ==
    ASSUME NEW p \in Seq(Item), NEW in \in Seq(Item), \A i \in DOMAIN in : in[i].n # 0
    PROVE  /\ DOMAIN (p \o in) = 1 .. Len(p) + Len(in) /\ Len(p \o in) = Len(p) + Len(in)
           /\ \A i \in DOMAIN (p \o in) :
                (p \o in)[i].n = 0 => i \in DOMAIN p /\ (p \o in)[i] = p[i]
           /\ \A i \in DOMAIN p : i \in DOMAIN (p \o in) /\ (p \o in)[i] = p[i]
<1> DEFINE l == p \o in
<1>1. /\ Len(p) \in Nat /\ Len(in) \in Nat /\ DOMAIN p = 1 .. Len(p) /\ DOMAIN in = 1 .. Len(in)
      /\ l \in Seq(Item) /\ Len(l) = Len(p) + Len(in)
  BY LenProperties, ConcatProperties
<1>2. DOMAIN l = 1 .. Len(p) + Len(in)
  BY <1>1, LenProperties
<1>3. \A i \in 1 .. Len(p) + Len(in) : l[i] = IF i <= Len(p) THEN p[i] ELSE in[i - Len(p)]
  BY ConcatProperties
<1> HIDE DEF l
<1>4. ASSUME NEW i \in DOMAIN l, l[i].n = 0 PROVE i \in DOMAIN p /\ l[i] = p[i]
  <2>1. CASE i <= Len(p)
    BY <1>1, <1>2, <1>3, <2>1
  <2>2. CASE ~(i <= Len(p))
    <3>1. i - Len(p) \in DOMAIN in /\ l[i] = in[i - Len(p)]
      BY <1>1, <1>2, <1>3, <2>2
    <3> QED  BY <1>4, <3>1
  <2> QED  BY <2>1, <2>2
<1>5. \A i \in DOMAIN p : i \in DOMAIN l /\ l[i] = p[i]
  BY <1>1, <1>2, <1>3
<1> QED  BY <1>1, <1>2, <1>4, <1>5 DEF l

\* What a list says of its subrequests when buffers are added to it.
Longer(p, list) ==
    /\ p \in Seq(Item) /\ list \in Seq(Item)
    /\ DOMAIN p = 1 .. Len(p) /\ DOMAIN list = 1 .. Len(list)
    /\ Len(p) \in Nat /\ Len(list) \in Nat
    /\ \A i \in DOMAIN list : list[i].n = 0 => i \in DOMAIN p /\ list[i] = p[i]
    /\ \A i \in DOMAIN p : i \in DOMAIN list /\ list[i] = p[i]

LEMMA LongerJoin ==
    ASSUME NEW p \in Seq(Item), NEW in \in Seq(Item), \A i \in DOMAIN in : in[i].n # 0
    PROVE  Longer(p, p \o in)
<1>1. p \o in \in Seq(Item)
  BY ConcatProperties
<1>2. /\ DOMAIN p = 1 .. Len(p) /\ Len(p) \in Nat
      /\ DOMAIN (p \o in) = 1 .. Len(p \o in) /\ Len(p \o in) \in Nat
  BY <1>1, LenProperties
<1> QED  BY <1>1, <1>2, JoinFacts DEF Longer

\* Output that joins the list of r, or is sent, and the next subrequest that becomes
\* active, keep the tree.
LEMMA TreePostpone ==
    ASSUME NEW t \in Connection, NEW u, NEW r \in Req, NEW list,
           Longer(t.q[r].postponed, list), Rows(t), Tree(t),
           Kept(t, u, r), Moved(t, u, r, list)
    PROVE  Tree(u)
<1> DEFINE p == t.q[r].postponed
<1>1. PICK P \in SUBSET Req : TreeAt(t, P)
  BY TreeIs
<1>2. /\ DOMAIN p = 1 .. Len(p) /\ Len(p) \in Nat
      /\ DOMAIN list = 1 .. Len(list) /\ Len(list) \in Nat
  BY DEF Longer
<1>3. /\ \A i \in DOMAIN list : list[i].n = 0 => i \in DOMAIN p /\ list[i] = p[i]
      /\ \A i \in DOMAIN p : i \in DOMAIN list /\ list[i] = p[i]
  BY DEF Longer
<1>4. /\ u \in Connection /\ u.made = t.made
      /\ \A x \in Req : u.q[x].parent = t.q[x].parent /\ u.q[x].done = t.q[x].done
      /\ \A x \in Req \ {r} : u.q[x].postponed = t.q[x].postponed
  BY DEF Kept, Loose, SameRow
<1>5. p = t.q[r].postponed
  OBVIOUS
<1> HIDE DEF p
<1>6. CASE /\ r # t.data /\ u.data = t.data /\ u.q[r].postponed = list
  <2>1. Path(u, P)
    BY <1>1, <1>4, <1>6 DEF TreeAt, Path, Main
  <2>2. ASSUME NEW c \in 2 .. u.made PROVE Reached(u, P, c)
    <3>1. c \in 2 .. t.made /\ c \in Req /\ t.q[c].parent \in Req
      BY <1>4, <2>2, ParentFacts
    <3>2. Reached(t, P, c)
      BY <1>1, <3>1 DEF TreeAt
    <3>3. Listed(t, t.q[c].parent, c) => Listed(u, t.q[c].parent, c)
      BY <1>3, <1>4, <1>6, <3>1 DEF Listed, p
    <3> QED  BY <1>4, <3>1, <3>2, <3>3 DEF Reached
  <2>3. ASSUME NEW x \in Req, NEW i \in DOMAIN u.q[x].postponed PROVE Waiting(u, P, x, i)
    <3>1. CASE x # r
      <4>1. Waiting(t, P, x, i) /\ u.q[x].postponed = t.q[x].postponed
        BY <1>1, <1>4, <3>1 DEF TreeAt
      <4>2. \A d \in 2 .. t.made : d \in Req
        BY MadeSubs
      <4> QED  BY <1>4, <4>1, <4>2, WaitingStays
    <3>2. CASE x = r
      <4> DEFINE d == list[i].by
      <4> SUFFICES ASSUME list[i].n = 0 PROVE Waiting(u, P, r, i)
        BY <1>6, <3>2 DEF Waiting
      <4>0. Waiting(u, P, r, i) <=>
              (list[i].n = 0 =>
                 /\ d \in 2 .. u.made /\ u.q[d].parent = r /\ ~u.q[d].done
                 /\ \A j \in DOMAIN list : list[j].n = 0 /\ list[j].by = d => i = j
                 /\ d \in P => i = 1)
        BY <1>6, ZenonT(30) DEF Waiting
      <4>1. i \in DOMAIN p /\ list[i] = p[i] /\ Waiting(t, P, r, i)
        BY <1>1, <1>3, <1>6, <3>2, ZenonT(30) DEF TreeAt, p
      <4>2. /\ p[i].n = 0 /\ p[i].by \in 2 .. t.made /\ t.q[p[i].by].parent = r
            /\ ~t.q[p[i].by].done /\ (p[i].by \in P => i = 1)
        BY <4>1, ZenonT(30) DEF Waiting, p
      <4>3. p[i].by \in Req
        BY <4>2, MadeSubs, ZenonT(30)
      <4>4. ASSUME NEW j \in DOMAIN list, list[j].n = 0, list[j].by = list[i].by PROVE i = j
        BY <1>3, <4>1, <4>4 DEF Waiting, p
      <4>5. /\ d \in 2 .. t.made /\ d \in Req /\ t.q[d].parent = r /\ ~t.q[d].done
            /\ d \in P => i = 1
        <5>1. d = p[i].by
          BY <4>1
        <5> HIDE DEF d
        <5> QED  BY <4>2, <4>3, <5>1
      <4>6. \A j \in DOMAIN list : list[j].n = 0 /\ list[j].by = d => i = j
        BY <4>4
      <4> HIDE DEF d
      <4> QED  BY <1>4, <4>0, <4>5, <4>6
    <3> QED  BY <3>1, <3>2
  <2> QED  BY <2>1, <2>2, <2>3, TreeIs DEF TreeAt
<1>7. CASE /\ u.data = t.data /\ u.q[r].postponed = <<>> /\ p = <<>>
  <2>1. SameTree(t, u)
    BY <1>4, <1>7 DEF SameTree, p
  <2> QED  BY <1>1, <1>4, <2>1, SameTreeAt, TreeIs
<1>8. CASE /\ u.data = t.data /\ u.q[r].postponed = <<>> /\ \A i \in DOMAIN list : list[i].n # 0
  <2>1. Path(u, P)
    BY <1>1, <1>4, <1>8 DEF TreeAt, Path, Main
  <2>2. ASSUME NEW c \in 2 .. u.made PROVE Reached(u, P, c)
    <3>1. c \in 2 .. t.made /\ c \in Req /\ t.q[c].parent \in Req
      BY <1>4, <2>2, ParentFacts
    <3>2. Reached(t, P, c)
      BY <1>1, <3>1 DEF TreeAt
    <3>3. ~Listed(t, r, c)
      BY <1>3, <1>8 DEF Listed, Sub, p
    <3>4. t.q[c].parent # r /\ Listed(t, t.q[c].parent, c) => Listed(u, t.q[c].parent, c)
      BY <1>4, <3>1 DEF Listed
    <3> QED  BY <1>4, <3>1, <3>2, <3>3, <3>4 DEF Reached
  <2>3. ASSUME NEW x \in Req, NEW i \in DOMAIN u.q[x].postponed PROVE Waiting(u, P, x, i)
    <3>1. x # r
      BY <1>8, <2>3
    <3>2. Waiting(t, P, x, i) /\ u.q[x].postponed = t.q[x].postponed
      BY <1>1, <1>4, <3>1 DEF TreeAt
    <3>3. \A d \in 2 .. t.made : d \in Req
      BY MadeSubs
    <3> QED  BY <1>4, <3>2, <3>3, WaitingStays
  <2> QED  BY <2>1, <2>2, <2>3, TreeIs DEF TreeAt
<1>9. CASE /\ r = t.data
           /\ \E i \in 1 .. Len(list) :
                /\ list[i].n = 0 /\ \A j \in 1 .. i - 1 : list[j].n # 0
                /\ DOMAIN u.q[r].postponed = 1 .. Len(list) - i
                /\ \A k \in 1 .. Len(list) - i : u.q[r].postponed[k] = list[i + k]
                /\ u.data = list[i].by
  <2>1. PICK i \in 1 .. Len(list) :
                /\ list[i].n = 0 /\ \A j \in 1 .. i - 1 : list[j].n # 0
                /\ DOMAIN u.q[r].postponed = 1 .. Len(list) - i
                /\ \A k \in 1 .. Len(list) - i : u.q[r].postponed[k] = list[i + k]
                /\ u.data = list[i].by
    BY <1>9, ZenonT(20)
  <2> DEFINE c == list[i].by
             Q == P \cup {c}
  <2>2. i \in DOMAIN p /\ list[i] = p[i] /\ Waiting(t, P, r, i) /\ Len(list) \in Nat
    BY <1>1, <1>2, <1>3, <2>1, ZenonT(30) DEF TreeAt, p
  <2>3. /\ c \in 2 .. t.made /\ t.q[c].parent = r /\ ~t.q[c].done
        /\ \A j \in DOMAIN p : p[j].n = 0 /\ p[j].by = c => i = j
    BY <2>1, <2>2 DEF Waiting, p
  <2>4. c \in Req /\ r < c /\ r \in Nat /\ c \in Nat
    BY <2>3, ParentFacts DEF Req
  <2> HIDE DEF c
  <2>5. Path(t, P)
    BY <1>1 DEF TreeAt
  <2>6. Path(u, Q)
    <3>1. P \subseteq Nat /\ \A x \in P : x <= r
      BY <1>9, <2>5, Parts DEF Path, Req
    <3>2. Q \subseteq 1 .. u.made /\ Main \in Q /\ u.data \in Q /\ \A x \in Q : x <= c
      <4>1. c \in 1 .. u.made /\ u.data = c
        BY <1>4, <2>1, <2>3 DEF c
      <4>2. P \subseteq 1 .. u.made /\ Main \in P
        BY <1>4, <2>5 DEF Path
      <4>3. ASSUME NEW x \in Q PROVE x <= c
        <5>1. CASE x = c
          BY <2>4, <5>1
        <5>2. CASE x \in P
          <6>1. x \in Nat /\ x <= r
            BY <3>1, <5>2
          <6> QED  BY <2>4, <6>1
        <5> QED  BY <5>1, <5>2
      <4> QED  BY <4>1, <4>2, <4>3
    <3>3. ASSUME NEW d \in Q \ {Main}
          PROVE  /\ u.q[d].parent \in Q /\ ~u.q[d].done
                 /\ \A x \in Q : x <= u.q[d].parent \/ d <= x
      <4>1. CASE d = c
        BY <1>4, <1>9, <2>3, <2>4, <2>5, <3>1, <4>1 DEF Path
      <4>2. CASE d \in P
        BY <1>4, <2>4, <2>5, <3>1, <4>2 DEF Path
      <4> QED  BY <4>1, <4>2
    <3> QED  BY <2>1, <3>2, <3>3 DEF Path, c
  <2>7. ASSUME NEW d \in 2 .. u.made PROVE Reached(u, Q, d)
    <3>1. d \in 2 .. t.made /\ d \in Req /\ t.q[d].parent \in Req
      BY <1>4, <2>7, ParentFacts
    <3>2. Reached(t, P, d)
      BY <1>1, <3>1 DEF TreeAt
    <3>3. ASSUME d # c, Listed(t, r, d) PROVE Listed(u, r, d)
      <4>1. PICK j \in DOMAIN p : p[j] = Sub(d)
        BY <3>3 DEF Listed, p
      <4>2. j \in 1 .. Len(list) /\ list[j].n = 0 /\ list[j].by = d /\ list[j] = Sub(d)
        BY <1>2, <1>3, <4>1 DEF Sub
      <4>3. j # i /\ ~(j \in 1 .. i - 1)
        BY <2>1, <3>3, <4>2 DEF c
      <4>4. j - i \in 1 .. Len(list) - i /\ i + (j - i) = j
        <5>1. /\ i \in Nat /\ j \in Nat /\ Len(list) \in Nat /\ i >= 1 /\ j >= 1
              /\ j <= Len(list) /\ j # i /\ ~(j <= i - 1)
          BY <2>1, <2>2, <4>2, <4>3
        <5> QED  BY <5>1
      <4>5. u.q[r].postponed[j - i] = Sub(d)
        BY <2>1, <4>2, <4>4
      <4> QED  BY <2>1, <4>4, <4>5 DEF Listed
    <3>4. t.q[d].parent # r /\ Listed(t, t.q[d].parent, d) => Listed(u, t.q[d].parent, d)
      BY <1>4, <3>1 DEF Listed
    <3> QED  BY <1>4, <3>1, <3>2, <3>3, <3>4 DEF Reached
  <2>8. ASSUME NEW x \in Req, NEW k \in DOMAIN u.q[x].postponed PROVE Waiting(u, Q, x, k)
    <3>1. CASE x # r
      <4>1. Waiting(t, P, x, k) /\ u.q[x].postponed = t.q[x].postponed
        BY <1>1, <1>4, <3>1 DEF TreeAt
      <4>2. \A d \in 2 .. t.made : d \in Req /\ (t.q[d].parent = x /\ d \in Q => d \in P)
        BY <2>3, <3>1, MadeSubs
      <4> HIDE DEF Q
      <4> QED  BY <1>4, <4>1, <4>2, WaitingStays
    <3>2. CASE x = r
      <4> DEFINE l == u.q[r].postponed
                 j == i + k
      <4>1. /\ k \in 1 .. Len(list) - i /\ l[k] = list[j] /\ j \in 1 .. Len(list)
            /\ DOMAIN l = 1 .. Len(list) - i /\ i \in Nat /\ i > 0
        <5>1. k \in 1 .. Len(list) - i /\ DOMAIN l = 1 .. Len(list) - i
          BY <2>1, <3>2
        <5>2. l[k] = list[j]
          BY <2>1, <5>1, ZenonT(30)
        <5>3. i \in Nat /\ i >= 1 /\ Len(list) \in Nat
          BY <2>1, <2>2
        <5>4. k \in Nat /\ k >= 1 /\ k <= Len(list) - i
          BY <5>1, <5>3
        <5>5. j \in 1 .. Len(list)
          BY <5>3, <5>4, SMTT(20)
        <5> HIDE DEF j, l
        <5> QED  BY <5>1, <5>2, <5>3, <5>5
      <4> SUFFICES ASSUME l[k].n = 0 PROVE Waiting(u, Q, r, k)
        BY <3>2 DEF Waiting
      <4>2. j \in DOMAIN p /\ list[j] = p[j] /\ Waiting(t, P, r, j) /\ p[j].n = 0
        BY <1>1, <1>2, <1>3, <4>1 DEF TreeAt, p
      <4>3. p[j].by \in Req /\ p[j].by # c /\ p[j].by \notin P
        <5>1. p[j].by \in Req /\ p[j].by \notin P
          <6>1. p[j].by \in 2 .. t.made /\ (p[j].by \in P => j = 1)
            BY <4>2 DEF Waiting, p
          <6>2. j # 1
            BY <4>1
          <6> QED  BY <6>1, <6>2, MadeSubs, ZenonT(30)
        <5>2. p[j].by # c
          BY <2>3, <4>1, <4>2
        <5> QED  BY <5>1, <5>2
      <4>4. ASSUME NEW m \in DOMAIN l, l[m].n = 0, l[m].by = l[k].by PROVE k = m
        <5>1. m \in 1 .. Len(list) - i /\ i + m \in 1 .. Len(list) /\ l[m] = list[i + m]
          <6>1. m \in 1 .. Len(list) - i
            BY <4>1
          <6>2. l[m] = list[i + m]
            BY <2>1, <6>1
          <6>3. /\ i \in Nat /\ m \in Nat /\ m >= 1 /\ m <= Len(list) - i /\ i >= 1
                /\ Len(list) \in Nat
            BY <2>1, <2>2, <4>1, <6>1
          <6>4. i + m \in 1 .. Len(list)
            BY <6>3
          <6> QED  BY <6>1, <6>2, <6>4
        <5>2. i + m \in DOMAIN p /\ list[i + m] = p[i + m]
          BY <1>2, <1>3, <4>4, <5>1, ZenonT(30)
        <5>3. j = i + m
          BY <4>1, <4>2, <4>4, <5>1, <5>2 DEF Waiting, p
        <5> QED  BY <4>1, <5>1, <5>3
      <4>5. l[k] = p[j]
        BY <4>1, <4>2, ZenonT(30)
      <4>6. /\ p[j].by \in 2 .. t.made /\ t.q[p[j].by].parent = r /\ ~t.q[p[j].by].done
        BY <4>2 DEF Waiting, p
      <4> HIDE DEF j
      <4> QED  BY <1>4, <4>3, <4>4, <4>5, <4>6 DEF Waiting
    <3> QED  BY <3>1, <3>2
  <2>9. Q \in SUBSET Req
    BY <2>4
  <2> HIDE DEF Q
  <2> QED  BY <2>6, <2>7, <2>8, <2>9, TreeIs DEF TreeAt
<1> QED  BY <1>5, <1>6, <1>7, <1>8, <1>9 DEF Moved

\* What a filter is given: buffers.
Buffers(in) == in \in Seq(Item) /\ \A i \in DOMAIN in : in[i].n # 0

\* A subrequest in the list of r is a child of r.
Children(t, r, list) ==
    \A i \in DOMAIN list :
      list[i].n = 0 => list[i].by \in 2 .. t.made /\ t.q[list[i].by].parent = r

LEMMA ListedChild ==
    ASSUME NEW t \in Connection, NEW r \in Req, NEW in, Buffers(in), Tree(t)
    PROVE  Children(t, r, t.q[r].postponed \o in)
<1> DEFINE p == t.q[r].postponed
           list == p \o in
<1> SUFFICES ASSUME NEW i \in DOMAIN list, list[i].n = 0
             PROVE  list[i].by \in 2 .. t.made /\ t.q[list[i].by].parent = r
  BY DEF Children
<1>1. p \in Seq(Item) /\ in \in Seq(Item) /\ \A k \in DOMAIN in : in[k].n # 0
  BY Parts, RowParts DEF Buffers
<1>2. i \in DOMAIN p /\ list[i] = p[i]
  BY <1>1, JoinFacts, ZenonT(30)
<1>3. PICK P \in SUBSET Req : TreeAt(t, P)
  BY TreeIs
<1>4. Waiting(t, P, r, i)
  BY <1>2, <1>3 DEF TreeAt
<1> HIDE DEF list
<1>5. p[i].n = 0
  BY <1>2
<1>6. p[i].by \in 2 .. t.made /\ t.q[p[i].by].parent = r
  BY <1>4, <1>5 DEF Waiting
<1> QED  BY <1>2, <1>6, ZenonT(30)

LEMMA LooseRows ==
    ASSUME NEW t \in Connection, NEW u, Loose(t, u), Rows(t),
           \A x \in Req : x > t.made => u.q[x].postponed = t.q[x].postponed
    PROVE  Rows(u)
<1> SUFFICES ASSUME NEW x \in Req PROVE Row(u, x)
  BY DEF Rows
<1>1. Row(t, x) /\ SameRow(t.q[x], u.q[x]) /\ u.made = t.made /\ u.run = t.run
  BY DEF Rows, Loose
<1>2. t.q[x].post => /\ t.q[x].parent \in Req
                     /\ u.q[t.q[x].parent].st = t.q[t.q[x].parent].st
  <2>1. t.q[x].post => x \in 2 .. t.made
    BY <1>1, MadeFacts DEF Row
  <2>2. t.q[x].post => t.q[x].parent \in Req
    BY <2>1, ParentFacts
  <2> QED  BY <2>2 DEF Loose, SameRow
<1> QED  BY <1>1, <1>2 DEF Row, SameRow

LEMMA LooseCounts ==
    ASSUME NEW t \in Connection, NEW u, Loose(t, u), Counts(t)
    PROVE  Counts(u)
<1>1. OpenOf(u) = OpenOf(t)
  BY DEF OpenOf, Loose, SameRow
<1>2. HookedOf(u) = HookedOf(t)
  BY DEF HookedOf, Loose, SameRow
<1>3. u.count = t.count /\ u.subrequests = t.subrequests /\ u.q[Main].done = t.q[Main].done
  BY MainIn DEF Loose, SameRow
<1> QED  BY <1>1, <1>2, <1>3 DEF Counts

\* A step that leaves the tree alone keeps it.
LEMMA QuietGood ==
    ASSUME NEW t \in Connection, NEW u, Quiet(t, u), Good(t), Side(u)
    PROVE  Good(u)
<1>1. Loose(t, u) /\ SameRest(t, u) /\ u \in Connection
  BY LooseFacts DEF Quiet
<1>2. Rows(u)
  BY <1>1, LooseRows DEF Good, Quiet
<1>3. Counts(u)
  BY <1>1, LooseCounts DEF Good
<1>4. Tree(u)
  <2>1. SameTree(t, u)
    BY DEF Quiet, SameRest, SameRow, SameTree
  <2>2. PICK P \in SUBSET Req : TreeAt(t, P)
    BY TreeIs DEF Good
  <2> QED  BY <1>1, <2>1, <2>2, SameTreeAt, TreeIs DEF Good
<1>5. ~u.closed /\ Reach(u)
  BY <1>1 DEF SameRest, Reach, Good
<1> QED  BY <1>2, <1>3, <1>4, <1>5 DEF Good

\* One more posted request.
LEMMA AppendBound ==
    ASSUME NEW p \in Seq(Req), NEW c \in Req, NEW m \in Nat, c <= m,
           \A i \in DOMAIN p : p[i] <= m
    PROVE  /\ Append(p, c) \in Seq(Req)
           /\ \A i \in DOMAIN Append(p, c) : Append(p, c)[i] <= m
<1>1. /\ Append(p, c) \in Seq(Req)
      /\ DOMAIN Append(p, c) = 1 .. Len(p) + 1 /\ Len(p) \in Nat
      /\ DOMAIN p = 1 .. Len(p)
      /\ \A k \in 1 .. Len(p) : Append(p, c)[k] = p[k]
      /\ Append(p, c)[Len(p) + 1] = c
  BY AppendProperties, LenProperties
<1> QED  BY <1>1

LEMMA GoodPostpone ==
    ASSUME NEW t \in Connection, Good(t), NEW r \in 1 .. t.made, NEW in, Buffers(in),
           NEW ch \in BOOLEAN
    PROVE  Good(PostponeFilter(t, r, in, ch)) /\ Loose(t, PostponeFilter(t, r, in, ch))
<1> DEFINE u == PostponeFilter(t, r, in, ch)
           list == t.q[r].postponed \o in
<1>1. in \in Seq(Item) /\ (\A i \in DOMAIN in : in[i].n # 0) /\ r \in Req
  BY MadeFacts DEF Buffers
<1>2. list \in Seq(Item) /\ Kept(t, u, r) /\ Moved(t, u, r, list)
  BY <1>1, PostponeFacts
<1> HIDE DEF u
<1>3. Loose(t, u) /\ u \in Connection
  BY <1>2 DEF Kept, Loose
<1>4. Tree(u)
  <2>1. t.q[r].postponed \in Seq(Item)
    BY <1>1, Parts, RowParts DEF Items
  <2>2. Longer(t.q[r].postponed, list)
    BY <1>1, <2>1, LongerJoin
  <2> HIDE DEF list
  <2> QED  BY <1>1, <1>2, <2>2, TreePostpone DEF Good
<1>5. Rows(u)
  <2>1. \A x \in Req : x > t.made => u.q[x].postponed = t.q[x].postponed
    BY <1>2, MadeFacts DEF Kept, Req
  <2> QED  BY <1>3, <2>1, LooseRows DEF Good
<1>6. Counts(u)
  BY <1>3, LooseCounts DEF Good
<1>7. Side(u)
  <2>1. \A x \in Req : SameHook(t.q[x], u.q[x])
    BY <1>2, ZenonT(30) DEF Kept, SameHook
  <2> QED  BY <1>3, <2>1, ZenonT(30) DEF Side, SameHook, Good, Loose
<1>8. ~u.closed /\ Reach(u)
  <2>1. ~u.closed /\ u.run <= u.made /\ u.made = t.made
    BY <1>3 DEF Good, Loose, Reach
  <2>2. CASE u.posted = t.posted
    BY <2>1, <2>2 DEF Good, Reach
  <2>3. CASE \E i \in 1 .. Len(list) : list[i].n = 0 /\ u.posted = Append(t.posted, list[i].by)
    <3>1. PICK i \in 1 .. Len(list) : list[i].n = 0 /\ u.posted = Append(t.posted, list[i].by)
      BY <2>3
    <3>2. i \in DOMAIN list
      BY <1>2, LenProperties
    <3>3. list[i].by \in 2 .. t.made
      <4>1. Children(t, r, list)
        BY <1>1, ListedChild DEF Good
      <4> HIDE DEF list
      <4> QED  BY <3>1, <3>2, <4>1 DEF Children
    <3> DEFINE c == list[i].by
    <3>4. c \in 2 .. t.made
      BY <3>3
    <3> HIDE DEF c
    <3>5. c \in Req /\ c <= t.made /\ t.posted \in Seq(Req) /\ t.made \in Nat
      BY <3>4, MadeFacts, Parts
    <3>6. \A k \in DOMAIN Append(t.posted, c) : Append(t.posted, c)[k] <= t.made
      BY <3>5, AppendBound DEF Good, Reach
    <3> QED  BY <2>1, <3>1, <3>6, ZenonT(30) DEF Reach, c
  <2> QED  BY <1>2, <2>2, <2>3, ZenonT(30) DEF Moved
<1> QED  BY <1>3, <1>4, <1>5, <1>6, <1>7, <1>8 DEF Good, u

-----------------------------------------------------------------------------
(* Filters and handlers.                                                   *)

LEMMA BuffersJoin ==
    ASSUME NEW p, NEW in, Buffers(p), Buffers(in)
    PROVE  Buffers(p \o in)
<1>1. p \in Seq(Item) /\ in \in Seq(Item) /\ p \o in \in Seq(Item)
  BY ConcatProperties DEF Buffers
<1>2. \A i \in DOMAIN (p \o in) :
         (p \o in)[i].n = 0 => i \in DOMAIN p /\ (p \o in)[i] = p[i]
  BY <1>1, JoinFacts DEF Buffers
<1> HIDE DEF Buffers
<1>3. \A i \in DOMAIN (p \o in) : (p \o in)[i].n # 0
  <2> DEFINE l == p \o in
  <2>1. \A i \in DOMAIN l : l[i].n = 0 => i \in DOMAIN p /\ l[i] = p[i]
    BY <1>2
  <2> HIDE DEF l
  <2>2. \A i \in DOMAIN l : l[i].n # 0
    BY <2>1 DEF Buffers
  <2> QED  BY <2>2 DEF l
<1> QED  BY <1>1, <1>3 DEF Buffers

LEMMA BuffersOne ==
    ASSUME NEW r \in Req, NEW n \in Nat, n # 0
    PROVE  Buffers(<<[by |-> r, n |-> n]>>)
BY DEF Buffers, Item

LEMMA BuffersNone == Buffers(<<>>)
BY DEF Buffers

LEMMA RowBody ==
    ASSUME NEW a \in Request, NEW b \in Items
    PROVE  /\ [a EXCEPT !.body = b] \in Request /\ SameRow(a, [a EXCEPT !.body = b])
           /\ [a EXCEPT !.body = b].postponed = a.postponed
           /\ [a EXCEPT !.body = b].do_hook = a.do_hook
           /\ [a EXCEPT !.body = b].body = b
BY RequestIs DEF SameRow

LEMMA GoodBody ==
    ASSUME NEW t \in Connection, Good(t), NEW r \in 1 .. t.made, NEW in, Buffers(in),
           NEW ch \in BOOLEAN
    PROVE  Good(BodyFilter(t, r, in, ch)) /\ Loose(t, BodyFilter(t, r, in, ch))
<1> DEFINE u == BodyFilter(t, r, in, ch)
           p == t.q[r].parent
           row == [t.q[p] EXCEPT !.body = t.q[p].body \o in]
<1>1. r \in Req /\ t.q[r] \in Request
  BY MadeFacts, Parts
<1>2. CASE build.hook /\ in # <<>> /\ t.q[r].do_hook
  <2>1. r \in 2 .. t.made
    BY <1>1, <1>2, MadeFacts DEF Good, Side
  <2>2. p \in Req
    BY <2>1, ParentFacts DEF Good
  <2>3. Buffers(t.q[p].body) /\ t.q[p] \in Request
    BY <2>2, Parts, RowParts DEF Good, Side, Buffers
  <2>4. Buffers(t.q[p].body \o in)
    BY <2>3, BuffersJoin
  <2>5. t.q[p].body \o in \in Items
    BY <2>4, ZenonT(30) DEF Buffers, Items
  <2>6. /\ row \in Request /\ SameRow(t.q[p], row) /\ row.postponed = t.q[p].postponed
        /\ row.do_hook = t.q[p].do_hook /\ row.body = t.q[p].body \o in
    BY <2>3, <2>5, RowBody, ZenonT(30)
  <2>7. u = Put(t, p, row)
    BY <1>2 DEF BodyFilter, Put
  <2> HIDE DEF row, u, p
  <2>8. Quiet(t, u)
    BY <2>2, <2>6, <2>7, PutQuiet
  <2>9. Side(u)
    <3>1. /\ u.made = t.made /\ u.q[p] = row
          /\ \A x \in Req \ {p} : u.q[x] = t.q[x]
      BY <2>2, <2>6, <2>7, PutFacts DEF SameRest
    <3> QED  BY <2>4, <2>6, <3>1, ZenonT(30) DEF Good, Side, Buffers
  <2> QED  BY <2>8, <2>9, QuietGood, LooseFacts DEF u
<1>3. CASE build.hook /\ in = <<>>
  <2>1. u = t
    BY <1>3 DEF BodyFilter
  <2> QED  BY <2>1, LooseFacts
<1>4. CASE ~build.hook \/ (in # <<>> /\ ~t.q[r].do_hook)
  <2>1. u = PostponeFilter(t, r, in, ch)
    BY <1>4 DEF BodyFilter
  <2> QED  BY <2>1, GoodPostpone
<1> QED  BY <1>2, <1>3, <1>4

\* A step of r that leaves the tree alone and what the data hook keeps sound.
Calm(t, u) == Quiet(t, u) /\ Side(u) /\ SameSocket(t, u)

LEMMA CalmFacts ==
    /\ \A t : t \in Connection /\ Side(t) => Calm(t, t)
    /\ \A t, u, v : Calm(t, u) /\ Calm(u, v) => Calm(t, v)
BY LooseFacts DEF Calm, SameSocket

LEMMA CalmGood ==
    ASSUME NEW t \in Connection, NEW u, Good(t), Calm(t, u)
    PROVE  Good(u) /\ Loose(t, u) /\ u \in Connection /\ u.made = t.made
<1>1. Quiet(t, u) /\ Side(u)
  BY DEF Calm
<1>2. Good(u) /\ Loose(t, u)
  BY <1>1, QuietGood, LooseFacts
<1> QED  BY <1>2 DEF Loose

\* A row that differs in what neither the tree nor the data hook reads.
LEMMA PutCalm ==
    ASSUME NEW t \in Connection, Side(t), NEW r \in Req, NEW row \in Request,
           SameRow(t.q[r], row), row.postponed = t.q[r].postponed, SameHook(t.q[r], row)
    PROVE  Calm(t, Put(t, r, row))
<1> DEFINE u == Put(t, r, row)
<1>1. Quiet(t, u)
  BY PutQuiet
<1>2. u.q[r] = row /\ u.made = t.made /\ \A x \in Req \ {r} : u.q[x] = t.q[x]
  BY PutFacts DEF SameRest
<1>3. SameSocket(t, u)
  BY PutFacts DEF SameSocket
<1> HIDE DEF u
<1>4. Side(u)
  BY <1>2 DEF Side, SameHook
<1> QED  BY <1>1, <1>3, <1>4 DEF Calm, u

LEMMA RowHeader ==
    ASSUME NEW a \in Request, NEW h \in BOOLEAN, NEW o \in BOOLEAN
    PROVE  /\ [a EXCEPT !.header_sent = h, !.do_hook = o] \in Request
           /\ SameRow(a, [a EXCEPT !.header_sent = h, !.do_hook = o])
           /\ [a EXCEPT !.header_sent = h, !.do_hook = o].postponed = a.postponed
           /\ [a EXCEPT !.header_sent = h, !.do_hook = o].body = a.body
           /\ [a EXCEPT !.header_sent = h, !.do_hook = o].do_hook = o
BY RequestIs DEF SameRow

LEMMA HeaderCalm ==
    ASSUME NEW t \in Connection, Rows(t), Side(t), NEW r \in 1 .. t.made
    PROVE  Calm(t, SendHeader(t, r))
<1> DEFINE hooked == build.hook /\ t.q[r].parent # None /\ t.q[t.q[r].parent].hook
           yes == TRUE
           a == t.q[r]
           row == [a EXCEPT !.header_sent = yes, !.do_hook = hooked]
           u == SendHeader(t, r)
<1>1. r \in Req /\ t.q[r] \in Request /\ hooked \in BOOLEAN /\ yes \in BOOLEAN
  BY MadeFacts, Parts
<1>2. u = Put(t, r, row)
  BY DEF SendHeader, Put
<1>3. hooked => r # Main
  BY <1>1 DEF Rows, Row
<1> HIDE DEF hooked, yes
<1>4. /\ row \in Request /\ SameRow(t.q[r], row) /\ row.postponed = t.q[r].postponed
      /\ row.body = t.q[r].body /\ (row.do_hook <=> hooked)
  <2> HIDE DEF a
  <2>1. a \in Request
    BY <1>1 DEF a
  <2>2. /\ row \in Request /\ SameRow(a, row) /\ row.postponed = a.postponed
        /\ row.body = a.body /\ row.do_hook = hooked
    BY <1>1, <2>1, RowHeader, ZenonT(30)
  <2> QED  BY <2>2 DEF a
<1> HIDE DEF row, u
<1>5. Quiet(t, u)
  BY <1>1, <1>2, <1>4, PutQuiet
<1>6. /\ u.q[r] = row /\ u.made = t.made /\ \A x \in Req \ {r} : u.q[x] = t.q[x]
      /\ SameSocket(t, u)
  BY <1>1, <1>2, <1>4, PutFacts DEF SameRest, SameSocket
<1>7. Side(u)
  BY <1>3, <1>4, <1>6, MadeFacts DEF Side
<1> QED  BY <1>5, <1>6, <1>7 DEF Calm, u

\* A handler that sends one buffer, after the header.
LEMMA SendNextIs ==
    ASSUME NEW t \in Connection, Good(t), NEW r \in 1 .. t.made, NEW ch \in BOOLEAN
    PROVE  /\ Buffers(<<NextBuffer(t, r)>>)
           /\ \E h : /\ Calm(t, h)
                     /\ SendNext(t, r, ch) = BodyFilter(h, r, <<NextBuffer(t, r)>>, ch)
<1> DEFINE item == NextBuffer(t, r)
           row1 == [t.q[r] EXCEPT !.nout = t.q[r].nout + 1]
           t1 == Put(t, r, row1)
           t2 == IF t1.q[r].header_sent THEN t1 ELSE SendHeader(t1, r)
           row2 == [t2.q[r] EXCEPT !.doc = Append(t2.q[r].doc, item)]
           t3 == Put(t2, r, row2)
<1>1. r \in Req /\ t.q[r] \in Request /\ t.q[r].nout \in Nat /\ Side(t) /\ Rows(t)
  BY MadeFacts, Parts, RowParts DEF Good
<1>2. Buffers(<<item>>) /\ item \in Item
  BY <1>1, BuffersOne DEF NextBuffer, Item
<1>3. SendNext(t, r, ch) = BodyFilter(t3, r, <<item>>, ch)
  BY DEF SendNext, Send, Put
<1> HIDE DEF item
<1>4. Calm(t, t1)
  <2>1. row1 \in Request /\ SameRow(t.q[r], row1) /\ row1.postponed = t.q[r].postponed
        /\ SameHook(t.q[r], row1)
    <3> DEFINE m == t.q[r].nout + 1
    <3>1. m \in Nat
      BY <1>1
    <3> HIDE DEF m
    <3>2. row1 = [t.q[r] EXCEPT !.nout = m]
      BY DEF m
    <3> QED  BY <1>1, <3>1, <3>2, RowNout
  <2> HIDE DEF row1
  <2> QED  BY <1>1, <2>1, PutCalm
<1> HIDE DEF t1
<1>5. Good(t1) /\ t1 \in Connection /\ t1.made = t.made
  BY <1>4, CalmGood
<1>6. Calm(t, t2)
  <2>1. Calm(t1, SendHeader(t1, r))
    BY <1>5, HeaderCalm DEF Good
  <2> QED  BY <1>4, <2>1, CalmFacts
<1> HIDE DEF t2
<1>7. Good(t2) /\ t2 \in Connection /\ t2.made = t.made
  BY <1>6, CalmGood
<1>8. Calm(t2, t3)
  <2>1. t2.q[r] \in Request /\ t2.q[r].doc \in Seq(Item)
    BY <1>1, <1>7, Parts, RowParts
  <2>2. Append(t2.q[r].doc, item) \in Items
    BY <1>2, <2>1, AppendProperties DEF Items
  <2>3. row2 \in Request /\ SameRow(t2.q[r], row2) /\ row2.postponed = t2.q[r].postponed
        /\ SameHook(t2.q[r], row2)
    BY <2>1, <2>2, RowDoc
  <2> HIDE DEF row2
  <2> QED  BY <1>1, <1>7, <2>3, PutCalm DEF Good
<1>9. Calm(t, t3)
  BY <1>6, <1>8, CalmFacts
<1> HIDE DEF t3
<1> QED  BY <1>2, <1>3, <1>9 DEF item

LEMMA GoodSendNext ==
    ASSUME NEW t \in Connection, Good(t), NEW r \in 1 .. t.made, NEW ch \in BOOLEAN
    PROVE  Good(SendNext(t, r, ch)) /\ Loose(t, SendNext(t, r, ch))
<1> DEFINE in == <<NextBuffer(t, r)>>
<1>1. Buffers(in)
  BY SendNextIs
<1>2. PICK h : Calm(t, h) /\ SendNext(t, r, ch) = BodyFilter(h, r, in, ch)
  BY SendNextIs
<1> HIDE DEF in
<1>3. Good(h) /\ Loose(t, h) /\ h \in Connection /\ r \in 1 .. h.made
  BY <1>2, CalmGood
<1>4. Good(BodyFilter(h, r, in, ch)) /\ Loose(h, BodyFilter(h, r, in, ch))
  BY <1>1, <1>3, GoodBody
<1>5. Loose(t, BodyFilter(h, r, in, ch))
  BY <1>3, <1>4, LooseFacts
<1> QED  BY <1>2, <1>4, <1>5

-----------------------------------------------------------------------------
(* Finalization.                                                           *)

\* A step that changes at most some write event handlers.
Turned(t, u) ==
    /\ u \in Connection /\ SameRest(t, u) /\ SameSocket(t, u)
    /\ \A x \in Req :
         /\ u.q[x].st = t.q[x].st /\ u.q[x].parent = t.q[x].parent
         /\ u.q[x].kind = t.q[x].kind /\ u.q[x].done = t.q[x].done
         /\ u.q[x].post = t.q[x].post /\ u.q[x].hook = t.q[x].hook
         /\ u.q[x].postponed = t.q[x].postponed
         /\ SameHook(t.q[x], u.q[x])

LEMMA TurnedGood ==
    ASSUME NEW t \in Connection, NEW u, Turned(t, u), Good(t),
           \A x \in Req : \/ u.q[x].weh = t.q[x].weh
                          \/ u.q[x].weh \in {"empty", "downstream"}
                          \/ u.q[x].weh # "handler" /\ u.q[x].weh # "terminate" /\ t.q[x].st = "over"
    PROVE  Good(u)
<1>1. /\ u \in Connection /\ u.made = t.made /\ u.run = t.run /\ u.posted = t.posted
      /\ u.closed = t.closed /\ u.count = t.count /\ u.subrequests = t.subrequests
      /\ SameTree(t, u)
  BY DEF Turned, SameRest, SameTree
<1>2. Rows(u)
  <2> SUFFICES ASSUME NEW x \in Req PROVE Row(u, x)
    BY DEF Rows
  <2>1. Row(t, x)
    BY DEF Good, Rows
  <2>2. t.q[x].post => u.q[t.q[x].parent].st = t.q[t.q[x].parent].st
    <3>1. t.q[x].post => t.q[x].parent \in Req
      BY <2>1, MadeFacts, ParentFacts DEF Row, Good
    <3> QED  BY <3>1 DEF Turned
  <2>3. /\ u.q[x].st = t.q[x].st /\ u.q[x].parent = t.q[x].parent
        /\ u.q[x].kind = t.q[x].kind /\ u.q[x].done = t.q[x].done
        /\ u.q[x].post = t.q[x].post /\ u.q[x].hook = t.q[x].hook
        /\ u.q[x].postponed = t.q[x].postponed
    BY DEF Turned
  <2> QED  BY <1>1, <2>1, <2>2, <2>3, ZenonT(30) DEF Row
<1>3. Counts(u)
  <2>1. OpenOf(u) = OpenOf(t) /\ HookedOf(u) = HookedOf(t) /\ u.q[Main].done = t.q[Main].done
    BY MainIn, ZenonT(30) DEF OpenOf, HookedOf, Turned
  <2> QED  BY <1>1, <2>1 DEF Counts, Good
<1>4. Tree(u)
  <2>1. PICK P \in SUBSET Req : TreeAt(t, P)
    BY TreeIs DEF Good
  <2> QED  BY <1>1, <2>1, SameTreeAt, TreeIs DEF Good
<1>5. Side(u)
  BY <1>1 DEF Side, Good, Turned, SameHook
<1>6. ~u.closed /\ Reach(u)
  BY <1>1 DEF Good, Reach
<1> QED  BY <1>2, <1>3, <1>4, <1>5, <1>6 DEF Good

RowTo(a, w, c) == [a EXCEPT !.weh = w, !.status = c]

LEMMA RowWeh ==
    ASSUME NEW a \in Request, NEW w \in Wehs, NEW c \in Codes
    PROVE  /\ RowTo(a, w, c) \in Request /\ RowTo(a, w, c).weh = w
           /\ RowTo(a, w, c).st = a.st /\ RowTo(a, w, c).parent = a.parent
           /\ RowTo(a, w, c).kind = a.kind /\ RowTo(a, w, c).done = a.done
           /\ RowTo(a, w, c).post = a.post /\ RowTo(a, w, c).hook = a.hook
           /\ RowTo(a, w, c).postponed = a.postponed
           /\ SameHook(a, RowTo(a, w, c))
BY RequestIs DEF SameHook, RowTo

\* The write event handler of r, and its status.
WithWeh(t, r, w, c) == [t EXCEPT !.q[r].weh = w, !.q[r].status = c]

LEMMA WithWehFacts ==
    ASSUME NEW t \in Connection, NEW r \in Req, NEW w \in Wehs, NEW c \in Codes
    PROVE  /\ Turned(t, WithWeh(t, r, w, c))
           /\ WithWeh(t, r, w, c).q[r].weh = w
           /\ \A x \in Req \ {r} : WithWeh(t, r, w, c).q[x] = t.q[x]
<1> DEFINE row == RowTo(t.q[r], w, c)
           u == WithWeh(t, r, w, c)
<1>1. t.q[r] \in Request
  BY Parts
<1>2. u = Put(t, r, row)
  BY DEF WithWeh, Put, Connection, RowTo
<1>3. /\ row \in Request /\ row.weh = w /\ row.st = t.q[r].st /\ row.parent = t.q[r].parent
      /\ row.kind = t.q[r].kind /\ row.done = t.q[r].done /\ row.post = t.q[r].post
      /\ row.hook = t.q[r].hook /\ row.postponed = t.q[r].postponed
      /\ SameHook(t.q[r], row)
  BY <1>1, RowWeh
<1> HIDE DEF row, u
<1>4. /\ u \in Connection /\ u.q[r] = row /\ SameRest(t, u) /\ SameSocket(t, u)
      /\ \A x \in Req \ {r} : u.q[x] = t.q[x]
  BY <1>2, <1>3, PutFacts DEF SameSocket
<1>5. Turned(t, u)
  BY <1>3, <1>4 DEF Turned, SameHook
<1> QED  BY <1>3, <1>4, <1>5 DEF u

\* Setting the write event handler alone.
LEMMA SetWehIs ==
    ASSUME NEW t \in Connection, NEW r \in Req, NEW w
    PROVE  /\ [t EXCEPT !.q[r].weh = w] = WithWeh(t, r, w, t.q[r].status)
           /\ t.q[r].status \in Codes
<1>1. t.q[r] \in Request /\ t.q \in [Req -> Request]
  BY Parts
<1>2. [t.q[r] EXCEPT !.weh = w] = [t.q[r] EXCEPT !.weh = w, !.status = t.q[r].status]
  BY <1>1, RequestIs
<1>3. [t EXCEPT !.q[r].weh = w] = Put(t, r, [t.q[r] EXCEPT !.weh = w])
  BY DEF Put
<1>4. WithWeh(t, r, w, t.q[r].status)
        = Put(t, r, [t.q[r] EXCEPT !.weh = w, !.status = t.q[r].status])
  BY DEF Put, WithWeh, Connection
<1> QED  BY <1>1, <1>2, <1>3, <1>4, RowParts

\* A request whose handler is over gets another write event handler; or there is none.
LEMMA WehGood ==
    ASSUME NEW t \in Connection, Good(t), NEW r \in 1 .. t.made, NEW w \in Wehs, NEW c \in Codes,
           \/ w \in {"empty", "downstream"}
           \/ w \in {"writer", "finalizer", "parent_post"} /\ t.q[r].st = "over"
    PROVE  Good(WithWeh(t, r, w, c)) /\ Turned(t, WithWeh(t, r, w, c))
<1> DEFINE u == WithWeh(t, r, w, c)
<1>1. r \in Req
  BY MadeFacts
<1>2. Turned(t, u) /\ u.q[r].weh = w /\ \A x \in Req \ {r} : u.q[x] = t.q[x]
  BY <1>1, WithWehFacts
<1> HIDE DEF u
<1>3. Good(u)
  BY <1>2, TurnedGood
<1> QED  BY <1>2, <1>3 DEF u

\* The subrequest is over and its parent is to be called.
LEMMA SubPostGood ==
    ASSUME NEW t \in Connection, Good(t), NEW r \in 1 .. t.made, t.q[r].post, NEW rc
    PROVE  Good(SubPost(t, r, rc)) /\ Turned(t, SubPost(t, r, rc))
<1> DEFINE p == t.q[r].parent
           c == IF t.q[p].status # 0 THEN t.q[p].status ELSE IF rc = "OK" THEN 200 ELSE 500
<1>1. r \in 2 .. t.made /\ t.q[p].st = "over"
  <2>1. r \in Req
    BY MadeFacts
  <2>2. r # Main /\ r <= t.made /\ t.q[p].st = "over"
    BY <2>1 DEF Good, Rows, Row
  <2> QED  BY <2>1, <2>2, MadeFacts
<1>2. p \in Req /\ p \in 1 .. t.made
  <2>1. p \in Req /\ p \in 1 .. r - 1 /\ t.made \in Nat
    BY <1>1, ParentFacts, MadeFacts DEF Good
  <2> QED  BY <1>1, <2>1
<1>3. c \in Codes
  BY <1>2, Parts, RowParts, NamesIn, ZenonT(30)
<1>4. SubPost(t, r, rc) = WithWeh(t, p, "parent_post", c)
  BY DEF SubPost, WithWeh
<1> HIDE DEF c
<1>5. "parent_post" \in Wehs
  BY NamesIn
<1> QED  BY <1>1, <1>2, <1>3, <1>4, <1>5, WehGood

\* Another queue of posted requests.
WithPosted(t, l) == [t EXCEPT !.posted = l]

LEMMA SetPosted ==
    ASSUME NEW t \in Connection, NEW l \in Seq(Req)
    PROVE  /\ WithPosted(t, l) \in Connection /\ WithPosted(t, l).q = t.q
           /\ WithPosted(t, l).made = t.made /\ WithPosted(t, l).run = t.run
           /\ WithPosted(t, l).posted = l /\ WithPosted(t, l).data = t.data
           /\ WithPosted(t, l).closed = t.closed /\ WithPosted(t, l).count = t.count
           /\ WithPosted(t, l).subrequests = t.subrequests
           /\ WithPosted(t, l).stalled = t.stalled
           /\ SameSocket(t, WithPosted(t, l))
BY ZenonT(30) DEF Connection, WithPosted, SameSocket

\* A request is posted.
LEMMA GoodPost ==
    ASSUME NEW t \in Connection, Good(t), NEW c \in 1 .. t.made
    PROVE  /\ Good(Post(t, c)) /\ Post(t, c) \in Connection
           /\ Post(t, c).run = t.run /\ Post(t, c).made = t.made /\ Post(t, c).q = t.q
<1> DEFINE u == Post(t, c)
           l == Append(t.posted, c)
<1>1. c \in Req /\ c <= t.made /\ t.posted \in Seq(Req) /\ t.made \in Nat
  BY MadeFacts, Parts
<1>2. l \in Seq(Req)
  BY <1>1, AppendProperties
<1>9. \A i \in DOMAIN l : l[i] <= t.made
  BY <1>1, AppendBound DEF Good, Reach
<1>3. u = [t EXCEPT !.posted = l]
  BY DEF Post
<1> HIDE DEF u, l
<1>4. /\ u \in Connection /\ u.q = t.q /\ u.made = t.made /\ u.run = t.run /\ u.posted = l
      /\ u.data = t.data /\ u.closed = t.closed /\ u.count = t.count
      /\ u.subrequests = t.subrequests
  BY <1>2, <1>3, SetPosted DEF WithPosted
<1>5. Rows(u) /\ Side(u)
  <2>1. ASSUME NEW x \in Req PROVE Row(u, x)
    <3>1. Row(t, x)
      BY DEF Good, Rows
    <3> QED  BY <1>4, <3>1 DEF Row
  <2> QED  BY <1>4, <2>1 DEF Good, Rows, Side
<1>6. Tree(u)
  <2>1. PICK P \in SUBSET Req : TreeAt(t, P)
    BY TreeIs DEF Good
  <2>2. SameTree(t, u)
    BY <1>4 DEF SameTree
  <2> QED  BY <1>4, <2>1, <2>2, SameTreeAt, TreeIs DEF Good
<1>7. Counts(u)
  BY <1>4 DEF Good, Counts, OpenOf, HookedOf
<1>8. ~u.closed /\ Reach(u)
  BY <1>4, <1>9 DEF Good, Reach
<1> QED  BY <1>4, <1>5, <1>6, <1>7, <1>8 DEF Good, u

-----------------------------------------------------------------------------
(* The active subrequest leaves.                                           *)

\* Two rows, the active request and the counters of a connection are set.
LeaveTo(t, r, p, a, b, c, n) ==
    [t EXCEPT !.q = [t.q EXCEPT ![r] = a, ![p] = b], !.data = p, !.count = c,
              !.subrequests = n]

LeaveSays(t, u, r, p, a, b, c, n) ==
    /\ u \in Connection /\ u.q[r] = a /\ u.q[p] = b
    /\ \A x \in Req \ {r, p} : u.q[x] = t.q[x]
    /\ u.made = t.made /\ u.data = p /\ u.posted = t.posted /\ u.count = c
    /\ u.subrequests = n /\ u.run = t.run /\ u.closed = t.closed /\ u.stalled = t.stalled
    /\ SameSocket(t, u)

LEMMA LeaveToFacts ==
    ASSUME NEW t \in Connection, NEW r \in Req, NEW p \in Req, r # p, NEW a \in Request,
           NEW b \in Request, NEW c \in 0 .. 255, NEW n \in 0 .. build.limit
    PROVE  LeaveSays(t, LeaveTo(t, r, p, a, b, c, n), r, p, a, b, c, n)
<1> DEFINE u == LeaveTo(t, r, p, a, b, c, n)
<1>1. /\ u \in Connection /\ u.q[r] = a /\ u.q[p] = b
      /\ \A x \in Req \ {r, p} : u.q[x] = t.q[x]
      /\ u.made = t.made /\ u.data = p /\ u.posted = t.posted /\ u.count = c
      /\ u.subrequests = n /\ u.run = t.run /\ u.closed = t.closed /\ u.stalled = t.stalled
      /\ u.buffered = t.buffered /\ u.full = t.full
  BY ZenonT(30) DEF Connection, LeaveTo
<1> HIDE DEF u
<1>2. LeaveSays(t, u, r, p, a, b, c, n)
  BY <1>1 DEF LeaveSays, SameSocket
<1> QED  BY <1>2 DEF u

LEMMA RowDone ==
    ASSUME NEW a \in Request, NEW d \in BOOLEAN
    PROVE  /\ [a EXCEPT !.done = d] \in Request
           /\ [a EXCEPT !.done = d].done = d
           /\ [a EXCEPT !.done = d].st = a.st /\ [a EXCEPT !.done = d].parent = a.parent
           /\ [a EXCEPT !.done = d].kind = a.kind /\ [a EXCEPT !.done = d].weh = a.weh
           /\ [a EXCEPT !.done = d].post = a.post /\ [a EXCEPT !.done = d].hook = a.hook
           /\ [a EXCEPT !.done = d].postponed = a.postponed
           /\ SameHook(a, [a EXCEPT !.done = d])
BY RequestIs DEF SameHook

\* r heads the list of its parent p, whose list l is without it then.
Unlisted(t, r, p, l) ==
    \/ /\ t.q[p].postponed # <<>> /\ Head(t.q[p].postponed) = Sub(r)
       /\ l = Tail(t.q[p].postponed)
    \/ /\ ~(t.q[p].postponed # <<>> /\ Head(t.q[p].postponed) = Sub(r))
       /\ l = t.q[p].postponed

\* The numbers of the requests that are open and of those the data hook left.
LEMMA CountTypes ==
    ASSUME NEW t \in Connection
    PROVE  /\ IsFiniteSet(OpenOf(t)) /\ Cardinality(OpenOf(t)) \in Nat
           /\ IsFiniteSet(HookedOf(t)) /\ Cardinality(HookedOf(t)) \in Nat
<1>1. IsFiniteSet(Req)
  <2>1. 1 \in Int /\ NReq \in Int
    BY RequestsAssumption
  <2> QED  BY <2>1, FS_Interval DEF Req
<1>2. OpenOf(t) \subseteq Req /\ HookedOf(t) \subseteq Req
  BY DEF OpenOf, HookedOf
<1> QED  BY <1>1, <1>2, FS_Subset, FS_CardinalityType

\* What Leave does, field by field.
Left(t, u, r, p) ==
    /\ u \in Connection /\ u.made = t.made /\ u.posted = t.posted /\ u.run = t.run
    /\ u.closed = t.closed /\ u.stalled = t.stalled /\ SameSocket(t, u)
    /\ u.data = p /\ u.count = (t.count + 255) % 256 /\ u.subrequests = t.subrequests + 1
    /\ u.q[r].done /\ Unlisted(t, r, p, u.q[p].postponed)
    /\ \A x \in Req :
         /\ u.q[x].st = t.q[x].st /\ u.q[x].parent = t.q[x].parent
         /\ u.q[x].kind = t.q[x].kind /\ u.q[x].weh = t.q[x].weh
         /\ u.q[x].post = t.q[x].post /\ u.q[x].hook = t.q[x].hook
         /\ SameHook(t.q[x], u.q[x])
         /\ x # r => u.q[x].done = t.q[x].done
         /\ x # p => u.q[x].postponed = t.q[x].postponed

LEMMA LeaveIs ==
    ASSUME NEW t \in Connection, Good(t), NEW r \in 2 .. t.made, ~t.q[r].done
    PROVE  Left(t, Leave(t, r), r, t.q[r].parent)
<1> DEFINE p == t.q[r].parent
           first == t.q[p].postponed # <<>> /\ Head(t.q[p].postponed) = Sub(r)
           l == IF first THEN Tail(t.q[p].postponed) ELSE t.q[p].postponed
           yes == TRUE
           a == [t.q[r] EXCEPT !.done = yes]
           b == [t.q[p] EXCEPT !.postponed = l]
           c == (t.count + 255) % 256
           n == t.subrequests + 1
           u == Leave(t, r)
<1>1. r \in Req /\ p \in Req /\ p # r /\ t.q[r] \in Request /\ t.q[p] \in Request
  <2>1. r \in Req /\ p \in Req /\ p \in 1 .. r - 1
    BY ParentFacts DEF Good
  <2>2. p # r
    BY <2>1, MadeFacts
  <2> QED  BY <2>1, <2>2, Parts
<1>2. c \in 0 .. 255
  BY Parts, Byte, ZenonT(30)
<1>3. n \in 0 .. build.limit
  <2>1. r \in OpenOf(t)
    <3>1. r # Main /\ r <= t.made
      BY MadeFacts DEF Main
    <3>2. t.q[r].st # "none"
      BY <1>1, <3>1 DEF Good, Rows, Row
    <3> QED  BY <1>1, <3>1, <3>2 DEF OpenOf
  <2>2. Cardinality(OpenOf(t)) # 0
    BY <2>1, CountTypes, FS_EmptySet
  <2>3. t.subrequests \in Nat
    BY Parts
  <2> DEFINE o == Cardinality(OpenOf(t))
  <2>4. o \in Nat /\ o # 0 /\ t.subrequests + o = build.limit /\ build.limit \in 1 .. 255
    BY <2>2, CountTypes DEF Good, Counts
  <2> HIDE DEF o
  <2> QED  BY <2>3, <2>4
<1>4. l \in Items
  <2>1. t.q[p].postponed \in Seq(Item)
    BY <1>1, RowParts
  <2> QED  BY <2>1, HeadTailProperties DEF Items
<1>5. u = LeaveTo(t, r, p, a, b, c, n)
  <2>1. t.q \in [Req -> Request]
    BY Parts
  <2>2. Leave(t, r) = [t EXCEPT !.count = c, !.subrequests = n, !.q[r].done = yes, !.data = p,
                                !.q[p].postponed = IF first THEN Tail(@) ELSE @]
    BY DEF Leave, Sub
  <2> HIDE DEF c, n, p, first, yes
  <2> QED  BY <1>1, <2>1, <2>2, ZenonT(30) DEF LeaveTo, Connection
<1>6. Unlisted(t, r, p, l)
  BY DEF Unlisted
<1>7. yes \in BOOLEAN /\ yes
  OBVIOUS
<1> HIDE DEF l, c, n, yes
<1>8. /\ a \in Request /\ a.done = yes /\ a.st = t.q[r].st /\ a.parent = t.q[r].parent
      /\ a.kind = t.q[r].kind /\ a.weh = t.q[r].weh /\ a.post = t.q[r].post
      /\ a.hook = t.q[r].hook /\ a.postponed = t.q[r].postponed
      /\ SameHook(t.q[r], a)
  BY <1>1, <1>7, RowDone, ZenonT(30)
<1>9. /\ b \in Request /\ SameRow(t.q[p], b) /\ b.postponed = l /\ SameHook(t.q[p], b)
  BY <1>1, <1>4, RowPostponed
<1> HIDE DEF a, b, u, p
<1>10. /\ u \in Connection /\ u.q[r] = a /\ u.q[p] = b
       /\ \A x \in Req \ {r, p} : u.q[x] = t.q[x]
       /\ u.made = t.made /\ u.data = p /\ u.posted = t.posted /\ u.count = c
       /\ u.subrequests = n /\ u.run = t.run /\ u.closed = t.closed /\ u.stalled = t.stalled
       /\ SameSocket(t, u)
  <2>1. u = LeaveTo(t, r, p, a, b, c, n) /\ a \in Request /\ b \in Request /\ r # p
    BY <1>1, <1>5, <1>8, <1>9
  <2>2. LeaveSays(t, u, r, p, a, b, c, n)
    BY <1>1, <1>2, <1>3, <2>1, LeaveToFacts
  <2> QED  BY <2>2 DEF LeaveSays
<1>11. /\ u.count = (t.count + 255) % 256 /\ u.subrequests = t.subrequests + 1
       /\ u.q[r].done /\ Unlisted(t, r, p, u.q[p].postponed)
  BY <1>6, <1>7, <1>8, <1>9, <1>10 DEF c, n
<1>12. ASSUME NEW x \in Req
       PROVE  /\ u.q[x].st = t.q[x].st /\ u.q[x].parent = t.q[x].parent
              /\ u.q[x].kind = t.q[x].kind /\ u.q[x].weh = t.q[x].weh
              /\ u.q[x].post = t.q[x].post /\ u.q[x].hook = t.q[x].hook
              /\ SameHook(t.q[x], u.q[x])
              /\ x # r => u.q[x].done = t.q[x].done
              /\ x # p => u.q[x].postponed = t.q[x].postponed
  <2>1. CASE x = r
    BY <1>1, <1>8, <1>10, <2>1
  <2>2. CASE x = p
    BY <1>1, <1>9, <1>10, <2>2 DEF SameRow
  <2>3. CASE x \notin {r, p}
    BY <1>10, <2>3 DEF SameHook
  <2> QED  BY <2>1, <2>2, <2>3
<1>13. Left(t, u, r, p)
  BY <1>10, <1>11, <1>12 DEF Left
<1> QED  BY <1>13 DEF u, p

LEMMA LeaveTree ==
    ASSUME NEW t \in Connection, NEW u, Good(t), NEW r \in 2 .. t.made, ~t.q[r].done,
           r = t.data, t.q[r].postponed = <<>>, Left(t, u, r, t.q[r].parent)
    PROVE  Tree(u)
<1> DEFINE p == t.q[r].parent
           old == t.q[p].postponed
           new == u.q[p].postponed
<1>1. PICK P \in SUBSET Req : TreeAt(t, P)
  BY TreeIs DEF Good
<1> DEFINE Q == P \ {r}
<1>2. r \in Req /\ p \in Req /\ p \in 1 .. r - 1 /\ p # r /\ Rows(t) /\ r # Main
  <2>1. r \in Req /\ p \in Req /\ p \in 1 .. r - 1
    BY ParentFacts DEF Good
  <2>2. p # r /\ r # Main
    <3>1. r \in Nat /\ r # Main
      BY MadeSubs, ZenonT(30)
    <3> HIDE DEF p
    <3> QED  BY <2>1, <3>1
  <2> QED  BY <2>1, <2>2 DEF Good
<1>3. /\ u \in Connection /\ u.made = t.made /\ u.data = p /\ u.q[r].done
      /\ Unlisted(t, r, p, new)
      /\ \A x \in Req : /\ u.q[x].parent = t.q[x].parent
                        /\ x # r => u.q[x].done = t.q[x].done
                        /\ x # p => u.q[x].postponed = t.q[x].postponed
  BY DEF Left
<1>4. Path(t, P) /\ t.q[r].parent = p
  BY <1>1 DEF TreeAt
<1> HIDE DEF p
<1>5. Path(u, Q)
  <2>1. r \in P /\ p \in P /\ P \subseteq Nat /\ r \in Nat
    BY <1>2, <1>4, MadeFacts DEF Path
  <2>2. \A x \in Q : x <= p
    <3> SUFFICES ASSUME NEW x \in Q PROVE x <= p
      OBVIOUS
    <3>1. x \in P /\ x # r /\ x <= r /\ x \in Nat /\ (x <= p \/ r <= x)
      BY <1>2, <1>4, <2>1 DEF Path
    <3> QED  BY <2>1, <3>1
  <2>3. ASSUME NEW c \in Q \ {Main}
        PROVE  /\ u.q[c].parent \in Q /\ ~u.q[c].done
               /\ \A x \in Q : x <= u.q[c].parent \/ c <= x
    <3>1. /\ t.q[c].parent \in P /\ ~t.q[c].done /\ c \in P /\ c # r /\ c <= r
          /\ \A x \in P : x <= t.q[c].parent \/ c <= x
      BY <1>4, <2>3 DEF Path
    <3>2. c \in 2 .. t.made
      BY <1>1, <1>4, <2>3, MadeFacts DEF Path
    <3>3. t.q[c].parent \in 1 .. c - 1
      BY <1>2, <3>2, ParentFacts
    <3>4. t.q[c].parent # r
      BY <2>1, <3>1, <3>2, <3>3
    <3> QED  BY <1>1, <1>3, <3>1, <3>4
  <2>4. Main \in Q /\ p \in Q /\ Q \subseteq 1 .. u.made
    BY <1>2, <1>3, <1>4, <2>1 DEF Path
  <2> HIDE DEF Q
  <2> QED  BY <1>3, <2>2, <2>3, <2>4 DEF Path
\* The list of the parent: what it keeps, and where it was.
<1>6. old \in Seq(Item) /\ DOMAIN old = 1 .. Len(old) /\ Len(old) \in Nat
  BY <1>2, Parts, RowParts, LenProperties DEF old
<1> HIDE DEF old, new
<1>7. ASSUME old # <<>>, Head(old) = Sub(r), new = Tail(old)
      PROVE  /\ DOMAIN new = 1 .. Len(old) - 1 /\ old[1] = Sub(r)
             /\ \A i \in 1 .. Len(old) - 1 : new[i] = old[i + 1] /\ i + 1 \in DOMAIN old /\ i + 1 # 1
  <2>1. /\ Tail(old) \in Seq(Item) /\ Len(Tail(old)) = Len(old) - 1
        /\ \A i \in 1 .. Len(old) - 1 : Tail(old)[i] = old[i + 1]
        /\ Head(old) = old[1]
    <3>1. old \in Seq(Item) /\ old # <<>>
      BY <1>6, <1>7
    <3> QED  BY <3>1, HeadTailProperties
  <2>2. DOMAIN Tail(old) = 1 .. Len(old) - 1
    BY <2>1, LenProperties
  <2>3. \A i \in 1 .. Len(old) - 1 : i + 1 \in DOMAIN old /\ i + 1 # 1
    BY <1>6
  <2> QED  BY <1>7, <2>1, <2>2, <2>3
<1>8. ASSUME NEW j \in DOMAIN old, old[j].n = 0, old[j].by = r
      PROVE  old # <<>> /\ Head(old) = Sub(r) /\ j = 1
  <2>1. Waiting(t, P, p, j) /\ r \in P
    BY <1>1, <1>2, <1>4 DEF TreeAt, Path, old
  <2>2. j = 1
    BY <1>8, <2>1 DEF Waiting, old
  <2>3. old # <<>>
    BY <1>6
  <2>4. Head(old) = old[1] /\ old[1] \in Item
    BY <1>6, <2>2, <2>3, HeadTailProperties, ElementOfSeq
  <2>5. old[1] = Sub(r)
    BY <1>8, <2>2, <2>4, ZenonT(30) DEF Item, Sub
  <2> QED  BY <2>2, <2>3, <2>4, <2>5
<1>9. ASSUME NEW i \in DOMAIN new, new[i].n = 0
      PROVE  \E j \in DOMAIN old : /\ new[i] = old[j] /\ (old[j].by \in Q => i = 1) /\ old[j].by # r
                                   /\ \A k \in DOMAIN new : new[k].n = 0 /\ new[k].by = new[i].by => i = k
                                   /\ Waiting(t, P, p, j)
  <2>1. CASE old # <<>> /\ Head(old) = Sub(r) /\ new = Tail(old)
    <3>1. /\ DOMAIN new = 1 .. Len(old) - 1 /\ old[1] = Sub(r)
          /\ \A k \in 1 .. Len(old) - 1 : new[k] = old[k + 1] /\ k + 1 \in DOMAIN old /\ k + 1 # 1
      BY <1>7, <2>1
    <3>2. i \in 1 .. Len(old) - 1 /\ i + 1 \in DOMAIN old /\ new[i] = old[i + 1] /\ i + 1 # 1
      BY <3>1
    <3>3. Waiting(t, P, p, i + 1)
      BY <1>1, <1>2, <3>2, ZenonT(30) DEF TreeAt, old
    <3>4. old[i + 1].n = 0 /\ old[i + 1].by \notin P
      BY <1>9, <3>2, <3>3 DEF Waiting, old
    <3>5. old[i + 1].by # r
      BY <1>4, <3>4 DEF Path
    <3>6. ASSUME NEW k \in DOMAIN new, new[k].n = 0, new[k].by = new[i].by PROVE i = k
      <4>1. k \in 1 .. Len(old) - 1 /\ k + 1 \in DOMAIN old /\ new[k] = old[k + 1]
        BY <3>1, ZenonT(30)
      <4>2. i + 1 = k + 1
        BY <3>2, <3>3, <3>4, <3>6, <4>1 DEF Waiting, old
      <4> QED  BY <3>2, <4>1, <4>2
    <3> QED  BY <3>2, <3>3, <3>4, <3>5, <3>6
  <2>2. CASE ~(old # <<>> /\ Head(old) = Sub(r)) /\ new = old
    <3>1. Waiting(t, P, p, i) /\ i \in DOMAIN old /\ new[i] = old[i] /\ old[i].n = 0
      BY <1>1, <1>2, <1>9, <2>2 DEF TreeAt, old
    <3>2. old[i].by # r
      BY <1>8, <2>2, <3>1, ZenonT(30)
    <3>3. /\ old[i].by \in P => i = 1
          /\ \A k \in DOMAIN old : old[k].n = 0 /\ old[k].by = old[i].by => i = k
      BY <3>1 DEF Waiting, old
    <3> QED  BY <2>2, <3>1, <3>2, <3>3
  <2> QED  BY <1>3, <2>1, <2>2 DEF Unlisted, old
<1>10. ASSUME NEW c \in 2 .. u.made PROVE Reached(u, Q, c)
  <2> SUFFICES ASSUME ~u.q[c].done
               PROVE  /\ c \in Q \/ Listed(u, u.q[c].parent, c)
                      /\ u.q[c].parent = Main \/ ~u.q[u.q[c].parent].done
    BY DEF Reached
  <2>1. /\ c \in 2 .. t.made /\ c \in Req /\ t.q[c].parent \in Req /\ t.q[c].parent \in 1 .. c - 1
        /\ c # r /\ ~t.q[c].done /\ u.q[c].parent = t.q[c].parent
    BY <1>2, <1>3, <1>10, ParentFacts
  <2>2. /\ c \in P \/ Listed(t, t.q[c].parent, c)
        /\ t.q[c].parent = Main \/ ~t.q[t.q[c].parent].done
    BY <1>1, <2>1 DEF TreeAt, Reached
  <2>3. t.q[c].parent # r
    <3>1. c \in P => c <= r
      BY <1>4 DEF Path
    <3>2. ~Listed(t, r, c)
      BY DEF Listed
    <3> QED  BY <2>1, <2>2, <3>1, <3>2
  <2>4. u.q[t.q[c].parent].done = t.q[t.q[c].parent].done
    BY <1>3, <2>1, <2>3
  <2>5. ASSUME t.q[c].parent = p, Listed(t, p, c) PROVE Listed(u, p, c)
    <3>1. PICK j \in DOMAIN old : old[j] = Sub(c)
      BY <2>5 DEF Listed, old
    <3>2. CASE old # <<>> /\ Head(old) = Sub(r) /\ new = Tail(old)
      <4>1. /\ DOMAIN new = 1 .. Len(old) - 1 /\ old[1] = Sub(r)
            /\ \A k \in 1 .. Len(old) - 1 : new[k] = old[k + 1]
        BY <1>7, <3>2
      <4>2. j # 1
        <5>1. Sub(c).by = c /\ Sub(r).by = r
          BY DEF Sub
        <5> QED  BY <2>1, <3>1, <4>1, <5>1
      <4>3. j - 1 \in 1 .. Len(old) - 1 /\ (j - 1) + 1 = j
        <5>1. j \in 1 .. Len(old)
          BY <1>6, <3>1
        <5> QED  BY <1>6, <4>2, <5>1
      <4>4. new[j - 1] = Sub(c)
        BY <3>1, <4>1, <4>3, ZenonT(30)
      <4> QED  BY <4>1, <4>3, <4>4 DEF Listed, new
    <3>3. CASE new = old
      BY <2>5, <3>3, ZenonT(30) DEF Listed, old, new
    <3> QED  BY <1>3, <3>2, <3>3 DEF Unlisted, old
  <2>6. t.q[c].parent # p /\ Listed(t, t.q[c].parent, c) => Listed(u, t.q[c].parent, c)
    BY <1>3, <2>1 DEF Listed
  <2> QED  BY <2>1, <2>2, <2>4, <2>5, <2>6
<1>11. ASSUME NEW x \in Req, NEW i \in DOMAIN u.q[x].postponed PROVE Waiting(u, Q, x, i)
  <2>1. CASE x # p
    <3>1. Waiting(t, P, x, i) /\ u.q[x].postponed = t.q[x].postponed
      BY <1>1, <1>3, <2>1, ZenonT(30) DEF TreeAt
    <3>2. \A d \in 2 .. t.made : /\ d \in Req /\ (t.q[d].parent = x => d # r)
                                 /\ d \in Q => d \in P
      BY <1>4, <2>1, MadeSubs, ZenonT(30)
    <3> HIDE DEF Q
    <3> QED  BY <1>3, <3>1, <3>2, WaitingStays
  <2>2. CASE x = p
    <3> SUFFICES ASSUME new[i].n = 0 PROVE Waiting(u, Q, p, i)
      BY <2>2 DEF Waiting, new
    <3>1. PICK j \in DOMAIN old :
             /\ new[i] = old[j] /\ (old[j].by \in Q => i = 1) /\ old[j].by # r
             /\ \A k \in DOMAIN new : new[k].n = 0 /\ new[k].by = new[i].by => i = k
             /\ Waiting(t, P, p, j)
      BY <1>9, <2>2, ZenonT(30) DEF new
    <3> DEFINE d == old[j].by
    <3>2. d \in 2 .. t.made /\ t.q[d].parent = p /\ ~t.q[d].done
      BY <3>1 DEF Waiting, old
    <3>3. d \in Req
      BY <3>2, MadeFacts
    <3>4. new[i].by = d
      BY <3>1
    <3> HIDE DEF Q, d
    <3> QED  BY <1>3, <3>1, <3>2, <3>3, <3>4, ZenonT(30) DEF Waiting, new
  <2> QED  BY <2>1, <2>2
<1> QED  BY <1>5, <1>10, <1>11, TreeIs DEF TreeAt

\* The active request, when it is a subrequest, is not done.
LEMMA ActiveOpen ==
    ASSUME NEW t \in Connection, Good(t)
    PROVE  /\ t.data \in 1 .. t.made
           /\ t.data # Main => t.data \in 2 .. t.made /\ ~t.q[t.data].done
<1>1. PICK P \in SUBSET Req : TreeAt(t, P)
  BY TreeIs DEF Good
<1>2. t.data \in Req /\ t.data \in 1 .. t.made
  BY <1>1, Parts DEF TreeAt, Path
<1>3. t.data # Main => t.data \in 2 .. t.made
  BY <1>2 DEF Main
<1> QED  BY <1>1, <1>2, <1>3 DEF TreeAt, Path

LEMMA LessOne ==
    ASSUME NEW f \in Nat, NEW o \in Nat, NEW l \in 1 .. 255, f >= 1, f + o = l
    PROVE  (f + 1) + (o - 1) = l /\ f + 1 >= 1 /\ 1 + o < 256
OBVIOUS

LEMMA LeaveGood ==
    ASSUME NEW t \in Connection, Good(t), NEW r \in 2 .. t.made, r = t.data,
           t.q[r].postponed = <<>>, t.q[r].st = "over"
    PROVE  Good(Leave(t, r)) /\ Left(t, Leave(t, r), r, t.q[r].parent)
<1> DEFINE u == Leave(t, r)
           p == t.q[r].parent
<1>1. /\ ~t.q[r].done /\ r \in Req /\ r # Main /\ p \in Req /\ p \in 1 .. r - 1 /\ p # r
      /\ r <= t.made /\ p <= t.made
  <2>1. r # Main /\ r \in Req /\ p \in Req /\ p \in 1 .. r - 1 /\ t.made \in Nat /\ r \in Nat
    BY ParentFacts, MadeFacts DEF Good, Main
  <2>2. p # r /\ r <= t.made /\ p <= t.made
    BY <2>1
  <2> QED  BY <2>1, <2>2, ActiveOpen
<1>2. Left(t, u, r, p)
  BY <1>1, LeaveIs
<1> HIDE DEF u
<1>3. Tree(u)
  BY <1>1, <1>2, LeaveTree
<1>4. Rows(u)
  <2> SUFFICES ASSUME NEW x \in Req PROVE Row(u, x)
    BY DEF Rows
  <2>1. Row(t, x)
    BY ZenonT(30) DEF Good, Rows
  <2>2. t.q[x].post => u.q[t.q[x].parent].st = t.q[t.q[x].parent].st
    <3>1. t.q[x].post => t.q[x].parent \in Req
      BY <2>1, MadeFacts, ParentFacts, ZenonT(30) DEF Row, Good
    <3> QED  BY <1>2, <3>1, ZenonT(30) DEF Left
  <2>3. /\ u.q[x].st = t.q[x].st /\ u.q[x].parent = t.q[x].parent
        /\ u.q[x].kind = t.q[x].kind /\ u.q[x].weh = t.q[x].weh
        /\ u.q[x].post = t.q[x].post /\ u.q[x].hook = t.q[x].hook
        /\ x # r => u.q[x].done = t.q[x].done
        /\ x # p => u.q[x].postponed = t.q[x].postponed
        /\ u.made = t.made /\ u.run = t.run
    BY <1>2 DEF Left
  <2>4. x > t.made => x # r /\ x # p
    BY <1>1, MadeFacts
  <2> QED  BY <2>1, <2>2, <2>3, <2>4, ZenonT(30) DEF Row
<1>5. Side(u) /\ ~u.closed /\ Reach(u)
  <2>1. \A x \in Req : u.q[x].do_hook = t.q[x].do_hook /\ u.q[x].body = t.q[x].body
    BY <1>2, ZenonT(30) DEF Left, SameHook
  <2>2. u.made = t.made /\ u.run = t.run /\ u.posted = t.posted /\ u.closed = t.closed
    BY <1>2 DEF Left
  <2>3. Side(t) /\ Reach(t) /\ ~t.closed
    BY DEF Good
  <2> QED  BY <2>1, <2>2, <2>3, ZenonT(30) DEF Side, Reach
<1>6. Counts(u)
  <2>1. OpenOf(u) = OpenOf(t) \ {r}
    <3>1. u.q[r].done /\ \A x \in Req : /\ u.q[x].st = t.q[x].st
                                        /\ x # r => u.q[x].done = t.q[x].done
      BY <1>2, ZenonT(30) DEF Left
    <3> QED  BY <3>1, ZenonT(30) DEF OpenOf
  <2>2. HookedOf(u) = HookedOf(t)
    BY <1>2 DEF HookedOf, Left
  <2>3. r \in OpenOf(t)
    BY <1>1 DEF OpenOf
  <2> DEFINE o == Cardinality(OpenOf(t))
             n == Cardinality(HookedOf(t))
             c == t.count
             f == t.subrequests
             l == build.limit
  <2>4. Cardinality(OpenOf(u)) = o - 1 /\ o # 0
    BY <2>1, <2>3, CountTypes, FS_RemoveElement, FS_EmptySet, ZenonT(30)
  <2>5. o \in Nat /\ n \in Nat /\ f \in Nat /\ c \in 0 .. 255
    BY CountTypes, Parts
  <2>6. t.q[Main].done \/ (c + n) % 256 = 1 + o
    BY DEF Good, Counts
  <2>7. f + o = l /\ f >= 1 /\ l \in 1 .. 255
    BY DEF Good, Counts
  <2>8. /\ u.count = (c + 255) % 256 /\ u.subrequests = f + 1
        /\ u.q[Main].done = t.q[Main].done /\ Cardinality(HookedOf(u)) = n
    BY <1>1, <1>2, <2>2, MainIn DEF Left
  <2>11. l = build.limit
    OBVIOUS
  <2> HIDE DEF o, n, c, f, l
  <2>9. (f + 1) + (o - 1) = l /\ f + 1 >= 1 /\ 1 + o < 256
    BY <2>5, <2>7, LessOne
  <2>10. (c + n) % 256 = 1 + o => (((c + 255) % 256) + n) % 256 = 1 + (o - 1)
    <3>1. o # 0 /\ 1 + o < 256
      BY <2>4, <2>9
    <3> QED  BY <2>5, <3>1, CountMinus
  <2> QED  BY <2>4, <2>6, <2>7, <2>8, <2>9, <2>10, <2>11 DEF Counts
<1> QED  BY <1>2, <1>3, <1>4, <1>5, <1>6 DEF Good, u

\* A subrequest with nothing left to send is finalized.
LEMMA FinalizeSubGood ==
    ASSUME NEW t \in Connection, Good(t), NEW r \in 2 .. t.made,
           t.q[r].postponed = <<>>, t.q[r].st = "over"
    PROVE  /\ Good(FinalizeSub(t, r)) /\ FinalizeSub(t, r) \in Connection
           /\ FinalizeSub(t, r).run = t.run
<1> DEFINE p == t.q[r].parent
           v == IF r = t.data THEN Leave(t, r) ELSE [t EXCEPT !.q[r].weh = "finalizer"]
<1>1. r \in Req /\ r \in 1 .. t.made /\ p \in 1 .. t.made
  <2>1. r \in Req /\ p \in Req /\ p \in 1 .. r - 1 /\ t.made \in Nat
    BY ParentFacts, MadeFacts DEF Good
  <2> QED  BY <2>1
<1>2. Good(v) /\ v \in Connection /\ v.run = t.run /\ v.made = t.made
  <2>1. CASE r = t.data
    BY <2>1, LeaveGood DEF Left
  <2>2. CASE r # t.data
    <3>1. "finalizer" \in Wehs
      BY NamesIn
    <3>2. v = WithWeh(t, r, "finalizer", t.q[r].status) /\ t.q[r].status \in Codes
      BY <1>1, <2>2, SetWehIs
    <3> HIDE DEF v
    <3>3. Good(v) /\ Turned(t, v)
      BY <1>1, <3>1, <3>2, WehGood
    <3> QED  BY <3>3 DEF Turned, SameRest
  <2> QED  BY <2>1, <2>2
<1>3. FinalizeSub(t, r) = Post(v, p)
  BY DEF FinalizeSub
<1> HIDE DEF v, p
<1>4. p \in 1 .. v.made
  BY <1>1, <1>2
<1> QED  BY <1>2, <1>3, <1>4, GoodPost

\* The reference is given back.
Closes(t, u) ==
    /\ u \in Connection /\ u.q = t.q /\ u.made = t.made /\ u.data = t.data
    /\ u.posted = t.posted /\ u.subrequests = t.subrequests /\ u.run = t.run
    /\ u.stalled = t.stalled /\ SameSocket(t, u)
    /\ u.count = (t.count + 255) % 256 /\ (u.closed <=> t.count = 1)

CloseTo(t, a, c, d) == [t EXCEPT !.alert = a, !.count = c, !.closed = d]

CloseSays(t, u, c, d) ==
    /\ u \in Connection /\ u.q = t.q /\ u.made = t.made /\ u.data = t.data
    /\ u.posted = t.posted /\ u.subrequests = t.subrequests /\ u.run = t.run
    /\ u.stalled = t.stalled /\ SameSocket(t, u) /\ u.count = c /\ (u.closed <=> d)

LEMMA CloseToFacts ==
    ASSUME NEW t \in Connection, NEW a \in BOOLEAN, NEW c \in 0 .. 255, NEW d \in BOOLEAN
    PROVE  CloseSays(t, CloseTo(t, a, c, d), c, d)
BY ZenonT(30) DEF Connection, SameSocket, CloseTo, CloseSays

LEMMA CloseIs ==
    ASSUME NEW t \in Connection
    PROVE  Closes(t, CloseRequest(t))
<1> DEFINE c == (t.count + 255) % 256
           u == CloseRequest(t)
<1>1. c \in 0 .. 255
  BY Parts, Byte, ZenonT(30)
<1>2. PICK a \in BOOLEAN : a = (t.alert \/ t.count = 0)
  OBVIOUS
<1>3. PICK d \in BOOLEAN : d = (t.count = 1)
  OBVIOUS
<1>5. u = CloseTo(t, a, c, d)
  BY <1>2, <1>3 DEF CloseRequest, CloseTo
<1> HIDE DEF c, u
<1>4. CloseSays(t, u, c, d)
  BY <1>1, <1>5, CloseToFacts
<1> QED  BY <1>3, <1>4 DEF Closes, CloseSays, c, u

\* The main request is done.
MainDone(t) == [t EXCEPT !.q[Main].done = TRUE, !.q[Main].weh = "empty"]

RowEnds(a, d, w) == [a EXCEPT !.done = d, !.weh = w]

EndSays(a, b, d, w) ==
    /\ b \in Request /\ b.done = d /\ b.weh = w /\ b.st = a.st /\ b.parent = a.parent
    /\ b.kind = a.kind /\ b.post = a.post /\ b.hook = a.hook /\ b.postponed = a.postponed
    /\ SameHook(a, b)

LEMMA RowEnd ==
    ASSUME NEW a \in Request, NEW d \in BOOLEAN, NEW w \in Wehs
    PROVE  EndSays(a, RowEnds(a, d, w), d, w)
BY RequestIs DEF SameHook, RowEnds, EndSays

LEMMA MainDoneGood ==
    ASSUME NEW t \in Connection, Good(t), t.q[Main].st = "over"
    PROVE  /\ Good(MainDone(t)) /\ MainDone(t) \in Connection /\ MainDone(t).q[Main].done
           /\ SameRest(t, MainDone(t))
<1> DEFINE yes == TRUE
           w == "empty"
           a == t.q[Main]
           row == RowEnds(a, yes, w)
           u == MainDone(t)
<1>1. Main \in Req /\ t.q[Main] \in Request /\ w \in Wehs
  BY NamesIn, MainIn, Parts
<1>2. u = Put(t, Main, row)
  BY ZenonT(60) DEF MainDone, Put, Connection, RowEnds
<1>3. yes \in BOOLEAN /\ yes /\ w # "terminate" /\ w \notin {"handler", "writer", "finalizer", "parent_post"}
  OBVIOUS
<1> HIDE DEF yes, w
<1>4. /\ row \in Request /\ row.done = yes /\ row.weh = w /\ row.st = t.q[Main].st
      /\ row.parent = t.q[Main].parent /\ row.kind = t.q[Main].kind
      /\ row.post = t.q[Main].post /\ row.hook = t.q[Main].hook
      /\ row.postponed = t.q[Main].postponed /\ SameHook(t.q[Main], row)
  <2> HIDE DEF a
  <2>1. a \in Request
    BY <1>1 DEF a
  <2>2. EndSays(a, row, yes, w)
    BY <1>1, <1>3, <2>1, RowEnd
  <2> HIDE DEF row
  <2> QED  BY <2>2 DEF a, EndSays
<1> HIDE DEF row, u
<1>5. /\ u \in Connection /\ u.q[Main] = row /\ SameRest(t, u)
      /\ \A x \in Req \ {Main} : u.q[x] = t.q[x]
  BY <1>1, <1>2, <1>4, PutFacts
<1>6. ASSUME NEW x \in Req
      PROVE  /\ u.q[x].st = t.q[x].st /\ u.q[x].parent = t.q[x].parent
             /\ u.q[x].kind = t.q[x].kind /\ u.q[x].post = t.q[x].post
             /\ u.q[x].hook = t.q[x].hook /\ u.q[x].postponed = t.q[x].postponed
             /\ SameHook(t.q[x], u.q[x])
             /\ x # Main => u.q[x].done = t.q[x].done /\ u.q[x].weh = t.q[x].weh
  BY <1>4, <1>5 DEF SameHook
<1>7. Rows(u)
  <2> SUFFICES ASSUME NEW x \in Req PROVE Row(u, x)
    BY DEF Rows
  <2>1. Row(t, x)
    BY DEF Good, Rows
  <2>2. t.q[x].post => u.q[t.q[x].parent].st = t.q[t.q[x].parent].st
    <3>1. t.q[x].post => t.q[x].parent \in Req
      BY <2>1, MadeFacts, ParentFacts DEF Row, Good
    <3> QED  BY <1>6, <3>1
  <2>3. u.made = t.made /\ u.run = t.run
    BY <1>5 DEF SameRest
  <2>4. CASE x # Main
    BY <1>6, <2>1, <2>2, <2>3, <2>4 DEF Row
  <2>5. CASE x = Main
    <3>1. ~(Main > t.made)
      BY MadeFacts DEF Main
    <3> QED  BY <1>3, <1>4, <1>5, <1>6, <2>1, <2>2, <2>3, <2>5, <3>1, ZenonT(30) DEF Row
  <2> QED  BY <2>4, <2>5
<1>8. Tree(u)
  <2>1. PICK P \in SUBSET Req : TreeAt(t, P)
    BY TreeIs DEF Good
  <2>2. u.made = t.made /\ u.data = t.data
    BY <1>5 DEF SameRest
  <2>3. Path(u, P)
    BY <1>6, <2>1, <2>2 DEF TreeAt, Path
  <2>4. ASSUME NEW c \in 2 .. u.made PROVE Reached(u, P, c)
    <3>1. c \in 2 .. t.made /\ c \in Req /\ t.q[c].parent \in Req /\ c # Main
      BY <2>2, <2>4, ParentFacts DEF Good, Main
    <3>2. Reached(t, P, c)
      BY <2>1, <3>1 DEF TreeAt
    <3>3. Listed(t, t.q[c].parent, c) => Listed(u, t.q[c].parent, c)
      BY <1>6, <3>1 DEF Listed
    <3> QED  BY <1>6, <3>1, <3>2, <3>3 DEF Reached
  <2>5. ASSUME NEW x \in Req, NEW i \in DOMAIN u.q[x].postponed PROVE Waiting(u, P, x, i)
    <3>1. Waiting(t, P, x, i) /\ u.q[x].postponed = t.q[x].postponed
      BY <1>6, <2>1 DEF TreeAt
    <3> QED  BY <1>6, <2>2, <3>1, MadeSubs, WaitingStays
  <2> QED  BY <2>3, <2>4, <2>5, TreeIs DEF TreeAt
<1>9. Side(u) /\ ~u.closed /\ Reach(u)
  BY <1>5, <1>6 DEF Good, Side, Reach, SameHook, SameRest
<1>10. Counts(u)
  <2>1. OpenOf(u) = OpenOf(t) /\ HookedOf(u) = HookedOf(t)
    BY <1>6 DEF OpenOf, HookedOf
  <2>2. u.q[Main].done
    BY <1>3, <1>4, <1>5
  <2> QED  BY <1>5, <2>1, <2>2 DEF Counts, Good, SameRest
<1> QED  BY <1>3, <1>4, <1>5, <1>7, <1>8, <1>9, <1>10 DEF Good, u

LEMMA RowsStay ==
    ASSUME NEW t, NEW u, Rows(t), u.q = t.q, u.made = t.made, u.run = t.run
    PROVE  Rows(u)
<1> SUFFICES ASSUME NEW x \in Req PROVE Row(u, x)
  BY DEF Rows
<1>1. Row(t, x)
  BY DEF Rows
<1> QED  BY <1>1 DEF Row

\* A reference that is given back when the counters do not need it, or when it was one
\* too many, leaves a sound connection.
LEMMA CloseSound ==
    ASSUME NEW t \in Connection, Rows(t), Side(t), Reach(t), Tree(t), t.run = None,
           t.q[Main].done
             \/ (t.count + 255) % 256 = 0
             \/ (((t.count + 255) % 256) + Cardinality(HookedOf(t))) % 256
                  = 1 + Cardinality(OpenOf(t)),
           t.subrequests + Cardinality(OpenOf(t)) = build.limit,
           t.subrequests >= 1, build.limit \in 1 .. 255
    PROVE  Sound(CloseRequest(t))
<1> DEFINE u == CloseRequest(t)
<1>1. Closes(t, u)
  BY CloseIs
<1> HIDE DEF u
<1>2. u \in Connection /\ u.q = t.q /\ u.made = t.made /\ u.run = t.run
  BY <1>1 DEF Closes
<1>3. CASE t.count = 1
  BY <1>1, <1>3 DEF Closes, Sound, Dead, u
<1>4. CASE t.count # 1
  <2>1. (t.count + 255) % 256 # 0
    <3>1. t.count \in 0 .. 255
      BY Parts
    <3> QED  BY <1>4, <3>1
  <2>2. Rows(u) /\ Side(u) /\ Reach(u) /\ ~u.closed
    <3>1. Rows(u)
      BY <1>2, RowsStay
    <3> QED  BY <1>1, <1>4, <3>1 DEF Closes, Side, Reach
  <2>3. Tree(u)
    <3>1. PICK P \in SUBSET Req : TreeAt(t, P)
      BY TreeIs
    <3>2. SameTree(t, u)
      BY <1>1 DEF Closes, SameTree
    <3> QED  BY <1>2, <3>1, <3>2, SameTreeAt, TreeIs
  <2>4. Counts(u)
    <3>1. OpenOf(u) = OpenOf(t) /\ HookedOf(u) = HookedOf(t)
      BY <1>2 DEF OpenOf, HookedOf
    <3> QED  BY <1>1, <2>1, <3>1 DEF Counts, Closes
  <2> QED  BY <1>2, <2>2, <2>3, <2>4 DEF Good, Sound, u
<1> QED  BY <1>3, <1>4

TerminateTo(t, l, f) == [t EXCEPT !.posted = l, !.failed = f]

TerminateSays(t, u, l) ==
    u \in Connection /\ u.q = t.q /\ u.run = t.run /\ u.posted = l /\ u.stalled = t.stalled

LEMMA TerminateToFacts ==
    ASSUME NEW t \in Connection, NEW l \in Seq(Req), NEW f \in BOOLEAN
    PROVE  TerminateSays(t, TerminateTo(t, l, f), l)
BY ZenonT(30) DEF Connection, TerminateTo, TerminateSays

\* Error: the whole connection is terminated.
LEMMA TerminateSound ==
    ASSUME NEW t \in Connection, t.run = None
    PROVE  /\ Sound(TerminateRequest(t)) /\ TerminateRequest(t).stalled = t.stalled
           /\ TerminateRequest(t).q[Main].weh = "terminate"
<1> DEFINE v == [t EXCEPT !.q[Main].weh = "terminate"]
           l == <<Main>>
           yes == TRUE
           u == TerminateRequest(t)
<1>1. Main \in Req /\ "terminate" \in Wehs /\ l \in Seq(Req) /\ yes \in BOOLEAN
  <2>1. Main \in Req /\ "terminate" \in Wehs
    BY NamesIn, MainIn
  <2>2. l \in Seq(Req)
    BY <2>1
  <2> QED  BY <2>1, <2>2
<1>2. v = WithWeh(t, Main, "terminate", t.q[Main].status) /\ t.q[Main].status \in Codes
  BY <1>1, SetWehIs
<1>3. u = TerminateTo(v, l, yes)
  BY DEF TerminateRequest, TerminateTo
<1> HIDE DEF v, l, yes, u
<1>4. Turned(t, v) /\ v.q[Main].weh = "terminate"
  BY <1>1, <1>2, WithWehFacts
<1>5. v \in Connection /\ v.run = t.run /\ v.stalled = t.stalled
  BY <1>4 DEF Turned, SameRest
<1>6. u \in Connection /\ u.q = v.q /\ u.run = v.run /\ u.posted = l /\ u.stalled = v.stalled
  <2>1. TerminateSays(v, u, l)
    BY <1>1, <1>3, <1>5, TerminateToFacts
  <2> QED  BY <2>1 DEF TerminateSays
<1>7. Dead(u)
  BY <1>4, <1>5, <1>6 DEF Dead, l
<1> QED  BY <1>4, <1>5, <1>6, <1>7 DEF Sound, u

\* A request whose handler is over is finalized with success.
LEMMA FinalizeOKSound ==
    ASSUME NEW t \in Connection, Good(t), NEW r \in 1 .. t.made, t.q[r].st = "over",
           t.run = None
    PROVE  Sound(FinalizeOK(t, r))
<1>1. r \in Req
  BY MadeFacts
<1>2. CASE t.q[r].postponed # <<>> \/ (r = Main /\ t.buffered)
  <2>1. "writer" \in Wehs
    BY NamesIn
  <2>2. FinalizeOK(t, r) = WithWeh(t, r, "writer", t.q[r].status) /\ t.q[r].status \in Codes
    BY <1>1, <1>2, SetWehIs DEF FinalizeOK
  <2>3. Good(FinalizeOK(t, r)) /\ Turned(t, FinalizeOK(t, r))
    BY <2>1, <2>2, WehGood
  <2> QED  BY <2>3 DEF Sound, Turned
<1>3. CASE ~(t.q[r].postponed # <<>> \/ (r = Main /\ t.buffered)) /\ r # Main
  <2>1. FinalizeOK(t, r) = FinalizeSub(t, r) /\ r \in 2 .. t.made /\ t.q[r].postponed = <<>>
    BY <1>1, <1>3, MadeFacts DEF FinalizeOK, Main
  <2> QED  BY <2>1, FinalizeSubGood DEF Sound
<1>4. CASE ~(t.q[r].postponed # <<>> \/ (r = Main /\ t.buffered)) /\ r = Main /\ r # t.data
  <2>1. FinalizeOK(t, r) = t
    BY <1>4 DEF FinalizeOK
  <2> QED  BY <2>1 DEF Sound
<1>5. CASE ~(t.q[r].postponed # <<>> \/ (r = Main /\ t.buffered)) /\ r = Main /\ r = t.data
  <2>1. FinalizeOK(t, r) = CloseRequest(MainDone(t))
    BY <1>5 DEF FinalizeOK, FinalizeConnection, MainDone
  <2> DEFINE v == MainDone(t)
  <2>2. Good(v) /\ v \in Connection /\ v.q[Main].done /\ v.run = None
    BY <1>5, MainDoneGood DEF SameRest
  <2> HIDE DEF v
  <2>3. Sound(CloseRequest(v))
    BY <2>2, CloseSound DEF Good, Counts
  <2> QED  BY <2>1, <2>3 DEF v
<1> QED  BY <1>2, <1>3, <1>4, <1>5

\* A request whose handler is over is finalized.
LEMMA FinalizeSound ==
    ASSUME NEW t \in Connection, Good(t), NEW r \in 1 .. t.made, t.q[r].st = "over",
           t.run = None, NEW rc, rc # "DONE", NEW ch \in BOOLEAN
    PROVE  Sound(Finalize(t, r, rc, ch))
<1>1. r \in Req
  BY MadeFacts
<1>2. CASE r # Main /\ t.q[r].post
  <2> DEFINE u == SubPost(t, r, rc)
  <2>1. Finalize(t, r, rc, ch) = FinalizeOK(u, r)
    BY <1>2 DEF Finalize
  <2>2. Good(u) /\ Turned(t, u)
    BY <1>2, SubPostGood
  <2> HIDE DEF u
  <2>3. u \in Connection /\ r \in 1 .. u.made /\ u.q[r].st = "over" /\ u.run = None
    BY <1>1, <2>2 DEF Turned, SameRest
  <2> QED  BY <2>1, <2>2, <2>3, FinalizeOKSound
<1>3. CASE ~(r # Main /\ t.q[r].post) /\ rc = "OK"
  <2>1. Finalize(t, r, rc, ch) = FinalizeOK(t, r)
    BY <1>3 DEF Finalize
  <2> QED  BY <2>1, FinalizeOKSound
<1>4. CASE ~(r # Main /\ t.q[r].post) /\ rc # "OK" /\ (rc = "ERROR" \/ t.q[r].header_sent)
  <2>1. Finalize(t, r, rc, ch) = TerminateRequest(t)
    BY <1>4 DEF Finalize
  <2> QED  BY <2>1, TerminateSound
<1>5. CASE ~(r # Main /\ t.q[r].post) /\ rc # "OK" /\ ~(rc = "ERROR" \/ t.q[r].header_sent)
  <2> DEFINE u == SendNext(t, r, ch)
  <2>1. Finalize(t, r, rc, ch) = FinalizeOK(u, r)
    BY <1>5 DEF Finalize
  <2>2. Good(u) /\ Loose(t, u)
    BY GoodSendNext
  <2> HIDE DEF u
  <2>3. u \in Connection /\ r \in 1 .. u.made /\ u.q[r].st = "over" /\ u.run = None
    BY <1>1, <2>2 DEF Loose, SameRow
  <2> QED  BY <2>1, <2>2, <2>3, FinalizeOKSound
<1> QED  BY <1>2, <1>3, <1>4, <1>5

TwoTo(t, r, n, d) == [t EXCEPT !.q[r].nout = n, !.q[r].doc = d]

\* NgxSubRequestHandler::parent_post and NdgSubrequestCallback::parent_post.
LEMMA ParentPostSound ==
    ASSUME NEW t \in Connection, Good(t), NEW r \in 1 .. t.made, t.q[r].st = "over",
           t.run = None, NEW ch \in BOOLEAN
    PROVE  Sound(ParentPost(t, r, ch))
<1> DEFINE all == Append(t.q[r].body, NextBuffer(t, r))
           h == SendHeader(t, r)
           row == [h.q[r] EXCEPT !.nout = h.q[r].nout + 1, !.doc = h.q[r].doc \o all]
           u == Put(h, r, row)
<1>1. r \in Req /\ t.q[r] \in Request /\ t.q[r].nout \in Nat /\ t.q[r].body \in Seq(Item)
  BY MadeFacts, Parts, RowParts
<1>2. CASE t.q[r].status # 200
  <2>1. ParentPost(t, r, ch) = Finalize(t, r, "500", ch)
    BY <1>2 DEF ParentPost
  <2> QED  BY <2>1, FinalizeSound
<1>3. CASE t.q[r].status = 200
  <2>1. ParentPost(t, r, ch) = Finalize(BodyFilter(u, r, all, ch), r, "OK", ch)
    <3> DEFINE w == [h EXCEPT !.q[r].nout = @ + 1, !.q[r].doc = @ \o all]
    <3>1. ParentPost(t, r, ch) = Finalize(BodyFilter(w, r, all, ch), r, "OK", ch)
      BY <1>3 DEF ParentPost
    <3>2. h \in Connection
      BY HeaderCalm DEF Good, Calm, Quiet
    <3> HIDE DEF h
    <3> DEFINE n == h.q[r].nout + 1
               d == h.q[r].doc \o all
    <3>3. h.q \in [Req -> Request] /\ h.q[r] \in Request
      BY <1>1, <3>2, Parts
    <3>4. w = TwoTo(h, r, n, d)
      BY <1>1, <3>2, <3>3, RequestIs DEF TwoTo, Connection
    <3>5. TwoTo(h, r, n, d) = Put(h, r, [h.q[r] EXCEPT !.nout = n, !.doc = d])
      <4> HIDE DEF n, d
      <4> QED  BY <1>1, <3>2, <3>3 DEF TwoTo, Put, Connection
    <3> QED  BY <3>1, <3>4, <3>5
  <2>2. Buffers(all)
    <3>1. Buffers(t.q[r].body) /\ Buffers(<<NextBuffer(t, r)>>)
      BY <1>1, SendNextIs DEF Good, Side, Buffers
    <3>2. NextBuffer(t, r) \in Item
      BY <1>1 DEF NextBuffer, Item
    <3>3. all = t.q[r].body \o <<NextBuffer(t, r)>>
      BY <1>1, <3>2, AppendIsConcat
    <3> QED  BY <3>1, <3>3, BuffersJoin
  <2> HIDE DEF all
  <2>3. Calm(t, h)
    BY HeaderCalm DEF Good
  <2> HIDE DEF h
  <2>4. Good(h) /\ h \in Connection /\ h.made = t.made
    BY <2>3, CalmGood
  <2>5. Calm(h, u)
    <3>1. h.q[r] \in Request /\ h.q[r].nout \in Nat /\ h.q[r].doc \in Seq(Item)
      BY <1>1, <2>4, Parts, RowParts
    <3> DEFINE n == h.q[r].nout + 1
               d == h.q[r].doc \o all
    <3>2. n \in Nat /\ d \in Items
      BY <2>2, <3>1, ConcatProperties DEF Buffers, Items
    <3> HIDE DEF n, d
    <3>3. [h.q[r] EXCEPT !.nout = n, !.doc = d] = [[h.q[r] EXCEPT !.nout = n] EXCEPT !.doc = d]
      BY <3>1, RequestIs
    <3> DEFINE a == [h.q[r] EXCEPT !.nout = n]
    <3>4. a \in Request /\ SameRow(h.q[r], a) /\ a.postponed = h.q[r].postponed /\ SameHook(h.q[r], a)
      BY <3>1, <3>2, RowNout
    <3> HIDE DEF a
    <3> DEFINE b == [a EXCEPT !.doc = d]
    <3>5. b \in Request /\ SameRow(a, b) /\ b.postponed = a.postponed /\ SameHook(a, b)
      BY <3>2, <3>4, RowDoc
    <3>6. b = row
      BY <3>3 DEF a, n, d
    <3> HIDE DEF b
    <3>7. SameRow(h.q[r], b) /\ b.postponed = h.q[r].postponed /\ SameHook(h.q[r], b)
      BY <3>4, <3>5 DEF SameRow, SameHook
    <3> HIDE DEF row
    <3>8. Calm(h, Put(h, r, b))
      BY <1>1, <2>4, <3>5, <3>7, PutCalm DEF Good
    <3> QED  BY <3>6, <3>8
  <2> HIDE DEF u
  <2>6. Good(u) /\ Loose(t, u) /\ u \in Connection /\ u.made = t.made
    <3>1. Calm(t, u)
      BY <2>3, <2>5, CalmFacts
    <3> QED  BY <3>1, CalmGood
  <2> DEFINE v == BodyFilter(u, r, all, ch)
  <2>7. Good(v) /\ Loose(u, v)
    BY <2>2, <2>6, GoodBody
  <2> HIDE DEF v
  <2>8. v \in Connection /\ r \in 1 .. v.made /\ v.q[r].st = "over" /\ v.run = None
    BY <1>1, <2>6, <2>7 DEF Loose, SameRow
  <2> QED  BY <2>1, <2>7, <2>8, FinalizeSound DEF v
<1> QED  BY <1>2, <1>3

\* ngx_http_writer.
LEMMA WriterSound ==
    ASSUME NEW t \in Connection, Good(t), NEW r \in 1 .. t.made, t.q[r].st = "over",
           t.run = None, NEW ch \in BOOLEAN
    PROVE  Sound(Writer(t, r, ch))
<1> DEFINE u == BodyFilter(t, r, <<>>, ch)
           v == IF u.q[r].post THEN SubPost(u, r, "OK") ELSE u
           w == [v EXCEPT !.q[r].weh = "empty"]
<1>1. r \in Req
  BY MadeFacts
<1>2. Good(u) /\ Loose(t, u)
  BY BuffersNone, GoodBody
<1>3. Writer(t, r, ch) = IF u.q[r].postponed # <<>> \/ (r = Main /\ u.buffered) THEN u
                         ELSE FinalizeOK(w, r)
  BY DEF Writer
<1> HIDE DEF u
<1>4. u \in Connection /\ r \in 1 .. u.made /\ u.q[r].st = "over" /\ u.run = None
  BY <1>1, <1>2 DEF Loose, SameRow
<1>5. Good(v) /\ v \in Connection /\ r \in 1 .. v.made /\ v.q[r].st = "over" /\ v.run = None
  <2>1. CASE u.q[r].post
    <3>1. Good(v) /\ Turned(u, v)
      BY <1>2, <1>4, <2>1, SubPostGood
    <3> QED  BY <1>1, <1>4, <3>1 DEF Turned, SameRest
  <2>2. CASE ~u.q[r].post
    BY <1>2, <1>4, <2>2
  <2> QED  BY <2>1, <2>2
<1> HIDE DEF v
<1>6. Good(w) /\ w \in Connection /\ r \in 1 .. w.made /\ w.q[r].st = "over" /\ w.run = None
  <2>1. "empty" \in Wehs
    BY NamesIn
  <2>2. w = WithWeh(v, r, "empty", v.q[r].status) /\ v.q[r].status \in Codes
    BY <1>1, <1>5, SetWehIs
  <2> HIDE DEF w
  <2>3. Good(w) /\ Turned(v, w)
    BY <1>5, <2>1, <2>2, WehGood
  <2> QED  BY <1>1, <1>5, <2>3 DEF Turned, SameRest
<1> HIDE DEF w
<1>7. Sound(FinalizeOK(w, r))
  BY <1>6, FinalizeOKSound
<1>8. Sound(u)
  BY <1>2, <1>4 DEF Sound
<1> QED  BY <1>3, <1>7, <1>8

-----------------------------------------------------------------------------
(* A new subrequest.                                                       *)

\* Two rows, the counters and the order of a connection are set.
BornTo(t, r, n, a, b, d, l, c, m) ==
    [t EXCEPT !.q = [t.q EXCEPT ![n] = a, ![r] = b], !.made = n, !.data = d, !.posted = l,
              !.count = c, !.subrequests = m]

BornSays(t, u, r, n, a, b, d, l, c, m) ==
    /\ u \in Connection /\ u.q[n] = a /\ u.q[r] = b
    /\ \A x \in Req \ {r, n} : u.q[x] = t.q[x]
    /\ u.made = n /\ u.data = d /\ u.posted = l /\ u.count = c /\ u.subrequests = m
    /\ u.run = t.run /\ u.closed = t.closed /\ u.stalled = t.stalled
    /\ SameSocket(t, u)

LEMMA BornToFacts ==
    ASSUME NEW t \in Connection, NEW r \in Req, NEW n \in Req, r # n, NEW a \in Request,
           NEW b \in Request, NEW d \in Req, NEW l \in Seq(Req), NEW c \in 0 .. 255,
           NEW m \in 0 .. build.limit
    PROVE  BornSays(t, BornTo(t, r, n, a, b, d, l, c, m), r, n, a, b, d, l, c, m)
BY ZenonT(30) DEF Connection, BornTo, BornSays, SameSocket

\* A new request.
FreshSays(a, r, post) ==
    /\ a \in Request
    /\ a.st = "made" /\ a.parent = r /\ a.kind = "" /\ a.weh = "handler"
    /\ a.postponed = <<>> /\ ~a.done /\ (a.post <=> post) /\ ~a.hook /\ ~a.do_hook
    /\ a.body = <<>>

LEMMA FreshFacts ==
    ASSUME NEW r \in Parents, NEW post \in BOOLEAN
    PROVE  FreshSays(Fresh(r, post), r, post)
<1> DEFINE no == FALSE
           a == [st |-> "made", parent |-> r, kind |-> "", weh |-> "handler",
                 postponed |-> <<>>, header_sent |-> no, done |-> no, post |-> post,
                 hook |-> no, do_hook |-> no, status |-> 0, body |-> <<>>, nout |-> 0,
                 paused |-> no, doc |-> <<>>]
<1>1. /\ "made" \in Stages /\ "" \in Kinds /\ "handler" \in Wehs /\ <<>> \in Items
      /\ 0 \in Codes /\ 0 \in Nat
  BY NamesIn, EmptyIn
<1>2. Fresh(r, post) = a
  BY DEF Fresh
<1>3. no \in BOOLEAN /\ ~no
  OBVIOUS
<1> HIDE DEF no
<1>4. a \in Request
  BY <1>1, <1>3, RequestIs
<1>5. /\ a.st = "made" /\ a.parent = r /\ a.kind = "" /\ a.weh = "handler"
      /\ a.postponed = <<>> /\ a.body = <<>> /\ a.done = no /\ a.post = post /\ a.hook = no
      /\ a.do_hook = no
  OBVIOUS
<1> HIDE DEF a
<1> QED  BY <1>2, <1>3, <1>4, <1>5 DEF FreshSays

\* What Subrequest does, field by field; n is the new request.
Born(t, u, r, n, post) ==
    /\ u \in Connection /\ u.made = n /\ u.run = t.run /\ u.closed = t.closed
    /\ u.stalled = t.stalled /\ SameSocket(t, u)
    /\ u.data = IF t.data = r /\ t.q[r].postponed = <<>> THEN n ELSE t.data
    /\ u.posted = Append(t.posted, n)
    /\ u.count = (t.count + 1) % 256 /\ u.subrequests = t.subrequests - 1
    /\ FreshSays(u.q[n], r, post)
    /\ SameRow(t.q[r], u.q[r]) /\ SameHook(t.q[r], u.q[r])
    /\ u.q[r].postponed = Append(t.q[r].postponed, Sub(n))
    /\ \A x \in Req \ {r, n} : u.q[x] = t.q[x]

LEMMA SubrequestIs ==
    ASSUME NEW t \in Connection, NEW r \in 1 .. t.made, t.made < NReq, t.subrequests > 1,
           build.limit \in 1 .. 255, NEW post \in BOOLEAN
    PROVE  Born(t, Subrequest(t, r, post), r, t.made + 1, post)
<1> DEFINE n == t.made + 1
           a == Fresh(r, post)
           list == Append(t.q[r].postponed, Sub(n))
           b == [t.q[r] EXCEPT !.postponed = list]
           d == IF t.data = r /\ t.q[r].postponed = <<>> THEN n ELSE t.data
           l == Append(t.posted, n)
           c == (t.count + 1) % 256
           m == t.subrequests - 1
           u == Subrequest(t, r, post)
<1>1. r \in Req /\ n \in Req /\ n # r /\ t.q[r] \in Request
  <2>1. r \in Req
    BY MadeFacts
  <2>2. t.made \in 1 .. NReq /\ NReq \in Nat
    BY Parts, RequestsAssumption DEF Req
  <2>3. n \in Req /\ n # r
    BY <2>2 DEF Req
  <2> QED  BY <2>1, <2>3, Parts
<1>2. FreshSays(a, r, post)
  BY <1>1, ParentsIn, FreshFacts
<1>3. list \in Items
  <2>1. t.q[r].postponed \in Seq(Item)
    BY <1>1, RowParts
  <2>2. Sub(n) \in Item
    BY <1>1 DEF Sub, Item
  <2> QED  BY <2>1, <2>2, AppendProperties DEF Items
<1>4. d \in Req /\ l \in Seq(Req)
  BY <1>1, Parts, AppendProperties
<1>5. c \in 0 .. 255
  BY Parts, Byte, ZenonT(30)
<1>6. m \in 0 .. build.limit
  <2>1. t.subrequests \in 0 .. build.limit
    BY Parts
  <2> QED  BY <2>1
<1>7. u = BornTo(t, r, n, a, b, d, l, c, m)
  <2>1. t.q \in [Req -> Request]
    BY Parts
  <2>2. Subrequest(t, r, post)
          = Post([t EXCEPT !.subrequests = m, !.made = n, !.count = c, !.q[n] = a, !.data = d,
                           !.q[r].postponed = Append(@, Sub(n))], n)
    BY DEF Subrequest, Sub
  <2> DEFINE v == [t EXCEPT !.subrequests = m, !.made = n, !.count = c, !.q[n] = a, !.data = d,
                           !.q[r].postponed = Append(@, Sub(n))]
  <2>3. v = BornTo(t, r, n, a, b, d, t.posted, c, m)
    <3> HIDE DEF m, n, c, a, d
    <3> QED  BY <1>1, <2>1, ZenonT(30) DEF BornTo, Connection
  <2> HIDE DEF v
  <2>4. u = [v EXCEPT !.posted = Append(v.posted, n)]
    BY <2>2 DEF Post, v
  <2> HIDE DEF m, n, c, a, d, b, u
  <2>5. v.posted = t.posted
    BY <2>3 DEF BornTo, Connection
  <2>6. u = [v EXCEPT !.posted = l]
    BY <2>4, <2>5
  <2> HIDE DEF l
  <2> QED  BY <2>3, <2>6 DEF BornTo, Connection
<1> HIDE DEF a, d, l, c, m, u, list
<1>8. /\ b \in Request /\ SameRow(t.q[r], b) /\ b.postponed = list /\ SameHook(t.q[r], b)
  BY <1>1, <1>3, RowPostponed
<1> HIDE DEF b, n
<1>9. BornSays(t, u, r, n, a, b, d, l, c, m)
  <2>1. a \in Request
    BY <1>2 DEF FreshSays
  <2> QED  BY <1>1, <1>4, <1>5, <1>6, <1>7, <1>8, <2>1, BornToFacts
<1>10. Born(t, u, r, n, post)
  BY <1>2, <1>8, <1>9 DEF BornSays, Born, d, l, c, m, list
<1> QED  BY <1>10 DEF u, n

\* A list with one item more.
Appended(l, m, x) ==
    /\ Len(l) \in Nat /\ DOMAIN l = 1 .. Len(l) /\ DOMAIN m = 1 .. Len(l) + 1
    /\ \A i \in 1 .. Len(l) : m[i] = l[i]
    /\ m[Len(l) + 1] = x

LEMMA AppendIs ==
    ASSUME NEW l \in Seq(Item), NEW x \in Item
    PROVE  Appended(l, Append(l, x), x)
BY AppendProperties, LenProperties DEF Appended

\* A request of a sound connection starts a subrequest.
LEMMA SubrequestGood ==
    ASSUME NEW t \in Connection, Good(t), NEW r \in 1 .. t.made, t.made < NReq,
           t.subrequests > 1, r = Main \/ ~t.q[r].done, NEW post \in BOOLEAN,
           post => t.q[r].st = "over"
    PROVE  /\ Good(Subrequest(t, r, post))
           /\ Born(t, Subrequest(t, r, post), r, t.made + 1, post)
<1> DEFINE n == t.made + 1
           u == Subrequest(t, r, post)
<1>1. Born(t, u, r, n, post)
  BY SubrequestIs DEF Good, Counts
<1> HIDE DEF u
<1>2. r \in Req /\ n \in Req /\ n # r /\ n # Main /\ t.made \in Nat /\ n \in Nat /\ r \in Nat
  <2>1. t.made \in 1 .. NReq /\ NReq \in Nat
    BY Parts, RequestsAssumption DEF Req
  <2> QED  BY <2>1 DEF Req, Main
<1>3. /\ \A x \in Req : x # n => (x <= n <=> x <= t.made)
      /\ \A x \in Req : x # n /\ x \in 2 .. n => x \in 2 .. t.made
      /\ n \in 2 .. n /\ \A x \in 2 .. t.made : x # n /\ x \in 2 .. n
      /\ \A x \in 2 .. n : x # n => x \in 2 .. t.made
  BY <1>2, MadeFacts DEF Req
<1>4. /\ t.q[n].st = "none" /\ n > t.made /\ ~t.q[n].hook /\ ~t.q[n].done
  <2>1. Row(t, n) /\ n > t.made /\ ~(n <= t.made)
    BY <1>2 DEF Good, Rows
  <2> QED  BY <2>1 DEF Row, Kind
<1> HIDE DEF n
<1>5. /\ u \in Connection /\ u.made = n /\ u.run = t.run /\ u.closed = t.closed
      /\ u.data = IF t.data = r /\ t.q[r].postponed = <<>> THEN n ELSE t.data
      /\ u.posted = Append(t.posted, n)
      /\ u.count = (t.count + 1) % 256 /\ u.subrequests = t.subrequests - 1
      /\ u.q[r].postponed = Append(t.q[r].postponed, Sub(n))
  BY <1>1 DEF Born
<1>6. /\ u.q[n].st = "made" /\ u.q[n].parent = r /\ u.q[n].kind = "" /\ u.q[n].weh = "handler"
      /\ u.q[n].postponed = <<>> /\ ~u.q[n].done /\ (u.q[n].post <=> post) /\ ~u.q[n].hook
      /\ ~u.q[n].do_hook /\ u.q[n].body = <<>>
  BY <1>1 DEF Born, FreshSays
<1>14. DOMAIN <<>> = {}
  OBVIOUS
<1>7. ASSUME NEW x \in Req, x # n
      PROVE  SameRow(t.q[x], u.q[x]) /\ SameHook(t.q[x], u.q[x])
             /\ (x # r => u.q[x].postponed = t.q[x].postponed)
  BY <1>1, <1>7 DEF Born, SameRow, SameHook
<1>8. ASSUME NEW x \in 2 .. t.made
      PROVE  x \in Req /\ t.q[x].parent \in Req /\ t.q[x].parent # n /\ t.q[x].parent < x
  <2>1. x \in Req /\ t.q[x].parent \in Req /\ t.q[x].parent \in 1 .. x - 1
    BY ParentFacts DEF Good
  <2> QED  BY <1>2, <2>1 DEF n
<1>9. Rows(u)
  <2> SUFFICES ASSUME NEW x \in Req PROVE Row(u, x)
    BY DEF Rows
  <2>1. Row(t, x)
    BY DEF Good, Rows
  <2>2. CASE x = n
    <3>1. u.q[r].st = t.q[r].st
      BY <1>2, <1>7 DEF SameRow
    <3>2. r \in 1 .. n - 1 /\ n <= n /\ ~(n > n) /\ t.run # n
      BY <1>2 DEF Good, Reach, n
    <3> QED  BY <1>2, <1>5, <1>6, <2>2, <3>1, <3>2, ZenonT(30) DEF Row
  <2>3. CASE x # n
    <3>1. SameRow(t.q[x], u.q[x])
      BY <1>7, <2>3
    <3>2. x <= n <=> x <= t.made
      BY <1>3, <2>3
    <3>3. x \in 2 .. n <=> x \in 2 .. t.made
      BY <1>3, <2>3
    <3>4. x > n <=> x > t.made
      BY <1>2, <3>2, MadeFacts
    <3>5. t.q[x].post => u.q[t.q[x].parent].st = t.q[t.q[x].parent].st
      <4>1. t.q[x].post => x \in 2 .. t.made
        BY <2>1, MadeFacts DEF Row
      <4>2. t.q[x].post => t.q[x].parent \in Req /\ t.q[x].parent # n
        BY <4>1, <1>8
      <4> QED  BY <4>2, <1>7 DEF SameRow
    <3>6. x # r => u.q[x].postponed = t.q[x].postponed
      BY <1>7, <2>3
    <3>7. x = r => ~(x > t.made)
      BY <1>2
    <3>8. u.made = n /\ u.run = t.run
      BY <1>5
    <3>9. x > t.made => u.q[x].postponed = t.q[x].postponed
      BY <3>6, <3>7
    <3> QED  BY <2>1, <3>1, <3>2, <3>3, <3>4, <3>5, <3>8, <3>9 DEF Row, SameRow
  <2> QED  BY <2>2, <2>3
<1>10. Side(u)
  <2> SUFFICES ASSUME NEW x \in Req
               PROVE  /\ u.q[x].do_hook => x # Main /\ x <= u.made
                      /\ \A i \in DOMAIN u.q[x].body : u.q[x].body[i].n # 0
    BY DEF Side
  <2>1. CASE x = n
    BY <1>6, <1>14, <2>1
  <2>2. CASE x # n
    BY <1>3, <1>5, <1>7, <2>2 DEF Good, Side, SameHook
  <2> QED  BY <2>1, <2>2
<1>11. ~u.closed /\ Reach(u)
  <2>1. ~u.closed /\ t.run \in Nat /\ t.run <= t.made
    BY <1>5, Parts DEF Good, Reach
  <2>2. u.run <= u.made
    BY <1>2, <1>5, <2>1 DEF n
  <2>3. \A i \in DOMAIN t.posted : t.posted[i] <= n
    <3> TAKE i \in DOMAIN t.posted
    <3>1. t.posted[i] <= t.made /\ t.posted[i] \in Req
      BY Parts, ElementOfSeq, LenProperties DEF Good, Reach
    <3> DEFINE y == t.posted[i]
    <3>2. y \in Nat /\ y <= t.made
      BY <3>1, MainIn
    <3> HIDE DEF y
    <3>3. y <= n
      BY <1>2, <3>2 DEF n
    <3> QED  BY <3>3 DEF y
  <2>4. t.posted \in Seq(Req) /\ n <= n
    BY <1>2, Parts
  <2>5. \A i \in DOMAIN u.posted : u.posted[i] <= u.made
    BY <1>2, <1>5, <2>3, <2>4, AppendBound
  <2> QED  BY <2>1, <2>2, <2>5 DEF Reach
<1>12. Counts(u)
  <2>1. OpenOf(u) = OpenOf(t) \cup {n} /\ n \notin OpenOf(t)
    <3>1. n \notin OpenOf(t)
      BY <1>4 DEF OpenOf
    <3>2. \A x \in Req : x # n => (x \in OpenOf(u) <=> x \in OpenOf(t))
      BY <1>7 DEF OpenOf, SameRow
    <3>3. n \in OpenOf(u)
      BY <1>2, <1>6 DEF OpenOf
    <3>4. OpenOf(u) \subseteq Req /\ OpenOf(t) \subseteq Req
      BY DEF OpenOf
    <3> QED  BY <3>1, <3>2, <3>3, <3>4
  <2>2. HookedOf(u) = HookedOf(t)
    <3>1. \A x \in Req : x # n => (u.q[x].hook <=> t.q[x].hook)
      BY <1>7 DEF SameRow
    <3> QED  BY <1>4, <1>6, <3>1 DEF HookedOf
  <2>3. u.q[Main].done <=> t.q[Main].done
    <3>1. SameRow(t.q[Main], u.q[Main])
      BY <1>2, <1>7, MainIn
    <3> QED  BY <3>1 DEF SameRow
  <2> DEFINE o == Cardinality(OpenOf(t))
             h == Cardinality(HookedOf(t))
  <2>4. Cardinality(OpenOf(u)) = o + 1 /\ o \in Nat /\ h \in Nat
    BY <2>1, CountTypes, FS_AddElement
  <2>5. t.count \in 0 .. 255 /\ t.subrequests \in Nat
    BY Parts
  <2>6. /\ t.q[Main].done \/ (t.count + h) % 256 = 1 + o
        /\ t.subrequests + o = build.limit /\ build.limit \in 1 .. 255
    BY DEF Good, Counts
  <2> DEFINE k == t.subrequests
             lim == build.limit
  <2>7. k - 1 + (o + 1) = lim /\ k - 1 >= 1 /\ 1 + (o + 1) < 256 /\ 1 + o < 256
    <3>1. k \in Nat /\ k > 1 /\ o \in Nat /\ k + o = lim /\ lim \in 1 .. 255
      BY <2>4, <2>5, <2>6
    <3> HIDE DEF k, o, lim
    <3> QED  BY <3>1
  <2> HIDE DEF o, h
  <2> DEFINE c == t.count
  <2>10. /\ c \in 0 .. 255 /\ o \in Nat /\ h \in Nat
         /\ t.q[Main].done \/ (c + h) % 256 = 1 + o
    BY <2>4, <2>5, <2>6
  <2> HIDE DEF c
  <2>11. (c + h) % 256 = 1 + o => (((c + 1) % 256) + h) % 256 = 1 + (o + 1)
    <3>1. 1 + o < 256 /\ 1 + (o + 1) < 256
      BY <2>7
    <3> QED  BY <2>10, <3>1, CountMinus
  <2>8. t.q[Main].done \/ (((t.count + 1) % 256) + h) % 256 = 1 + (o + 1)
    BY <2>10, <2>11 DEF c
  <2>9. Cardinality(HookedOf(u)) = h
    BY <2>2 DEF h
  <2> QED  BY <1>5, <2>3, <2>4, <2>6, <2>7, <2>8, <2>9 DEF Counts
<1>13. Tree(u)
  <2>1. PICK P \in SUBSET Req : TreeAt(t, P)
    BY TreeIs DEF Good
  <2>2. Path(t, P)
    BY <2>1 DEF TreeAt
  <2> DEFINE heads == t.data = r /\ t.q[r].postponed = <<>>
             Q == IF heads THEN P \cup {n} ELSE P
             list == t.q[r].postponed
  <2>3. list \in Seq(Item) /\ Sub(n) \in Item /\ Sub(n).by = n /\ Sub(n).n = 0
    BY <1>2, Parts, RowParts DEF Sub, Item
  <2>4. /\ Len(list) \in Nat /\ DOMAIN list = 1 .. Len(list)
        /\ DOMAIN u.q[r].postponed = 1 .. Len(list) + 1
        /\ \A i \in 1 .. Len(list) : u.q[r].postponed[i] = list[i]
        /\ u.q[r].postponed[Len(list) + 1] = Sub(n)
    <3> DEFINE x == Sub(n)
    <3>1. u.q[r].postponed = Append(list, x)
      BY <1>5
    <3>2. list \in Seq(Item) /\ x \in Item
      BY <2>3
    <3> HIDE DEF list, x
    <3>3. Appended(list, Append(list, x), x)
      BY <3>2, AppendIs
    <3> QED  BY <3>1, <3>3 DEF Appended, x
  <2>5. P \subseteq 1 .. t.made /\ n \notin P /\ Main \in P /\ t.data \in P
    BY <1>2, <2>2 DEF Path, n
  <2>6. \A x \in Req : x # n => u.q[x].parent = t.q[x].parent /\ (u.q[x].done <=> t.q[x].done)
    BY <1>7 DEF SameRow
  <2>7. heads => Len(list) = 0
    BY <2>3, EmptySeq
  <2> HIDE DEF list
  <2>8. Path(u, Q)
    <3>1. Q \subseteq 1 .. u.made /\ Main \in Q /\ u.data \in Q
      BY <1>2, <1>5, <2>5 DEF n
    <3>2. \A x \in P : x \in Nat /\ x <= t.made /\ x <= t.data /\ x < n
      <4> TAKE x \in P
      <4>1. x \in 1 .. t.made /\ x <= t.data
        BY <2>2, <2>5 DEF Path
      <4> QED  BY <1>2, <4>1 DEF n
    <3>3. \A x \in Q : x <= u.data
      BY <1>2, <1>5, <3>2
    <3>4. ASSUME NEW c \in Q \ {Main}
          PROVE  /\ u.q[c].parent \in Q /\ ~u.q[c].done
                 /\ \A x \in Q : x <= u.q[c].parent \/ c <= x
      <4>1. CASE c = n
        <5>1. heads
          BY <2>5, <4>1
        <5>2. r \in P /\ u.q[c].parent = r /\ ~u.q[c].done
          BY <1>6, <2>5, <4>1, <5>1
        <5>3. \A x \in P : x <= r
          BY <2>2, <5>1 DEF Path
        <5> QED  BY <1>2, <4>1, <5>2, <5>3
      <4>2. CASE c # n
        <5>1. c \in P \ {Main} /\ c \in Req
          BY <4>2
        <5>2. t.q[c].parent \in P /\ ~t.q[c].done /\ \A x \in P : x <= t.q[c].parent \/ c <= x
          BY <2>2, <5>1 DEF Path
        <5>3. c <= n
          BY <1>2, <3>2, <5>1
        <5> QED  BY <2>6, <4>2, <5>1, <5>2, <5>3
      <4> QED  BY <4>1, <4>2
    <3> QED  BY <3>1, <3>3, <3>4 DEF Path
  <2>9. ASSUME NEW c \in 2 .. u.made PROVE Reached(u, Q, c)
    <3>1. CASE c = n
      <4>1. Len(list) + 1 \in DOMAIN u.q[r].postponed
        BY <2>4
      <4>2. Listed(u, r, n)
        BY <2>4, <4>1 DEF Listed
      <4>3. r = Main \/ ~u.q[r].done
        BY <1>2, <2>6
      <4> QED  BY <1>6, <3>1, <4>2, <4>3 DEF Reached
    <3>2. CASE c # n
      <4>1. c \in 2 .. t.made
        BY <1>3, <1>5, <3>2
      <4> DEFINE p == t.q[c].parent
      <4>2. c \in Req /\ p \in Req /\ p # n /\ Reached(t, P, c)
        BY <1>8, <2>1, <4>1 DEF TreeAt
      <4>3. u.q[c].parent = p /\ (u.q[c].done <=> t.q[c].done) /\ (u.q[p].done <=> t.q[p].done)
        BY <2>6, <3>2, <4>2
      <4> HIDE DEF p
      <4>4. Listed(t, p, c) => Listed(u, p, c)
        <5>1. CASE p = r
          <6> SUFFICES ASSUME NEW i \in DOMAIN list, list[i] = Sub(c) PROVE Listed(u, p, c)
            BY <5>1 DEF Listed, list
          <6>1. i \in DOMAIN u.q[r].postponed /\ u.q[r].postponed[i] = Sub(c)
            BY <2>4
          <6> QED  BY <5>1, <6>1 DEF Listed
        <5>2. CASE p # r
          BY <1>7, <4>2, <5>2 DEF Listed
        <5> QED  BY <5>1, <5>2
      <4>5. ~t.q[c].done => (c \in P \/ Listed(t, p, c)) /\ (p = Main \/ ~t.q[p].done)
        BY <4>2 DEF Reached, p
      <4> QED  BY <4>3, <4>4, <4>5 DEF Reached
    <3> QED  BY <3>1, <3>2
  <2>10. ASSUME NEW x \in Req, NEW i \in DOMAIN u.q[x].postponed PROVE Waiting(u, Q, x, i)
    <3>0. x # n
      BY <1>6, <1>14
    <3>9. ASSUME NEW j \in DOMAIN t.q[x].postponed, t.q[x].postponed[j].n = 0
          PROVE  /\ t.q[x].postponed[j].by \in 2 .. t.made /\ t.q[x].postponed[j].by # n
                 /\ t.q[x].postponed[j].by \in Req /\ t.q[x].postponed[j].by \in 2 .. u.made
      <4>1. Waiting(t, P, x, j)
        BY <2>1 DEF TreeAt
      <4>2. t.q[x].postponed[j].by \in 2 .. t.made
        BY <3>9, <4>1, ZenonT(30) DEF Waiting
      <4> QED  BY <1>3, <1>5, <1>8, <4>2
    <3>1. CASE x # r
      <4>1. u.q[x].postponed = t.q[x].postponed
        BY <1>7, <3>0, <3>1
      <4>2. i \in DOMAIN t.q[x].postponed /\ Waiting(t, P, x, i)
        BY <2>1, <4>1, ZenonT(30) DEF TreeAt
      <4> SUFFICES ASSUME t.q[x].postponed[i].n = 0
                   PROVE  Waiting(u, Q, x, i)
        BY <4>1, ZenonT(30) DEF Waiting
      <4> DEFINE c == t.q[x].postponed[i].by
      <4>3. c \in 2 .. u.made /\ c # n /\ c \in Req
        BY <3>9, <4>2, ZenonT(30)
      <4>4. /\ t.q[c].parent = x /\ ~t.q[c].done /\ (c \in P => i = 1)
            /\ \A j \in DOMAIN t.q[x].postponed :
                  t.q[x].postponed[j].n = 0 /\ t.q[x].postponed[j].by = c => i = j
        BY <4>2, ZenonT(30) DEF Waiting
      <4>5. u.q[c].parent = x /\ ~u.q[c].done /\ (c \in Q => c \in P)
        BY <2>6, <4>3, <4>4
      <4> QED  BY <4>1, <4>3, <4>4, <4>5, ZenonT(30) DEF Waiting
    <3>2. CASE x = r /\ i \in 1 .. Len(list)
      <4>1. u.q[x].postponed[i] = list[i] /\ i \in DOMAIN list
        BY <2>4, <3>2
      <4>2. Waiting(t, P, x, i)
        BY <2>1, <3>2, <4>1 DEF TreeAt, list
      <4> SUFFICES ASSUME list[i].n = 0
                   PROVE  Waiting(u, Q, x, i)
        BY <4>1 DEF Waiting
      <4> DEFINE c == list[i].by
      <4>3. c \in 2 .. u.made /\ c # n /\ c \in Req
        BY <3>2, <3>9, <4>1, ZenonT(30) DEF list
      <4>4. /\ t.q[c].parent = x /\ ~t.q[c].done /\ (c \in P => i = 1)
            /\ \A j \in DOMAIN list : list[j].n = 0 /\ list[j].by = c => i = j
        BY <3>2, <4>2 DEF Waiting, list
      <4>5. u.q[c].parent = x /\ ~u.q[c].done /\ (c \in Q => c \in P)
        BY <2>6, <4>3, <4>4
      <4>6. ASSUME NEW j \in DOMAIN u.q[x].postponed, u.q[x].postponed[j].by = c,
                   u.q[x].postponed[j].n = 0
            PROVE  i = j
        <5>1. j # Len(list) + 1
          BY <2>3, <2>4, <3>2, <4>3, <4>6
        <5>2. j \in 1 .. Len(list)
          BY <2>4, <3>2, <5>1
        <5> QED  BY <2>4, <3>2, <4>4, <4>6, <5>2
      <4> HIDE DEF c
      <4> QED  BY <4>1, <4>3, <4>4, <4>5, <4>6 DEF Waiting, c
    <3>3. CASE x = r /\ i = Len(list) + 1
      <4>1. u.q[x].postponed[i] = Sub(n)
        BY <2>4, <3>3
      <4>2. n \in 2 .. u.made /\ u.q[n].parent = x /\ ~u.q[n].done
        BY <1>3, <1>5, <1>6, <3>3
      <4>3. n \in Q => i = 1
        BY <2>5, <2>7, <3>3
      <4>4. ASSUME NEW j \in DOMAIN u.q[x].postponed, u.q[x].postponed[j].by = n,
                   u.q[x].postponed[j].n = 0
            PROVE  i = j
        <5>1. j \in 1 .. Len(list) => FALSE
          BY <2>4, <3>3, <3>9, <4>4 DEF list
        <5> QED  BY <2>4, <3>3, <5>1
      <4> HIDE DEF Q
      <4> QED  BY <2>3, <4>1, <4>2, <4>3, <4>4 DEF Waiting
    <3> QED  BY <2>4, <3>1, <3>2, <3>3
  <2>11. Q \in SUBSET Req
    BY <1>2
  <2> HIDE DEF Q
  <2> QED  BY <2>8, <2>9, <2>10, <2>11, TreeIs DEF TreeAt
<1> QED  BY <1>1, <1>9, <1>10, <1>11, <1>12, <1>13 DEF Good, u, n

-----------------------------------------------------------------------------
(* Handlers.                                                               *)

\* A step that changes one row, and neither the order nor the tree.
OneRow(t, u, r) ==
    /\ u \in Connection /\ u.made = t.made /\ u.data = t.data
    /\ u.run \in {t.run, r, None}
    /\ \A x \in Req \ {r} : u.q[x] = t.q[x]
    /\ u.q[r].parent = t.q[r].parent /\ u.q[r].postponed = t.q[r].postponed
    /\ u.q[r].done <=> t.q[r].done
    /\ u.q[r].do_hook <=> t.q[r].do_hook
    /\ \A i \in DOMAIN u.q[r].body : u.q[r].body[i].n # 0
    /\ u.q[r].st # "none"
    /\ t.q[r].st = "over" => u.q[r].st = "over"

LEMMA OneRowFacts ==
    ASSUME NEW t \in Connection, Good(t), NEW r \in 1 .. t.made, NEW u, OneRow(t, u, r),
           Row(u, r)
    PROVE  /\ Rows(u) /\ Side(u) /\ Tree(u) /\ OpenOf(u) = OpenOf(t) /\ u.run <= u.made
           /\ (u.q[r].hook <=> t.q[r].hook) => HookedOf(u) = HookedOf(t)
<1>1. r \in Req /\ r <= t.made /\ t.made \in Nat
  BY MadeFacts
<1>2. /\ u \in Connection /\ u.made = t.made /\ u.data = t.data
      /\ u.run \in {t.run, r, None}
      /\ \A x \in Req \ {r} : u.q[x] = t.q[x]
      /\ u.q[r].parent = t.q[r].parent /\ u.q[r].postponed = t.q[r].postponed
      /\ u.q[r].done <=> t.q[r].done
      /\ u.q[r].st # "none"
      /\ t.q[r].st = "over" => u.q[r].st = "over"
  BY DEF OneRow
<1>3. Rows(u)
  <2> SUFFICES ASSUME NEW x \in Req, x # r PROVE Row(u, x)
    BY DEF Rows
  <2>1. Row(t, x) /\ u.q[x] = t.q[x]
    BY <1>2 DEF Good, Rows
  <2>2. t.q[x].post /\ t.q[t.q[x].parent].st = "over" => u.q[t.q[x].parent].st = "over"
    <3>1. t.q[x].post => x \in 2 .. t.made
      BY <2>1, MadeFacts DEF Row
    <3>2. t.q[x].post => t.q[x].parent \in Req
      BY <3>1, ParentFacts DEF Good
    <3> QED  BY <1>2, <3>2
  <2>3. u.run = x => t.run = x
    BY <1>2, MadeFacts DEF None
  <2> QED  BY <1>2, <2>1, <2>2, <2>3, ZenonT(30) DEF Row
<1>4. Side(u)
  <2> SUFFICES ASSUME NEW x \in Req
               PROVE  /\ u.q[x].do_hook => x # Main /\ x <= u.made
                      /\ \A i \in DOMAIN u.q[x].body : u.q[x].body[i].n # 0
    BY DEF Side
  <2>1. CASE x # r
    BY <1>2, <2>1 DEF Good, Side
  <2>2. CASE x = r
    BY <1>1, <1>2, <2>2 DEF Good, Side, OneRow
  <2> QED  BY <2>1, <2>2
<1>5. Tree(u)
  <2>1. SameTree(t, u)
    <3> SUFFICES ASSUME NEW x \in Req
                 PROVE  /\ u.q[x].parent = t.q[x].parent /\ u.q[x].done = t.q[x].done
                        /\ u.q[x].postponed = t.q[x].postponed
      BY <1>2 DEF SameTree
    <3>1. u.q[x].done \in BOOLEAN /\ t.q[x].done \in BOOLEAN
      BY <1>2, Parts, RowParts
    <3>2. u.q[x].done <=> t.q[x].done
      BY <1>2
    <3> QED  BY <1>2, <3>1, <3>2
  <2>2. PICK P \in SUBSET Req : TreeAt(t, P)
    BY TreeIs DEF Good
  <2> QED  BY <1>2, <2>1, <2>2, SameTreeAt, TreeIs DEF Good
<1>6. OpenOf(u) = OpenOf(t)
  <2>1. t.q[r].st # "none"
    BY <1>1 DEF Good, Rows, Row
  <2>2. \A x \in Req : x \in OpenOf(u) <=> x \in OpenOf(t)
    BY <1>2, <2>1 DEF OpenOf
  <2> QED  BY <2>2 DEF OpenOf
<1>7. u.run <= u.made
  BY <1>1, <1>2 DEF Good, Reach, None
<1>8. (u.q[r].hook <=> t.q[r].hook) => HookedOf(u) = HookedOf(t)
  BY <1>2 DEF HookedOf
<1> QED  BY <1>3, <1>4, <1>5, <1>6, <1>7, <1>8

\* A request that enters another stage, or gets another handler.
LEMMA StageGood ==
    ASSUME NEW t \in Connection, Good(t), NEW r \in 1 .. t.made, NEW u, OneRow(t, u, r),
           Row(u, r), u.count = t.count, u.subrequests = t.subrequests, ~u.closed,
           u.q[r].hook <=> t.q[r].hook,
           \A i \in DOMAIN u.posted : u.posted[i] <= t.made
    PROVE  Good(u)
<1>1. /\ Rows(u) /\ Side(u) /\ Tree(u) /\ OpenOf(u) = OpenOf(t) /\ u.run <= u.made
      /\ HookedOf(u) = HookedOf(t)
  BY OneRowFacts
<1>2. u.made = t.made /\ (u.q[Main].done <=> t.q[Main].done)
  BY MainIn DEF OneRow
<1>3. Counts(u)
  BY <1>1, <1>2 DEF Good, Counts
<1>4. Reach(u)
  BY <1>1, <1>2 DEF Reach
<1> QED  BY <1>1, <1>3, <1>4 DEF Good

\* Other posted requests, or another state of the socket.
OtherSays(t, u, l) ==
    /\ u \in Connection /\ u.q = t.q /\ u.made = t.made /\ u.data = t.data
    /\ u.run = t.run /\ u.posted = l /\ u.closed = t.closed /\ u.count = t.count
    /\ u.subrequests = t.subrequests /\ u.stalled = t.stalled /\ u.buffered = t.buffered

LEMMA PostedSays ==
    ASSUME NEW t \in Connection, NEW l \in Seq(Req)
    PROVE  OtherSays(t, WithPosted(t, l), l)
BY SetPosted DEF OtherSays, SameSocket

WithFull(t, f) == [t EXCEPT !.full = f]

LEMMA FullSays ==
    ASSUME NEW t \in Connection, NEW f \in BOOLEAN
    PROVE  OtherSays(t, WithFull(t, f), t.posted)
BY ZenonT(30) DEF Connection, WithFull, OtherSays

LEMMA OtherGood ==
    ASSUME NEW t \in Connection, Good(t), NEW l, NEW u, OtherSays(t, u, l),
           \A i \in DOMAIN l : l[i] <= t.made
    PROVE  Good(u)
<1>1. Main \in 1 .. t.made /\ Main \in Req /\ Main <= t.made
  <2>1. t.made \in Nat \ {0} /\ Main \in Req
    BY MainIn, MadeFacts
  <2> QED  BY <2>1 DEF Main
<1>2. /\ u \in Connection /\ u.q = t.q /\ u.made = t.made /\ u.data = t.data
      /\ u.run = t.run /\ u.posted = l /\ ~u.closed /\ u.count = t.count
      /\ u.subrequests = t.subrequests
  BY DEF OtherSays, Good
<1>3. Row(t, Main) /\ Rows(u)
  BY <1>1, <1>2, RowsStay DEF Good, Rows
<1>4. Row(u, Main)
  BY <1>1, <1>3 DEF Rows
<1>5. t.q[Main].st # "none" /\ \A i \in DOMAIN t.q[Main].body : t.q[Main].body[i].n # 0
  BY <1>1, <1>3 DEF Row, Good, Side
<1>6. OneRow(t, u, Main)
  BY <1>2, <1>5 DEF OneRow
<1> QED  BY <1>1, <1>2, <1>4, <1>6, StageGood

\* The stage of r, and who has the CPU.
StageTo(a, st, kind, weh, z) == [a EXCEPT !.st = st, !.kind = kind, !.weh = weh, !.paused = z]

StageSays(a, b, st, kind, weh) ==
    /\ b \in Request /\ b.st = st /\ b.kind = kind /\ b.weh = weh
    /\ b.parent = a.parent /\ b.done = a.done /\ b.post = a.post /\ b.hook = a.hook
    /\ b.postponed = a.postponed /\ b.body = a.body /\ b.do_hook = a.do_hook

LEMMA StageToFacts ==
    ASSUME NEW a \in Request, NEW st \in Stages, NEW kind \in Kinds, NEW weh \in Wehs,
           NEW z \in BOOLEAN
    PROVE  StageSays(a, StageTo(a, st, kind, weh, z), st, kind, weh)
BY RequestIs DEF StageTo, StageSays

RunTo(t, r, row, x) == [t EXCEPT !.q = [t.q EXCEPT ![r] = row], !.run = x]

RunSays(t, u, r, row, x) ==
    /\ u \in Connection /\ u.q[r] = row /\ \A y \in Req \ {r} : u.q[y] = t.q[y]
    /\ u.made = t.made /\ u.data = t.data /\ u.run = x /\ u.posted = t.posted
    /\ u.closed = t.closed /\ u.count = t.count /\ u.subrequests = t.subrequests
    /\ u.stalled = t.stalled /\ SameSocket(t, u)

LEMMA RunToFacts ==
    ASSUME NEW t \in Connection, NEW r \in Req, NEW row \in Request, NEW x \in 0 .. NReq
    PROVE  RunSays(t, RunTo(t, r, row, x), r, row, x)
BY ZenonT(30) DEF Connection, RunTo, RunSays, SameSocket

\* The code of a request runs, waits or is over.
LEMMA StagedGood ==
    ASSUME NEW t \in Connection, Good(t), NEW r \in 1 .. t.made, NEW st \in Stages,
           NEW kind \in Kinds, NEW weh \in Wehs, NEW row, StageSays(t.q[r], row, st, kind, weh),
           NEW x \in {t.run, r, None}, NEW u, RunSays(t, u, r, row, x),
           st # "none", t.q[r].st = "over" => st = "over",
           t.q[r].hook => kind = "ndg",
           weh = "handler" => st = "made",
           weh \in {"writer", "finalizer", "parent_post"} => st = "over",
           weh # "terminate", x = r => st = "handling"
    PROVE  Good(u) /\ u \in Connection /\ u.made = t.made /\ u.run = x /\ u.q[r] = row
<1>1. r \in Req /\ r <= t.made /\ Row(t, r)
  BY MadeFacts DEF Good, Rows
<1>2. /\ u \in Connection /\ u.q[r] = row /\ \A y \in Req \ {r} : u.q[y] = t.q[y]
      /\ u.made = t.made /\ u.data = t.data /\ u.run = x /\ u.posted = t.posted
      /\ ~u.closed /\ u.count = t.count /\ u.subrequests = t.subrequests
  BY DEF RunSays, Good
<1>3. /\ row.st = st /\ row.kind = kind /\ row.weh = weh /\ row.parent = t.q[r].parent
      /\ (row.done <=> t.q[r].done) /\ (row.post <=> t.q[r].post)
      /\ (row.hook <=> t.q[r].hook)
      /\ row.postponed = t.q[r].postponed /\ row.body = t.q[r].body
      /\ (row.do_hook <=> t.q[r].do_hook)
  BY DEF StageSays
<1>4. t.q[r].post => t.q[r].parent # r /\ t.q[r].parent \in Req
  <2>1. t.q[r].post => r \in 2 .. t.made
    BY <1>1, MadeFacts DEF Row
  <2>2. ASSUME r \in 2 .. t.made
        PROVE  t.q[r].parent \in Req /\ t.q[r].parent \in 1 .. r - 1
    BY <2>2, ParentFacts DEF Good
  <2> QED  BY <1>1, <2>1, <2>2 DEF Req
<1>5. OneRow(t, u, r)
  <2>1. \A i \in DOMAIN t.q[r].body : t.q[r].body[i].n # 0
    BY <1>1 DEF Good, Side
  <2> QED  BY <1>2, <1>3, <2>1 DEF OneRow
<1>6. Row(u, r)
  <2>1. t.q[r].post => u.q[t.q[r].parent].st = t.q[t.q[r].parent].st
    BY <1>2, <1>4
  <2>2. r <= u.made /\ ~(r > u.made)
    BY <1>1, <1>2, MadeFacts
  <2> QED  BY <1>1, <1>2, <1>3, <2>1, <2>2 DEF Row
<1>7. Good(u)
  BY <1>2, <1>3, <1>5, <1>6, StageGood DEF Good, Reach
<1> QED  BY <1>2, <1>7

\* The data hook of a request.
HookTo(a, h, c, b) == [a EXCEPT !.hook = h, !.status = c, !.body = b]

HookSays(a, row, h, b) ==
    /\ row \in Request /\ (row.hook <=> h) /\ row.body = b
    /\ row.st = a.st /\ row.parent = a.parent /\ row.kind = a.kind /\ row.weh = a.weh
    /\ (row.done <=> a.done) /\ (row.post <=> a.post) /\ row.postponed = a.postponed
    /\ (row.do_hook <=> a.do_hook)

LEMMA HookToFacts ==
    ASSUME NEW a \in Request, NEW h \in BOOLEAN, NEW c \in Codes, NEW b \in Items
    PROVE  HookSays(a, HookTo(a, h, c, b), h, b)
BY RequestIs DEF HookTo, HookSays

HookedTo(t, r, h, c, b) == [t EXCEPT !.q[r].hook = h, !.q[r].status = c, !.q[r].body = b]

LEMMA HookedToIs ==
    ASSUME NEW t \in Connection, NEW r \in Req, NEW h, NEW c, NEW b
    PROVE  HookedTo(t, r, h, c, b) = Put(t, r, HookTo(t.q[r], h, c, b))
BY Parts, ZenonT(30) DEF HookedTo, Put, HookTo, Connection

\* NdgSubrequestHandler::handler: the reference that it gives back is the one that the
\* subrequest got.
LEMMA NdgSound ==
    ASSUME NEW t \in Connection, Good(t), NEW r \in 1 .. t.made, t.made < NReq,
           t.q[r].st = "over", t.run = None, t.q[r].kind = "ndg", ~t.q[r].hook,
           ~t.q[r].done, NEW ch \in BOOLEAN
    PROVE  Sound(NdgHandler(t, r, ch))
<1>1. r \in Req
  BY MadeFacts
<1>2. CASE ~CanCreate(t)
  <2>1. NdgHandler(t, r, ch) = Finalize(t, r, "ERROR", ch)
    BY <1>2 DEF NdgHandler
  <2> QED  BY <2>1, FinalizeSound
<1>3. CASE CanCreate(t)
  <2> DEFINE yes == TRUE
             none == <<>>
             n == t.made + 1
             v == Subrequest(t, r, yes)
             row == HookTo(v.q[r], yes, 0, none)
             w == Put(v, r, row)
  <2>1. yes \in BOOLEAN /\ yes /\ 0 \in Codes /\ none \in Items /\ DOMAIN none = {}
    <3>1. yes \in BOOLEAN /\ yes
      OBVIOUS
    <3>2. DOMAIN none = {}
      OBVIOUS
    <3>3. 0 \in Codes /\ none \in Items
      BY NamesIn, EmptyIn
    <3> QED  BY <3>1, <3>2, <3>3
  <2>2. NdgHandler(t, r, ch) = CloseRequest(HookedTo(v, r, yes, 0, none))
    BY <1>3 DEF NdgHandler, Finalize, FinalizeConnection, HookedTo
  <2> HIDE DEF yes, none
  <2>3. t.subrequests > 1
    BY <1>3 DEF CanCreate
  <2>4. Good(v) /\ Born(t, v, r, n, yes)
    BY <2>1, <2>3, SubrequestGood
  <2> HIDE DEF v
  <2>5. v \in Connection /\ v.run = None /\ v.made = n /\ SameRow(t.q[r], v.q[r]) /\ v.q[r] \in Request
    BY <1>1, <2>4, Parts DEF Born
  <2>6. r \in 1 .. v.made
    BY <1>1, <2>5, MadeFacts
  <2>7. HookedTo(v, r, yes, 0, none) = w
    BY <1>1, <2>5, HookedToIs
  <2>8. HookSays(v.q[r], row, yes, none)
    BY <2>1, <2>5, HookToFacts
  <2> HIDE DEF row
  <2>9. row \in Request
    BY <2>8 DEF HookSays
  <2>10. /\ w \in Connection /\ w.q[r] = row /\ SameRest(v, w)
         /\ \A x \in Req \ {r} : w.q[x] = v.q[x]
    BY <1>1, <2>5, <2>9, PutFacts
  <2> HIDE DEF w, n
  <2>11. /\ w.made = v.made /\ w.data = v.data /\ w.posted = v.posted /\ w.count = v.count
         /\ w.subrequests = v.subrequests /\ w.run = v.run /\ w.closed = v.closed
    BY <2>10 DEF SameRest
  <2>12. /\ v.q[r].st = "over" /\ v.q[r].kind = "ndg" /\ ~v.q[r].hook
    BY <2>5 DEF SameRow
  <2>13. /\ row.hook /\ row.body = none /\ row.st = "over" /\ row.parent = v.q[r].parent
         /\ row.kind = "ndg" /\ row.weh = v.q[r].weh /\ (row.done <=> v.q[r].done)
         /\ (row.post <=> v.q[r].post) /\ row.postponed = v.q[r].postponed
         /\ (row.do_hook <=> v.q[r].do_hook)
    BY <2>1, <2>8, <2>12 DEF HookSays
  <2>14. OneRow(v, w, r)
    BY <2>1, <2>10, <2>11, <2>13 DEF OneRow
  <2>15. Row(w, r)
    <3>1. Row(v, r) /\ r <= v.made /\ ~(r > v.made)
      BY <1>1, <2>4, <2>6, MadeFacts, <2>5 DEF Good, Rows
    <3>2. v.q[r].post => w.q[v.q[r].parent].st = v.q[v.q[r].parent].st
      <4>1. v.q[r].post => r \in 2 .. v.made
        BY <1>1, <2>5, <3>1, MadeFacts DEF Row
      <4>2. ASSUME r \in 2 .. v.made
            PROVE  v.q[r].parent \in Req /\ v.q[r].parent \in 1 .. r - 1
        BY <2>4, <2>5, <4>2, ParentFacts DEF Good
      <4> QED  BY <1>1, <2>10, <4>1, <4>2 DEF Req
    <3> QED  BY <2>10, <2>11, <2>12, <2>13, <3>1, <3>2 DEF Row
  <2>16. /\ Rows(w) /\ Side(w) /\ Tree(w) /\ OpenOf(w) = OpenOf(v) /\ w.run <= w.made
    BY <2>4, <2>5, <2>6, <2>14, <2>15, OneRowFacts
  <2>17. HookedOf(w) = HookedOf(v) \cup {r} /\ r \notin HookedOf(v)
    <3>1. \A x \in Req : x # r => (w.q[x].hook <=> v.q[x].hook)
      BY <2>10
    <3> QED  BY <1>1, <2>10, <2>12, <2>13, <3>1 DEF HookedOf
  <2> DEFINE o == Cardinality(OpenOf(v))
             h == Cardinality(HookedOf(v))
             c == v.count
             k == v.subrequests
             lim == build.limit
  <2>18. /\ c \in 0 .. 255 /\ o \in Nat /\ h \in Nat /\ k \in Nat
         /\ v.q[Main].done \/ (c + h) % 256 = 1 + o
         /\ k + o = lim /\ k >= 1 /\ lim \in 1 .. 255
    BY <2>4, <2>5, CountTypes, Parts DEF Good, Counts
  <2>19. Cardinality(HookedOf(w)) = h + 1 /\ Cardinality(OpenOf(w)) = o
    <3> DEFINE H == HookedOf(v)
    <3>1. IsFiniteSet(H) /\ r \notin H /\ HookedOf(w) = H \cup {r} /\ OpenOf(w) = OpenOf(v)
      BY <2>5, <2>16, <2>17, CountTypes
    <3>2. h = Cardinality(H)
      OBVIOUS
    <3> HIDE DEF H, h
    <3>3. Cardinality(H \cup {r}) = Cardinality(H) + 1
      BY <3>1, FS_AddElement
    <3> QED  BY <3>1, <3>2, <3>3
  <2>20. w.q[Main].done <=> v.q[Main].done
    BY <2>10, <2>13, MainIn
  <2>21. w.count = c /\ w.subrequests = k /\ lim = build.limit
    BY <2>11
  <2> HIDE DEF o, h, c, k, lim
  <2>22. (c + h) % 256 = 1 + o => (((c + 255) % 256) + (h + 1)) % 256 = 1 + o
    <3>1. 1 + o < 256
      BY <2>18
    <3> QED  BY <2>18, <3>1, CountMinus
  <2>23. w.q[Main].done
           \/ (((w.count + 255) % 256) + Cardinality(HookedOf(w))) % 256
                = 1 + Cardinality(OpenOf(w))
    BY <2>18, <2>19, <2>20, <2>21, <2>22
  <2>24. /\ w.subrequests + Cardinality(OpenOf(w)) = build.limit
         /\ w.subrequests >= 1 /\ build.limit \in 1 .. 255
    BY <2>18, <2>19, <2>21
  <2>25. Reach(w) /\ w.run = None
    BY <2>4, <2>5, <2>11, <2>16 DEF Good, Reach
  <2>26. Sound(CloseRequest(w))
    BY <2>10, <2>16, <2>23, <2>24, <2>25, CloseSound
  <2> QED  BY <2>2, <2>7, <2>26
<1> QED  BY <1>2, <1>3

\* The content handler of r gets the CPU.
LEMMA StageHandling ==
    ASSUME NEW t \in Connection, NEW r \in Req
    PROVE  [t EXCEPT !.q[r].st = "handling", !.q[r].weh = "empty", !.run = r]
             = RunTo(t, r, StageTo(t.q[r], "handling", t.q[r].kind, "empty", t.q[r].paused), r)
<1>1. t.q \in [Req -> Request] /\ t.q[r] \in Request
  BY Parts
<1>2. [t.q[r] EXCEPT !.st = "handling", !.weh = "empty"]
        = StageTo(t.q[r], "handling", t.q[r].kind, "empty", t.q[r].paused)
  BY <1>1, RequestIs DEF StageTo
<1>3. [t EXCEPT !.q[r].st = "handling", !.q[r].weh = "empty", !.run = r]
        = RunTo(t, r, [t.q[r] EXCEPT !.st = "handling", !.weh = "empty"], r)
  BY <1>1 DEF RunTo, Connection
<1> QED  BY <1>2, <1>3

\* r->write_event_handler(r) of a connection in use.
LEMMA HandlerSound ==
    ASSUME NEW t \in Connection, Good(t), NEW r \in 1 .. t.made, t.run = None,
           NEW ch \in BOOLEAN
    PROVE  Sound(WriteEventHandler(t, r, ch))
<1>1. r \in Req /\ Row(t, r) /\ r <= t.made /\ t.q[r] \in Request
  <2>1. r \in Req /\ r <= t.made
    BY MadeFacts
  <2> QED  BY <2>1, Parts DEF Good, Rows
<1>2. CASE t.q[r].weh = "handler"
  <2> DEFINE z == t.q[r].paused
             kind == t.q[r].kind
             row == StageTo(t.q[r], "handling", kind, "empty", z)
             u == RunTo(t, r, row, r)
  <2>1. "handling" \in Stages /\ "empty" \in Wehs /\ kind \in Kinds /\ z \in BOOLEAN
    BY <1>1, NamesIn, RowParts
  <2>2. t.q[r].st = "made"
    BY <1>1, <1>2 DEF Row
  <2>3. WriteEventHandler(t, r, ch)
          = [t EXCEPT !.q[r].st = "handling", !.q[r].weh = "empty", !.run = r]
    BY <1>2 DEF WriteEventHandler
  <2>4. [t EXCEPT !.q[r].st = "handling", !.q[r].weh = "empty", !.run = r] = u
    BY <1>1, StageHandling
  <2> HIDE DEF z, kind
  <2>5. StageSays(t.q[r], row, "handling", kind, "empty") /\ row \in Request
    BY <1>1, <2>1, StageToFacts DEF StageSays
  <2>6. r \in 0 .. NReq
    BY <1>1, RequestsAssumption DEF Req
  <2> HIDE DEF row
  <2>7. RunSays(t, u, r, row, r)
    BY <1>1, <2>5, <2>6, RunToFacts
  <2> HIDE DEF u
  <2>8. t.q[r].hook => kind = "ndg"
    BY <1>1 DEF Row, kind
  <2>9. Good(u) /\ u \in Connection
    <3> DEFINE st == "handling"
               weh == "empty"
    <3>1. /\ st \in Stages /\ weh \in Wehs /\ kind \in Kinds /\ r \in {t.run, r, None}
          /\ StageSays(t.q[r], row, st, kind, weh)
      BY <2>1, <2>5
    <3>2. /\ st # "none" /\ st = "handling" /\ weh # "handler" /\ weh # "terminate"
          /\ weh \notin {"writer", "finalizer", "parent_post"} /\ t.q[r].st # "over"
      BY <2>2
    <3> HIDE DEF st, weh
    <3> QED  BY <2>7, <2>8, <3>1, <3>2, StagedGood
  <2> QED  BY <2>3, <2>4, <2>9 DEF Sound
<1>3. CASE t.q[r].weh = "empty"
  <2>1. WriteEventHandler(t, r, ch) = t
    BY <1>3 DEF WriteEventHandler
  <2> QED  BY <2>1 DEF Sound
<1>4. CASE t.q[r].weh = "downstream"
  <2>1. WriteEventHandler(t, r, ch) = BodyFilter(t, r, <<>>, ch)
    BY <1>4 DEF WriteEventHandler
  <2> QED  BY <2>1, BuffersNone, GoodBody DEF Sound, Loose
<1>5. CASE t.q[r].weh = "writer"
  <2>1. WriteEventHandler(t, r, ch) = Writer(t, r, ch) /\ t.q[r].st = "over"
    BY <1>1, <1>5 DEF WriteEventHandler, Row
  <2> QED  BY <2>1, WriterSound
<1>6. CASE t.q[r].weh = "finalizer"
  <2>1. WriteEventHandler(t, r, ch) = Finalize(t, r, "OK", ch) /\ t.q[r].st = "over"
    BY <1>1, <1>6 DEF WriteEventHandler, Row
  <2> QED  BY <2>1, FinalizeSound
<1>7. CASE t.q[r].weh = "parent_post"
  <2>1. WriteEventHandler(t, r, ch) = ParentPost(t, r, ch) /\ t.q[r].st = "over"
    BY <1>1, <1>7 DEF WriteEventHandler, Row
  <2> QED  BY <2>1, ParentPostSound
<1>8. t.q[r].weh \in Wehs /\ t.q[r].weh # "terminate"
  BY <1>1, RowParts DEF Row
<1> QED  BY <1>2, <1>3, <1>4, <1>5, <1>6, <1>7, <1>8 DEF Wehs

-----------------------------------------------------------------------------
(* Actions.                                                                *)

\* The forms in which the actions write the stage of a request.
Over(t, r) == [t EXCEPT !.run = None, !.q[r].st = "over"]

WithKind(t, r, k) == [t EXCEPT !.q[r].kind = k]

KindOver(t, r, k) == [[t EXCEPT !.q[r].kind = k] EXCEPT !.q[r].st = "over", !.run = None]

Paused(t, r, z) == [t EXCEPT !.run = None, !.q[r].paused = z, !.q[r].weh = "downstream"]

LEMMA OverForm ==
    ASSUME NEW t \in Connection, NEW r \in Req
    PROVE  Over(t, r)
             = RunTo(t, r, StageTo(t.q[r], "over", t.q[r].kind, t.q[r].weh, t.q[r].paused), None)
<1> DEFINE a == t.q[r]
<1>1. t.q \in [Req -> Request] /\ a \in Request
  BY Parts
<1>2. Over(t, r) = RunTo(t, r, [a EXCEPT !.st = "over"], None)
  BY <1>1 DEF Over, RunTo, Connection
<1> HIDE DEF a
<1>3. [a EXCEPT !.st = "over"] = StageTo(a, "over", a.kind, a.weh, a.paused)
  BY <1>1, RequestIs DEF StageTo
<1> QED  BY <1>2, <1>3 DEF a

LEMMA KindForm ==
    ASSUME NEW t \in Connection, NEW r \in Req, NEW k
    PROVE  /\ WithKind(t, r, k)
                = RunTo(t, r, StageTo(t.q[r], t.q[r].st, k, t.q[r].weh, t.q[r].paused), t.run)
           /\ KindOver(t, r, k)
                = RunTo(t, r, StageTo(t.q[r], "over", k, t.q[r].weh, t.q[r].paused), None)
<1> DEFINE a == t.q[r]
<1>1. t.q \in [Req -> Request] /\ a \in Request
  BY Parts
<1>2. WithKind(t, r, k) = RunTo(t, r, [a EXCEPT !.kind = k], t.run)
  BY <1>1 DEF WithKind, RunTo, Connection
<1>3. KindOver(t, r, k) = RunTo(t, r, [a EXCEPT !.kind = k, !.st = "over"], None)
  BY <1>1 DEF KindOver, RunTo, Connection
<1> HIDE DEF a
<1>4. [a EXCEPT !.kind = k] = StageTo(a, a.st, k, a.weh, a.paused)
  BY <1>1, RequestIs DEF StageTo
<1>5. [a EXCEPT !.kind = k, !.st = "over"] = StageTo(a, "over", k, a.weh, a.paused)
  BY <1>1, RequestIs DEF StageTo
<1> QED  BY <1>2, <1>3, <1>4, <1>5 DEF a

LEMMA PauseForm ==
    ASSUME NEW t \in Connection, NEW r \in Req, NEW z
    PROVE  Paused(t, r, z)
             = RunTo(t, r, StageTo(t.q[r], t.q[r].st, t.q[r].kind, "downstream", z), None)
<1> DEFINE a == t.q[r]
<1>1. t.q \in [Req -> Request] /\ a \in Request
  BY Parts
<1>2. Paused(t, r, z) = RunTo(t, r, [a EXCEPT !.paused = z, !.weh = "downstream"], None)
  BY <1>1 DEF Paused, RunTo, Connection
<1> HIDE DEF a
<1>3. [a EXCEPT !.paused = z, !.weh = "downstream"] = StageTo(a, a.st, a.kind, "downstream", z)
  BY <1>1, RequestIs DEF StageTo
<1> QED  BY <1>2, <1>3 DEF a

LEMMA ResumeForm ==
    ASSUME NEW t \in Connection, NEW r \in Req
    PROVE  [t EXCEPT !.run = r] = RunTo(t, r, t.q[r], r)
BY Parts DEF RunTo, Connection

\* The request that has the CPU.
LEMMA Running ==
    ASSUME NEW t \in Connection, Sound(t), NEW r \in Req, t.run = r
    PROVE  /\ Good(t) /\ r \in 1 .. t.made /\ t.q[r].st = "handling" /\ ~t.q[r].done
           /\ Row(t, r) /\ t.q[r] \in Request
           /\ t.q[r].weh \in Wehs \ {"handler", "writer", "finalizer", "parent_post", "terminate"}
<1>1. r # None
  BY MadeFacts DEF None
<1>2. Good(t)
  BY <1>1 DEF Sound, Dead
<1>3. r \in 1 .. t.made
  BY <1>2, MadeFacts DEF Good, Reach
<1>4. Row(t, r) /\ t.q[r] \in Request
  BY <1>2, Parts DEF Good, Rows
<1>5. t.q[r].weh \in Wehs
  BY <1>4, RowParts
<1> QED  BY <1>2, <1>3, <1>4, <1>5 DEF Row

\* The request that has the CPU goes on, waits or ends.
LEMMA RunGood ==
    ASSUME NEW t \in Connection, Sound(t), NEW r \in Req, t.run = r,
           NEW st \in Stages, NEW kind \in Kinds, NEW weh \in Wehs, NEW z \in BOOLEAN,
           NEW x \in {t.run, None}, st = "over" \/ st = "handling", x = r => st = "handling",
           weh = t.q[r].weh \/ weh = "downstream", t.q[r].hook => kind = "ndg"
    PROVE  /\ Good(RunTo(t, r, StageTo(t.q[r], st, kind, weh, z), x))
           /\ RunTo(t, r, StageTo(t.q[r], st, kind, weh, z), x) \in Connection
           /\ RunTo(t, r, StageTo(t.q[r], st, kind, weh, z), x).made = t.made
           /\ RunTo(t, r, StageTo(t.q[r], st, kind, weh, z), x).run = x
           /\ StageSays(t.q[r], RunTo(t, r, StageTo(t.q[r], st, kind, weh, z), x).q[r], st, kind, weh)
<1> DEFINE row == StageTo(t.q[r], st, kind, weh, z)
           u == RunTo(t, r, row, x)
<1>1. /\ Good(t) /\ r \in 1 .. t.made /\ t.q[r].st = "handling" /\ t.q[r] \in Request
      /\ t.q[r].weh \notin {"handler", "writer", "finalizer", "parent_post", "terminate"}
  BY Running
<1>2. StageSays(t.q[r], row, st, kind, weh) /\ row \in Request
  BY <1>1, StageToFacts DEF StageSays
<1> HIDE DEF row
<1>3. x \in 0 .. NReq
  <2>1. t.run \in 0 .. NReq /\ 0 \in 0 .. NReq
    BY Parts, RequestsAssumption
  <2> QED  BY <2>1 DEF None
<1>4. RunSays(t, u, r, row, x)
  BY <1>2, <1>3, RunToFacts
<1> HIDE DEF u
<1>5. weh \notin {"handler", "writer", "finalizer", "parent_post", "terminate"} /\ st # "none"
  BY <1>1
<1>6. Good(u) /\ u \in Connection /\ u.made = t.made /\ u.run = x /\ u.q[r] = row
  BY <1>1, <1>2, <1>4, <1>5, StagedGood, SMTT(20)
<1> QED  BY <1>2, <1>6 DEF u, row

\* The handler of r returns.
LEMMA OverGood ==
    ASSUME NEW t \in Connection, Sound(t), NEW r \in Req, t.run = r
    PROVE  /\ Good(Over(t, r)) /\ Over(t, r) \in Connection /\ Over(t, r).run = None
           /\ r \in 1 .. Over(t, r).made /\ Over(t, r).q[r].st = "over"
<1> DEFINE u == Over(t, r)
           k == t.q[r].kind
           w == t.q[r].weh
           z == t.q[r].paused
           v == RunTo(t, r, StageTo(t.q[r], "over", k, w, z), None)
<1>1. u = v
  BY OverForm
<1>2. /\ r \in 1 .. t.made /\ "over" \in Stages /\ k \in Kinds /\ w \in Wehs /\ z \in BOOLEAN
      /\ t.q[r].hook => k = "ndg"
  BY Running, RowParts, NamesIn DEF Row
<1>3. None # r
  BY MadeFacts DEF None
<1> HIDE DEF k, z
<1>4. /\ Good(v) /\ v \in Connection /\ v.made = t.made /\ v.run = None
      /\ StageSays(t.q[r], v.q[r], "over", k, w)
  BY <1>2, <1>3, RunGood
<1> HIDE DEF v, u
<1> QED  BY <1>1, <1>2, <1>4 DEF StageSays, u

WithCount(t, c) == [t EXCEPT !.count = c]

LEMMA CountSays ==
    ASSUME NEW t \in Connection, NEW c \in 0 .. 255
    PROVE  WithCount(t, c) \in Connection /\ WithCount(t, c).run = t.run /\ WithCount(t, c).count = c
BY ZenonT(30) DEF Connection, WithCount

WithStalled(t, f) == [t EXCEPT !.stalled = f]

LEMMA StalledSays ==
    ASSUME NEW t \in Connection, NEW f \in BOOLEAN
    PROVE  WithStalled(t, f) \in Connection /\ WithStalled(t, f).run = t.run
BY ZenonT(30) DEF Connection, WithStalled

\* Every action leaves a sound connection.
LEMMA RunPostedSound ==
    ASSUME Sound(s), RunPosted
    PROVE  Sound(s')
<1>1. s \in Connection /\ s.run = None /\ ~s.closed /\ s.posted # <<>> /\ s.posted \in Seq(Req)
  BY Parts DEF RunPosted, Idle, Sound
<1> DEFINE r == Head(s.posted)
           l == Tail(s.posted)
           t == WithPosted(s, l)
<1>2. PICK ch \in BOOLEAN : s' = WriteEventHandler(t, r, ch)
  BY DEF RunPosted, WithPosted
<1>3. /\ r \in Req /\ l \in Seq(Req) /\ r = s.posted[1] /\ 1 \in DOMAIN s.posted
      /\ \A i \in DOMAIN l : i + 1 \in DOMAIN s.posted /\ l[i] = s.posted[i + 1]
  <2>1. /\ r \in Req /\ l \in Seq(Req) /\ r = s.posted[1] /\ Len(s.posted) \in Nat
        /\ Len(l) = Len(s.posted) - 1 /\ \A i \in 1 .. Len(l) : l[i] = s.posted[i + 1]
        /\ DOMAIN s.posted = 1 .. Len(s.posted) /\ DOMAIN l = 1 .. Len(l)
    BY <1>1, HeadTailProperties, LenProperties
  <2>2. Len(s.posted) # 0
    BY <1>1, EmptySeq
  <2> QED  BY <2>1, <2>2
<1> HIDE DEF l
<1>4. OtherSays(s, t, l)
  BY <1>1, <1>3, PostedSays
<1>5. t \in Connection /\ t.made = s.made /\ t.run = None /\ t.q = s.q
  BY <1>1, <1>4 DEF OtherSays
<1> HIDE DEF t
<1>6. CASE Good(s)
  <2>1. \A i \in DOMAIN s.posted : s.posted[i] <= s.made
    BY <1>6 DEF Good, Reach
  <2>2. r <= s.made /\ \A i \in DOMAIN l : l[i] <= s.made
    BY <1>3, <2>1
  <2>3. Good(t)
    BY <1>1, <1>4, <1>6, <2>2, OtherGood
  <2>4. r \in 1 .. t.made
    BY <1>1, <1>3, <1>5, <2>2, MadeFacts
  <2> HIDE DEF r
  <2> QED  BY <1>2, <1>5, <2>3, <2>4, HandlerSound
<1>7. CASE Dead(s)
  <2>1. s.q[Main].weh = "terminate" /\ r = Main
    <3>1. s.q[Main].weh = "terminate" /\ s.posted = <<Main>>
      BY <1>1, <1>7 DEF Dead
    <3> QED  BY <3>1, HeadMain
  <2> DEFINE one == 1
             v == WithCount(t, one)
  <2>2. s' = CloseRequest(v)
    BY <1>2, <1>5, <2>1 DEF WriteEventHandler, WithCount
  <2>3. v \in Connection /\ v.run = None /\ v.count = 1
    <3>1. one \in 0 .. 255 /\ one = 1
      OBVIOUS
    <3> HIDE DEF one
    <3> QED  BY <1>5, <3>1, CountSays
  <2> HIDE DEF v
  <2>4. Closes(v, s')
    BY <2>2, <2>3, CloseIs
  <2> QED  BY <2>3, <2>4, ZenonT(30) DEF Closes, Sound, Dead
<1> QED  BY <1>6, <1>7 DEF Sound

\* With no posted request the connection is in use.
LEMMA IdleGood ==
    ASSUME Sound(s), Idle, s.posted = <<>>
    PROVE  s \in Connection /\ Good(s) /\ s.run = None /\ s.data \in 1 .. s.made
<1>1. s \in Connection /\ s.run = None /\ ~s.closed
  BY DEF Idle, Sound
<1>2. Good(s)
  BY <1>1 DEF Sound, Dead
<1>3. s.data \in 1 .. s.made
  BY <1>2 DEF Good, Tree, Path
<1> QED  BY <1>1, <1>2, <1>3

LEMMA SocketWritableSound ==
    ASSUME Sound(s), SocketWritable
    PROVE  Sound(s')
<1> DEFINE no == FALSE
           t == WithFull(s, no)
<1>1. PICK ch \in BOOLEAN : s' = WriteEventHandler(t, s.data, ch)
  BY DEF SocketWritable, WithFull
<1>2. no \in BOOLEAN
  OBVIOUS
<1>3. s \in Connection /\ Good(s) /\ s.run = None /\ s.data \in 1 .. s.made
  BY IdleGood DEF SocketWritable
<1> HIDE DEF no
<1>4. OtherSays(s, t, s.posted)
  BY <1>2, <1>3, FullSays
<1> HIDE DEF t
<1>5. t \in Connection /\ t.made = s.made /\ t.run = None
  BY <1>3, <1>4 DEF OtherSays
<1>6. Good(t)
  BY <1>3, <1>4, OtherGood DEF Good, Reach
<1> QED  BY <1>1, <1>3, <1>5, <1>6, HandlerSound

LEMMA SendTimesOutSound ==
    ASSUME Sound(s), SendTimesOut
    PROVE  Sound(s')
<1>1. PICK f \in BOOLEAN : f = ~s.full
  OBVIOUS
<1> DEFINE t == WithStalled(s, f)
<1>2. s' = TerminateRequest(t)
  BY <1>1 DEF SendTimesOut, WithStalled
<1>3. s \in Connection /\ s.run = None
  BY IdleGood DEF SendTimesOut
<1>4. t \in Connection /\ t.run = None
  BY <1>3, StalledSays
<1> HIDE DEF t
<1> QED  BY <1>2, <1>4, TerminateSound

LEMMA ChosenSound ==
    ASSUME Sound(s), NEW r \in Req, NEW kind \in Kind, Chosen(r, kind)
    PROVE  Sound(s')
<1> DEFINE t == WithKind(s, r, kind)
           w == s.q[r].weh
           z == s.q[r].paused
<1>1. s \in Connection /\ s.run = r /\ s.q[r].kind = "" /\ (kind = "ndg" => s.made < NReq)
  BY DEF Chosen, Sound
<1>2. /\ Good(s) /\ r \in 1 .. s.made /\ s.q[r].st = "handling" /\ ~s.q[r].done
      /\ Row(s, r) /\ s.q[r] \in Request
  BY <1>1, Running
<1>3. /\ ~s.q[r].hook /\ w \in Wehs /\ z \in BOOLEAN /\ kind \in Kinds
      /\ "over" \in Stages /\ "handling" \in Stages
  BY <1>1, <1>2, RowParts, NamesIn DEF Row
<1>4. CASE kind # "ndg"
  <2>1. s' = t
    BY <1>4 DEF Chosen, WithKind
  <2>2. t = RunTo(s, r, StageTo(s.q[r], "handling", kind, w, z), r)
    <3>1. t = RunTo(s, r, StageTo(s.q[r], s.q[r].st, kind, w, z), s.run)
      BY <1>1, KindForm
    <3> QED  BY <1>1, <1>2, <3>1
  <2> HIDE DEF t, z
  <2>3. Good(t) /\ t \in Connection
    BY <1>1, <1>3, <2>2, RunGood
  <2> QED  BY <2>1, <2>3 DEF Sound
<1>5. CASE kind = "ndg"
  <2> DEFINE u == KindOver(s, r, kind)
             v == RunTo(s, r, StageTo(s.q[r], "over", kind, w, z), None)
  <2>1. PICK ch \in BOOLEAN : s' = NdgHandler(u, r, ch)
    BY <1>5 DEF Chosen, KindOver
  <2>2. u = v
    BY <1>1, KindForm
  <2>3. None # r
    BY <1>1, MadeFacts DEF None
  <2> HIDE DEF t, z, u
  <2>7. s \in Connection /\ s.run = r /\ (s.q[r].hook => kind = "ndg")
    BY <1>1, <1>3
  <2>4. /\ Good(v) /\ v \in Connection /\ v.made = s.made /\ v.run = None
        /\ StageSays(s.q[r], v.q[r], "over", kind, w)
    BY <1>3, <2>3, <2>7, RunGood
  <2> HIDE DEF v
  <2>5. v.q[r].st = "over" /\ v.q[r].kind = "ndg" /\ ~v.q[r].hook /\ ~v.q[r].done
    BY <1>2, <1>3, <1>5, <2>4 DEF StageSays
  <2>6. Sound(NdgHandler(v, r, ch))
    BY <1>1, <1>2, <1>5, <2>4, <2>5, NdgSound
  <2> QED  BY <2>1, <2>2, <2>6
<1> QED  BY <1>4, <1>5

LEMMA SendsBufferSound ==
    ASSUME Sound(s), NEW r \in Req, SendsBuffer(r)
    PROVE  Sound(s')
<1>1. s \in Connection /\ s.run = r
  BY DEF SendsBuffer, Handling, Sound
<1>2. PICK ch \in BOOLEAN : s' = SendNext(s, r, ch)
  BY DEF SendsBuffer
<1>3. Good(s) /\ r \in 1 .. s.made
  BY <1>1, Running
<1> QED  BY <1>1, <1>2, <1>3, GoodSendNext DEF Sound, Loose

LEMMA StartsSubrequestSound ==
    ASSUME Sound(s), NEW r \in Req, StartsSubrequest(r)
    PROVE  Sound(s')
<1> DEFINE no == FALSE
           n == s.made + 1
           v == Subrequest(s, r, no)
           d == Append(v.q[r].doc, Sub(n))
           row == [v.q[r] EXCEPT !.doc = d]
           u == Put(v, r, row)
<1>1. s \in Connection /\ s.run = r /\ s.made < NReq /\ s.subrequests > 1
  BY DEF StartsSubrequest, Handling, CanCreate, Sound
<1>2. s' = u
  BY DEF StartsSubrequest, Put, Sub
<1>3. Good(s) /\ r \in 1 .. s.made /\ ~s.q[r].done
  BY <1>1, Running
<1>4. no \in BOOLEAN /\ ~no
  OBVIOUS
<1> HIDE DEF no
<1>5. Good(v) /\ Born(s, v, r, n, no)
  BY <1>1, <1>3, <1>4, SubrequestGood
<1> HIDE DEF v
<1>6. v \in Connection /\ v.q[r] \in Request /\ n \in Req
  BY <1>5, Parts DEF Born
<1>7. d \in Items
  <2>1. Sub(n) \in Item /\ v.q[r].doc \in Seq(Item)
    BY <1>6, RowParts DEF Sub, Item
  <2> QED  BY <2>1, AppendProperties DEF Items
<1> HIDE DEF d, n
<1>8. /\ row \in Request /\ SameRow(v.q[r], row) /\ row.postponed = v.q[r].postponed
      /\ SameHook(v.q[r], row)
  BY <1>6, <1>7, RowDoc
<1> HIDE DEF row
<1>9. Calm(v, u)
  BY <1>5, <1>6, <1>8, PutCalm DEF Good
<1> HIDE DEF u
<1>10. Good(u) /\ u \in Connection
  BY <1>5, <1>6, <1>9, CalmGood
<1> QED  BY <1>2, <1>10 DEF Sound

LEMMA PausesSound ==
    ASSUME Sound(s), NEW r \in Req, Pauses(r)
    PROVE  Sound(s')
<1> DEFINE k == s.q[r].kind
           z == TRUE
           v == RunTo(s, r, StageTo(s.q[r], "handling", k, "downstream", z), None)
<1>1. s \in Connection /\ s.run = r
  BY DEF Pauses, Handling, Sound
<1>2. Good(s) /\ s.q[r].st = "handling" /\ Row(s, r) /\ s.q[r] \in Request
  BY <1>1, Running
<1>3. s' = v
  <2>1. s' = RunTo(s, r, StageTo(s.q[r], s.q[r].st, k, "downstream", z), None)
    <3>1. s' = Paused(s, r, z)
      BY DEF Pauses, Paused
    <3> QED  BY <1>1, <3>1, PauseForm
  <2> QED  BY <1>2, <2>1
<1>4. /\ k \in Kinds /\ "downstream" \in Wehs /\ "handling" \in Stages
      /\ s.q[r].hook => k = "ndg"
  BY <1>2, RowParts, NamesIn DEF Row
<1>5. z \in BOOLEAN /\ None # r
  BY <1>1, MadeFacts DEF None
<1> HIDE DEF k, z
<1>6. Good(v) /\ v \in Connection
  BY <1>1, <1>4, <1>5, RunGood
<1> HIDE DEF v
<1> QED  BY <1>3, <1>6 DEF Sound

LEMMA ResumeGood ==
    ASSUME NEW t \in Connection, Good(t), NEW r \in Req, t.q[r].st = "handling"
    PROVE  Good(RunTo(t, r, t.q[r], r)) /\ RunTo(t, r, t.q[r], r) \in Connection
<1> DEFINE row == t.q[r]
           u == RunTo(t, r, row, r)
<1>1. Row(t, r) /\ row \in Request
  BY Parts DEF Good, Rows
<1>2. r \in 1 .. t.made
  BY <1>1, MadeFacts DEF Row
<1>3. r \in 0 .. NReq
  BY RequestsAssumption DEF Req
<1>4. RunSays(t, u, r, row, r)
  BY <1>1, <1>3, RunToFacts
<1> HIDE DEF u
<1>5. /\ u \in Connection /\ u.q[r] = t.q[r] /\ \A y \in Req : u.q[y] = t.q[y]
      /\ u.made = t.made /\ u.data = t.data /\ u.run = r /\ u.posted = t.posted
      /\ ~u.closed /\ u.count = t.count /\ u.subrequests = t.subrequests
  BY <1>4 DEF RunSays, Good
<1>6. OneRow(t, u, r)
  <2>1. \A i \in DOMAIN t.q[r].body : t.q[r].body[i].n # 0
    BY DEF Good, Side
  <2> QED  BY <1>5, <2>1 DEF OneRow
<1>7. Row(u, r)
  <2>1. t.q[r].post => u.q[t.q[r].parent].st = t.q[t.q[r].parent].st
    <3>1. t.q[r].post => r \in 2 .. t.made
      BY <1>1, MadeFacts DEF Row
    <3>2. t.q[r].post => t.q[r].parent \in Req
      BY <3>1, ParentFacts DEF Good
    <3> QED  BY <1>5, <3>2
  <2> QED  BY <1>1, <1>5, <2>1 DEF Row
<1>8. Good(u)
  BY <1>2, <1>5, <1>6, <1>7, StageGood DEF Good, Reach
<1> QED  BY <1>5, <1>8 DEF u

LEMMA ResumesSound ==
    ASSUME Sound(s), NEW r \in Req, Resumes(r)
    PROVE  Sound(s')
<1>1. s \in Connection /\ Good(s) /\ s.q[r].st = "handling"
  BY IdleGood DEF Resumes
<1>2. s' = RunTo(s, r, s.q[r], r)
  BY <1>1, ResumeForm DEF Resumes
<1> QED  BY <1>1, <1>2, ResumeGood DEF Sound

LEMMA FinishesSound ==
    ASSUME Sound(s), NEW r \in Req, NEW rc \in {"OK", "ERROR", "500"}, Finishes(r, rc)
    PROVE  Sound(s')
<1> DEFINE t == Over(s, r)
<1>1. s \in Connection /\ s.run = r
  BY DEF Finishes, Handling, Sound
<1>2. PICK ch \in BOOLEAN :
        s' = Finalize(IF rc = "OK" THEN SendNext(t, r, ch) ELSE t, r, rc, ch)
  BY DEF Finishes, Over
<1>3. Good(t) /\ t \in Connection /\ t.run = None /\ r \in 1 .. t.made /\ t.q[r].st = "over"
  BY <1>1, OverGood
<1> HIDE DEF t
<1>4. CASE rc # "OK"
  BY <1>2, <1>3, <1>4, FinalizeSound
<1>5. CASE rc = "OK"
  <2> DEFINE u == SendNext(t, r, ch)
  <2>1. Good(u) /\ Loose(t, u)
    BY <1>3, GoodSendNext
  <2>2. s' = Finalize(u, r, rc, ch)
    BY <1>2, <1>5
  <2> HIDE DEF u
  <2>3. u \in Connection /\ u.run = None /\ r \in 1 .. u.made /\ u.q[r].st = "over"
    BY <1>3, <2>1 DEF Loose, SameRow
  <2> QED  BY <2>1, <2>2, <2>3, FinalizeSound
<1> QED  BY <1>4, <1>5

LEMMA FinishesEmptySound ==
    ASSUME Sound(s), NEW r \in Req, FinishesEmpty(r)
    PROVE  Sound(s')
<1> DEFINE t == Over(s, r)
           u == SendHeader(t, r)
<1>1. s \in Connection /\ s.run = r
  BY DEF FinishesEmpty, Handling, Sound
<1>2. PICK ch \in BOOLEAN : s' = Finalize(u, r, "OK", ch)
  BY DEF FinishesEmpty, Over
<1>3. Good(t) /\ t \in Connection /\ t.run = None /\ r \in 1 .. t.made /\ t.q[r].st = "over"
  BY <1>1, OverGood
<1> HIDE DEF t
<1>4. Calm(t, u)
  BY <1>3, HeaderCalm DEF Good
<1> HIDE DEF u
<1>5. Good(u) /\ Loose(t, u) /\ u \in Connection /\ u.made = t.made
  BY <1>3, <1>4, CalmGood
<1>6. u.run = None /\ u.q[r].st = "over"
  BY <1>3, <1>5 DEF Loose, SameRow
<1> QED  BY <1>2, <1>3, <1>5, <1>6, FinalizeSound

-----------------------------------------------------------------------------
(* The theorem.                                                            *)

Inv == Sound(s) /\ build \in Builds

LEMMA InitSound == Init => Sound(s)
<1> SUFFICES ASSUME Init PROVE Sound(s)
  OBVIOUS
<1> DEFINE no == FALSE
           a == Fresh(None, no)
           f == [r \in Req |-> IF r = Main THEN a ELSE [a EXCEPT !.st = "none"]]
           m == <<Main>>
           e == <<>>
<1>1. /\ s = [q |-> f, made |-> Main, data |-> Main, posted |-> m, count |-> 1,
              subrequests |-> build.limit, sent |-> e, buffered |-> no, full |-> no,
              nfull |-> 0, run |-> None, closed |-> no, failed |-> no, stalled |-> no,
              alert |-> no]
      /\ build \in Builds
  BY DEF Init
<1>2. build.limit \in 1 .. 255 /\ NReq \in Nat \ {0} /\ MaxFull \in Nat
  BY <1>1, RequestsAssumption
<1>3. /\ no \in BOOLEAN /\ ~no
  OBVIOUS
<1>4. FreshSays(a, None, no)
  BY <1>3, ParentsIn, FreshFacts DEF None
<1> HIDE DEF no, a
<1>5. a \in Request
  BY <1>4 DEF FreshSays
<1>6. Main \in Req /\ m \in Seq(Req) /\ e \in Seq(Item) /\ m[1] = Main /\ DOMAIN m = {1}
  <2>1. Main \in Req
    BY MainIn
  <2>2. m \in Seq(Req) /\ m[1] = Main /\ DOMAIN m = {1}
    BY <2>1
  <2>3. e \in Seq(Item)
    OBVIOUS
  <2> QED  BY <2>1, <2>2, <2>3
<1>7. f \in [Req -> Request]
  <2>1. [a EXCEPT !.st = "none"] \in Request
    BY <1>5, RequestIs DEF Stages
  <2> QED  BY <1>5, <2>1
<1>8. ASSUME NEW r \in Req
      PROVE  /\ f[r].parent = None /\ f[r].kind = "" /\ f[r].weh = "handler"
             /\ f[r].postponed = <<>> /\ ~f[r].done /\ ~f[r].post /\ ~f[r].hook
             /\ ~f[r].do_hook /\ f[r].body = <<>>
             /\ f[r].st = IF r = Main THEN "made" ELSE "none"
  <2>1. CASE r = Main
    BY <1>3, <1>4, <2>1 DEF FreshSays
  <2>2. CASE r # Main
    <3> DEFINE b == [a EXCEPT !.st = "none"]
    <3>1. /\ b.parent = a.parent /\ b.kind = a.kind /\ b.weh = a.weh
          /\ b.postponed = a.postponed /\ b.done = a.done /\ b.post = a.post
          /\ b.hook = a.hook /\ b.do_hook = a.do_hook /\ b.body = a.body /\ b.st = "none"
      BY <1>5, RequestIs
    <3>2. f[r] = b
      BY <2>2
    <3> HIDE DEF b, f
    <3> QED  BY <1>3, <1>4, <2>2, <3>1, <3>2 DEF FreshSays
  <2> QED  BY <2>1, <2>2
<1> HIDE DEF f, m, e
<1>9. s \in Connection
  <2>1. build.limit \in 0 .. build.limit /\ 1 \in 0 .. 255 /\ 0 \in 0 .. MaxFull /\ 0 \in 0 .. NReq
    BY <1>2
  <2> QED  BY <1>1, <1>3, <1>6, <1>7, <2>1 DEF Connection, None
<1>10. /\ s.q = f /\ s.made = Main /\ s.data = Main /\ s.posted = m /\ s.count = 1
       /\ s.subrequests = build.limit /\ s.run = None /\ s.closed = no
  BY <1>1
<1>11. DOMAIN <<>> = {}
  OBVIOUS
<1>12. Rows(s)
  <2> SUFFICES ASSUME NEW x \in Req PROVE Row(s, x)
    BY DEF Rows
  <2>1. x \in Nat \ {0} /\ (x <= Main <=> x = Main) /\ x \notin 2 .. Main /\ x # None
    BY <1>9, MadeFacts DEF Main, None
  <2> QED  BY <1>8, <1>10, <2>1 DEF Row
<1>13. Side(s)
  BY <1>8, <1>10, <1>11 DEF Side
<1>14. Reach(s) /\ ~s.closed
  BY <1>3, <1>6, <1>10 DEF Reach, None, Main
<1>15. Counts(s)
  <2>1. OpenOf(s) = {}
    BY <1>8, <1>10 DEF OpenOf
  <2>2. HookedOf(s) = {}
    BY <1>8, <1>10 DEF HookedOf
  <2>3. Cardinality({}) = 0
    BY FS_EmptySet
  <2> QED  BY <1>2, <1>10, <2>1, <2>2, <2>3 DEF Counts
<1>16. Tree(s)
  <2> DEFINE P == {Main}
  <2>1. Path(s, P)
    BY <1>10 DEF Path, Main
  <2>2. 2 .. s.made = {}
    BY <1>10 DEF Main
  <2>3. \A r \in Req : DOMAIN s.q[r].postponed = {}
    BY <1>8, <1>10, <1>11
  <2>4. P \in SUBSET Req
    BY <1>6
  <2> QED  BY <2>1, <2>2, <2>3, <2>4 DEF Tree
<1> QED  BY <1>9, <1>12, <1>13, <1>14, <1>15, <1>16 DEF Sound, Good

LEMMA NextSound ==
    ASSUME Inv, [Next]_vars
    PROVE  Inv'
<1>1. Sound(s) /\ build \in Builds
  BY DEF Inv
<1>2. build' = build /\ Sound(s')
  <2>1. CASE UNCHANGED vars
    BY <1>1, <2>1 DEF vars
  <2>2. CASE RunPosted
    BY <1>1, <2>2, RunPostedSound DEF RunPosted
  <2>3. CASE SocketWritable
    BY <1>1, <2>3, SocketWritableSound DEF SocketWritable
  <2>4. CASE SendTimesOut
    BY <1>1, <2>4, SendTimesOutSound DEF SendTimesOut
  <2>5. ASSUME NEW r \in Req, NEW kind \in build.kinds, Chosen(r, kind)
        PROVE  build' = build /\ Sound(s')
    <3>1. kind \in Kind
      BY <1>1, RequestsAssumption
    <3> QED  BY <1>1, <2>5, <3>1, ChosenSound DEF Chosen
  <2>6. ASSUME NEW r \in Req, SendsBuffer(r) PROVE build' = build /\ Sound(s')
    BY <1>1, <2>6, SendsBufferSound DEF SendsBuffer
  <2>7. ASSUME NEW r \in Req, StartsSubrequest(r) PROVE build' = build /\ Sound(s')
    BY <1>1, <2>7, StartsSubrequestSound DEF StartsSubrequest
  <2>8. ASSUME NEW r \in Req, Pauses(r) PROVE build' = build /\ Sound(s')
    BY <1>1, <2>8, PausesSound DEF Pauses
  <2>9. ASSUME NEW r \in Req, Resumes(r) PROVE build' = build /\ Sound(s')
    BY <1>1, <2>9, ResumesSound DEF Resumes
  <2>10. ASSUME NEW r \in Req, FinishesEmpty(r) PROVE build' = build /\ Sound(s')
    BY <1>1, <2>10, FinishesEmptySound DEF FinishesEmpty
  <2>11. ASSUME NEW r \in Req, NEW rc \in {"OK", "ERROR", "500"}, Finishes(r, rc)
         PROVE  build' = build /\ Sound(s')
    BY <1>1, <2>11, FinishesSound, ZenonT(30) DEF Finishes
  <2> QED  BY <2>1, <2>2, <2>3, <2>4, <2>5, <2>6, <2>7, <2>8, <2>9, <2>10, <2>11 DEF Next
<1>3. Sound(s)'
  BY <1>2, ZenonT(30) DEF Sound, Dead, Good, Rows, Row, Side, Reach, Tree, Path, Reached, Listed, Waiting,
              Counts, OpenOf, HookedOf, Connection, Request, Sub
<1> QED  BY <1>1, <1>2, <1>3 DEF Inv

\* What the program relies on: the connection that is neither closed nor to be terminated.
LEMMA SoundTree == Inv => TreeConsistent
<1> SUFFICES ASSUME Inv PROVE TreeConsistent
  OBVIOUS
<1>1. s \in Connection /\ build \in Builds /\ (Good(s) \/ Dead(s))
  BY DEF Inv, Sound
<1>2. Open = OpenOf(s) /\ NdgReturns = HookedOf(s)
  BY DEF Open, OpenOf, NdgReturns, HookedOf
<1>3. ~s.closed /\ s.q[Main].weh # "terminate" => Counts(s)
  BY <1>1 DEF Dead, Good
<1> QED  BY <1>1, <1>2, <1>3 DEF TreeConsistent, TypeOK, CountsRequests, Counts

\* Whatever the requests of a connection do, in whatever order their events arrive: its
\* reference count is that of the requests that are open, and the subrequests that may
\* still be started and those that are open make up the limit.
THEOREM TreeCorrect == Spec => []TreeConsistent
<1>1. Init => Inv
  BY InitSound DEF Inv, Init
<1>2. Inv /\ [Next]_vars => Inv'
  BY NextSound
<1> QED  BY <1>1, <1>2, SoundTree, PTL DEF Spec

-----------------------------------------------------------------------------
(* Progress without the data hook.                                         *)

Posted(t, r) == \E i \in DOMAIN t.posted : t.posted[i] = r

\* Nobody but the subrequest module has callbacks; output is kept from a request that
\* has not run, and none is left at one that waits for its turn to end.
BareRow(t, r) ==
    /\ ~t.q[r].post /\ t.q[r].kind # "ndg" /\ t.q[r].weh # "parent_post"
    /\ t.q[r].weh \in {"handler", "finalizer"} => t.q[r].postponed = <<>>
    /\ t.q[r].weh = "finalizer" => r # Main

\* Who has work to do will be called: its content handler is to run, it is active and
\* has output to move, or it is active and over but for what the socket did not take.
Woken(t, r) ==
    /\ r = t.data /\ t.q[r].postponed # <<>> => Posted(t, r)
    /\ t.q[r].weh = "handler" => Posted(t, r)
    /\ t.q[r].weh = "empty" => t.run = r \/ t.q[r].done
    /\ r = t.data /\ t.q[r].weh = "finalizer" => Posted(t, r)
    /\ r = t.data /\ t.q[r].weh = "writer" => Posted(t, r) \/ (r = Main /\ t.buffered)

\* The list ends with a buffer, if it has an end.
EndsAt(l) == l # <<>> => l[Len(l)].n # 0

\* The postponed output of r ends with a buffer of its own, and there is some if another
\* request is active.
Ended(t, r) == EndsAt(t.q[r].postponed) /\ (r # t.data => t.q[r].postponed # <<>>)

\* All but x, whose code runs, will be called.
Flow(t, x) ==
    /\ ~t.q[Main].done
    /\ \A r \in Req : BareRow(t, r)
    /\ \A r \in 1 .. t.made : r # x => Woken(t, r)
    /\ t.q[Main].weh = "writer" => Ended(t, Main)

\* The socket is full exactly when it left something behind.
Level(t) == t.buffered <=> t.full

Fluent(t) == ~t.stalled /\ (Good(t) => Flow(t, None) /\ Level(t))

\* A step of r that keeps the others called; who becomes active is posted.
Follows(t, u, r) ==
    /\ \A y \in 1 .. u.made : y = r \/ y \in 1 .. t.made
    /\ u.data = t.data \/ Posted(u, u.data)
    /\ t.data # r /\ t.buffered => u.buffered
    /\ u.run = t.run \/ t.run \in {r, None}
    /\ \A y \in Req \ {r} :
         /\ u.q[y].weh = t.q[y].weh /\ (u.q[y].post <=> t.q[y].post)
         /\ u.q[y].kind = t.q[y].kind /\ (u.q[y].done <=> t.q[y].done)
         /\ Posted(t, y) => Posted(u, y)
         /\ \/ u.q[y].postponed = t.q[y].postponed
            \/ /\ y = u.data => Posted(u, y)
               /\ t.q[y].weh \notin {"handler", "finalizer"} \/ u.q[y].postponed = <<>>

LEMMA FlowFollows ==
    ASSUME NEW t \in Connection, NEW u, NEW r \in Req, Flow(t, None) \/ Flow(t, r),
           Follows(t, u, r), BareRow(u, r), ~u.q[Main].done, u.made \in Nat,
           1 .. u.made \subseteq Req,
           u.q[Main].weh = "writer" => Ended(u, Main)
    PROVE  /\ Flow(u, r)
           /\ Woken(u, r) => Flow(u, None)
<1>1. ASSUME NEW y \in Req, y # r PROVE BareRow(u, y)
  <2>1. BareRow(t, y)
    BY DEF Flow
  <2>2. /\ u.q[y].weh = t.q[y].weh /\ (u.q[y].post <=> t.q[y].post)
        /\ u.q[y].kind = t.q[y].kind
        /\ \/ u.q[y].postponed = t.q[y].postponed
           \/ t.q[y].weh \notin {"handler", "finalizer"} \/ u.q[y].postponed = <<>>
    BY <1>1 DEF Follows
  <2> QED  BY <2>1, <2>2 DEF BareRow
<1>2. ASSUME NEW y \in 1 .. u.made, y # r PROVE Woken(u, y)
  <2>1. y \in 1 .. t.made /\ y \in Req /\ y # None
    BY <1>2, MadeFacts DEF Follows, None
  <2>2. Woken(t, y)
    BY <1>2, <2>1 DEF Flow, None
  <2>3. /\ u.q[y].weh = t.q[y].weh /\ (u.q[y].done <=> t.q[y].done)
        /\ Posted(t, y) => Posted(u, y)
        /\ u.q[y].postponed = t.q[y].postponed \/ (y = u.data => Posted(u, y))
    BY <1>2, <2>1 DEF Follows
  <2>4. /\ u.data = t.data \/ Posted(u, u.data)
        /\ t.data # r /\ t.buffered => u.buffered
        /\ u.run = t.run \/ t.run \in {r, None}
    BY DEF Follows
  <2> HIDE DEF Posted
  <2> QED  BY <1>2, <2>1, <2>2, <2>3, <2>4 DEF Woken
<1>3. Flow(u, r)
  BY <1>1, <1>2 DEF Flow
<1>4. ASSUME Woken(u, r) PROVE Flow(u, None)
  BY <1>1, <1>2, <1>4 DEF Flow
<1> QED  BY <1>3, <1>4

\* The queue of posted requests grows.
LEMMA PostedAppend ==
    ASSUME NEW t \in Connection, NEW u \in Connection, NEW c \in Req,
           u.posted = Append(t.posted, c)
    PROVE  Posted(u, c) /\ \A y \in Req : Posted(t, y) => Posted(u, y)
<1> DEFINE p == t.posted
<1>6. p \in Seq(Req)
  BY Parts
<1>1. /\ DOMAIN Append(p, c) = 1 .. Len(p) + 1 /\ Len(p) \in Nat /\ DOMAIN p = 1 .. Len(p)
      /\ \A k \in 1 .. Len(p) : Append(p, c)[k] = p[k]
      /\ Append(p, c)[Len(p) + 1] = c
  BY <1>6, AppendProperties, LenProperties
<1> HIDE DEF p
<1>2. u.posted = Append(p, c)
  BY DEF p
<1>3. Len(p) + 1 \in DOMAIN Append(p, c) /\ \A k \in DOMAIN p : k \in DOMAIN Append(p, c)
  BY <1>1
<1>4. Posted(u, c)
  BY <1>1, <1>2, <1>3 DEF Posted
<1>5. ASSUME NEW y \in Req, Posted(t, y) PROVE Posted(u, y)
  <2>1. PICK k \in DOMAIN p : p[k] = y
    BY <1>5 DEF Posted, p
  <2> QED  BY <1>1, <1>2, <1>3, <2>1 DEF Posted
<1> QED  BY <1>4, <1>5

LEMMA PostedSame ==
    ASSUME NEW t, NEW u, u.posted = t.posted
    PROVE  \A y \in Req : Posted(u, y) <=> Posted(t, y)
BY DEF Posted

LEMMA EndsJoin ==
    ASSUME NEW p \in Seq(Item), NEW in, Buffers(in), in # <<>> \/ EndsAt(p)
    PROVE  EndsAt(p \o in)
<1>1. /\ in \in Seq(Item) /\ Len(p) \in Nat /\ Len(in) \in Nat
      /\ DOMAIN p = 1 .. Len(p) /\ DOMAIN in = 1 .. Len(in)
      /\ p \o in \in Seq(Item) /\ Len(p \o in) = Len(p) + Len(in)
      /\ \A i \in DOMAIN in : in[i].n # 0
  BY LenProperties, ConcatProperties DEF Buffers
<1>2. CASE in = <<>>
  <2>1. p \o in = p
    BY <1>1, <1>2, ConcatEmptySeq
  <2>2. EndsAt(p)
    BY <1>2
  <2> QED  BY <2>1, <2>2
<1>3. CASE in # <<>>
  <2>1. Len(in) # 0
    BY <1>1, <1>3, EmptySeq
  <2>2. (p \o in)[Len(p) + Len(in)] = in[Len(in)]
    BY <1>1, <2>1, ConcatProperties
  <2>3. in[Len(in)].n # 0
    BY <1>1, <2>1
  <2> QED  BY <1>1, <2>2, <2>3 DEF EndsAt
<1> QED  BY <1>2, <1>3

\* The end of a list from which the first elements were taken.
LEMMA EndsRest ==
    ASSUME NEW list \in Seq(Item), NEW l \in Seq(Item), NEW i \in 1 .. Len(list),
           DOMAIN l = 1 .. Len(list) - i, \A k \in 1 .. Len(list) - i : l[k] = list[i + k],
           EndsAt(list)
    PROVE  /\ EndsAt(l)
           /\ list[i].n = 0 => l # <<>>
<1> DEFINE m == Len(list)
           d == Len(l)
<1>1. m \in Nat /\ d \in Nat /\ DOMAIN l = 1 .. d /\ (l = <<>> <=> d = 0)
  BY LenProperties, EmptySeq
<1>2. i \in 1 .. m /\ DOMAIN l = 1 .. m - i /\ \A k \in 1 .. m - i : l[k] = list[i + k]
  OBVIOUS
<1>3. m # 0 /\ list # <<>> /\ list[m].n # 0
  <2>1. m # 0
    BY <1>1
  <2>2. list # <<>>
    BY <2>1, EmptySeq
  <2> QED  BY <2>1, <2>2 DEF EndsAt
<1> HIDE DEF m, d
<1>4. d = m - i
  BY <1>1, <1>2
<1>5. l # <<>> => l[d] = list[m]
  <2>1. l # <<>> => d \in 1 .. m - i /\ i + d = m
    BY <1>1, <1>2, <1>4
  <2> QED  BY <1>2, <2>1
<1>6. EndsAt(l)
  BY <1>3, <1>5 DEF EndsAt, d
<1>7. list[i].n = 0 => l # <<>>
  <2>1. list[i].n = 0 => i # m
    BY <1>3
  <2>2. i # m => d # 0
    BY <1>1, <1>2, <1>4
  <2> QED  BY <1>1, <2>1, <2>2
<1> QED  BY <1>6, <1>7

\* The postpone filter for r: whoever becomes active is posted, and the active request
\* has no output to move when the filter is through.
LEMMA FlowPostpone ==
    ASSUME NEW t \in Connection, Good(t), NEW r \in 1 .. t.made, NEW in, Buffers(in),
           NEW ch \in BOOLEAN, Flow(t, r), t.q[r].weh \notin {"handler", "finalizer"}
    PROVE  /\ Flow(PostponeFilter(t, r, in, ch), r)
           /\ r = PostponeFilter(t, r, in, ch).data
                => PostponeFilter(t, r, in, ch).q[r].postponed = <<>>
           /\ in # <<>> \/ Ended(t, r) => Ended(PostponeFilter(t, r, in, ch), r)
           /\ Level(t) \/ (r = t.data /\ t.buffered) => Level(PostponeFilter(t, r, in, ch))
<1> DEFINE u == PostponeFilter(t, r, in, ch)
           p == t.q[r].postponed
           list == p \o in
<1>1. /\ in \in Seq(Item) /\ (\A i \in DOMAIN in : in[i].n # 0) /\ r \in Req
      /\ p \in Seq(Item)
  BY MadeFacts, Parts, RowParts DEF Buffers
<1>2. list \in Seq(Item) /\ Kept(t, u, r) /\ Moved(t, u, r, list)
  BY <1>1, PostponeFacts
<1>13. Children(t, r, list)
  BY <1>1, ListedChild DEF Good
<1> HIDE DEF u
<1>3. /\ u \in Connection /\ u.made = t.made /\ u.run = t.run
      /\ (Level(t) \/ (r = t.data /\ t.buffered) => Level(u))
      /\ (r # t.data /\ t.buffered => u.buffered)
      /\ \A x \in Req : SameRow(t.q[x], u.q[x])
      /\ \A x \in Req \ {r} : u.q[x] = t.q[x]
      /\ u.q[r].postponed \in Seq(Item)
  <2>1. u \in Connection
    BY <1>2 DEF Kept, Loose
  <2>2. u.q[r].postponed \in Seq(Item)
    BY <1>1, <2>1, Parts, RowParts
  <2> QED  BY <1>2, <2>1, <2>2 DEF Kept, Loose, Level, SameSocket
<1>4. in # <<>> \/ Ended(t, r) => EndsAt(list) /\ (r # t.data => list # <<>>)
  <2>1. ASSUME in # <<>> \/ Ended(t, r) PROVE EndsAt(list)
    BY <1>1, <2>1, EndsJoin DEF Ended
  <2>2. ASSUME in # <<>> \/ (Ended(t, r) /\ r # t.data) PROVE list # <<>>
    <3>1. Len(list) = Len(p) + Len(in) /\ Len(p) \in Nat /\ Len(in) \in Nat
      BY <1>1, ConcatProperties, LenProperties
    <3>2. in # <<>> \/ p # <<>>
      BY <2>2 DEF Ended
    <3>3. Len(in) # 0 \/ Len(p) # 0
      BY <1>1, <3>2, EmptySeq
    <3> QED  BY <1>2, <3>1, <3>3, EmptySeq
  <2> HIDE DEF list
  <2> QED  BY <2>1, <2>2
<1> HIDE DEF list, p
<1>5. /\ \A y \in Req : Posted(t, y) => Posted(u, y)
      /\ u.data = t.data \/ (r = t.data /\ Posted(u, u.data))
      /\ r = u.data => u.q[r].postponed = <<>>
      /\ EndsAt(list) /\ (r # t.data => list # <<>>) => Ended(u, r)
  <2>1. CASE /\ u.data = t.data /\ u.posted = t.posted
             /\ r = t.data => u.q[r].postponed = <<>>
             /\ r # t.data => u.q[r].postponed = list
    <3>1. \A y \in Req : Posted(u, y) <=> Posted(t, y)
      BY <2>1, PostedSame
    <3> QED  BY <2>1, <3>1 DEF Ended, EndsAt
  <2>2. CASE /\ r = t.data
             /\ \E i \in 1 .. Len(list) :
                  /\ list[i].n = 0 /\ DOMAIN u.q[r].postponed = 1 .. Len(list) - i
                  /\ \A k \in 1 .. Len(list) - i : u.q[r].postponed[k] = list[i + k]
                  /\ u.data = list[i].by /\ u.posted = Append(t.posted, list[i].by)
    <3>1. PICK i \in 1 .. Len(list) :
                  /\ list[i].n = 0 /\ DOMAIN u.q[r].postponed = 1 .. Len(list) - i
                  /\ \A k \in 1 .. Len(list) - i : u.q[r].postponed[k] = list[i + k]
                  /\ u.data = list[i].by /\ u.posted = Append(t.posted, list[i].by)
      BY <2>2
    <3> DEFINE c == list[i].by
    <3>2. i \in DOMAIN list
      BY <1>2, LenProperties
    <3>3. c \in 2 .. t.made /\ t.q[c].parent = r
      BY <3>1, <3>2, <1>13 DEF Children
    <3>4. u.data = c /\ u.posted = Append(t.posted, c)
      BY <3>1
    <3> HIDE DEF c
    <3>5. c \in Req /\ c # r /\ t.posted \in Seq(Req)
      <4>1. c \in Req /\ t.q[c].parent \in 1 .. c - 1
        BY <3>3, MadeFacts, ParentFacts DEF Good
      <4>2. c \in Nat
        BY <4>1, MadeFacts
      <4> QED  BY <3>3, <4>1, <4>2, Parts
    <3>6. Posted(u, c) /\ \A y \in Req : Posted(t, y) => Posted(u, y)
      BY <1>3, <3>4, <3>5, PostedAppend
    <3>7. EndsAt(list) => EndsAt(u.q[r].postponed) /\ u.q[r].postponed # <<>>
      BY <1>2, <1>3, <3>1, EndsRest
    <3> QED  BY <2>2, <3>4, <3>5, <3>6, <3>7 DEF Ended
  <2> QED  BY <1>2, <2>1, <2>2 DEF Moved, p
<1>6. in # <<>> \/ Ended(t, r) => Ended(u, r)
  BY <1>4, <1>5
<1>7. Follows(t, u, r)
  BY <1>3, <1>5 DEF Follows, SameRow
<1>8. BareRow(u, r)
  BY <1>1, <1>3 DEF Flow, BareRow, SameRow
<1>9. Main \in Req /\ ~u.q[Main].done /\ u.q[Main].weh = t.q[Main].weh
  BY <1>3, MainIn DEF Flow, SameRow
<1>10. ASSUME u.q[Main].weh = "writer" PROVE Ended(u, Main)
  <2>1. Ended(t, Main)
    BY <1>9, <1>10 DEF Flow
  <2>2. CASE r = Main
    BY <1>6, <2>1, <2>2
  <2>3. CASE r # Main
    <3>1. u.q[Main].postponed = t.q[Main].postponed
      BY <1>3, <1>9, <2>3
    <3> QED  BY <1>5, <2>1, <2>3, <3>1 DEF Ended
  <2> QED  BY <2>2, <2>3
<1>11. u.made \in Nat /\ 1 .. u.made \subseteq Req
  BY <1>3, MadeFacts
<1>12. Flow(u, r)
  BY <1>1, <1>7, <1>8, <1>9, <1>10, <1>11, FlowFollows
<1> QED  BY <1>3, <1>5, <1>6, <1>12 DEF u

\* A step that neither the tree nor the socket notices.
LEMMA FlowCalm ==
    ASSUME NEW t \in Connection, NEW u, NEW x, Flow(t, x), Calm(t, u)
    PROVE  Flow(u, x) /\ (Level(t) => Level(u)) /\ u.stalled = t.stalled /\ u.data = t.data
<1>1. /\ u.made = t.made /\ u.data = t.data /\ u.posted = t.posted /\ u.run = t.run
      /\ u.buffered = t.buffered /\ u.full = t.full /\ u.stalled = t.stalled
      /\ \A y \in Req : SameRow(t.q[y], u.q[y]) /\ u.q[y].postponed = t.q[y].postponed
  BY DEF Calm, Quiet, SameRest, SameSocket
<1>2. \A y \in Req : Posted(u, y) <=> Posted(t, y)
  BY <1>1, PostedSame
<1>3. Main \in Req /\ 1 .. t.made \subseteq Req
  BY MainIn, MadeFacts
<1>4. \A y \in Req : BareRow(t, y) => BareRow(u, y)
  BY <1>1 DEF BareRow, SameRow
<1>5. \A y \in 1 .. t.made : Woken(t, y) => Woken(u, y)
  BY <1>1, <1>2, <1>3 DEF Woken, SameRow
<1>6. Ended(t, Main) => Ended(u, Main)
  BY <1>1, <1>3 DEF Ended
<1>7. Flow(u, x)
  BY <1>1, <1>3, <1>4, <1>5, <1>6 DEF Flow, SameRow
<1> QED  BY <1>1, <1>7 DEF Level

\* A handler sends a buffer; the active request has nothing to move then.
LEMMA FlowSendNext ==
    ASSUME ~build.hook, NEW t \in Connection, Good(t), NEW r \in 1 .. t.made,
           NEW ch \in BOOLEAN, Flow(t, r), t.q[r].weh \notin {"handler", "finalizer"}
    PROVE  /\ Flow(SendNext(t, r, ch), r) /\ Ended(SendNext(t, r, ch), r)
           /\ r = SendNext(t, r, ch).data => SendNext(t, r, ch).q[r].postponed = <<>>
           /\ Level(t) => Level(SendNext(t, r, ch))
<1> DEFINE in == <<NextBuffer(t, r)>>
<1>1. Buffers(in) /\ in # <<>>
  BY SendNextIs
<1>2. PICK h : Calm(t, h) /\ SendNext(t, r, ch) = BodyFilter(h, r, in, ch)
  BY SendNextIs
<1> HIDE DEF in
<1>3. Good(h) /\ h \in Connection /\ r \in 1 .. h.made /\ r \in Req
  BY <1>2, CalmGood, MadeFacts
<1>4. Flow(h, r) /\ (Level(t) => Level(h)) /\ h.q[r].weh = t.q[r].weh
  BY <1>2, <1>3, FlowCalm DEF Calm, Quiet, SameRow
<1>5. SendNext(t, r, ch) = PostponeFilter(h, r, in, ch)
  BY <1>2 DEF BodyFilter
<1> QED  BY <1>1, <1>3, <1>4, <1>5, FlowPostpone

-----------------------------------------------------------------------------
(* The end of a request.                                                   *)

LEMMA ByteOne ==
    ASSUME NEW c \in 0 .. 255, (c + 0) % 256 = 1
    PROVE  c = 1
OBVIOUS

\* Without the data hook the main request is the last one when it is active and has no
\* output to move, so that its reference is the last one.
LEMMA LastOne ==
    ASSUME NEW t \in Connection, Good(t), ~t.q[Main].done,
           \A r \in Req : t.q[r].kind # "ndg", t.data = Main, t.q[Main].postponed = <<>>
    PROVE  t.count = 1
<1>1. HookedOf(t) = {}
  <2>1. \A r \in Req : t.q[r].hook => t.q[r].kind = "ndg"
    BY DEF Good, Rows, Row
  <2> QED  BY <2>1 DEF HookedOf
<1>2. OpenOf(t) = {}
  <2> SUFFICES ASSUME OpenOf(t) # {} PROVE FALSE
    OBVIOUS
  <2>1. OpenOf(t) \in SUBSET Nat
    BY MainIn DEF OpenOf
  <2>2. PICK c \in OpenOf(t) : \A k \in OpenOf(t) : c <= k
    BY <2>1, LeastNat
  <2>3. c \in Req /\ c # Main /\ ~t.q[c].done /\ t.q[c].st # "none"
    BY <2>2 DEF OpenOf
  <2>4. c \in 2 .. t.made /\ c \in Nat
    BY <2>3, MadeFacts DEF Good, Rows, Row
  <2> DEFINE p == t.q[c].parent
  <2>5. p \in 1 .. c - 1 /\ p \in Req
    BY <2>4, ParentFacts DEF Good
  <2>6. PICK P \in SUBSET Req : TreeAt(t, P)
    BY TreeIs DEF Good
  <2>7. Reached(t, P, c) /\ Path(t, P)
    BY <2>4, <2>6 DEF TreeAt
  <2>8. /\ c \in P \/ Listed(t, p, c)
        /\ p = Main \/ ~t.q[p].done
    BY <2>3, <2>7 DEF Reached
  <2> HIDE DEF p
  <2>9. p = Main
    <3> SUFFICES ASSUME p # Main PROVE FALSE
      OBVIOUS
    <3>1. p <= t.made /\ p < c
      BY <2>4, <2>5, MadeFacts
    <3>2. t.q[p].st # "none"
      BY <2>5, <3>1 DEF Good, Rows, Row
    <3>3. p \in OpenOf(t)
      BY <2>5, <2>8, <3>2 DEF OpenOf
    <3> QED  BY <2>2, <2>4, <2>5, <3>1, <3>3
  <2>10. c \notin P
    BY <2>4, <2>7 DEF Path, Main
  <2>11. ~Listed(t, Main, c)
    BY DEF Listed
  <2> QED  BY <2>8, <2>9, <2>10, <2>11
<1>3. Cardinality(OpenOf(t)) = 0 /\ Cardinality(HookedOf(t)) = 0
  BY <1>1, <1>2, FS_EmptySet
<1>4. (t.count + Cardinality(HookedOf(t))) % 256 = 1 + Cardinality(OpenOf(t))
  BY DEF Good, Counts
<1>5. t.count \in 0 .. 255
  BY Parts
<1>6. (t.count + 0) % 256 = 1
  BY <1>3, <1>4
<1> QED  BY <1>5, <1>6, ByteOne

\* A request whose list loses its head.
LEMMA EndsTail ==
    ASSUME NEW l \in Seq(Item), l # <<>>, EndsAt(l)
    PROVE  EndsAt(Tail(l))
<1>1. Len(l) \in Nat /\ Len(l) # 0
  BY LenProperties, EmptySeq
<1>2. /\ Tail(l) \in Seq(Item) /\ Len(Tail(l)) = Len(l) - 1
      /\ \A k \in 1 .. Len(Tail(l)) : Tail(l)[k] = l[k + 1]
  BY HeadTailProperties
<1>3. DOMAIN Tail(l) = 1 .. Len(l) - 1
  BY <1>2, LenProperties
<1>4. \A k \in 1 .. Len(l) - 1 : Tail(l)[k] = l[1 + k]
  BY <1>1, <1>2
<1>5. 1 \in 1 .. Len(l)
  <2> DEFINE n == Len(l)
  <2>1. n \in Nat /\ n # 0
    BY <1>1
  <2> HIDE DEF n
  <2>2. 1 \in 1 .. n
    BY <2>1
  <2> QED  BY <2>2 DEF n
<1> QED  BY <1>2, <1>3, <1>4, <1>5, EndsRest

\* The active subrequest ends: its parent becomes active and is posted.
LEMMA FlowLeave ==
    ASSUME NEW t \in Connection, Good(t), NEW r \in 2 .. t.made, r = t.data, Flow(t, r),
           t.q[r].postponed = <<>>, t.q[r].st = "over", NEW u, NEW p, p = t.q[r].parent,
           Left(t, u, r, p)
    PROVE  /\ Flow(Post(u, p), None) /\ (Level(t) => Level(Post(u, p)))
           /\ Post(u, p).stalled = t.stalled
<1> DEFINE w == Post(u, p)
<1>1. r \in Req /\ r # Main /\ p \in Req /\ p # r
  <2>1. r \in Req /\ p \in 1 .. r - 1 /\ p \in Req
    BY MadeFacts, ParentFacts, ZenonT(30) DEF Good
  <2> QED  BY <2>1 DEF Main
<1>2. /\ u \in Connection /\ u.made = t.made /\ u.posted = t.posted /\ u.run = t.run
      /\ u.stalled = t.stalled /\ u.buffered = t.buffered /\ u.full = t.full
      /\ u.data = p /\ u.q[r].done /\ Unlisted(t, r, p, u.q[p].postponed)
      /\ \A x \in Req :
           /\ u.q[x].kind = t.q[x].kind /\ u.q[x].weh = t.q[x].weh
           /\ (u.q[x].post <=> t.q[x].post)
           /\ x # r => (u.q[x].done <=> t.q[x].done)
           /\ x # p => u.q[x].postponed = t.q[x].postponed
  BY ZenonT(30) DEF Left, SameSocket
<1>3. /\ w \in Connection /\ w.q = u.q /\ w.made = u.made /\ w.run = u.run /\ w.data = u.data
      /\ w.posted = Append(t.posted, p) /\ w.stalled = u.stalled
      /\ w.buffered = u.buffered /\ w.full = u.full
  <2> DEFINE l == Append(u.posted, p)
  <2>1. u.posted \in Seq(Req) /\ l \in Seq(Req)
    BY <1>1, <1>2, Parts, AppendProperties, ZenonT(30)
  <2>2. w = WithPosted(u, l)
    BY ZenonT(30) DEF Post, WithPosted
  <2>3. l = Append(t.posted, p)
    BY <1>2, ZenonT(30)
  <2> HIDE DEF l, w
  <2>4. /\ w \in Connection /\ w.q = u.q /\ w.made = u.made /\ w.run = u.run
        /\ w.data = u.data /\ w.posted = l /\ w.stalled = u.stalled /\ SameSocket(u, w)
    BY <1>2, <2>1, <2>2, SetPosted, ZenonT(30)
  <2> QED  BY <2>3, <2>4, ZenonT(30) DEF SameSocket
<1> HIDE DEF w
<1>4. Posted(w, p) /\ \A y \in Req : Posted(t, y) => Posted(w, y)
  BY <1>1, <1>3, PostedAppend
<1>5. \A y \in Req : BareRow(t, y)
  BY DEF Flow
<1>6. \/ w.q[p].postponed = t.q[p].postponed
      \/ /\ t.q[p].postponed # <<>> /\ w.q[p].postponed = Tail(t.q[p].postponed)
         /\ t.q[p].weh \notin {"handler", "finalizer"}
  BY <1>1, <1>2, <1>3, <1>5, ZenonT(30) DEF Unlisted, BareRow
<1>7. Follows(t, w, r)
  <2>1. ASSUME NEW y \in Req \ {r}
        PROVE  /\ w.q[y].weh = t.q[y].weh /\ (w.q[y].post <=> t.q[y].post)
               /\ w.q[y].kind = t.q[y].kind /\ (w.q[y].done <=> t.q[y].done)
               /\ Posted(t, y) => Posted(w, y)
               /\ \/ w.q[y].postponed = t.q[y].postponed
                  \/ /\ y = w.data => Posted(w, y)
                     /\ t.q[y].weh \notin {"handler", "finalizer"} \/ w.q[y].postponed = <<>>
    <3>1. /\ w.q[y].weh = t.q[y].weh /\ (w.q[y].post <=> t.q[y].post)
          /\ w.q[y].kind = t.q[y].kind /\ (w.q[y].done <=> t.q[y].done)
          /\ y # p => w.q[y].postponed = t.q[y].postponed
      BY <1>2, <1>3, ZenonT(30)
    <3>2. Posted(t, y) => Posted(w, y)
      BY <1>4, ZenonT(30)
    <3>3. y = p => w.data = y /\ Posted(w, y)
      BY <1>2, <1>3, <1>4, ZenonT(30)
    <3> QED  BY <1>6, <3>1, <3>2, <3>3, ZenonT(30)
  <2> QED  BY <1>2, <1>3, <1>4, <2>1, ZenonT(30) DEF Follows
<1>8. w.q[r].postponed = <<>> /\ w.q[r].weh = t.q[r].weh /\ w.q[r].done
  BY <1>1, <1>2, <1>3
<1>9. BareRow(w, r)
  <2>1. (w.q[r].post <=> t.q[r].post) /\ w.q[r].kind = t.q[r].kind
    BY <1>1, <1>2, <1>3, ZenonT(30)
  <2>2. BareRow(t, r)
    BY <1>1, <1>5, ZenonT(30)
  <2> QED  BY <1>1, <1>8, <2>1, <2>2, ZenonT(30) DEF BareRow
<1>10. Woken(w, r)
  <2>1. t.q[r].weh # "handler"
    BY <1>1, ZenonT(30) DEF Good, Rows, Row
  <2> QED  BY <1>1, <1>2, <1>3, <1>8, <2>1, ZenonT(30) DEF Woken
<1>11. Main \in Req /\ ~w.q[Main].done /\ w.q[Main].weh = t.q[Main].weh
  BY <1>1, <1>2, <1>3, MainIn, ZenonT(30) DEF Flow
<1>12. ASSUME w.q[Main].weh = "writer" PROVE Ended(w, Main)
  <2>1. Ended(t, Main) /\ t.q[Main].postponed \in Seq(Item)
    BY <1>11, <1>12, Parts, RowParts DEF Flow
  <2>2. CASE p = Main
    <3>1. EndsAt(w.q[Main].postponed)
      BY <1>6, <2>1, <2>2, EndsTail DEF Ended
    <3> QED  BY <1>2, <1>3, <2>2, <3>1 DEF Ended
  <2>3. CASE p # Main
    <3>1. w.q[Main].postponed = t.q[Main].postponed
      BY <1>2, <1>3, <1>11, <2>3
    <3> QED  BY <1>1, <2>1, <3>1, ZenonT(30) DEF Ended
  <2> QED  BY <2>2, <2>3
<1>13. w.made \in Nat /\ 1 .. w.made \subseteq Req
  BY <1>3, MadeFacts
<1>14. Flow(w, None)
  BY <1>1, <1>7, <1>9, <1>10, <1>11, <1>12, <1>13, FlowFollows
<1> QED  BY <1>2, <1>3, <1>14, ZenonT(30) DEF Level, w

\* A request gets another write event handler.
LEMMA FlowTurned ==
    ASSUME NEW t \in Connection, NEW r \in Req, NEW u, Turned(t, u), Flow(t, r),
           \A x \in Req \ {r} : u.q[x].weh = t.q[x].weh, BareRow(u, r),
           r = Main /\ u.q[r].weh = "writer" => Ended(t, Main)
    PROVE  /\ Flow(u, r) /\ (Woken(u, r) => Flow(u, None))
           /\ (Level(t) => Level(u)) /\ u.stalled = t.stalled /\ u.data = t.data
           /\ \A y \in Req : Posted(u, y) <=> Posted(t, y)
<1>1. /\ u \in Connection /\ u.made = t.made /\ u.data = t.data /\ u.posted = t.posted
      /\ u.run = t.run /\ u.buffered = t.buffered /\ u.full = t.full /\ u.stalled = t.stalled
      /\ \A x \in Req : /\ u.q[x].kind = t.q[x].kind /\ (u.q[x].done <=> t.q[x].done)
                        /\ (u.q[x].post <=> t.q[x].post)
                        /\ u.q[x].postponed = t.q[x].postponed
  BY DEF Turned, SameRest, SameSocket
<1>2. \A y \in Req : Posted(u, y) <=> Posted(t, y)
  BY <1>1, PostedSame
<1>3. Main \in Req /\ u.made \in Nat /\ 1 .. u.made \subseteq Req
  BY <1>1, MainIn, MadeFacts
<1>4. Follows(t, u, r)
  BY <1>1, <1>2 DEF Follows
<1>5. ~u.q[Main].done
  BY <1>1, <1>3 DEF Flow
<1>6. ASSUME u.q[Main].weh = "writer" PROVE Ended(u, Main)
  <2>1. Ended(t, Main)
    <3>1. CASE r = Main
      BY <1>6, <3>1
    <3>2. CASE r # Main
      BY <1>3, <1>6, <3>2 DEF Flow
    <3> QED  BY <3>1, <3>2
  <2> QED  BY <1>1, <1>3, <2>1 DEF Ended
<1>7. Flow(u, r) /\ (Woken(u, r) => Flow(u, None))
  BY <1>3, <1>4, <1>5, <1>6, FlowFollows
<1> QED  BY <1>1, <1>2, <1>7 DEF Level

\* A request is posted.
LEMMA FlowPost ==
    ASSUME NEW t \in Connection, Flow(t, None), NEW c \in Req
    PROVE  /\ Flow(Post(t, c), None) /\ (Level(t) => Level(Post(t, c)))
           /\ Post(t, c).stalled = t.stalled
<1> DEFINE l == Append(t.posted, c)
           u == Post(t, c)
<1>1. t.posted \in Seq(Req) /\ l \in Seq(Req)
  BY Parts, AppendProperties
<1>2. u = WithPosted(t, l)
  BY DEF Post, WithPosted
<1> HIDE DEF u, l
<1>3. /\ u \in Connection /\ u.q = t.q /\ u.made = t.made /\ u.run = t.run
      /\ u.data = t.data /\ u.posted = l /\ u.stalled = t.stalled /\ SameSocket(t, u)
  BY <1>1, <1>2, SetPosted
<1>4. \A y \in Req : Posted(t, y) => Posted(u, y)
  BY <1>3, PostedAppend DEF l
<1>5. 1 .. t.made \subseteq Req
  BY MadeFacts
<1>6. \A y \in 1 .. t.made : Woken(t, y) => Woken(u, y)
  BY <1>3, <1>4, <1>5 DEF Woken, SameSocket
<1>7. Flow(u, None)
  BY <1>3, <1>6 DEF Flow, BareRow, Ended
<1> QED  BY <1>3, <1>7 DEF Level, SameSocket, u

\* A request that is over and whose output is in order is finalized: it is called again
\* if there is something left to do, and with the main request the connection is closed.
LEMMA FlowFinalizeOK ==
    ASSUME NEW t \in Connection, Good(t), NEW r \in 1 .. t.made, t.q[r].st = "over",
           t.run = None, Flow(t, r), Level(t), ~t.stalled,
           r = t.data /\ t.q[r].postponed # <<>> => Posted(t, r),
           r = Main => Ended(t, Main)
    PROVE  Fluent(FinalizeOK(t, r))
<1>1. r \in Req /\ BareRow(t, r)
  BY MadeFacts DEF Flow
<1>2. CASE t.q[r].postponed # <<>> \/ (r = Main /\ t.buffered)
  <2> DEFINE u == FinalizeOK(t, r)
  <2>1. "writer" \in Wehs
    BY NamesIn
  <2>2. u = WithWeh(t, r, "writer", t.q[r].status) /\ t.q[r].status \in Codes
    BY <1>1, <1>2, SetWehIs DEF FinalizeOK
  <2> HIDE DEF u
  <2>3. Turned(t, u) /\ u.q[r].weh = "writer" /\ \A x \in Req \ {r} : u.q[x] = t.q[x]
    BY <1>1, <2>1, <2>2, WithWehFacts
  <2>4. /\ u.q[r].postponed = t.q[r].postponed /\ u.data = t.data /\ u.buffered = t.buffered
        /\ (u.q[r].post <=> t.q[r].post) /\ u.q[r].kind = t.q[r].kind
    BY <1>1, <2>3 DEF Turned, SameRest, SameSocket
  <2>5. BareRow(u, r)
    BY <1>1, <2>3, <2>4 DEF BareRow
  <2>6. /\ Woken(u, r) => Flow(u, None)
        /\ Level(u) /\ ~u.stalled /\ (Posted(u, r) <=> Posted(t, r))
    BY <1>1, <2>3, <2>5, FlowTurned
  <2>7. Woken(u, r)
    BY <1>2, <2>3, <2>4, <2>6 DEF Woken
  <2> QED  BY <2>6, <2>7 DEF Fluent, u
<1>3. CASE ~(t.q[r].postponed # <<>> \/ (r = Main /\ t.buffered)) /\ r # Main /\ r = t.data
  <2> DEFINE p == t.q[r].parent
             v == Leave(t, r)
  <2>1. FinalizeOK(t, r) = Post(v, p)
    BY <1>3 DEF FinalizeOK, FinalizeSub
  <2>2. r \in 2 .. t.made /\ t.q[r].postponed = <<>> /\ r = t.data
    BY <1>1, <1>3, MadeFacts
  <2>3. Left(t, v, r, p)
    BY <2>2, LeaveGood
  <2>4. p = t.q[r].parent
    OBVIOUS
  <2> HIDE DEF v, p
  <2>5. /\ Flow(Post(v, p), None) /\ (Level(t) => Level(Post(v, p)))
        /\ Post(v, p).stalled = t.stalled
    BY <2>2, <2>3, <2>4, FlowLeave, SMTT(20)
  <2> QED  BY <2>1, <2>5 DEF Fluent
<1>4. CASE ~(t.q[r].postponed # <<>> \/ (r = Main /\ t.buffered)) /\ r # Main /\ r # t.data
  <2> DEFINE p == t.q[r].parent
             v == [t EXCEPT !.q[r].weh = "finalizer"]
  <2>1. FinalizeOK(t, r) = Post(v, p) /\ r \in 2 .. t.made /\ t.q[r].postponed = <<>>
    BY <1>1, <1>4, MadeFacts DEF FinalizeOK, FinalizeSub
  <2>2. "finalizer" \in Wehs /\ p \in Req
    BY <2>1, NamesIn, ParentFacts DEF Good
  <2>3. v = WithWeh(t, r, "finalizer", t.q[r].status) /\ t.q[r].status \in Codes
    BY <1>1, SetWehIs
  <2> HIDE DEF v
  <2>4. Turned(t, v) /\ v.q[r].weh = "finalizer" /\ \A x \in Req \ {r} : v.q[x] = t.q[x]
    BY <1>1, <2>2, <2>3, WithWehFacts
  <2>5. /\ v.q[r].postponed = t.q[r].postponed /\ v.data = t.data
        /\ (v.q[r].post <=> t.q[r].post) /\ v.q[r].kind = t.q[r].kind /\ v \in Connection
    BY <1>1, <2>4 DEF Turned, SameRest
  <2>6. BareRow(v, r)
    BY <1>1, <1>4, <2>1, <2>4, <2>5 DEF BareRow
  <2>7. (Woken(v, r) => Flow(v, None)) /\ Level(v) /\ ~v.stalled
    BY <1>1, <1>4, <2>4, <2>6, FlowTurned
  <2>8. Woken(v, r)
    BY <1>4, <2>4, <2>5 DEF Woken
  <2>9. Flow(Post(v, p), None) /\ Level(Post(v, p)) /\ ~Post(v, p).stalled
    BY <2>2, <2>5, <2>7, <2>8, FlowPost
  <2> QED  BY <2>1, <2>9 DEF Fluent
<1>5. CASE ~(t.q[r].postponed # <<>> \/ (r = Main /\ t.buffered)) /\ r = Main
  <2>1. r = t.data
    BY <1>5 DEF Ended
  <2>2. FinalizeOK(t, r) = CloseRequest(MainDone(t))
    BY <1>5, <2>1 DEF FinalizeOK, FinalizeConnection, MainDone
  <2> DEFINE v == MainDone(t)
             w == CloseRequest(v)
  <2>3. v \in Connection /\ SameRest(t, v)
    BY <1>5, MainDoneGood
  <2> HIDE DEF v
  <2>4. Closes(v, w)
    BY <2>3, CloseIs
  <2> HIDE DEF w
  <2>5. \A x \in Req : t.q[x].kind # "ndg"
    BY DEF Flow, BareRow
  <2>6. ~t.q[Main].done /\ t.data = Main /\ t.q[Main].postponed = <<>>
    BY <1>5, <2>1 DEF Flow
  <2>7. t.count = 1
    BY <2>5, <2>6, LastOne
  <2>8. w.closed /\ ~w.stalled
    BY <2>3, <2>4, <2>7 DEF Closes, SameRest
  <2> QED  BY <2>2, <2>8 DEF Fluent, Good, v, w
<1> QED  BY <1>2, <1>3, <1>4, <1>5

\* A connection that is to be terminated is not in use.
LEMMA FluentTerminate ==
    ASSUME NEW t \in Connection, t.run = None, ~t.stalled
    PROVE  Fluent(TerminateRequest(t))
<1>1. TerminateRequest(t).q[Main].weh = "terminate" /\ ~TerminateRequest(t).stalled
  BY TerminateSound
<1>2. ~Good(TerminateRequest(t))
  BY <1>1, MainIn DEF Good, Rows, Row
<1> QED  BY <1>1, <1>2 DEF Fluent

\* The content handler of r is over, and r is finalized.
LEMMA FlowFinalize ==
    ASSUME ~build.hook, NEW t \in Connection, Good(t), NEW r \in 1 .. t.made,
           t.q[r].st = "over", t.run = None, Flow(t, r), Level(t), ~t.stalled,
           NEW rc \in {"OK", "ERROR", "500"}, NEW ch \in BOOLEAN,
           rc = "OK" => /\ r = t.data /\ t.q[r].postponed # <<>> => Posted(t, r)
                        /\ r = Main => Ended(t, Main),
           rc # "OK" => t.q[r].weh \notin {"handler", "finalizer"}
    PROVE  Fluent(Finalize(t, r, rc, ch))
<1>1. r \in Req /\ ~t.q[r].post
  BY MadeFacts DEF Flow, BareRow
<1>2. CASE rc = "OK"
  <2>1. Finalize(t, r, rc, ch) = FinalizeOK(t, r)
    BY <1>1, <1>2 DEF Finalize
  <2> QED  BY <1>2, <2>1, FlowFinalizeOK
<1>3. CASE rc # "OK" /\ (rc = "ERROR" \/ t.q[r].header_sent)
  <2>1. Finalize(t, r, rc, ch) = TerminateRequest(t)
    BY <1>1, <1>3 DEF Finalize
  <2> QED  BY <2>1, FluentTerminate
<1>4. CASE rc # "OK" /\ ~(rc = "ERROR" \/ t.q[r].header_sent)
  <2> DEFINE u == SendNext(t, r, ch)
  <2>1. Finalize(t, r, rc, ch) = FinalizeOK(u, r)
    BY <1>1, <1>4 DEF Finalize
  <2>2. Good(u) /\ Loose(t, u)
    BY GoodSendNext
  <2>3. /\ Flow(u, r) /\ Ended(u, r) /\ Level(u)
        /\ r = u.data => u.q[r].postponed = <<>>
    BY <1>4, FlowSendNext
  <2> HIDE DEF u
  <2>4. /\ u \in Connection /\ r \in 1 .. u.made /\ u.q[r].st = "over" /\ u.run = None
        /\ ~u.stalled
    BY <1>1, <2>2 DEF Loose, SameRow
  <2> QED  BY <2>1, <2>2, <2>3, <2>4, FlowFinalizeOK
<1> QED  BY <1>2, <1>3, <1>4

\* ngx_http_writer: what is left is sent, and then the request is finalized.
LEMMA FlowWriter ==
    ASSUME ~build.hook, NEW t \in Connection, Good(t), NEW r \in 1 .. t.made,
           t.run = None, Flow(t, r), Level(t) \/ (r = t.data /\ t.buffered), ~t.stalled,
           t.q[r].weh = "writer", NEW ch \in BOOLEAN
    PROVE  Fluent(Writer(t, r, ch))
<1> DEFINE u == BodyFilter(t, r, <<>>, ch)
           w == [u EXCEPT !.q[r].weh = "empty"]
<1>1. r \in Req /\ t.q[r].st = "over"
  BY MadeFacts DEF Good, Rows, Row
<1>2. Good(u) /\ Loose(t, u)
  BY BuffersNone, GoodBody
<1>3. /\ Flow(u, r) /\ Level(u) /\ (r = u.data => u.q[r].postponed = <<>>)
      /\ r = Main => Ended(u, Main)
  <2>1. u = PostponeFilter(t, r, <<>>, ch)
    BY DEF BodyFilter
  <2>2. r = Main => Ended(t, Main)
    BY DEF Flow
  <2> HIDE DEF u
  <2> QED  BY <2>1, <2>2, BuffersNone, FlowPostpone
<1>4. ~u.q[r].post /\ BareRow(u, r)
  BY <1>1, <1>3 DEF Flow, BareRow
<1>5. Writer(t, r, ch) = IF u.q[r].postponed # <<>> \/ (r = Main /\ u.buffered) THEN u
                         ELSE FinalizeOK(w, r)
  BY <1>4 DEF Writer
<1> HIDE DEF u
<1>6. /\ u \in Connection /\ r \in 1 .. u.made /\ u.q[r].st = "over" /\ u.run = None
      /\ ~u.stalled /\ u.q[r].weh = "writer"
  BY <1>1, <1>2 DEF Loose, SameRow
<1>7. CASE u.q[r].postponed # <<>> \/ (r = Main /\ u.buffered)
  <2>1. Woken(u, r)
    BY <1>3, <1>6, <1>7 DEF Woken
  <2>2. Flow(u, None)
    BY <1>3, <2>1 DEF Flow
  <2> QED  BY <1>3, <1>5, <1>6, <1>7, <2>2 DEF Fluent
<1>8. CASE ~(u.q[r].postponed # <<>> \/ (r = Main /\ u.buffered))
  <2>1. "empty" \in Wehs
    BY NamesIn
  <2>2. w = WithWeh(u, r, "empty", u.q[r].status) /\ u.q[r].status \in Codes
    BY <1>1, <1>6, SetWehIs
  <2> HIDE DEF w
  <2>3. /\ Good(w) /\ Turned(u, w) /\ w.q[r].weh = "empty"
        /\ \A x \in Req \ {r} : w.q[x] = u.q[x]
    BY <1>1, <1>2, <1>6, <2>1, <2>2, WehGood, WithWehFacts
  <2>4. /\ w \in Connection /\ r \in 1 .. w.made /\ w.q[r].st = "over" /\ w.run = None
        /\ w.q[r].postponed = <<>> /\ (w.q[r].post <=> u.q[r].post) /\ w.data = u.data
        /\ w.q[r].kind = u.q[r].kind /\ w.q[r].postponed = u.q[r].postponed
    BY <1>1, <1>6, <1>8, <2>3 DEF Turned, SameRest
  <2>5. BareRow(w, r)
    BY <1>4, <2>3, <2>4 DEF BareRow
  <2>6. Flow(w, r) /\ Level(w) /\ ~w.stalled
    BY <1>1, <1>3, <1>6, <2>3, <2>5, FlowTurned
  <2>7. r = Main => Ended(w, Main)
    BY <1>3, <2>4 DEF Ended
  <2>8. Fluent(FinalizeOK(w, r))
    BY <2>3, <2>4, <2>6, <2>7, FlowFinalizeOK
  <2> QED  BY <1>5, <1>8, <2>8
<1> QED  BY <1>7, <1>8

\* A request is called, from the queue or because the socket is writable.
LEMMA FlowHandler ==
    ASSUME ~build.hook, NEW t \in Connection, Good(t), NEW r \in 1 .. t.made,
           t.run = None, Flow(t, r), ~t.stalled, t.q[r].weh = "empty" => t.q[r].done,
           \/ Level(t)
           \/ r = t.data /\ t.buffered /\ t.q[r].weh \in {"downstream", "writer"},
           NEW ch \in BOOLEAN
    PROVE  Fluent(WriteEventHandler(t, r, ch))
<1>1. r \in Req /\ Row(t, r) /\ t.q[r] \in Request /\ BareRow(t, r)
  BY MadeFacts, Parts DEF Good, Rows, Flow
<1>2. CASE t.q[r].weh = "handler"
  <2> DEFINE z == t.q[r].paused
             kind == t.q[r].kind
             row == StageTo(t.q[r], "handling", kind, "empty", z)
             u == RunTo(t, r, row, r)
  <2>1. WriteEventHandler(t, r, ch) = u
    BY <1>1, <1>2, StageHandling DEF WriteEventHandler
  <2>2. /\ "handling" \in Stages /\ "empty" \in Wehs /\ kind \in Kinds /\ z \in BOOLEAN
        /\ r \in 0 .. NReq
    BY <1>1, NamesIn, ParentsIn, RowParts DEF Parents
  <2>3. StageSays(t.q[r], row, "handling", kind, "empty")
    BY <1>1, <2>2, StageToFacts
  <2> HIDE DEF row
  <2>4. RunSays(t, u, r, row, r)
    BY <1>1, <2>2, <2>3, RunToFacts DEF StageSays
  <2> HIDE DEF u
  <2>5. /\ u.q[r].weh = "empty" /\ u.q[r].postponed = <<>> /\ u.q[r].kind = t.q[r].kind
        /\ (u.q[r].post <=> t.q[r].post) /\ (u.q[r].done <=> t.q[r].done)
    BY <1>1, <1>2, <2>3, <2>4 DEF StageSays, RunSays, BareRow
  <2>6. Follows(t, u, r) /\ u.run = r /\ u.made = t.made /\ (Level(t) => Level(u))
        /\ u.stalled = t.stalled /\ u.data = t.data
    <3>1. /\ u.made = t.made /\ u.data = t.data /\ u.run = r /\ u.posted = t.posted
          /\ u.buffered = t.buffered /\ u.full = t.full /\ u.stalled = t.stalled
          /\ \A y \in Req \ {r} : u.q[y] = t.q[y]
      BY <2>4 DEF RunSays, SameSocket
    <3>2. \A y \in Req : Posted(u, y) <=> Posted(t, y)
      BY <3>1, PostedSame
    <3> QED  BY <3>1, <3>2 DEF Follows, Level
  <2>7. BareRow(u, r) /\ Woken(u, r)
    BY <1>1, <2>5, <2>6 DEF BareRow, Woken
  <2>8. Main \in Req /\ ~u.q[Main].done /\ (u.q[Main].weh = "writer" => Ended(u, Main))
    <3>1. Main \in Req
      BY MainIn
    <3>2. r # Main => u.q[Main] = t.q[Main]
      BY <2>4, <3>1 DEF RunSays
    <3>3. ~t.q[Main].done /\ (t.q[Main].weh = "writer" => Ended(t, Main))
      BY DEF Flow
    <3> QED  BY <2>5, <2>6, <3>1, <3>2, <3>3 DEF Ended
  <2>9. u.made \in Nat /\ 1 .. u.made \subseteq Req
    BY <2>6, MadeFacts
  <2>10. Flow(u, None)
    BY <1>1, <2>6, <2>7, <2>8, <2>9, FlowFollows
  <2> QED  BY <1>2, <2>1, <2>6, <2>10 DEF Fluent
<1>3. CASE t.q[r].weh = "empty"
  <2>1. WriteEventHandler(t, r, ch) = t
    BY <1>3 DEF WriteEventHandler
  <2>2. r # t.data
    <3>1. t.data # Main => ~t.q[t.data].done
      BY ActiveOpen
    <3> QED  BY <1>3, <3>1 DEF Flow
  <2>3. Flow(t, None)
    BY <1>3, <2>2 DEF Flow, Woken
  <2> QED  BY <1>3, <2>1, <2>3 DEF Fluent
<1>4. CASE t.q[r].weh = "downstream"
  <2> DEFINE u == PostponeFilter(t, r, <<>>, ch)
  <2>1. WriteEventHandler(t, r, ch) = u
    BY <1>4 DEF WriteEventHandler, BodyFilter
  <2>2. Loose(t, u)
    BY BuffersNone, GoodPostpone
  <2>3. Flow(u, r) /\ Level(u) /\ (r = u.data => u.q[r].postponed = <<>>)
    BY <1>4, BuffersNone, FlowPostpone
  <2> HIDE DEF u
  <2>4. u.q[r].weh = "downstream" /\ ~u.stalled
    BY <1>1, <1>4, <2>2 DEF Loose, SameRow
  <2>5. Flow(u, None)
    BY <2>3, <2>4 DEF Flow, Woken
  <2> QED  BY <2>1, <2>3, <2>4, <2>5 DEF Fluent
<1>5. CASE t.q[r].weh = "writer"
  <2>1. WriteEventHandler(t, r, ch) = Writer(t, r, ch)
    BY <1>5 DEF WriteEventHandler
  <2>2. Level(t) \/ (r = t.data /\ t.buffered)
    OBVIOUS
  <2> QED  BY <1>5, <2>1, <2>2, FlowWriter
<1>6. CASE t.q[r].weh = "finalizer"
  <2>1. WriteEventHandler(t, r, ch) = Finalize(t, r, "OK", ch)
    BY <1>6 DEF WriteEventHandler
  <2>2. t.q[r].postponed = <<>> /\ r # Main /\ t.q[r].st = "over" /\ Level(t)
    BY <1>1, <1>6 DEF BareRow, Row
  <2> QED  BY <2>1, <2>2, FlowFinalize
<1>7. t.q[r].weh \in {"handler", "empty", "downstream", "writer", "finalizer"}
  BY <1>1, RowParts DEF BareRow, Row, Wehs
<1> QED  BY <1>2, <1>3, <1>4, <1>5, <1>6, <1>7

\* The handler of r starts, goes on, waits or is over.
StageFlows(t, u, r, x, weh) ==
    /\ Flow(u, r) /\ (Level(t) => Level(u)) /\ u.stalled = t.stalled
    /\ r = u.data /\ u.q[r].postponed # <<>> => Posted(u, r)
    /\ x = r \/ weh = "downstream" => Flow(u, None)

LEMMA FlowStage ==
    ASSUME NEW t \in Connection, NEW r \in 1 .. t.made, Flow(t, None), t.run \in {r, None},
           NEW row, NEW st \in Stages, NEW kind \in Kinds, NEW weh \in Wehs,
           StageSays(t.q[r], row, st, kind, weh),
           NEW x \in 0 .. NReq, NEW u, RunSays(t, u, r, row, x), kind # "ndg",
           weh \in {"empty", "downstream"}
    PROVE  StageFlows(t, u, r, x, weh)
<1>1. /\ r \in Req /\ BareRow(t, r) /\ Woken(t, r) /\ Main \in Req /\ r # None
      /\ ~t.q[Main].done /\ (t.q[Main].weh = "writer" => Ended(t, Main))
  BY MadeFacts, MainIn DEF Flow, None
<1>2. /\ u.made = t.made /\ u.data = t.data /\ u.run = x /\ u.posted = t.posted
      /\ u.buffered = t.buffered /\ u.full = t.full /\ u.stalled = t.stalled
      /\ \A y \in Req \ {r} : u.q[y] = t.q[y]
  BY DEF RunSays, SameSocket
<1>3. /\ u.q[r].weh = weh /\ u.q[r].kind = kind /\ u.q[r].postponed = t.q[r].postponed
      /\ (u.q[r].post <=> t.q[r].post) /\ (u.q[r].done <=> t.q[r].done)
  BY DEF StageSays, RunSays
<1>4. \A y \in Req : Posted(u, y) <=> Posted(t, y)
  BY <1>2, PostedSame
<1>5. Follows(t, u, r)
  BY <1>2, <1>4 DEF Follows
<1>6. BareRow(u, r)
  BY <1>1, <1>3 DEF BareRow
<1>7. ~u.q[Main].done /\ (u.q[Main].weh = "writer" => Ended(u, Main))
  <2>1. r # Main => u.q[Main] = t.q[Main]
    BY <1>1, <1>2
  <2> QED  BY <1>1, <1>2, <1>3, <2>1 DEF Ended
<1>8. u.made \in Nat /\ 1 .. u.made \subseteq Req
  BY <1>2, MadeFacts
<1>9. Flow(u, r) /\ (Woken(u, r) => Flow(u, None))
  BY <1>1, <1>5, <1>6, <1>7, <1>8, FlowFollows
<1>10. r = u.data /\ u.q[r].postponed # <<>> => Posted(u, r)
  BY <1>1, <1>2, <1>3, <1>4 DEF Woken
<1>11. x = r \/ weh = "downstream" => Woken(u, r)
  BY <1>2, <1>3, <1>10 DEF Woken
<1> QED  BY <1>2, <1>9, <1>10, <1>11 DEF Level, StageFlows

\* The request that has the CPU is not the subrequest module's, and may go on.
LEMMA RunningFlow ==
    ASSUME Sound(s), Fluent(s), NEW r \in Req, s.run = r
    PROVE  /\ s \in Connection /\ Good(s) /\ r \in 1 .. s.made /\ s.q[r] \in Request
           /\ Flow(s, None) /\ Flow(s, r) /\ Level(s) /\ ~s.stalled /\ Woken(s, r)
           /\ s.q[r].weh \in {"empty", "downstream"} /\ s.q[r].kind # "ndg"
           /\ s.q[r].st = "handling" /\ ~s.q[r].done
<1>1. s \in Connection
  BY DEF Sound
<1>2. /\ Good(s) /\ r \in 1 .. s.made /\ s.q[r] \in Request /\ s.q[r].st = "handling"
      /\ s.q[r].weh \in {"empty", "downstream"} /\ ~s.q[r].done
  BY <1>1, Running DEF Wehs
<1>3. Flow(s, None) /\ Level(s) /\ ~s.stalled
  BY <1>2 DEF Fluent
<1>4. Flow(s, r) /\ Woken(s, r) /\ s.q[r].kind # "ndg"
  BY <1>2, <1>3, MadeFacts DEF Flow, BareRow, None
<1> QED  BY <1>1, <1>2, <1>3, <1>4

LEMMA ChosenFluent ==
    ASSUME ~build.hook, Sound(s), Fluent(s), NEW r \in Req, NEW kind \in Kind, kind # "ndg",
           Chosen(r, kind)
    PROVE  Fluent(s')
<1> DEFINE w == s.q[r].weh
           z == s.q[r].paused
           row == StageTo(s.q[r], "handling", kind, w, z)
           u == RunTo(s, r, row, r)
<1>1. s.run = r /\ s' = WithKind(s, r, kind)
  BY DEF Chosen, WithKind
<1>2. /\ s \in Connection /\ r \in 1 .. s.made /\ s.q[r] \in Request /\ Flow(s, None)
      /\ Level(s) /\ ~s.stalled /\ w \in {"empty", "downstream"} /\ s.q[r].st = "handling"
  BY <1>1, RunningFlow
<1>3. s' = u
  <2>1. s' = RunTo(s, r, StageTo(s.q[r], s.q[r].st, kind, w, z), s.run)
    BY <1>1, <1>2, KindForm
  <2> QED  BY <1>1, <1>2, <2>1
<1>4. /\ "handling" \in Stages /\ w \in Wehs /\ kind \in Kinds /\ z \in BOOLEAN
      /\ r \in 0 .. NReq
  BY <1>2, NamesIn, ParentsIn, RowParts DEF Parents
<1>5. StageSays(s.q[r], row, "handling", kind, w)
  BY <1>2, <1>4, StageToFacts
<1> HIDE DEF row
<1>6. RunSays(s, u, r, row, r)
  BY <1>2, <1>4, <1>5, RunToFacts DEF StageSays
<1> HIDE DEF u
<1>7. s.run \in {r, None}
  BY <1>1
<1>8. StageFlows(s, u, r, r, w)
  BY <1>2, <1>4, <1>5, <1>6, <1>7, FlowStage
<1> QED  BY <1>2, <1>3, <1>8 DEF Fluent, StageFlows

LEMMA PausesFluent ==
    ASSUME ~build.hook, Sound(s), Fluent(s), NEW r \in Req, Pauses(r)
    PROVE  Fluent(s')
<1> DEFINE k == s.q[r].kind
           z == TRUE
           row == StageTo(s.q[r], "handling", k, "downstream", z)
           u == RunTo(s, r, row, None)
<1>1. s.run = r /\ s' = Paused(s, r, z)
  BY DEF Pauses, Handling, Paused
<1>2. /\ s \in Connection /\ r \in 1 .. s.made /\ s.q[r] \in Request /\ Flow(s, None)
      /\ Level(s) /\ ~s.stalled /\ s.q[r].st = "handling" /\ k # "ndg"
  BY <1>1, RunningFlow
<1>3. s' = u
  <2>1. s' = RunTo(s, r, StageTo(s.q[r], s.q[r].st, k, "downstream", z), None)
    BY <1>1, <1>2, PauseForm
  <2> QED  BY <1>2, <2>1
<1>4. /\ "handling" \in Stages /\ "downstream" \in Wehs /\ k \in Kinds /\ z \in BOOLEAN
      /\ None \in 0 .. NReq
  BY <1>2, NamesIn, ParentsIn, RowParts, RequestsAssumption DEF Parents, None
<1> HIDE DEF z
<1>5. StageSays(s.q[r], row, "handling", k, "downstream")
  BY <1>2, <1>4, StageToFacts
<1> HIDE DEF row
<1>6. RunSays(s, u, r, row, None)
  BY <1>2, <1>4, <1>5, RunToFacts DEF StageSays
<1> HIDE DEF u
<1>7. s.run \in {r, None}
  BY <1>1
<1>8. StageFlows(s, u, r, None, "downstream")
  BY <1>2, <1>4, <1>5, <1>6, <1>7, FlowStage
<1> QED  BY <1>2, <1>3, <1>8 DEF Fluent, StageFlows

LEMMA ResumesFluent ==
    ASSUME ~build.hook, Sound(s), Fluent(s), NEW r \in Req, Resumes(r)
    PROVE  Fluent(s')
<1> DEFINE row == s.q[r]
           u == RunTo(s, r, row, r)
<1>1. s \in Connection /\ Good(s) /\ s.run = None /\ row.st = "handling"
  BY IdleGood DEF Resumes
<1>2. s' = u
  BY <1>1, ResumeForm DEF Resumes
<1>3. /\ Row(s, r) /\ row \in Request /\ Flow(s, None) /\ Level(s) /\ ~s.stalled
      /\ r \in 0 .. NReq
  BY <1>1, Parts, RequestsAssumption DEF Good, Rows, Fluent, Req
<1>4. r \in 1 .. s.made /\ row.weh \in {"empty", "downstream"} /\ row.kind # "ndg"
  <2>1. r \in 1 .. s.made
    BY <1>1, <1>3, MadeFacts DEF Row
  <2>2. BareRow(s, r) /\ row.weh \in Wehs
    BY <1>3, RowParts DEF Flow
  <2> QED  BY <1>1, <1>3, <2>1, <2>2 DEF Row, BareRow, Wehs
<1>5. /\ StageSays(s.q[r], row, row.st, row.kind, row.weh)
      /\ row.st \in Stages /\ row.kind \in Kinds /\ row.weh \in Wehs
  BY <1>3, RowParts DEF StageSays
<1>6. RunSays(s, u, r, row, r)
  BY <1>1, <1>3, RunToFacts
<1> HIDE DEF u
<1>7. s.run \in {r, None}
  BY <1>1
<1>8. StageFlows(s, u, r, r, row.weh)
  BY <1>1, <1>3, <1>4, <1>5, <1>6, <1>7, FlowStage
<1> QED  BY <1>2, <1>3, <1>8 DEF Fluent, StageFlows

LEMMA SendsBufferFluent ==
    ASSUME ~build.hook, Sound(s), Fluent(s), NEW r \in Req, SendsBuffer(r)
    PROVE  Fluent(s')
<1>1. s.run = r
  BY DEF SendsBuffer, Handling
<1>2. PICK ch \in BOOLEAN : s' = SendNext(s, r, ch)
  BY DEF SendsBuffer
<1> DEFINE u == SendNext(s, r, ch)
<1>3. /\ s \in Connection /\ Good(s) /\ r \in 1 .. s.made /\ Flow(s, r)
      /\ Level(s) /\ ~s.stalled /\ s.q[r].weh \in {"empty", "downstream"}
  BY <1>1, RunningFlow
<1>4. Loose(s, u)
  BY <1>3, GoodSendNext
<1>5. Flow(u, r) /\ Level(u) /\ (r = u.data => u.q[r].postponed = <<>>)
  BY <1>3, FlowSendNext
<1> HIDE DEF u
<1>6. u.q[r].weh = s.q[r].weh /\ u.run = r /\ ~u.stalled
  BY <1>1, <1>3, <1>4 DEF Loose, SameRow
<1>7. Woken(u, r)
  BY <1>3, <1>5, <1>6 DEF Woken
<1>8. Flow(u, None)
  BY <1>5, <1>7 DEF Flow
<1> QED  BY <1>2, <1>5, <1>6, <1>8 DEF Fluent, u

LEMMA StartsSubrequestFluent ==
    ASSUME ~build.hook, Sound(s), Fluent(s), NEW r \in Req, StartsSubrequest(r)
    PROVE  Fluent(s')
<1> DEFINE no == FALSE
           n == s.made + 1
           v == Subrequest(s, r, no)
           d == Append(v.q[r].doc, Sub(n))
           row == [v.q[r] EXCEPT !.doc = d]
           u == Put(v, r, row)
<1>1. s.run = r /\ s.made < NReq /\ s.subrequests > 1
  BY DEF StartsSubrequest, Handling, CanCreate
<1>2. s' = u
  BY DEF StartsSubrequest, Put, Sub
<1>3. /\ s \in Connection /\ Good(s) /\ r \in 1 .. s.made /\ ~s.q[r].done
      /\ Flow(s, None) /\ Level(s) /\ ~s.stalled /\ Woken(s, r)
      /\ s.q[r].weh \in {"empty", "downstream"} /\ s.q[r].kind # "ndg"
  BY <1>1, RunningFlow
<1>4. no \in BOOLEAN /\ ~no
  OBVIOUS
<1> HIDE DEF no
<1>5. Good(v) /\ Born(s, v, r, n, no)
  BY <1>1, <1>3, <1>4, SubrequestGood
<1> HIDE DEF v
<1>6. v \in Connection /\ v.q[r] \in Request /\ n \in Req
  BY <1>5, Parts DEF Born
<1>7. d \in Items
  <2>1. Sub(n) \in Item /\ v.q[r].doc \in Seq(Item)
    BY <1>6, RowParts DEF Sub, Item
  <2> QED  BY <2>1, AppendProperties DEF Items
<1>11. n # r /\ n # Main /\ s.made \in Nat /\ v.made = n
  BY <1>3, <1>5, MadeFacts DEF Main, Born
<1>12. \A y \in 1 .. v.made : y = n \/ y \in 1 .. s.made
  BY <1>11
<1> HIDE DEF d, n
<1>8. /\ row \in Request /\ SameRow(v.q[r], row) /\ row.postponed = v.q[r].postponed
      /\ SameHook(v.q[r], row)
  BY <1>6, <1>7, RowDoc
<1> HIDE DEF row
<1>9. Calm(v, u)
  BY <1>5, <1>6, <1>8, PutCalm DEF Good
<1> HIDE DEF u
<1>13. Posted(v, n) /\ \A y \in Req : Posted(s, y) => Posted(v, y)
  BY <1>3, <1>5, <1>6, PostedAppend DEF Born
<1>14. /\ v.data = IF s.data = r /\ s.q[r].postponed = <<>> THEN n ELSE s.data
       /\ v.run = s.run /\ v.buffered = s.buffered /\ v.full = s.full
       /\ v.stalled = s.stalled /\ \A y \in Req \ {r, n} : v.q[y] = s.q[y]
  BY <1>5 DEF Born, SameSocket
<1>15. /\ v.q[r].weh = s.q[r].weh /\ (v.q[r].post <=> s.q[r].post)
       /\ v.q[r].kind = s.q[r].kind /\ (v.q[r].done <=> s.q[r].done)
  BY <1>5 DEF Born, SameRow
<1>16. r = v.data => Posted(v, r)
  BY <1>3, <1>11, <1>13, <1>14 DEF Woken
<1>17. Follows(s, v, n)
  <2>1. ASSUME NEW y \in Req \ {n}
        PROVE  /\ v.q[y].weh = s.q[y].weh /\ (v.q[y].post <=> s.q[y].post)
               /\ v.q[y].kind = s.q[y].kind /\ (v.q[y].done <=> s.q[y].done)
               /\ Posted(s, y) => Posted(v, y)
               /\ \/ v.q[y].postponed = s.q[y].postponed
                  \/ /\ y = v.data => Posted(v, y)
                     /\ s.q[y].weh \notin {"handler", "finalizer"} \/ v.q[y].postponed = <<>>
    <3>1. CASE y = r
      BY <1>3, <1>13, <1>15, <1>16, <3>1
    <3>2. CASE y # r
      BY <1>13, <1>14, <3>2
    <3> QED  BY <3>1, <3>2
  <2>2. v.data = s.data \/ Posted(v, v.data)
    BY <1>13, <1>14
  <2> QED  BY <1>12, <1>14, <2>1, <2>2 DEF Follows
<1>18. BareRow(v, n) /\ Woken(v, n)
  <2>1. ~v.q[n].post /\ v.q[n].kind = "" /\ v.q[n].weh = "handler" /\ v.q[n].postponed = <<>>
    BY <1>4, <1>5 DEF Born, FreshSays
  <2> QED  BY <1>11, <1>13, <2>1 DEF BareRow, Woken
<1>19. ~v.q[Main].done /\ (v.q[Main].weh = "writer" => Ended(v, Main))
  <2>1. Main \in Req /\ ~s.q[Main].done /\ (s.q[Main].weh = "writer" => Ended(s, Main))
    BY <1>3, MainIn DEF Flow
  <2>2. CASE r = Main
    BY <1>3, <1>15, <2>2
  <2>3. CASE r # Main
    <3>1. v.q[Main] = s.q[Main] /\ (Main # v.data => Main # s.data)
      BY <1>11, <1>14, <2>1, <2>3
    <3> QED  BY <2>1, <3>1 DEF Ended
  <2> QED  BY <2>2, <2>3
<1>20. v.made \in Nat /\ 1 .. v.made \subseteq Req
  BY <1>6, MadeFacts
<1>21. Flow(v, None)
  BY <1>3, <1>6, <1>17, <1>18, <1>19, <1>20, FlowFollows
<1>22. Level(v) /\ ~v.stalled
  BY <1>3, <1>14 DEF Level
<1>23. Flow(u, None) /\ Level(u) /\ ~u.stalled
  BY <1>6, <1>9, <1>21, <1>22, FlowCalm
<1> QED  BY <1>2, <1>23 DEF Fluent

\* The handler of r returns.
LEMMA OverFlow ==
    ASSUME Sound(s), Fluent(s), NEW r \in Req, s.run = r
    PROVE  /\ StageFlows(s, Over(s, r), r, None, s.q[r].weh)
           /\ Over(s, r).q[r].weh = s.q[r].weh
<1> DEFINE k == s.q[r].kind
           w == s.q[r].weh
           z == s.q[r].paused
           row == StageTo(s.q[r], "over", k, w, z)
           u == RunTo(s, r, row, None)
<1>1. /\ s \in Connection /\ r \in 1 .. s.made /\ s.q[r] \in Request /\ Flow(s, None)
      /\ w \in {"empty", "downstream"} /\ k # "ndg"
  BY RunningFlow
<1>2. Over(s, r) = u
  BY <1>1, OverForm
<1>3. /\ "over" \in Stages /\ w \in Wehs /\ k \in Kinds /\ z \in BOOLEAN
      /\ None \in 0 .. NReq
  BY <1>1, NamesIn, ParentsIn, RowParts, RequestsAssumption DEF Parents, None
<1> HIDE DEF z
<1>4. StageSays(s.q[r], row, "over", k, w)
  BY <1>1, <1>3, StageToFacts
<1> HIDE DEF row
<1>5. RunSays(s, u, r, row, None)
  BY <1>1, <1>3, <1>4, RunToFacts DEF StageSays
<1> HIDE DEF u
<1>6. s.run \in {r, None}
  OBVIOUS
<1>7. StageFlows(s, u, r, None, w)
  BY <1>1, <1>3, <1>4, <1>5, <1>6, FlowStage
<1>8. u.q[r].weh = w
  BY <1>4, <1>5 DEF StageSays, RunSays
<1> QED  BY <1>2, <1>7, <1>8

LEMMA FinishesFluent ==
    ASSUME ~build.hook, Sound(s), Fluent(s), NEW r \in Req,
           NEW rc \in {"OK", "ERROR", "500"}, Finishes(r, rc)
    PROVE  Fluent(s')
<1> DEFINE t == Over(s, r)
<1>1. s.run = r
  BY DEF Finishes, Handling
<1>2. PICK ch \in BOOLEAN :
        s' = Finalize(IF rc = "OK" THEN SendNext(t, r, ch) ELSE t, r, rc, ch)
  BY DEF Finishes, Over
<1>3. /\ s \in Connection /\ Level(s) /\ ~s.stalled /\ s.q[r].weh \in {"empty", "downstream"}
  BY <1>1, RunningFlow
<1>4. Good(t) /\ t \in Connection /\ t.run = None /\ r \in 1 .. t.made /\ t.q[r].st = "over"
  BY <1>1, <1>3, OverGood
<1>5. StageFlows(s, t, r, None, s.q[r].weh) /\ t.q[r].weh = s.q[r].weh
  BY <1>1, OverFlow
<1> HIDE DEF t
<1>6. Flow(t, r) /\ Level(t) /\ ~t.stalled /\ t.q[r].weh \notin {"handler", "finalizer"}
  BY <1>3, <1>5 DEF StageFlows
<1>7. CASE rc # "OK"
  BY <1>2, <1>4, <1>6, <1>7, FlowFinalize
<1>8. CASE rc = "OK"
  <2> DEFINE u == SendNext(t, r, ch)
  <2>1. Good(u) /\ Loose(t, u)
    BY <1>4, GoodSendNext
  <2>2. s' = Finalize(u, r, rc, ch)
    BY <1>2, <1>8
  <2>3. /\ Flow(u, r) /\ Ended(u, r) /\ Level(u)
        /\ r = u.data => u.q[r].postponed = <<>>
    BY <1>4, <1>6, FlowSendNext
  <2> HIDE DEF u
  <2>4. /\ u \in Connection /\ u.run = None /\ r \in 1 .. u.made /\ u.q[r].st = "over"
        /\ ~u.stalled
    BY <1>4, <1>6, <2>1 DEF Loose, SameRow
  <2> QED  BY <1>8, <2>1, <2>2, <2>3, <2>4, FlowFinalize
<1> QED  BY <1>7, <1>8

LEMMA FinishesEmptyFluent ==
    ASSUME ~build.hook, Sound(s), Fluent(s), NEW r \in Req, FinishesEmpty(r)
    PROVE  Fluent(s')
<1> DEFINE t == Over(s, r)
           u == SendHeader(t, r)
<1>1. s.run = r /\ r # Main
  BY DEF FinishesEmpty, Handling
<1>2. PICK ch \in BOOLEAN : s' = Finalize(u, r, "OK", ch)
  BY DEF FinishesEmpty, Over
<1>3. s \in Connection /\ Level(s) /\ ~s.stalled
  BY <1>1, RunningFlow
<1>4. Good(t) /\ t \in Connection /\ t.run = None /\ r \in 1 .. t.made /\ t.q[r].st = "over"
  BY <1>1, <1>3, OverGood
<1>5. StageFlows(s, t, r, None, s.q[r].weh)
  BY <1>1, OverFlow
<1> HIDE DEF t
<1>6. /\ Flow(t, r) /\ Level(t) /\ ~t.stalled
      /\ r = t.data /\ t.q[r].postponed # <<>> => Posted(t, r)
  BY <1>3, <1>5 DEF StageFlows
<1>7. Calm(t, u)
  BY <1>4, HeaderCalm DEF Good
<1> HIDE DEF u
<1>8. Good(u) /\ Loose(t, u) /\ u \in Connection /\ u.made = t.made
  BY <1>4, <1>7, CalmGood
<1>9. u.run = None /\ u.q[r].st = "over" /\ ~u.stalled
  BY <1>4, <1>6, <1>8 DEF Loose, SameRow
<1>10. Flow(u, r) /\ Level(u)
  BY <1>4, <1>6, <1>7, FlowCalm
<1>11. r = u.data /\ u.q[r].postponed # <<>> => Posted(u, r)
  <2>1. u.posted = t.posted /\ u.data = t.data /\ u.q[r].postponed = t.q[r].postponed
    BY <1>7 DEF Calm, Quiet, SameRest
  <2> QED  BY <1>6, <2>1, PostedSame
<1> QED  BY <1>1, <1>2, <1>4, <1>8, <1>9, <1>10, <1>11, FlowFinalize

\* Only the queue or the socket changes.
LEMMA FlowOther ==
    ASSUME NEW t \in Connection, NEW u, NEW l, OtherSays(t, u, l), NEW r \in 1 .. t.made,
           Flow(t, None), \A y \in Req \ {r} : Posted(t, y) => Posted(u, y)
    PROVE  Flow(u, r)
<1>1. /\ u.q = t.q /\ u.made = t.made /\ u.data = t.data /\ u.run = t.run
      /\ u.buffered = t.buffered
  BY DEF OtherSays
<1>2. Follows(t, u, r)
  BY <1>1 DEF Follows
<1>3. /\ r \in Req /\ BareRow(t, r) /\ ~t.q[Main].done
      /\ t.q[Main].weh = "writer" => Ended(t, Main)
  BY MadeFacts DEF Flow
<1>4. /\ BareRow(u, r) /\ ~u.q[Main].done
      /\ u.q[Main].weh = "writer" => Ended(u, Main)
  BY <1>1, <1>3 DEF BareRow, Ended
<1>5. u.made \in Nat /\ 1 .. u.made \subseteq Req
  BY <1>1, MadeFacts
<1> QED  BY <1>2, <1>3, <1>4, <1>5, FlowFollows

LEMMA RunPostedFluent ==
    ASSUME ~build.hook, Sound(s), Fluent(s), RunPosted
    PROVE  Fluent(s')
<1>1. /\ s \in Connection /\ s.run = None /\ ~s.closed /\ s.posted # <<>>
      /\ s.posted \in Seq(Req) /\ ~s.stalled
  BY Parts DEF RunPosted, Idle, Sound, Fluent
<1> DEFINE r == Head(s.posted)
           l == Tail(s.posted)
           t == WithPosted(s, l)
<1>2. PICK ch \in BOOLEAN : s' = WriteEventHandler(t, r, ch)
  BY DEF RunPosted, WithPosted
<1>3. /\ r \in Req /\ l \in Seq(Req) /\ r = s.posted[1] /\ 1 \in DOMAIN s.posted
      /\ \A i \in DOMAIN l : i + 1 \in DOMAIN s.posted /\ l[i] = s.posted[i + 1]
      /\ \A i \in DOMAIN s.posted \ {1} : i - 1 \in DOMAIN l /\ l[i - 1] = s.posted[i]
  <2>1. /\ r \in Req /\ l \in Seq(Req) /\ r = s.posted[1] /\ Len(s.posted) \in Nat
        /\ Len(l) = Len(s.posted) - 1 /\ \A i \in 1 .. Len(l) : l[i] = s.posted[i + 1]
        /\ DOMAIN s.posted = 1 .. Len(s.posted) /\ DOMAIN l = 1 .. Len(l)
    BY <1>1, HeadTailProperties, LenProperties
  <2>2. Len(s.posted) # 0
    BY <1>1, EmptySeq
  <2>3. \A i \in DOMAIN s.posted \ {1} : i - 1 \in DOMAIN l /\ (i - 1) + 1 = i
    BY <2>1, <2>2
  <2> QED  BY <2>1, <2>2, <2>3
<1> HIDE DEF l
<1>4. OtherSays(s, t, l) /\ t.full = s.full
  BY <1>1, <1>3, PostedSays, SetPosted DEF SameSocket
<1>5. /\ t \in Connection /\ t.made = s.made /\ t.run = None /\ t.q = s.q
      /\ t.posted = l /\ ~t.stalled /\ t.buffered = s.buffered
  BY <1>1, <1>4 DEF OtherSays
<1> HIDE DEF t
<1>6. CASE Good(s)
  <2>1. Flow(s, None) /\ Level(s)
    BY <1>6 DEF Fluent
  <2>2. \A i \in DOMAIN s.posted : s.posted[i] <= s.made
    BY <1>6 DEF Good, Reach
  <2>3. r <= s.made /\ \A i \in DOMAIN l : l[i] <= s.made
    BY <1>3, <2>2
  <2>4. Good(t)
    BY <1>1, <1>4, <1>6, <2>3, OtherGood
  <2>5. r \in 1 .. s.made /\ r # None
    BY <1>1, <1>3, <2>3, MadeFacts DEF None
  <2>6. ASSUME NEW y \in Req \ {r}, Posted(s, y) PROVE Posted(t, y)
    <3>1. PICK i \in DOMAIN s.posted : s.posted[i] = y
      BY <2>6 DEF Posted
    <3>2. i - 1 \in DOMAIN l /\ l[i - 1] = y
      BY <1>3, <3>1
    <3> QED  BY <1>5, <3>2 DEF Posted
  <2> HIDE DEF r
  <2>7. Flow(t, r)
    BY <1>1, <1>4, <2>1, <2>5, <2>6, FlowOther
  <2>8. t.q[r].weh = "empty" => t.q[r].done
    BY <1>1, <1>5, <2>1, <2>5 DEF Flow, Woken
  <2>9. Level(t)
    BY <1>4, <1>5, <2>1 DEF Level
  <2>10. r \in 1 .. t.made
    BY <1>5, <2>5
  <2> QED  BY <1>2, <1>5, <2>4, <2>7, <2>8, <2>9, <2>10, FlowHandler
<1>7. CASE Dead(s)
  <2>1. s.q[Main].weh = "terminate" /\ r = Main
    <3>1. s.q[Main].weh = "terminate" /\ s.posted = <<Main>>
      BY <1>1, <1>7, SMTT(20) DEF Dead
    <3> QED  BY <3>1, HeadMain
  <2> DEFINE one == 1
             v == WithCount(t, one)
  <2>2. s' = CloseRequest(v)
    BY <1>2, <1>5, <2>1 DEF WriteEventHandler, WithCount
  <2>3. v \in Connection /\ v.run = None /\ v.count = 1 /\ ~v.stalled
    <3>1. one \in 0 .. 255 /\ one = 1
      OBVIOUS
    <3> HIDE DEF one
    <3>2. v.stalled = t.stalled
      BY <1>5 DEF WithCount, Connection
    <3> QED  BY <1>5, <3>1, <3>2, CountSays
  <2> HIDE DEF v
  <2>4. Closes(v, s')
    BY <2>2, <2>3, CloseIs
  <2>5. s'.closed /\ ~s'.stalled
    BY <2>3, <2>4 DEF Closes
  <2> QED  BY <2>5 DEF Fluent, Good
<1> QED  BY <1>6, <1>7 DEF Sound

\* With no posted request the active one waits for its own event or for the socket.
LEMMA IdleFlow ==
    ASSUME Sound(s), Fluent(s), Idle, s.posted = <<>>
    PROVE  /\ Flow(s, None) /\ Level(s) /\ ~s.stalled
           /\ s.q[s.data].weh \in {"downstream", "writer"}
           /\ s.q[s.data].weh = "writer" => s.data = Main /\ s.buffered
<1>1. s \in Connection /\ Good(s) /\ s.run = None /\ s.data \in 1 .. s.made
  BY IdleGood
<1>2. Flow(s, None) /\ Level(s) /\ ~s.stalled
  BY <1>1 DEF Fluent
<1> DEFINE r == s.data
<1>3. r \in Req /\ r # None
  BY <1>1, MadeFacts DEF None
<1>4. Row(s, r) /\ s.q[r] \in Request /\ BareRow(s, r) /\ Woken(s, r)
  BY <1>1, <1>2, <1>3, Parts DEF Good, Rows, Flow
<1>5. s.q[r].weh \in Wehs
  BY <1>4, RowParts
<1>6. DOMAIN s.posted = {} /\ ~Posted(s, r)
  <2>1. DOMAIN <<>> = {}
    OBVIOUS
  <2> QED  BY <2>1 DEF Posted
<1>7. ~s.q[r].done
  <2>1. s.data # Main => ~s.q[s.data].done
    BY <1>1, ActiveOpen
  <2> QED  BY <1>2, <2>1 DEF Flow
<1>8. s.q[r].weh # "parent_post" /\ s.q[r].weh # "terminate"
  BY <1>4 DEF BareRow, Row
<1>9. s.q[r].weh \notin {"handler", "empty", "finalizer"}
  BY <1>1, <1>3, <1>4, <1>6, <1>7 DEF Woken
<1>10. s.q[r].weh = "writer" => r = Main /\ s.buffered
  BY <1>4, <1>6 DEF Woken
<1> QED  BY <1>2, <1>5, <1>8, <1>9, <1>10 DEF Wehs

LEMMA SocketWritableFluent ==
    ASSUME ~build.hook, Sound(s), Fluent(s), SocketWritable
    PROVE  Fluent(s')
<1> DEFINE no == FALSE
           t == WithFull(s, no)
           r == s.data
<1>1. PICK ch \in BOOLEAN : s' = WriteEventHandler(t, s.data, ch)
  BY DEF SocketWritable, WithFull
<1>2. no \in BOOLEAN
  OBVIOUS
<1>3. s \in Connection /\ Good(s) /\ s.run = None /\ r \in 1 .. s.made
  BY IdleGood DEF SocketWritable
<1>4. /\ Flow(s, None) /\ Level(s) /\ ~s.stalled /\ s.full
      /\ s.q[r].weh \in {"downstream", "writer"}
  BY IdleFlow DEF SocketWritable
<1> HIDE DEF no
<1>5. OtherSays(s, t, s.posted)
  BY <1>2, <1>3, FullSays
<1> HIDE DEF t
<1>6. /\ t \in Connection /\ t.made = s.made /\ t.run = None /\ t.q = s.q
      /\ t.data = r /\ t.posted = s.posted /\ t.buffered = s.buffered /\ ~t.stalled
  BY <1>3, <1>4, <1>5 DEF OtherSays
<1>7. Good(t)
  BY <1>3, <1>5, OtherGood DEF Good, Reach
<1>8. \A y \in Req \ {r} : Posted(s, y) => Posted(t, y)
  BY <1>6, PostedSame
<1>9. t.buffered
  BY <1>4, <1>6 DEF Level
<1> HIDE DEF r
<1>10. Flow(t, r)
  BY <1>3, <1>4, <1>5, <1>8, FlowOther
<1>11. r \in 1 .. t.made /\ t.q[r].weh \in {"downstream", "writer"}
  BY <1>3, <1>4, <1>6
<1>12. Fluent(WriteEventHandler(t, r, ch))
  BY <1>6, <1>7, <1>9, <1>10, <1>11, FlowHandler
<1> QED  BY <1>1, <1>12 DEF r

\* ngx_http_writer times out only when the socket is full.
LEMMA SendTimesOutFluent ==
    ASSUME ~build.hook, Sound(s), Fluent(s), SendTimesOut
    PROVE  Fluent(s')
<1>1. PICK f \in BOOLEAN : f <=> ~s.full
  OBVIOUS
<1>2. s \in Connection /\ s.run = None
  BY IdleGood DEF SendTimesOut
<1>3. s.full /\ ~f
  BY <1>1, IdleFlow DEF SendTimesOut, Level
<1> DEFINE t == WithStalled(s, f)
<1>4. s' = TerminateRequest(t)
  <2>1. f = ~s.full
    BY <1>1
  <2> QED  BY <2>1 DEF SendTimesOut, WithStalled
<1>5. t \in Connection /\ t.run = None /\ (t.stalled <=> f)
  <2>1. t.stalled = f
    BY <1>2 DEF WithStalled, Connection
  <2> QED  BY <1>2, <2>1, StalledSays
<1> HIDE DEF t
<1> QED  BY <1>3, <1>4, <1>5, FluentTerminate

FluentInv == Inv /\ (build.hook \/ Fluent(s))

LEMMA InitFluent == Init => Fluent(s)
<1> SUFFICES ASSUME Init PROVE Fluent(s)
  OBVIOUS
<1>1. Main \in Req
  BY MainIn
<1> DEFINE no == FALSE
           a == Fresh(None, no)
           b == [a EXCEPT !.st = "none"]
<1>2. /\ s.made = Main /\ s.data = Main /\ s.posted = <<Main>> /\ s.run = None
      /\ ~s.buffered /\ ~s.full /\ ~s.stalled
      /\ \A r \in Req : s.q[r] = a \/ s.q[r] = b
  BY DEF Init
<1>3. no \in BOOLEAN /\ ~no
  OBVIOUS
<1> HIDE DEF no
<1>4. FreshSays(a, None, no)
  BY <1>3, ParentsIn, FreshFacts DEF None
<1> HIDE DEF a
<1>5. /\ b.kind = a.kind /\ b.weh = a.weh /\ b.postponed = a.postponed
       /\ b.done = a.done /\ b.post = a.post
  BY <1>4, RequestIs DEF FreshSays
<1> HIDE DEF b
<1>6. ASSUME NEW r \in Req
      PROVE  /\ ~s.q[r].post /\ s.q[r].kind = "" /\ s.q[r].weh = "handler"
             /\ s.q[r].postponed = <<>> /\ ~s.q[r].done
  BY <1>2, <1>3, <1>4, <1>5 DEF FreshSays
<1>7. Posted(s, Main)
  <2>1. 1 \in DOMAIN <<Main>> /\ <<Main>>[1] = Main
    OBVIOUS
  <2> QED  BY <1>2, <2>1 DEF Posted
<1>8. \A r \in Req : BareRow(s, r)
  BY <1>6 DEF BareRow
<1>9. \A r \in 1 .. s.made : r = Main
  BY <1>2 DEF Main
<1>10. Woken(s, Main)
  BY <1>1, <1>6, <1>7 DEF Woken
<1>11. Flow(s, None)
  BY <1>1, <1>6, <1>8, <1>9, <1>10 DEF Flow
<1> QED  BY <1>2, <1>11 DEF Fluent, Level

LEMMA NextFluent ==
    ASSUME FluentInv, [Next]_vars
    PROVE  FluentInv'
<1>1. Inv /\ Inv' /\ Sound(s) /\ build \in Builds /\ (build.hook \/ Fluent(s))
  BY NextSound, ZenonT(30) DEF FluentInv, Inv
<1>2. build' = build
  BY ZenonT(30) DEF Next, vars, RunPosted, SocketWritable, SendTimesOut, Chosen, SendsBuffer,
         StartsSubrequest, Pauses, Resumes, FinishesEmpty, Finishes
<1>3. ASSUME ~build.hook PROVE Fluent(s')
  <2>1. Sound(s) /\ Fluent(s)
    BY <1>1, <1>3
  <2>2. CASE UNCHANGED vars
    BY <2>1, <2>2 DEF vars
  <2>3. CASE RunPosted
    BY <1>3, <2>1, <2>3, RunPostedFluent
  <2>4. CASE SocketWritable
    BY <1>3, <2>1, <2>4, SocketWritableFluent
  <2>5. CASE SendTimesOut
    BY <1>3, <2>1, <2>5, SendTimesOutFluent
  <2>6. ASSUME NEW r \in Req, NEW kind \in build.kinds, Chosen(r, kind) PROVE Fluent(s')
    <3>1. kind \in Kind /\ kind # "ndg"
      BY <1>1, <1>3, RequestsAssumption
    <3> QED  BY <1>3, <2>1, <2>6, <3>1, ChosenFluent
  <2>7. ASSUME NEW r \in Req, SendsBuffer(r) PROVE Fluent(s')
    BY <1>3, <2>1, <2>7, SendsBufferFluent
  <2>8. ASSUME NEW r \in Req, StartsSubrequest(r) PROVE Fluent(s')
    BY <1>3, <2>1, <2>8, StartsSubrequestFluent
  <2>9. ASSUME NEW r \in Req, Pauses(r) PROVE Fluent(s')
    BY <1>3, <2>1, <2>9, PausesFluent
  <2>10. ASSUME NEW r \in Req, Resumes(r) PROVE Fluent(s')
    BY <1>3, <2>1, <2>10, ResumesFluent
  <2>11. ASSUME NEW r \in Req, FinishesEmpty(r) PROVE Fluent(s')
    BY <1>3, <2>1, <2>11, FinishesEmptyFluent
  <2>12. ASSUME NEW r \in Req, NEW rc \in {"OK", "ERROR", "500"}, Finishes(r, rc)
         PROVE  Fluent(s')
    BY <1>3, <2>1, <2>12, FinishesFluent, ZenonT(30)
  <2> QED  BY <2>2, <2>3, <2>4, <2>5, <2>6, <2>7, <2>8, <2>9, <2>10, <2>11, <2>12 DEF Next
<1>4. Fluent(s') => Fluent(s)'
  BY <1>2, ZenonT(30) DEF Fluent, Flow, BareRow, Woken, Ended, EndsAt, Posted, Level, Good, Rows, Row,
              Side, Reach, Tree, Path, Reached, Listed, Waiting, Counts, OpenOf, HookedOf, Sub
<1>5. (build.hook \/ Fluent(s))'
  BY <1>2, <1>3, <1>4
<1> QED  BY <1>1, <1>5, ZenonT(30) DEF FluentInv

\* Without the data hook, no response is cut while the socket takes data: when nothing
\* is posted, the active request that waits to send its rest is the main one, and the
\* rest is in the write filter because the socket is full (ngx_http_writer).
THEOREM NeverStallsCorrect == Spec => []StallsOnlyWithHook
<1>1. Init => FluentInv
  BY InitSound, InitFluent DEF FluentInv, Inv, Init
<1>2. FluentInv /\ [Next]_vars => FluentInv'
  BY NextFluent
<1>3. FluentInv => StallsOnlyWithHook
  BY DEF FluentInv, Fluent, StallsOnlyWithHook, NeverStalled
<1> QED  BY <1>1, <1>2, <1>3, PTL DEF Spec
=============================================================================
