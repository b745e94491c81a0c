-------------------------- MODULE RedisConnection --------------------------
(***************************************************************************)
(* redis::connection over one blocking socket: every method sends a        *)
(* command with _send and reads its reply with one of the _recv_ readers.  *)
(* The socket is a stream: nothing but the reader's own choices decides    *)
(* how much of it belongs to the current reply.                            *)
(*                                                                         *)
(* The stream is a sequence of tokens: a header line, as one _read_line    *)
(* consumes it, reduced to its prefix and to the part of its value the     *)
(* code tells apart, or the payload after a "$" header, as _read_n         *)
(* consumes it; a token of which a part never came is not in the stream.   *)
(* Methods of the same shape are represented by one of them.  The server   *)
(* is external: it answers as the Redis protocol says, a token at a time,  *)
(* and may close the connection between any two.                           *)
(***************************************************************************)
EXTENDS Naturals, Sequences, FiniteSets

CONSTANTS Used,        \* the methods the application calls
          MaxBulks,    \* bound: elements of a multi-bulk reply
          MaxUnread,   \* bound: commands unanswered and tokens to come or to read at a call
          Binary       \* whether stored values may contain a NUL byte

\* The reader a method calls after _send.
ReaderOf == [
    set              |-> "ok",      \* setex hmset ltrim lset rename save select auth ...
    multi            |-> "ok",
    discard          |-> "ok",
    exec             |-> "ok",
    bgsave           |-> "ok",
    persist          |-> "ok",
    shutdown         |-> "ok",
    mset             |-> "ok",
    type             |-> "status",
    randomkey        |-> "status",
    incr             |-> "int",     \* the counters, lengths and bool methods
    zincrby          |-> "int",
    msetnx           |-> "int",
    sadd             |-> "int_ok",  \* srem hdel smove zrem del expire expireat move
    get              |-> "bulk",    \* getset getrange hget lindex lpop rpop spop info ...
    brpoplpush       |-> "bulk",
    config_get       |-> "bulk",
    debug_object     |-> "bulk",
    lrange           |-> "multi",   \* mget hmget hvals keys smembers sinter sort ...
    blpop            |-> "kv",      \* brpop
    zscore           |-> "double",
    zrange_scores    |-> "none",    \* zrange, zrangebyscore into a key_score_vector
    zrevrange_scores |-> "none"]    \* zrevrange, zrevrangebyscore, likewise

Method == DOMAIN ReaderOf

\* The methods that never pass their command to _send.
Unsent == {"mset", "msetnx", "zrevrange_scores"}

ASSUME RedisAssumption ==
    /\ Used \subseteq Method
    /\ MaxBulks \in Nat /\ MaxUnread \in Nat
    /\ Binary \in BOOLEAN

VARIABLES
    state,     \* what the client is executing
    left,      \* bulk replies _recv_multi_bulk_reply has still to read
    final,     \* how the method ends once they are read
    stream,    \* tokens received and not yet read
    asked,     \* commands sent and not yet answered
    writing,   \* server: tokens of the current answer not yet sent
    inMulti,   \* server: MULTI is open on this connection
    closed,    \* the server closed the connection
    answer,    \* history: the whole answer to the last command, until a mismatch
    method,    \* history: the method being, or last, executed
    outcome,   \* history: how that method ended
    mismatch   \* history: a reply was, or will be, read by the wrong reader

serverVars == <<asked, writing, inMulti, closed, answer>>
vars == <<state, left, final, stream, serverVars, method, outcome, mismatch>>

State == {"idle",      \* in the application
          "line",      \* _read_line at the start of the method's reader
          "bulk",      \* _read_line of an element of a multi-bulk reply
          "payload",   \* _read_n of a bulk payload
          "overrun",   \* _read_n after a failed recv, for one byte too many
          "value",     \* the second _read_line of _recv_double_reply
          "aborted"}   \* the process is gone

Shape == {"ok", "status", "error", "int", "bulk", "nil", "multi", "nilmulti"}

Outcome == {"returned", "missing_value", "protocol_error", "key_error",
            "value_error", "connection_error"}

\* "?" is a header that lost its first byte.
Prefix == {"+OK", "+", "-", ":0", ":1", "$", "$-1", "*", "*-1", "data", "data0", "?"}
Token == [k : Prefix, n : 0 .. MaxBulks]

TypeOK ==
    /\ state \in State
    /\ left \in 0 .. MaxBulks
    /\ final \in Outcome
    /\ stream \in Seq(Token)
    /\ asked \in Seq(Method)
    /\ writing \in Seq(Token) /\ answer \in Seq(Token)
    /\ inMulti \in BOOLEAN /\ closed \in BOOLEAN
    /\ method \in Method
    /\ outcome \in Outcome \cup {"none"}
    /\ mismatch \in BOOLEAN

\* connection::_init connected the socket.
Init ==
    /\ state = "idle" /\ left = 0 /\ final = "returned"
    /\ stream = <<>> /\ asked = <<>> /\ writing = <<>>
    /\ inMulti = FALSE /\ closed = FALSE
    /\ answer = <<>> /\ method = "set" /\ outcome = "none"
    /\ mismatch = FALSE

-----------------------------------------------------------------------------
(* The server.                                                             *)

Tok(k) == [k |-> k, n |-> 0]

\* The kinds of answer to a command outside a transaction; any command may be
\* refused with an error.
Answers(m) ==
    {"error"} \cup
    CASE m \in {"set", "multi"}                           -> {"ok"}
      [] m \in {"discard", "exec", "shutdown"}            -> {}
      [] m \in {"bgsave", "type", "debug_object"}         -> {"status"}
      [] m \in {"persist", "incr", "sadd"}                -> {"int"}
      [] m = "zincrby"                                    -> {"bulk"}
      [] m \in {"get", "randomkey", "zscore"}             -> {"bulk", "nil"}
      [] m = "brpoplpush"                                 -> {"bulk", "nilmulti"}
      [] m \in {"lrange", "config_get", "zrange_scores"}  -> {"multi"}
      [] m = "blpop"                                      -> {"multi", "nilmulti"}

AnswersInMulti(m) ==
    {"error"} \cup
    CASE m = "discard" -> {"ok"}
      [] m = "exec"    -> {"multi", "nilmulti"}
      [] m = "multi"   -> {}
      [] OTHER         -> {"status"}      \* +QUEUED

Data == {"data", "data0"}      \* data0: with a NUL byte

\* Stored values may contain any byte; a score is a number.
Payload(m) == IF Binary /\ m \notin {"zscore", "zincrby"} THEN Data ELSE {"data"}

\* Whole elements of a multi-bulk reply: a payload follows each "$" and nothing else.
Whole(s) ==
    /\ s \in Seq(Token)
    /\ \A i \in 1 .. Len(s) :
         /\ s[i].k \in {"$", "$-1"} \cup Data
         /\ s[i].k = "$" <=> i < Len(s) /\ s[i + 1].k \in Data
    /\ s # <<>> => s[1].k \notin Data

Heads(s) == {i \in 1 .. Len(s) : s[i].k \in {"$", "$-1"}}

\* s is n whole elements.
Elements(s, n) == Whole(s) /\ Cardinality(Heads(s)) = n

ElementToken == {Tok(k) : k \in {"$", "$-1"} \cup Payload("lrange")}

\* Lists[n]: the lists of n elements.
Lists == [n \in 0 .. MaxBulks |->
            {s \in UNION {[1 .. l -> ElementToken] : l \in n .. 2 * n} : Elements(s, n)}]

\* The answers of a kind to method m.
Wire(m, s) ==
    CASE s = "ok"       -> {<<Tok("+OK")>>}
      [] s = "status"   -> {<<Tok("+")>>}
      [] s = "error"    -> {<<Tok("-")>>}
      [] s = "int"      -> {<<Tok(":0")>>, <<Tok(":1")>>}
      [] s = "bulk"     -> {<<Tok("$"), Tok(p)>> : p \in Payload(m)}
      [] s = "nil"      -> {<<Tok("$-1")>>}
      [] s = "multi"    -> UNION {{<<[k |-> "*", n |-> i]>> \o e : e \in Lists[i]} :
                                     i \in 0 .. MaxBulks}
      [] s = "nilmulti" -> {<<Tok("*-1")>>}

\* The answers the method's reader does not consume exactly.
Misread(m, s, n) ==
    \/ m = "zrange_scores"
    \/ m = "zscore" /\ s = "nil"
    \/ m \in {"randomkey", "zincrby"} /\ s = "bulk"
    \/ m \in {"exec", "config_get"} /\ s = "multi" /\ n > 0

\* The server executes a command and has an answer to send.
Answer ==
    /\ ~closed /\ asked # <<>> /\ writing = <<>>
    /\ LET m == Head(asked) IN
       \E s \in IF inMulti THEN AnswersInMulti(m) ELSE Answers(m) :
       \E a \in Wire(m, s) :
         /\ writing' = a
         /\ inMulti' = IF m = "multi" /\ s = "ok" THEN TRUE
                       ELSE IF m \in {"exec", "discard"} THEN FALSE ELSE inMulti
         /\ mismatch' = (mismatch \/ Misread(m, s, a[1].n))
         /\ answer' = IF mismatch' THEN <<>> ELSE a
    /\ asked' = Tail(asked)
    /\ UNCHANGED <<state, left, final, stream, closed, method, outcome>>

\* A line, or a payload, of the answer arrives.
Deliver ==
    /\ ~closed /\ writing # <<>>
    /\ stream' = Append(stream, Head(writing))
    /\ writing' = Tail(writing)
    /\ UNCHANGED <<state, left, final, asked, inMulti, closed, answer, method,
                   outcome, mismatch>>

\* The connection ends, possibly in the middle of an answer; what is in writing
\* never arrives.
ServerClose ==
    /\ ~closed
    /\ closed' = TRUE
    /\ asked' = <<>>
    /\ UNCHANGED <<state, left, final, stream, writing, inMulti, answer, method,
                   outcome, mismatch>>

-----------------------------------------------------------------------------
(* The client.                                                             *)

Ends(o) == state' = "idle" /\ outcome' = o /\ left' = 0 /\ final' = "returned"

\* A method is called: _send, then the first _read_line of its reader.  A
\* write to a closed socket may or may not report the error.
CallMethod(m) ==
    /\ state = "idle"
    /\ Len(asked) + Len(stream) + (IF closed THEN 0 ELSE Len(writing)) < MaxUnread
    /\ method' = m
    /\ answer' = <<>>
    /\ mismatch' = (mismatch \/ m \in {"mset", "msetnx", "zrange_scores"})
    /\ asked' = IF m \in Unsent \/ closed THEN asked ELSE Append(asked, m)
    /\ \/ /\ closed /\ m \notin Unsent
          /\ Ends("connection_error")
       \/ /\ ReaderOf[m] = "none"
          /\ Ends("returned")
       \/ /\ ReaderOf[m] # "none"
          /\ state' = "line" /\ outcome' = "none"
          /\ UNCHANGED <<left, final>>
    /\ UNCHANGED <<stream, writing, inMulti, closed>>

\* Mutant of Verdict: the ok reader takes any status, an error included.
VerdictLax(r, k) ==
    CASE r \in {"ok", "status"} /\ k \in {"+OK", "+", "-"} -> "returned"
      [] r \in {"int", "int_ok"} /\ k \in {":0", ":1"}     -> "returned"
      [] r = "bulk"   /\ k = "$"              -> "payload"
      [] r = "bulk"   /\ k = "$-1"            -> "missing_value"
      [] r \in {"multi", "kv"} /\ k = "*"     -> "elements"
      [] r \in {"multi", "kv"} /\ k = "*-1"   -> "key_error"
      [] r = "double" /\ k \in {"$", "$-1"}   -> "value"
      [] OTHER                                -> "protocol_error"

\* What a reader makes of the first line: an outcome, or what it reads next.
Verdict(r, k) ==
    CASE r = "ok"     /\ k = "+OK"            -> "returned"
      [] r = "status" /\ k \in {"+OK", "+"}   -> "returned"
      [] r = "int"    /\ k \in {":0", ":1"}   -> "returned"
      [] r = "int_ok" /\ k = ":1"             -> "returned"
      [] r = "bulk"   /\ k = "$"              -> "payload"
      [] r = "bulk"   /\ k = "$-1"            -> "missing_value"
      [] r \in {"multi", "kv"} /\ k = "*"     -> "elements"
      [] r \in {"multi", "kv"} /\ k = "*-1"   -> "key_error"
      [] r = "double" /\ k \in {"$", "$-1"}   -> "value"
      [] OTHER                                -> "protocol_error"

Consume == stream # <<>> /\ stream' = Tail(stream)

RecvLine ==
    /\ state = "line" /\ Consume
    /\ LET t == Head(stream)
           r == ReaderOf[method]
           v == Verdict(r, t.k)
           f == IF r = "kv" /\ t.n < 2 THEN "protocol_error" ELSE "returned"
       IN \/ v \in Outcome /\ Ends(v)
          \/ v \in {"payload", "value"} /\ state' = v
                /\ UNCHANGED <<left, final, outcome>>
          \/ v = "elements" /\ t.n = 0 /\ Ends(f)
          \/ v = "elements" /\ t.n > 0 /\ state' = "bulk" /\ left' = t.n
                /\ final' = f /\ UNCHANGED outcome
    /\ UNCHANGED <<serverVars, method, mismatch>>

\* Mutant of ElementRead: the single bulk reply is counted as an element.
ElementUnderflow ==
    \/ left = 1 /\ Ends(final)
    \/ left # 1 /\ left' = left - 1 /\ state' = "bulk" /\ UNCHANGED <<final, outcome>>

\* Mutant of ElementRead: the loop ends one element early.
ElementEarly ==
    \/ left = 0 /\ Ends("returned")
    \/ left \in {1, 2} /\ Ends(final)
    \/ left > 2 /\ left' = left - 1 /\ state' = "bulk" /\ UNCHANGED <<final, outcome>>

\* One element of a multi-bulk reply, or the single bulk reply, was read.
ElementRead ==
    \/ left = 0 /\ Ends("returned")
    \/ left = 1 /\ Ends(final)
    \/ left > 1 /\ left' = left - 1 /\ state' = "bulk" /\ UNCHANGED <<final, outcome>>

\* Mutant of RecvElement: a length of -1 is not special.
RecvElementNoNil ==
    /\ state = "bulk" /\ Consume
    /\ state' = "payload"
    /\ UNCHANGED <<left, final, outcome, serverVars, method, mismatch>>

RecvElement ==
    /\ state = "bulk" /\ Consume
    /\ LET k == Head(stream).k IN
       \/ k = "$" /\ state' = "payload" /\ UNCHANGED <<left, final, outcome>>
       \/ k = "$-1" /\ ElementRead
       \/ k \notin {"$", "$-1"} /\ Ends("protocol_error")
    /\ UNCHANGED <<serverVars, method, mismatch>>

\* _read_n makes a string of a C string: a NUL byte shortens it, which
\* _recv_bulk_reply reports as "data of unexpected length"; the elements that
\* follow in a multi-bulk reply are left to the next reader.
RecvPayload ==
    /\ state = "payload" /\ Consume
    /\ LET short == Head(stream).k = "data0" IN
       /\ IF short THEN Ends("protocol_error") ELSE ElementRead
       /\ mismatch' = (mismatch \/ (short /\ left > 1))
    /\ UNCHANGED <<serverVars, method>>

\* _recv_double_reply reads a second line whatever the first one announced.
RecvValue ==
    /\ state = "value" /\ Consume
    /\ Ends(IF Head(stream).k = "data" THEN "returned" ELSE "value_error")
    /\ UNCHANGED <<serverVars, method, mismatch>>

\* recv returned -1 in _read_n, which is not tested for: bytes_read and bp go one
\* back, and the loop will take one byte more than the payload.  That is harmless
\* only when nothing more comes.  (Bound: one failure per payload.)
RecvFails ==
    /\ state = "payload"
    /\ state' = "overrun"
    /\ mismatch' = (mismatch \/ ~closed \/ stream # <<>>)
    /\ UNCHANGED <<left, final, stream, serverVars, method, outcome>>

\* The payload is read with the first byte of the next header.  Whether the string
\* has its length depends on where its NUL bytes are; a write in front of the
\* buffer ends the process in delete[].
RecvOverrun ==
    /\ state = "overrun" /\ Len(stream) > 1
    /\ stream' = <<Tok("?")>> \o SubSeq(stream, 3, Len(stream))
    /\ \/ ElementRead
       \/ Ends("protocol_error")
       \/ state' = "aborted" /\ UNCHANGED <<left, final, outcome>>
    /\ UNCHANGED <<serverVars, method, mismatch>>

\* Mutant of RecvClosed: every method expects the end of the connection.
RecvClosedSilent ==
    /\ state \notin {"idle", "aborted"} /\ closed
    /\ stream = <<>> \/ (state = "overrun" /\ Len(stream) = 1)
    /\ stream' = <<>>
    /\ Ends("returned")
    /\ UNCHANGED <<serverVars, method, mismatch>>

\* recv returned 0; shutdown() expects that.  In an overrun the payload came, and
\* the byte after it never will.
RecvClosed ==
    /\ state \notin {"idle", "aborted"} /\ closed
    /\ stream = <<>> \/ (state = "overrun" /\ Len(stream) = 1)
    /\ stream' = <<>>
    /\ Ends(IF method = "shutdown" THEN "returned" ELSE "connection_error")
    /\ UNCHANGED <<serverVars, method, mismatch>>

-----------------------------------------------------------------------------
ClientStep == RecvLine \/ RecvElement \/ RecvPayload \/ RecvOverrun \/ RecvValue
                 \/ RecvClosed
ServerStep == Answer \/ Deliver

Next == \/ \E m \in Used : CallMethod(m)
        \/ ClientStep
        \/ RecvFails
        \/ ServerStep
        \/ ServerClose

Spec == Init /\ [][Next]_vars

\* The calling thread runs, and the server answers what it was sent.
FairSpec == Spec /\ WF_vars(ClientStep) /\ WF_vars(ServerStep)

-----------------------------------------------------------------------------
(* Properties.                                                             *)

\* Between two calls nothing is unread or unanswered, whatever was thrown, so the
\* next reader starts at the first byte of its own reply; this holds until the
\* first of the answers Misread names, a NUL byte in a multi-bulk reply, a recv
\* that fails inside a payload, or a call of mset or msetnx.
InSync ==
    state = "idle" /\ ~closed /\ ~mismatch =>
        stream = <<>> /\ asked = <<>> /\ writing = <<>>

\* Until then, a reader never waits for bytes nobody will send.
NeverStuck ==
    state # "idle" /\ ~mismatch =>
        stream # <<>> \/ asked # <<>> \/ writing # <<>> \/ closed

\* What every reader leaves to the next one, on every path out of it.
StreamConsistent == TypeOK /\ InSync /\ NeverStuck

\* What an answer tells the caller: an error, no value, no list, or a result.
Meaning(a) ==
    CASE a[1].k = "-"   -> "protocol_error"
      [] a[1].k = "$-1" -> "missing_value"
      [] a[1].k = "*-1" -> "key_error"
      [] OTHER          -> "returned"

HasNul(a) == \E i \in 1 .. Len(a) : a[i].k = "data0"

\* The answers a method reports as a protocol error although the server reported
\* none: a status (as of BGSAVE and DEBUG OBJECT, or +QUEUED in a transaction) where
\* the method does not read one; the integer of PERSIST; the nil of RANDOMKEY and
\* the nil list of BRPOPLPUSH; the list of an EXEC or CONFIG GET, here empty; a 0 to
\* sadd and its like; less than a pair to blpop; a value with a NUL byte.
Refused(m, a) ==
    LET k == a[1].k IN
    \/ k = "+" /\ ReaderOf[m] # "status"
    \/ m = "persist" /\ k \in {":0", ":1"}
    \/ m = "randomkey" /\ k = "$-1"
    \/ m \in {"brpoplpush", "exec"} /\ k = "*-1"
    \/ m \in {"exec", "config_get"} /\ k = "*"
    \/ m = "sadd" /\ k = ":0"
    \/ m = "blpop" /\ k = "*" /\ a[1].n < 2
    \/ HasNul(a)

\* How a call ends once its answer has arrived in whole.
Deserved(m, a) == IF Refused(m, a) THEN "protocol_error" ELSE Meaning(a)

\* How a call may end when part of the answer never arrives: shutdown takes that for
\* success once its command is sent.
Lost(m) == {"connection_error"} \cup (IF m = "shutdown" THEN {"returned"} ELSE {})

\* Every call that reads a reply ends as the answer to its own command deserves, in
\* both directions: a value is returned for exactly the answers that carry one, nil
\* and nil lists surface as such and errors as errors, the answers that Refused names
\* apart; and when the connection is lost anywhere in an answer, also between a
\* header and its payload, no part of it is returned.  As before, until the first
\* misread reply.
OutcomeMatchesAnswer ==
    state = "idle" /\ outcome # "none" /\ ReaderOf[method] # "none" /\ ~mismatch =>
        IF answer # <<>> /\ writing = <<>> THEN outcome = Deserved(method, answer)
        ELSE closed /\ outcome \in Lost(method)

\* Every call returns or throws, unless a reply was misread.
CallsEnd == (state # "idle") ~> (state = "idle" \/ mismatch)
=============================================================================
