------------------------------ MODULE ReadLine ------------------------------
(***************************************************************************)
(* connection::_read_line: peek at what the socket holds, copy up to and   *)
(* including the first LF, then read exactly that much.  A line may arrive *)
(* in any number of pieces and be followed by bytes of the next reply.     *)
(***************************************************************************)
EXTENDS Naturals, Sequences

CONSTANTS BufferSize,   \* the local buffer_size
          MaxSize,      \* the parameter max_size
          MaxInput,     \* bound: bytes the server ever sends
          Faults        \* whether recv may fail with an error other than EINTR

ASSUME ReadLineAssumption ==
    /\ BufferSize \in Nat \ {0} /\ MaxSize \in Nat \ {0}
    /\ MaxInput \in Nat /\ Faults \in BOOLEAN

Byte == {"x", "CR", "LF"}     \* x stands for any other byte

VARIABLES
    input,      \* history: all the server sends before it closes, if it does
    coming,     \* bytes still on their way
    sock,       \* the socket's receive buffer
    closed,     \* the peer closed its end, after coming
    oss,        \* the output string stream
    toRead,     \* to_read, of the piece peeked at
    found,      \* found_delimiter
    failed,     \* history: a recv failed
    pc          \* where _read_line is

vars == <<input, coming, sock, closed, oss, toRead, found, failed, pc>>

Inputs == UNION {[1 .. n -> Byte] : n \in 0 .. MaxInput}

HasEol(s) == \E i \in DOMAIN s : s[i] = "LF"
EolAt(s) == CHOOSE i \in DOMAIN s : s[i] = "LF" /\ \A j \in 1 .. i - 1 : s[j] # "LF"

\* rtrim(line, CRLF): every trailing CR and LF goes.
Trim(s) ==
    LET keep == {i \in DOMAIN s : s[i] = "x"}
    IN  IF keep = {} THEN <<>>
        ELSE SubSeq(s, 1, CHOOSE i \in keep : \A j \in keep : j <= i)

TypeOK ==
    /\ input \in Inputs /\ coming \in Inputs /\ sock \in Inputs
    /\ oss \in Seq(Byte)
    /\ closed \in BOOLEAN /\ found \in BOOLEAN /\ failed \in BOOLEAN
    /\ toRead \in 0 .. BufferSize
    /\ pc \in {"peek", "consume", "stray", "done", "raised", "undefined"}

Init ==
    /\ input \in Inputs /\ closed \in BOOLEAN
    /\ coming = input /\ sock = <<>>
    /\ oss = <<>> /\ toRead = 0 /\ found = FALSE /\ failed = FALSE
    /\ pc = "peek"

\* The network delivers some of the bytes.
Arrive ==
    /\ coming # <<>>
    /\ \E n \in 1 .. Len(coming) :
         /\ sock' = sock \o SubSeq(coming, 1, n)
         /\ coming' = SubSeq(coming, n + 1, Len(coming))
    /\ UNCHANGED <<input, closed, oss, toRead, found, failed, pc>>

\* Mutant of Peek: the whole buffer is copied and read, past the LF.
PeekWholeBuffer ==
    /\ pc = "peek" /\ sock # <<>>
    /\ LET n == IF Len(sock) < BufferSize THEN Len(sock) ELSE BufferSize
           buffer == SubSeq(sock, 1, n)
       IN /\ found' = HasEol(buffer)
          /\ toRead' = n
          /\ oss' = oss \o buffer
    /\ pc' = "consume"
    /\ UNCHANGED <<input, coming, sock, closed, failed>>

\* Mutant of Peek: to_read is what the socket holds, not what fits the buffer.
PeekUnbounded ==
    /\ pc = "peek" /\ sock # <<>>
    /\ found' = HasEol(sock)
    /\ toRead' = IF HasEol(sock) THEN EolAt(sock) ELSE Len(sock)
    /\ oss' = oss \o SubSeq(sock, 1, toRead')
    /\ pc' = "consume"
    /\ UNCHANGED <<input, coming, sock, closed, failed>>

\* recv(MSG_PEEK), memchr and the copy to oss.  total_bytes_read stays 0, so the
\* loop's other condition never ends it.
Peek ==
    /\ pc = "peek" /\ sock # <<>>
    /\ LET n == IF Len(sock) < BufferSize THEN Len(sock) ELSE BufferSize
           buffer == SubSeq(sock, 1, n)
           take == IF HasEol(buffer) THEN EolAt(buffer) ELSE n
       IN /\ found' = HasEol(buffer)
          /\ toRead' = take
          /\ oss' = oss \o SubSeq(buffer, 1, take)
    /\ pc' = "consume"
    /\ UNCHANGED <<input, coming, sock, closed, failed>>

\* Mutant of PeekClosed: the end of the connection is polled for ever.
PeekClosedRetries ==
    /\ pc = "peek" /\ sock = <<>> /\ coming = <<>> /\ closed
    /\ UNCHANGED vars

PeekClosed ==
    /\ pc = "peek" /\ sock = <<>> /\ coming = <<>> /\ closed
    /\ pc' = "raised"
    /\ UNCHANGED <<input, coming, sock, closed, oss, toRead, found, failed>>

\* What is written to oss when memchr finds an LF behind the buffer.  (Bound: right
\* behind it; the bytes of the buffer itself hold no LF.)
Stray == [i \in 1 .. BufferSize + 1 |-> IF i <= BufferSize THEN "x" ELSE "LF"]

\* recv returned -1, which is not tested for: memchr is given the length
\* (size_t)-1.  It finds an LF behind the buffer, or it leaves the mapped memory.
\* (Bound: one failure per call.)
PeekFails ==
    /\ Faults /\ ~failed /\ pc = "peek"
    /\ failed' = TRUE
    /\ \/ pc' = "stray" /\ found' = TRUE /\ oss' = oss \o Stray
       \/ pc' = "undefined" /\ UNCHANGED <<found, oss>>
    /\ UNCHANGED <<input, coming, sock, closed, toRead>>

\* The second recv after that: it blocks until there is something to take, takes up
\* to the stray length, and may write behind the buffer.
ConsumeStray ==
    /\ pc = "stray" /\ (sock # <<>> \/ (coming = <<>> /\ closed))
    /\ sock' = SubSeq(sock, Len(Stray) + 1, Len(sock))
    /\ pc' = IF Len(sock) > BufferSize THEN "undefined" ELSE "done"
    /\ UNCHANGED <<input, coming, closed, oss, toRead, found, failed>>

\* Mutant of Consume: the second recv takes a whole buffer.
ConsumeWholeBuffer ==
    /\ pc = "consume"
    /\ sock' = SubSeq(sock, BufferSize + 1, Len(sock))
    /\ toRead' = 0
    /\ pc' = IF found THEN "done" ELSE "peek"
    /\ UNCHANGED <<input, coming, closed, oss, found, failed>>

\* The second recv removes what was copied.
Consume ==
    /\ pc = "consume"
    /\ sock' = SubSeq(sock, toRead + 1, Len(sock))
    /\ toRead' = 0
    /\ pc' = IF found THEN "done" ELSE "peek"
    /\ UNCHANGED <<input, coming, closed, oss, found, failed>>

\* The second recv returned -1: nobody looks, and the bytes stay to be read again.
ConsumeFails ==
    /\ Faults /\ ~failed /\ pc = "consume"
    /\ failed' = TRUE
    /\ toRead' = 0
    /\ pc' = IF found THEN "done" ELSE "peek"
    /\ UNCHANGED <<input, coming, sock, closed, oss, found>>

Returned ==
    /\ pc \in {"done", "raised", "undefined"}
    /\ UNCHANGED vars

Next == Arrive \/ Peek \/ PeekClosed \/ PeekFails \/ Consume \/ ConsumeFails
           \/ ConsumeStray \/ Returned

Spec == Init /\ [][Next]_vars

\* Bytes sent arrive, and the reading thread runs.
FairSpec == Spec /\ WF_vars(Arrive) /\ WF_vars(Peek \/ PeekClosed \/ Consume \/ ConsumeStray)

-----------------------------------------------------------------------------
(* Properties.                                                             *)

\* The string _read_line returns.
line == Trim(oss)

\* However the bytes are cut into pieces, every byte is either copied to oss or
\* still to be read, in order and once, for lines of any length.
NothingLost ==
    ~failed => input = oss \o SubSeq(sock, toRead + 1, Len(sock)) \o coming

\* A line of at most max_size bytes is returned as the input up to the first LF,
\* without its end of line, and exactly those bytes were taken: the reply that
\* follows is untouched.  (Of a longer line the comment above _read_line says that a
\* blank string is returned.)
LineExact ==
    pc = "done" /\ ~failed =>
        /\ HasEol(input)
        /\ EolAt(input) <= MaxSize =>
              /\ line = Trim(SubSeq(input, 1, EolAt(input)))
              /\ sock \o coming = SubSeq(input, EolAt(input) + 1, Len(input))

\* The peek and the second recv agree on every byte, and on where the line ends.
LineConsistent == TypeOK /\ NothingLost /\ LineExact

\* A line, or the end of the connection, that was sent is eventually seen.
LineReturned ==
    (HasEol(input) \/ closed) ~> (pc \in {"done", "raised", "undefined"})
=============================================================================
