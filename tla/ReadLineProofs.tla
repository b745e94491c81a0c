--------------------------- MODULE ReadLineProofs ---------------------------
(***************************************************************************)
(* connection::_read_line for every size of its buffer and every input:    *)
(* however the bytes are cut into pieces, the line returned is the input   *)
(* up to its first LF, if it has at most max_size bytes, and the bytes     *)
(* behind it are untouched; of longer lines no byte is lost either.  The   *)
(* invariant places every byte of the input by its index, which is what    *)
(* the concatenations of the property come to.                             *)
(***************************************************************************)
EXTENDS ReadLine, Integers, FiniteSets, Functions, TLAPS, SequenceTheorems,
        WellFoundedInduction

\* A set of natural numbers with an element has a least one.
LEMMA LeastNat ==
    ASSUME NEW T \in SUBSET Nat, T # {}
    PROVE  \E n \in T : \A k \in T : n <= k
<1> DEFINE R == {ss \in Nat \X Nat : ss[1] < ss[2]}
<1>1. IsWellFoundedOn(R, Nat)
  BY NatLessThanWellFounded DEF OpToRel
<1>2. PICK x \in T : \A y \in T : ~(<<y, x>> \in R)
  BY <1>1, WFMin, Zenon
<1>3. ASSUME NEW y \in T PROVE x <= y
  <2>1. x \in Nat /\ y \in Nat
    OBVIOUS
  <2>2. ~(<<y, x>> \in R)
    BY <1>2
  <2>3. ~(y < x)
    BY <2>1, <2>2
  <2> QED  BY <2>1, <2>3
<1> QED  BY <1>3

Bytes == Seq(Byte)

\* What holds of the variables in every state, failures of recv or not.
Sizes ==
    /\ input \in Bytes /\ coming \in Bytes /\ sock \in Bytes /\ oss \in Bytes
    /\ Len(input) <= MaxInput /\ Len(sock) + Len(coming) <= MaxInput
    /\ closed \in BOOLEAN /\ found \in BOOLEAN /\ failed \in BOOLEAN
    /\ toRead \in 0 .. BufferSize /\ toRead <= Len(sock)
    /\ pc \in {"peek", "consume", "stray", "done", "raised", "undefined"}
    /\ pc # "consume" => toRead = 0

\* Each byte of the input is in the line, behind it in the socket, or on its way.
Layout ==
    /\ Len(input) = Len(oss) + (Len(sock) - toRead) + Len(coming)
    /\ \A i \in 1 .. Len(oss) : oss[i] = input[i]
    /\ \A i \in toRead + 1 .. Len(sock) : sock[i] = input[Len(oss) + i - toRead]
    /\ \A i \in 1 .. Len(coming) : coming[i] = input[Len(oss) + (Len(sock) - toRead) + i]

\* The line so far has an LF only if it is complete, and only at its end.
Ended ==
    /\ found => Len(oss) > 0 /\ oss[Len(oss)] = "LF"
    /\ \A i \in 1 .. Len(oss) : oss[i] = "LF" => found /\ i = Len(oss)
    /\ pc = "peek" => ~found
    /\ pc = "done" => found
    /\ pc # "stray"

LineInv == Sizes /\ (~failed => Layout /\ Ended)

-----------------------------------------------------------------------------
(* Sequences of bytes.                                                     *)

\* Inputs are the sequences of at most MaxInput bytes.
LEMMA InputsAre ==
    ASSUME NEW s
    PROVE  s \in Inputs <=> s \in Bytes /\ Len(s) <= MaxInput
<1>0. MaxInput \in Nat
  BY ReadLineAssumption
<1>1. ASSUME s \in Inputs PROVE s \in Bytes /\ Len(s) <= MaxInput
  <2>1. PICK n \in 0 .. MaxInput : s \in [1 .. n -> Byte]
    BY <1>1 DEF Inputs
  <2>2. n \in Nat
    BY <1>0
  <2>3. s \in Seq(Byte) /\ Len(s) = n
    BY <2>1, <2>2
  <2> QED  BY <1>0, <2>2, <2>3 DEF Bytes
<1>2. ASSUME s \in Bytes, Len(s) <= MaxInput PROVE s \in Inputs
  <2>1. s \in [1 .. Len(s) -> Byte] /\ Len(s) \in Nat
    BY <1>2, LenProperties DEF Bytes
  <2>2. Len(s) \in 0 .. MaxInput
    BY <1>0, <1>2, <2>1
  <2> QED  BY <2>1, <2>2 DEF Inputs
<1> QED  BY <1>1, <1>2

\* The first LF of a sequence that has one, and the only index with that property.
LEMMA FirstEol ==
    ASSUME NEW s \in Bytes, HasEol(s)
    PROVE  /\ EolAt(s) \in 1 .. Len(s) /\ s[EolAt(s)] = "LF"
           /\ \A j \in 1 .. EolAt(s) - 1 : s[j] # "LF"
           /\ \A i \in 1 .. Len(s) :
                 s[i] = "LF" /\ (\A j \in 1 .. i - 1 : s[j] # "LF") => i = EolAt(s)
<1>0. DOMAIN s = 1 .. Len(s) /\ Len(s) \in Nat
  BY LenProperties DEF Bytes
<1> DEFINE T == {i \in 1 .. Len(s) : s[i] = "LF"}
<1>1. T \in SUBSET Nat /\ T # {}
  BY <1>0 DEF HasEol
<1>2. PICK n \in T : \A k \in T : n <= k
  BY <1>1, LeastNat
<1>3. n \in DOMAIN s /\ s[n] = "LF" /\ \A j \in 1 .. n - 1 : s[j] # "LF"
  <2>1. n \in 1 .. Len(s) /\ s[n] = "LF"
    OBVIOUS
  <2>2. ASSUME NEW j \in 1 .. n - 1, s[j] = "LF" PROVE FALSE
    <3>1. j \in T /\ ~(n <= j)
      BY <1>0, <2>1, <2>2
    <3> QED  BY <1>2, <3>1
  <2> QED  BY <1>0, <2>1, <2>2
<1>4. PICK e : e = EolAt(s)
  OBVIOUS
<1>5. e \in DOMAIN s /\ s[e] = "LF" /\ \A j \in 1 .. e - 1 : s[j] # "LF"
  BY <1>3, <1>4 DEF EolAt
<1>6. ASSUME NEW i \in 1 .. Len(s), s[i] = "LF", \A j \in 1 .. i - 1 : s[j] # "LF"
      PROVE  i = e
  <2>1. e \in 1 .. Len(s)
    BY <1>0, <1>5
  <2>2. ~(e < i)
    <3>1. e < i => e \in 1 .. i - 1
      BY <1>0, <2>1
    <3> QED  BY <1>5, <1>6, <3>1
  <2>3. ~(i < e)
    <3>1. i < e => i \in 1 .. e - 1
      BY <1>0, <2>1
    <3> QED  BY <1>5, <1>6, <3>1
  <2> QED  BY <1>0, <2>1, <2>2, <2>3
<1> QED  BY <1>0, <1>4, <1>5, <1>6

\* A part of a sequence of bytes, by its indices.
LEMMA Part ==
    ASSUME NEW s \in Bytes, NEW a \in Nat, NEW b \in Nat, a <= b, b <= Len(s)
    PROVE  /\ SubSeq(s, a + 1, b) \in Bytes /\ Len(SubSeq(s, a + 1, b)) = b - a
           /\ \A i \in 1 .. b - a : SubSeq(s, a + 1, b)[i] = s[a + i]
<1>0. Len(s) \in Nat /\ \A i \in 1 .. Len(s) : s[i] \in Byte
  BY LenProperties, ElementOfSeq DEF Bytes
<1>1. \A i \in a + 1 .. b : s[i] \in Byte
  BY <1>0
<1>2. a + 1 \in Int /\ b \in Int
  OBVIOUS
<1>3. /\ SubSeq(s, a + 1, b) \in Seq(Byte)
      /\ Len(SubSeq(s, a + 1, b)) = IF a + 1 <= b THEN b - (a + 1) + 1 ELSE 0
      /\ \A i \in 1 .. b - (a + 1) + 1 : SubSeq(s, a + 1, b)[i] = s[(a + 1) + i - 1]
  BY <1>1, <1>2, SubSeqProperties
<1>4. b - (a + 1) + 1 = b - a /\ \A i \in 1 .. b - a : (a + 1) + i - 1 = a + i
  OBVIOUS
<1> QED  BY <1>3, <1>4 DEF Bytes

\* Two sequences of bytes, one after the other.
LEMMA Joined ==
    ASSUME NEW s \in Bytes, NEW t \in Bytes
    PROVE  /\ s \o t \in Bytes /\ Len(s \o t) = Len(s) + Len(t)
           /\ \A i \in 1 .. Len(s) + Len(t) :
                 (s \o t)[i] = IF i <= Len(s) THEN s[i] ELSE t[i - Len(s)]
<1>1. s \in Seq(Byte) /\ t \in Seq(Byte)
  BY DEF Bytes
<1>2. /\ s \o t \in Seq(Byte) /\ Len(s \o t) = Len(s) + Len(t)
      /\ \A i \in 1 .. Len(s) + Len(t) :
            (s \o t)[i] = IF i <= Len(s) THEN s[i] ELSE t[i - Len(s)]
  BY <1>1, ConcatProperties
<1> QED  BY <1>2 DEF Bytes

-----------------------------------------------------------------------------
(* Steps.                                                                  *)

\* Some of the bytes arrive.
LEMMA ArriveInv ==
    ASSUME LineInv, Arrive
    PROVE  LineInv'
<1>1. PICK n \in 1 .. Len(coming) : /\ sock' = sock \o SubSeq(coming, 1, n)
                                    /\ coming' = SubSeq(coming, n + 1, Len(coming))
  BY DEF Arrive
<1>2. UNCHANGED <<input, closed, oss, toRead, found, failed, pc>>
  BY DEF Arrive
<1>3. PICK l : l = Len(sock)
  OBVIOUS
<1>4. PICK c : c = Len(coming)
  OBVIOUS
<1>5. PICK o : o = Len(oss)
  OBVIOUS
<1>6. /\ l \in Nat /\ c \in Nat /\ o \in Nat /\ n \in Nat /\ 1 <= n /\ n <= c
      /\ sock \in Bytes /\ coming \in Bytes /\ toRead \in Nat /\ toRead <= l
      /\ Len(input) \in Nat /\ input \in Bytes /\ l + c <= MaxInput /\ Sizes
  BY <1>3, <1>4, <1>5, LenProperties, ReadLineAssumption DEF LineInv, Sizes, Bytes
<1>7. PICK p : p = SubSeq(coming, 1, n)
  OBVIOUS
<1>8. p \in Bytes /\ Len(p) = n /\ \A i \in 1 .. n : p[i] = coming[i]
  <2>1. /\ SubSeq(coming, 0 + 1, n) \in Bytes /\ Len(SubSeq(coming, 0 + 1, n)) = n - 0
        /\ \A i \in 1 .. n - 0 : SubSeq(coming, 0 + 1, n)[i] = coming[0 + i]
    BY <1>4, <1>6, Part
  <2>2. 0 + 1 = 1 /\ n - 0 = n /\ \A i \in 1 .. n : 0 + i = i
    BY <1>6
  <2> QED  BY <1>7, <2>1, <2>2
<1>9. coming' \in Bytes /\ Len(coming') = c - n /\ \A i \in 1 .. c - n : coming'[i] = coming[n + i]
  <2>1. PICK q : q = SubSeq(coming, n + 1, c)
    OBVIOUS
  <2>2. coming \in Bytes /\ n \in Nat /\ c \in Nat /\ n <= c /\ c <= Len(coming)
    BY <1>4, <1>6
  <2>3. q \in Bytes /\ Len(q) = c - n /\ \A i \in 1 .. c - n : q[i] = coming[n + i]
    BY <2>1, <2>2, Part
  <2>4. coming' = q
    BY <1>1, <1>4, <2>1
  <2> QED  BY <2>3, <2>4
<1>10. /\ sock' \in Bytes /\ Len(sock') = l + n
       /\ \A i \in 1 .. l + n : sock'[i] = IF i <= l THEN sock[i] ELSE p[i - l]
  <2>1. sock \in Bytes /\ p \in Bytes /\ l \in Nat /\ n \in Nat /\ Len(sock) = l /\ Len(p) = n
    BY <1>3, <1>6, <1>8
  <2>2. sock' = sock \o p
    BY <1>1, <1>7
  <2>9. /\ sock \o p \in Bytes /\ Len(sock \o p) = Len(sock) + Len(p)
        /\ \A i \in 1 .. Len(sock) + Len(p) :
              (sock \o p)[i] = IF i <= Len(sock) THEN sock[i] ELSE p[i - Len(sock)]
    BY <2>1, Joined
  <2> QED  BY <2>1, <2>2, <2>9
<1>11. Sizes'
  BY <1>2, <1>3, <1>6, <1>9, <1>10 DEF Sizes
<1>12. ASSUME ~failed PROVE Layout' /\ Ended'
  <2>1. /\ Len(input) = o + (l - toRead) + c
        /\ \A i \in 1 .. o : oss[i] = input[i]
        /\ \A i \in toRead + 1 .. l : sock[i] = input[o + i - toRead]
        /\ \A i \in 1 .. c : coming[i] = input[o + (l - toRead) + i]
        /\ Ended
    BY <1>3, <1>4, <1>5, <1>12 DEF LineInv, Layout
  <2>2. Len(input) = o + (l + n - toRead) + (c - n)
    BY <1>6, <2>1
  <2>3. ASSUME NEW i \in toRead + 1 .. l + n PROVE sock'[i] = input[o + i - toRead]
    <3>1. CASE i <= l
      <4>1. i \in toRead + 1 .. l /\ i \in 1 .. l + n
        BY <1>6, <3>1
      <4> QED  BY <1>10, <2>1, <3>1, <4>1
    <3>2. CASE i > l
      <4>1. i \in 1 .. l + n /\ i - l \in 1 .. n /\ i - l \in 1 .. c /\ ~(i <= l)
            /\ o + (l - toRead) + (i - l) = o + i - toRead
        BY <1>6, <3>2
      <4>2. sock'[i] = p[i - l] /\ p[i - l] = coming[i - l]
        BY <1>8, <1>10, <4>1
      <4> QED  BY <2>1, <4>1, <4>2
    <3> QED  BY <1>6, <3>1, <3>2
  <2>4. ASSUME NEW i \in 1 .. c - n PROVE coming'[i] = input[o + (l + n - toRead) + i]
    <3>1. n + i \in 1 .. c /\ o + (l - toRead) + (n + i) = o + (l + n - toRead) + i
      BY <1>6
    <3> QED  BY <1>9, <2>1, <3>1
  <2>5. Layout'
    <3>0. /\ input' = input /\ oss' = oss /\ toRead' = toRead
          /\ Len(oss') = o /\ Len(sock') = l + n /\ Len(coming') = c - n
      BY <1>2, <1>5, <1>9, <1>10
    <3>1. Len(input') = Len(oss') + (Len(sock') - toRead') + Len(coming')
      BY <1>6, <2>2, <3>0
    <3>2. \A i \in 1 .. Len(oss') : oss'[i] = input'[i]
      BY <2>1, <3>0
    <3>3. \A i \in toRead' + 1 .. Len(sock') : sock'[i] = input'[Len(oss') + i - toRead']
      BY <2>3, <3>0
    <3>4. \A i \in 1 .. Len(coming') :
             coming'[i] = input'[Len(oss') + (Len(sock') - toRead') + i]
      BY <1>6, <2>4, <3>0
    <3> QED  BY <3>1, <3>2, <3>3, <3>4 DEF Layout
  <2>6. Ended'
    BY <1>2, <2>1 DEF Ended
  <2> QED  BY <2>5, <2>6
<1> QED  BY <1>2, <1>11, <1>12 DEF LineInv

\* recv(MSG_PEEK) and the copy: what is copied is the first bytes of the socket, up to
\* an LF among those that fit the buffer.
LEMMA PeekInv ==
    ASSUME LineInv, Peek
    PROVE  LineInv'
<1>1. PICK l : l = Len(sock)
  OBVIOUS
<1>2. PICK o : o = Len(oss)
  OBVIOUS
<1>3. PICK n : n = IF l < BufferSize THEN l ELSE BufferSize
  OBVIOUS
<1>4. PICK b : b = SubSeq(sock, 1, n)
  OBVIOUS
<1>5. PICK take : take = IF HasEol(b) THEN EolAt(b) ELSE n
  OBVIOUS
<1>6. PICK p : p = SubSeq(b, 1, take)
  OBVIOUS
<1>7. /\ pc = "peek" /\ sock # <<>> /\ pc' = "consume" /\ (found' <=> HasEol(b))
      /\ found' \in BOOLEAN /\ toRead' = take /\ oss' = oss \o p
      /\ UNCHANGED <<input, coming, sock, closed, failed>>
  BY <1>1, <1>3, <1>4, <1>5, <1>6 DEF Peek, HasEol
<1>8. /\ l \in Nat \ {0} /\ o \in Nat /\ sock \in Bytes /\ oss \in Bytes /\ Sizes /\ toRead = 0
      /\ BufferSize \in Nat \ {0} /\ Len(coming) \in Nat
  BY <1>1, <1>2, <1>7, LenProperties, EmptySeq, ReadLineAssumption DEF LineInv, Sizes, Bytes
<1>9. n \in Nat \ {0} /\ n <= l /\ n <= BufferSize
  BY <1>3, <1>8
<1>10. b \in Bytes /\ Len(b) = n /\ \A i \in 1 .. n : b[i] = sock[i]
  <2>0. sock \in Bytes /\ 0 \in Nat /\ n \in Nat /\ 0 <= n /\ n <= Len(sock)
    BY <1>1, <1>8, <1>9
  <2>1. /\ SubSeq(sock, 0 + 1, n) \in Bytes /\ Len(SubSeq(sock, 0 + 1, n)) = n - 0
        /\ \A i \in 1 .. n - 0 : SubSeq(sock, 0 + 1, n)[i] = sock[0 + i]
    BY <2>0, Part
  <2>2. 0 + 1 = 1 /\ n - 0 = n /\ \A i \in 1 .. n : 0 + i = i
    BY <1>9
  <2> QED  BY <1>4, <2>1, <2>2
<1>11. /\ take \in 1 .. n
       /\ HasEol(b) => b[take] = "LF"
       /\ \A i \in 1 .. take : b[i] = "LF" => HasEol(b) /\ i = take
  <2>1. CASE HasEol(b)
    <3>1. take \in 1 .. n /\ b[take] = "LF" /\ \A j \in 1 .. take - 1 : b[j] # "LF"
      BY <1>5, <1>10, <2>1, FirstEol
    <3>2. \A i \in 1 .. take : i = take \/ i \in 1 .. take - 1
      BY <1>9, <3>1
    <3> QED  BY <2>1, <3>1, <3>2
  <2>2. CASE ~HasEol(b)
    <3>1. DOMAIN b = 1 .. n /\ take = n
      BY <1>5, <1>10, <2>2, LenProperties DEF Bytes
    <3>2. \A i \in 1 .. n : b[i] # "LF"
      BY <2>2, <3>1 DEF HasEol
    <3> QED  BY <1>9, <2>2, <3>1, <3>2
  <2> QED  BY <2>1, <2>2
<1>12. take \in Nat /\ 1 <= take /\ take <= n /\ take <= l /\ take <= BufferSize
  BY <1>8, <1>9, <1>11
<1>13. p \in Bytes /\ Len(p) = take /\ \A i \in 1 .. take : p[i] = b[i]
  <2>1. /\ SubSeq(b, 0 + 1, take) \in Bytes /\ Len(SubSeq(b, 0 + 1, take)) = take - 0
        /\ \A i \in 1 .. take - 0 : SubSeq(b, 0 + 1, take)[i] = b[0 + i]
    BY <1>10, <1>12, Part
  <2>2. 0 + 1 = 1 /\ take - 0 = take /\ \A i \in 1 .. take : 0 + i = i
    BY <1>12
  <2> QED  BY <1>6, <2>1, <2>2
<1>14. /\ oss' \in Bytes /\ Len(oss') = o + take
       /\ \A i \in 1 .. o + take : oss'[i] = IF i <= o THEN oss[i] ELSE p[i - o]
  <2>1. oss \in Bytes /\ p \in Bytes /\ o \in Nat /\ take \in Nat /\ Len(oss) = o /\ Len(p) = take
    BY <1>2, <1>8, <1>12, <1>13
  <2>9. /\ oss \o p \in Bytes /\ Len(oss \o p) = Len(oss) + Len(p)
        /\ \A i \in 1 .. Len(oss) + Len(p) :
              (oss \o p)[i] = IF i <= Len(oss) THEN oss[i] ELSE p[i - Len(oss)]
    BY <2>1, Joined
  <2> QED  BY <1>7, <2>1, <2>9
<1>15. \A i \in 1 .. take : p[i] = sock[i] /\ (p[i] = "LF" => found' /\ i = take)
  <2>1. \A i \in 1 .. take : i \in 1 .. n
    BY <1>12, <1>9
  <2> QED  BY <1>7, <1>10, <1>11, <1>13, <2>1
<1>16. Sizes'
  BY <1>1, <1>7, <1>8, <1>12, <1>14 DEF Sizes
<1>17. ASSUME ~failed PROVE Layout' /\ Ended'
  <2>1. /\ Len(input) = o + (l - toRead) + Len(coming)
        /\ \A i \in 1 .. o : oss[i] = input[i]
        /\ \A i \in toRead + 1 .. l : sock[i] = input[o + i - toRead]
        /\ \A i \in 1 .. Len(coming) : coming[i] = input[o + (l - toRead) + i]
        /\ Ended
    BY <1>1, <1>2, <1>17 DEF LineInv, Layout
  <2>2. \A i \in 1 .. l : sock[i] = input[o + i]
    <3>1. \A i \in 1 .. l : i \in toRead + 1 .. l /\ o + i - toRead = o + i
      BY <1>8
    <3> QED  BY <2>1, <3>1
  <2>3. ASSUME NEW i \in 1 .. o + take
        PROVE  oss'[i] = input[i] /\ (oss'[i] = "LF" => found' /\ i = o + take)
    <3>1. CASE i <= o
      <4>1. i \in 1 .. o /\ oss'[i] = oss[i]
        BY <1>8, <1>14, <3>1
      <4>2. oss[i] # "LF"
        BY <1>2, <1>7, <2>1, <4>1 DEF Ended
      <4> QED  BY <2>1, <4>1, <4>2
    <3>2. CASE i > o
      <4>1. i - o \in 1 .. take /\ i - o \in 1 .. l /\ o + (i - o) = i /\ ~(i <= o)
        BY <1>8, <1>12, <3>2
      <4>2. oss'[i] = p[i - o] /\ p[i - o] = sock[i - o] /\ sock[i - o] = input[i]
        BY <1>14, <1>15, <2>2, <4>1
      <4>3. p[i - o] = "LF" => found' /\ i - o = take
        BY <1>15, <4>1
      <4>4. i - o = take => i = o + take
        BY <1>8, <1>12
      <4> QED  BY <4>2, <4>3, <4>4
    <3> QED  BY <1>8, <1>12, <3>1, <3>2
  <2>4. Len(input) = (o + take) + (l - take) + Len(coming)
        /\ o + (l - toRead) = (o + take) + (l - take)
    BY <1>8, <1>12, <2>1
  <2>5. \A i \in take + 1 .. l : sock[i] = input[(o + take) + i - take]
    <3>1. \A i \in take + 1 .. l : i \in 1 .. l /\ (o + take) + i - take = o + i
      BY <1>8, <1>12
    <3> QED  BY <2>2, <3>1
  <2>6. Layout'
    BY <1>1, <1>7, <1>14, <2>1, <2>3, <2>4, <2>5 DEF Layout
  <2>7. found' => oss'[o + take] = "LF"
    <3>1. o + take \in 1 .. o + take /\ ~(o + take <= o) /\ (o + take) - o = take
          /\ take \in 1 .. take
      BY <1>8, <1>12
    <3>2. oss'[o + take] = p[take] /\ p[take] = b[take]
      BY <1>13, <1>14, <3>1
    <3> QED  BY <1>7, <1>11, <3>2
  <2>8. Ended'
    <3>1. Len(oss') = o + take /\ o + take > 0
      BY <1>8, <1>12, <1>14
    <3> QED  BY <1>7, <2>3, <2>7, <3>1 DEF Ended
  <2> QED  BY <2>6, <2>8
<1> QED  BY <1>7, <1>16, <1>17 DEF LineInv

\* The second recv takes the bytes that were copied off the socket.
LEMMA ConsumeInv ==
    ASSUME LineInv, Consume
    PROVE  LineInv'
<1>1. PICK l : l = Len(sock)
  OBVIOUS
<1>2. PICK o : o = Len(oss)
  OBVIOUS
<1>3. PICK c : c = Len(coming)
  OBVIOUS
<1>4. /\ pc = "consume" /\ sock' = SubSeq(sock, toRead + 1, Len(sock)) /\ toRead' = 0
      /\ pc' = (IF found THEN "done" ELSE "peek")
      /\ UNCHANGED <<input, coming, closed, oss, found, failed>>
  BY DEF Consume
<1>5. /\ l \in Nat /\ o \in Nat /\ c \in Nat /\ toRead \in Nat /\ toRead <= l
      /\ sock \in Bytes /\ Sizes /\ l + c <= MaxInput /\ MaxInput \in Nat
      /\ BufferSize \in Nat
  BY <1>1, <1>2, <1>3, LenProperties, ReadLineAssumption DEF LineInv, Sizes, Bytes
<1>6. /\ sock' \in Bytes /\ Len(sock') = l - toRead
      /\ \A i \in 1 .. l - toRead : sock'[i] = sock[toRead + i]
  <2>1. PICK q : q = SubSeq(sock, toRead + 1, l)
    OBVIOUS
  <2>2. sock \in Bytes /\ toRead \in Nat /\ l \in Nat /\ toRead <= l /\ l <= Len(sock)
    BY <1>1, <1>5
  <2>3. /\ q \in Bytes /\ Len(q) = l - toRead
        /\ \A i \in 1 .. l - toRead : q[i] = sock[toRead + i]
    BY <2>1, <2>2, Part
  <2>4. sock' = q
    BY <1>1, <1>4, <2>1
  <2> QED  BY <2>3, <2>4
<1>7. Sizes'
  <2>1. Len(sock') + Len(coming') <= MaxInput /\ toRead' \in 0 .. BufferSize /\ toRead' <= Len(sock')
    BY <1>3, <1>4, <1>5, <1>6
  <2>2. pc' \in {"peek", "consume", "stray", "done", "raised", "undefined"}
    BY <1>4
  <2> QED  BY <1>4, <1>5, <1>6, <2>1, <2>2 DEF Sizes
<1>8. ASSUME ~failed PROVE Layout' /\ Ended'
  <2>1. /\ Len(input) = o + (l - toRead) + c
        /\ \A i \in 1 .. o : oss[i] = input[i]
        /\ \A i \in toRead + 1 .. l : sock[i] = input[o + i - toRead]
        /\ \A i \in 1 .. c : coming[i] = input[o + (l - toRead) + i]
        /\ Ended
    BY <1>1, <1>2, <1>3, <1>8 DEF LineInv, Layout
  <2>2. ASSUME NEW i \in 1 .. l - toRead PROVE sock'[i] = input[o + i]
    <3>1. toRead + i \in toRead + 1 .. l /\ o + (toRead + i) - toRead = o + i
      BY <1>5
    <3> QED  BY <1>6, <2>1, <3>1
  <2>3. /\ input' = input /\ oss' = oss /\ coming' = coming /\ toRead' = 0
        /\ Len(oss') = o /\ Len(sock') = l - toRead /\ Len(coming') = c
    BY <1>2, <1>3, <1>4, <1>6
  <2>4. Layout'
    <3>1. Len(input') = Len(oss') + (Len(sock') - toRead') + Len(coming')
      BY <1>5, <2>1, <2>3
    <3>2. \A i \in 1 .. Len(oss') : oss'[i] = input'[i]
      BY <2>1, <2>3
    <3>3. \A i \in toRead' + 1 .. Len(sock') : sock'[i] = input'[Len(oss') + i - toRead']
      BY <1>5, <2>2, <2>3
    <3>4. \A i \in 1 .. Len(coming') :
             coming'[i] = input'[Len(oss') + (Len(sock') - toRead') + i]
      BY <1>5, <2>1, <2>3
    <3> QED  BY <3>1, <3>2, <3>3, <3>4 DEF Layout
  <2>5. Ended'
    BY <1>4, <2>1, <2>3 DEF Ended
  <2> QED  BY <2>4, <2>5
<1> QED  BY <1>4, <1>7, <1>8 DEF LineInv

\* What memchr finds behind the buffer is bytes.
LEMMA StrayBytes == Stray \in Seq(Byte) /\ Len(Stray) = BufferSize + 1
<1>1. BufferSize + 1 \in Nat /\ "LF" \in Byte /\ "x" \in Byte
  BY ReadLineAssumption DEF Byte
<1>2. Stray \in [1 .. BufferSize + 1 -> Byte]
  BY <1>1 DEF Stray
<1> QED  BY <1>1, <1>2

\* A recv that fails leaves what the variables may hold, and no claim about the line.
LEMMA FailsInv ==
    ASSUME LineInv, PeekFails \/ ConsumeFails
    PROVE  LineInv'
<1>1. failed' = TRUE
  BY DEF PeekFails, ConsumeFails
<1>2. Sizes /\ oss \in Seq(Byte) /\ Len(sock) \in Nat /\ BufferSize \in Nat
  BY LenProperties, ReadLineAssumption DEF LineInv, Sizes, Bytes
<1>3. CASE PeekFails
  <2>1. oss' \in Bytes /\ found' \in BOOLEAN
    <3>1. CASE UNCHANGED <<found, oss>>
      BY <1>2, <3>1 DEF Sizes
    <3>2. CASE found' = TRUE /\ oss' = oss \o Stray
      <4>1. oss \o Stray \in Seq(Byte)
        BY <1>2, StrayBytes, ConcatProperties
      <4> QED  BY <3>2, <4>1 DEF Bytes
    <3> QED  BY <1>3, <3>1, <3>2 DEF PeekFails
  <2>2. pc' \in {"stray", "undefined"} /\ pc = "peek"
        /\ UNCHANGED <<input, coming, sock, closed, toRead>>
    BY <1>3 DEF PeekFails
  <2>3. Sizes'
    BY <1>1, <1>2, <2>1, <2>2 DEF Sizes
  <2> QED  BY <1>1, <2>3 DEF LineInv
<1>4. CASE ConsumeFails
  <2>1. toRead' = 0 /\ pc' \in {"done", "peek"}
        /\ UNCHANGED <<input, coming, sock, closed, oss, found>>
    BY <1>4 DEF ConsumeFails
  <2>2. Sizes'
    BY <1>1, <1>2, <2>1 DEF Sizes
  <2> QED  BY <1>1, <2>2 DEF LineInv
<1> QED  BY <1>3, <1>4

\* So does the recv after it.
LEMMA StrayInv ==
    ASSUME LineInv, ConsumeStray
    PROVE  LineInv'
<1>1. /\ pc = "stray" /\ pc' \in {"done", "undefined"}
      /\ sock' = SubSeq(sock, Len(Stray) + 1, Len(sock))
      /\ UNCHANGED <<input, coming, closed, oss, toRead, found, failed>>
  BY DEF ConsumeStray
<1>2. /\ Sizes /\ sock \in Seq(Byte) /\ Len(sock) \in Nat /\ Len(coming) \in Nat
      /\ MaxInput \in Nat /\ toRead = 0 /\ failed
  BY <1>1, LenProperties, ReadLineAssumption DEF LineInv, Sizes, Bytes, Ended
<1>3. PICK q : q = SubSeq(sock, Len(Stray) + 1, Len(sock))
  OBVIOUS
<1>4. Len(Stray) + 1 \in Nat /\ Len(Stray) + 1 > 0
  BY StrayBytes, ReadLineAssumption
<1>5. q \in Seq(Byte) /\ Len(q) \in Nat /\ Len(q) <= Len(sock)
  BY <1>2, <1>3, <1>4, SubSeqProperties
<1>6. Sizes'
  BY <1>1, <1>2, <1>3, <1>5 DEF Sizes, Bytes
<1> QED  BY <1>1, <1>2, <1>6 DEF LineInv

\* Every step keeps the bytes in place.
LEMMA LineNext ==
    ASSUME LineInv, [Next]_vars
    PROVE  LineInv'
<1>1. CASE UNCHANGED vars
  BY <1>1 DEF vars, LineInv, Sizes, Layout, Ended
<1>2. CASE PeekClosed
  BY <1>2 DEF PeekClosed, LineInv, Sizes, Layout, Ended
<1>3. CASE Returned
  BY <1>1, <1>3 DEF Returned
<1> QED  BY <1>1, <1>2, <1>3, ArriveInv, PeekInv, ConsumeInv, FailsInv, StrayInv DEF Next

\* In every reachable state each byte of the input has its place.
THEOREM LineInvariant == Spec => []LineInv
<1>1. Init => LineInv
  <2> SUFFICES ASSUME Init PROVE LineInv
    OBVIOUS
  <2>0. MaxInput \in Nat /\ BufferSize \in Nat
    BY ReadLineAssumption
  <2>1. input \in Bytes /\ Len(input) <= MaxInput /\ Len(input) \in Nat
    BY InputsAre, LenProperties DEF Init, Bytes
  <2>2. /\ coming = input /\ sock = <<>> /\ oss = <<>> /\ toRead = 0 /\ pc = "peek"
        /\ found = FALSE /\ failed = FALSE /\ closed \in BOOLEAN
    BY DEF Init
  <2>3. sock \in Bytes /\ oss \in Bytes /\ Len(sock) = 0 /\ Len(oss) = 0
    BY <2>2 DEF Bytes
  <2>4. Sizes
    <3>1. /\ Len(sock) + Len(coming) <= MaxInput
          /\ toRead \in 0 .. BufferSize /\ toRead <= Len(sock)
      BY <2>0, <2>1, <2>2, <2>3
    <3> QED  BY <2>1, <2>2, <2>3, <3>1 DEF Sizes
  <2>5. Layout
    <3>1. PICK n \in Nat : n = Len(input)
      BY <2>1
    <3>2. n = 0 + (0 - 0) + n /\ (\A i \in 1 .. n : 0 + (0 - 0) + i = i)
          /\ 1 .. 0 = {} /\ 0 + 1 .. 0 = {}
      OBVIOUS
    <3>3. coming = input /\ Len(sock) = 0 /\ Len(oss) = 0 /\ toRead = 0 /\ Len(coming) = n
      BY <2>2, <2>3, <3>1
    <3> QED  BY <3>1, <3>2, <3>3 DEF Layout
  <2>6. Ended
    BY <2>2, <2>3 DEF Ended
  <2> QED  BY <2>4, <2>5, <2>6 DEF LineInv
<1>2. LineInv /\ [Next]_vars => LineInv'
  BY LineNext
<1> QED  BY <1>1, <1>2, PTL DEF Spec

-----------------------------------------------------------------------------
(* What the invariant says of the concatenations.                          *)

\* The bytes in their places are the line, the rest of the socket and what is to come.
LEMMA InvLost == LineInv => NothingLost
<1> SUFFICES ASSUME LineInv, ~failed
             PROVE  input = oss \o SubSeq(sock, toRead + 1, Len(sock)) \o coming
  BY DEF NothingLost
<1>1. PICK l : l = Len(sock)
  OBVIOUS
<1>2. PICK o : o = Len(oss)
  OBVIOUS
<1>3. PICK c : c = Len(coming)
  OBVIOUS
<1>4. /\ l \in Nat /\ o \in Nat /\ c \in Nat /\ toRead \in Nat /\ toRead <= l
      /\ sock \in Bytes /\ oss \in Bytes /\ coming \in Bytes /\ input \in Bytes
  BY <1>1, <1>2, <1>3, LenProperties, ReadLineAssumption DEF LineInv, Sizes, Bytes
<1>5. /\ Len(input) = o + (l - toRead) + c
      /\ \A i \in 1 .. o : oss[i] = input[i]
      /\ \A i \in toRead + 1 .. l : sock[i] = input[o + i - toRead]
      /\ \A i \in 1 .. c : coming[i] = input[o + (l - toRead) + i]
  BY <1>1, <1>2, <1>3 DEF LineInv, Layout
<1>6. PICK r \in Nat : r = l - toRead
  BY <1>4
<1>7. PICK q : q = SubSeq(sock, toRead + 1, l)
  OBVIOUS
<1>8. q \in Bytes /\ Len(q) = r /\ \A i \in 1 .. r : q[i] = sock[toRead + i]
  <2>1. sock \in Bytes /\ toRead \in Nat /\ l \in Nat /\ toRead <= l /\ l <= Len(sock)
    BY <1>1, <1>4
  <2> QED  BY <1>6, <1>7, <2>1, Part
<1>9. PICK u : u = oss \o q
  OBVIOUS
<1>10. /\ u \in Bytes /\ Len(u) = o + r
       /\ \A i \in 1 .. o + r : u[i] = IF i <= o THEN oss[i] ELSE q[i - o]
  <2>1. oss \in Bytes /\ q \in Bytes /\ o \in Nat /\ r \in Nat /\ Len(oss) = o /\ Len(q) = r
    BY <1>2, <1>4, <1>6, <1>8
  <2>9. /\ oss \o q \in Bytes /\ Len(oss \o q) = Len(oss) + Len(q)
        /\ \A i \in 1 .. Len(oss) + Len(q) :
              (oss \o q)[i] = IF i <= Len(oss) THEN oss[i] ELSE q[i - Len(oss)]
    BY <2>1, Joined
  <2> QED  BY <1>9, <2>1, <2>9
<1>11. PICK w : w = u \o coming
  OBVIOUS
<1>12. /\ w \in Bytes /\ Len(w) = (o + r) + c
       /\ \A i \in 1 .. (o + r) + c : w[i] = IF i <= o + r THEN u[i] ELSE coming[i - (o + r)]
  <2>1. PICK m \in Nat : m = o + r
    BY <1>4
  <2>2. u \in Bytes /\ Len(u) = m /\ coming \in Bytes /\ Len(coming) = c /\ c \in Nat
    BY <1>3, <1>4, <1>10, <2>1
  <2>3. /\ w \in Bytes /\ Len(w) = m + c
        /\ \A i \in 1 .. m + c : w[i] = IF i <= m THEN u[i] ELSE coming[i - m]
    <3>1. /\ u \o coming \in Bytes /\ Len(u \o coming) = Len(u) + Len(coming)
          /\ \A i \in 1 .. Len(u) + Len(coming) :
                (u \o coming)[i] = IF i <= Len(u) THEN u[i] ELSE coming[i - Len(u)]
      BY <2>2, Joined
    <3> QED  BY <1>11, <2>1, <2>2, <3>1
  <2> QED  BY <2>1, <2>3
<1>13. Len(input) = Len(w)
  BY <1>4, <1>5, <1>6, <1>12
<1>14. ASSUME NEW i \in 1 .. (o + r) + c PROVE w[i] = input[i]
  <2>1. CASE i <= o
    <3>1. i \in 1 .. o /\ i \in 1 .. o + r /\ i <= o + r
      BY <1>4, <1>6, <2>1
    <3>2. w[i] = u[i] /\ u[i] = oss[i]
      BY <1>10, <1>12, <2>1, <3>1
    <3> QED  BY <1>5, <3>1, <3>2
  <2>2. CASE i > o /\ i <= o + r
    <3>1. /\ i \in 1 .. o + r /\ ~(i <= o) /\ i - o \in 1 .. r
          /\ toRead + (i - o) \in toRead + 1 .. l /\ o + (toRead + (i - o)) - toRead = i
      BY <1>4, <1>6, <2>2
    <3>2. w[i] = u[i] /\ u[i] = q[i - o]
      BY <1>10, <1>12, <2>2, <3>1
    <3>3. q[i - o] = sock[toRead + (i - o)]
      BY <1>8, <3>1
    <3>4. sock[toRead + (i - o)] = input[i]
      BY <1>5, <3>1
    <3> QED  BY <3>2, <3>3, <3>4
  <2>3. CASE i > o + r
    <3>1. /\ ~(i <= o + r) /\ i - (o + r) \in 1 .. c
          /\ o + (l - toRead) + (i - (o + r)) = i
      BY <1>4, <1>6, <2>3
    <3>2. w[i] = coming[i - (o + r)]
      BY <1>12, <3>1
    <3>3. coming[i - (o + r)] = input[i]
      BY <1>5, <3>1
    <3> QED  BY <3>2, <3>3
  <2> QED  BY <1>4, <2>1, <2>2, <2>3
<1>15. \A i \in 1 .. Len(w) : w[i] = input[i]
  BY <1>12, <1>14
<1>16. w = input
  BY <1>4, <1>12, <1>13, <1>15, SeqEqual DEF Bytes
<1> QED  BY <1>1, <1>7, <1>9, <1>11, <1>16

\* A complete line, short or long, is the input up to its first LF, and the rest is
\* untouched.
LEMMA InvExact == LineInv => LineExact
<1> SUFFICES ASSUME LineInv, pc = "done", ~failed
             PROVE  /\ HasEol(input)
                    /\ line = Trim(SubSeq(input, 1, EolAt(input)))
                    /\ sock \o coming = SubSeq(input, EolAt(input) + 1, Len(input))
  BY DEF LineExact
<1>1. PICK l : l = Len(sock)
  OBVIOUS
<1>2. PICK o : o = Len(oss)
  OBVIOUS
<1>3. PICK c : c = Len(coming)
  OBVIOUS
<1>4. /\ l \in Nat /\ o \in Nat /\ c \in Nat /\ toRead = 0
      /\ sock \in Bytes /\ oss \in Bytes /\ coming \in Bytes /\ input \in Bytes
  BY <1>1, <1>2, <1>3, LenProperties DEF LineInv, Sizes, Bytes
<1>5. /\ Len(input) = o + l + c
      /\ \A i \in 1 .. o : oss[i] = input[i]
      /\ \A i \in 1 .. l : sock[i] = input[o + i]
      /\ \A i \in 1 .. c : coming[i] = input[o + l + i]
  <2>1. /\ Len(input) = o + (l - toRead) + c
        /\ \A i \in 1 .. o : oss[i] = input[i]
        /\ \A i \in toRead + 1 .. l : sock[i] = input[o + i - toRead]
        /\ \A i \in 1 .. c : coming[i] = input[o + (l - toRead) + i]
    BY <1>1, <1>2, <1>3 DEF LineInv, Layout
  <2>2. /\ o + (l - toRead) = o + l
        /\ \A i \in 1 .. l : i \in toRead + 1 .. l /\ o + i - toRead = o + i
    BY <1>4
  <2> QED  BY <2>1, <2>2
<1>6. o > 0 /\ oss[o] = "LF" /\ \A i \in 1 .. o : oss[i] = "LF" => i = o
  BY <1>2 DEF LineInv, Ended
<1>7. /\ o \in 1 .. Len(input) /\ DOMAIN input = 1 .. Len(input)
      /\ o \in 1 .. o /\ \A j \in 1 .. o - 1 : j \in 1 .. o /\ j # o
  BY <1>4, <1>5, <1>6, LenProperties DEF Bytes
<1>8. input[o] = "LF" /\ \A j \in 1 .. o - 1 : input[j] # "LF"
  BY <1>5, <1>6, <1>7
<1>9. HasEol(input)
  BY <1>7, <1>8 DEF HasEol
<1>10. EolAt(input) = o
  BY <1>4, <1>7, <1>8, <1>9, FirstEol
<1>11. SubSeq(input, 1, o) = oss
  <2>1. input \in Bytes /\ 0 \in Nat /\ o \in Nat /\ 0 <= o /\ o <= Len(input)
    BY <1>4, <1>7
  <2>2. /\ SubSeq(input, 0 + 1, o) \in Bytes /\ Len(SubSeq(input, 0 + 1, o)) = o - 0
        /\ \A i \in 1 .. o - 0 : SubSeq(input, 0 + 1, o)[i] = input[0 + i]
    BY <2>1, Part
  <2>3. 0 + 1 = 1 /\ o - 0 = o /\ \A i \in 1 .. o : 0 + i = i
    BY <1>4
  <2>4. PICK q : q = SubSeq(input, 1, o)
    OBVIOUS
  <2>5. q \in Bytes /\ Len(q) = o /\ \A i \in 1 .. o : q[i] = input[i]
    BY <2>2, <2>3, <2>4
  <2>6. Len(q) = Len(oss) /\ \A i \in 1 .. Len(q) : q[i] = oss[i]
    BY <1>2, <1>5, <2>5
  <2>7. q = oss
    BY <1>4, <2>5, <2>6, SeqEqual DEF Bytes
  <2> QED  BY <2>4, <2>7
<1>12. sock \o coming = SubSeq(input, o + 1, Len(input))
  <2>1. PICK w : w = sock \o coming
    OBVIOUS
  <2>2. /\ w \in Bytes /\ Len(w) = l + c
        /\ \A i \in 1 .. l + c : w[i] = IF i <= l THEN sock[i] ELSE coming[i - l]
    <3>1. /\ sock \o coming \in Bytes /\ Len(sock \o coming) = Len(sock) + Len(coming)
          /\ \A i \in 1 .. Len(sock) + Len(coming) :
                (sock \o coming)[i] = IF i <= Len(sock) THEN sock[i] ELSE coming[i - Len(sock)]
      BY <1>4, Joined
    <3> QED  BY <1>1, <1>3, <2>1, <3>1
  <2>3. PICK n \in Nat : n = Len(input)
    BY <1>4, <1>5
  <2>4. PICK q : q = SubSeq(input, o + 1, n)
    OBVIOUS
  <2>5. input \in Bytes /\ o \in Nat /\ n \in Nat /\ o <= n /\ n <= Len(input)
    BY <1>4, <1>5, <2>3
  <2>6. q \in Bytes /\ Len(q) = n - o /\ \A i \in 1 .. n - o : q[i] = input[o + i]
    BY <2>4, <2>5, Part
  <2>7. n - o = l + c
    BY <1>4, <1>5, <2>3
  <2>8. ASSUME NEW i \in 1 .. l + c PROVE w[i] = input[o + i]
    <3>1. CASE i <= l
      <4>1. i \in 1 .. l
        BY <1>4, <3>1
      <4> QED  BY <1>5, <2>2, <3>1, <4>1
    <3>2. CASE i > l
      <4>1. i - l \in 1 .. c /\ ~(i <= l) /\ o + l + (i - l) = o + i
        BY <1>4, <3>2
      <4> QED  BY <1>5, <2>2, <4>1
    <3> QED  BY <1>4, <3>1, <3>2
  <2>9. Len(w) = Len(q) /\ \A i \in 1 .. Len(w) : w[i] = q[i]
    BY <2>2, <2>6, <2>7, <2>8
  <2>10. w = q
    BY <2>2, <2>6, <2>9, SeqEqual DEF Bytes
  <2> QED  BY <2>1, <2>3, <2>4, <2>10
<1> QED  BY <1>9, <1>10, <1>11, <1>12 DEF line

\* The peek and the second recv agree on every byte: nothing is lost or read twice,
\* and a line of at most max_size bytes is returned as the input up to its first LF.
THEOREM LineCorrect == Spec => []LineConsistent
<1>1. LineInv => TypeOK
  <2> SUFFICES ASSUME LineInv PROVE TypeOK
    OBVIOUS
  <2>1. Sizes /\ MaxInput \in Nat /\ Len(sock) \in Nat /\ Len(coming) \in Nat
    BY LenProperties, ReadLineAssumption DEF LineInv, Sizes, Bytes
  <2>2. Len(sock) <= MaxInput /\ Len(coming) <= MaxInput
    BY <2>1 DEF Sizes
  <2>3. input \in Inputs /\ coming \in Inputs /\ sock \in Inputs
    BY <2>1, <2>2, InputsAre DEF Sizes
  <2> QED  BY <2>1, <2>3 DEF TypeOK, Sizes, Bytes
<1>2. LineInv => LineConsistent
  BY <1>1, InvLost, InvExact DEF LineConsistent
<1> QED  BY <1>2, LineInvariant, PTL
=============================================================================
