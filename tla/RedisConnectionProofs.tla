------------------------ MODULE RedisConnectionProofs ------------------------
(***************************************************************************)
(* The request and reply discipline of redis::connection for any set of    *)
(* methods in use, any length of multi-bulk replies and any binary values. *)
(* The invariant says, for every point a reader can be at, what of the     *)
(* answer has been read, what of it is in the stream and what the server   *)
(* has still to send: the parts always make one whole answer.              *)
(***************************************************************************)
EXTENDS RedisConnection, Integers, FiniteSets, FiniteSetTheorems, SequenceTheorems, TLAPS

Header == {"+OK", "+", "-", ":0", ":1", "$", "$-1", "*", "*-1"}

\* a is an answer that the reader of method m consumes exactly.
Readable(m, a) ==
    /\ a \in Seq(Token) /\ a # <<>> /\ a[1].k \in Header /\ a[1].n \in Nat
    /\ a[1].k = "+OK" => ReaderOf[m] = "ok"
    /\ a[1].k \in {":0", ":1"} => ReaderOf[m] \in {"int", "int_ok"} \/ m = "persist"
    /\ a[1].k = "$-1" => ReaderOf[m] = "bulk" \/ m = "randomkey"
    /\ a[1].k = "*-1" => ReaderOf[m] = "kv" \/ m \in {"brpoplpush", "exec"}
    /\ a[1].k = "$" => /\ Tail(a) # <<>> /\ Tail(Tail(a)) = <<>>
                       /\ \/ ReaderOf[m] = "bulk" /\ Head(Tail(a)).k \in Data
                          \/ ReaderOf[m] = "double" /\ Head(Tail(a)).k = "data"
    /\ a[1].k = "*" => /\ Elements(Tail(a), a[1].n)
                       /\ \/ ReaderOf[m] \in {"multi", "kv"}
                          \/ m \in {"exec", "config_get"} /\ a[1].n = 0
    /\ a[1].k \notin {"$", "*"} => Tail(a) = <<>>

\* How a method ends when n elements have been read.
FinalOf(m, n) == IF ReaderOf[m] = "kv" /\ n < 2 THEN "protocol_error" ELSE "returned"

\* r is the last l elements of the list a.
InList(l, f, m, a, r) ==
    /\ a[1].k = "*" /\ ReaderOf[m] \in {"multi", "kv"} /\ f = FinalOf(m, a[1].n)
    /\ Elements(r, l)

\* An element was read when l were left, or a single bulk reply; r follows it in a.
AfterElement(l, f, m, a, r) ==
    /\ HasNul(a) <=> HasNul(r)
    /\ l = 0 => r = <<>> /\ a[1].k = "$" /\ ReaderOf[m] = "bulk"
    /\ l > 0 => InList(l - 1, f, m, a, r)

AtBulk(l, f, m, a, r) ==
    l > 0 /\ InList(l, f, m, a, r) /\ (HasNul(a) <=> HasNul(r))

AtPayload(l, f, m, a, r) ==
    /\ r # <<>> /\ Head(r).k \in Data
    /\ HasNul(a) <=> HasNul(r)
    /\ l = 0 => Tail(r) = <<>> /\ a[1].k = "$" /\ ReaderOf[m] = "bulk"
    /\ l > 0 => InList(l - 1, f, m, a, Tail(r))

AtValue(m, a, r) ==
    /\ r # <<>> /\ Tail(r) = <<>> /\ Head(r).k = "data" /\ ~HasNul(a)
    /\ a[1].k = "$" /\ ReaderOf[m] = "double"

\* What the answer has still to give: received, or to be sent.
rest == stream \o writing

\* The command is with the server, or lost with the connection.
Waiting ==
    /\ state = "line" /\ left = 0 /\ stream = <<>> /\ answer = <<>>
    /\ IF closed THEN asked = <<>> ELSE asked = <<method>> /\ writing = <<>>

\* The reader is in the middle of its own answer.
InAnswer ==
    /\ asked = <<>> /\ Readable(method, answer)
    /\ state = "line" => left = 0 /\ rest = answer
    /\ state = "bulk" => AtBulk(left, final, method, answer, rest)
    /\ state = "payload" => AtPayload(left, final, method, answer, rest)
    /\ state = "value" => left = 0 /\ AtValue(method, answer, rest)

Rested ==
    /\ stream = <<>> /\ asked = <<>> /\ left = 0
    /\ ~closed => writing = <<>>
    /\ outcome # "none" /\ ReaderOf[method] # "none" =>
          IF answer # <<>> /\ writing = <<>> THEN outcome = Deserved(method, answer)
          ELSE closed /\ outcome \in Lost(method)

\* A recv failed in _read_n, and nothing more comes.
Cut == closed /\ stream = <<>> /\ writing # <<>> /\ asked = <<>>

\* Where the client is, and what of the answer is where.
Synced ==
    /\ state # "aborted"
    /\ state = "idle" => Rested
    /\ state = "overrun" => Cut
    /\ state \in {"line", "bulk", "payload", "value"} =>
          ReaderOf[method] # "none" /\ (Waiting \/ InAnswer)

\* What _send is ever given.
Sendable == Method \ Unsent

RedisInv == TypeOK /\ asked \in Seq(Sendable) /\ (~mismatch => Synced)

-----------------------------------------------------------------------------
(* Whole elements in the stream.                                           *)

\* The headers of a stream are finitely many.
LEMMA HeadsFinite ==
    ASSUME NEW s \in Seq(Token)
    PROVE  IsFiniteSet(Heads(s)) /\ Cardinality(Heads(s)) \in Nat
<1>1. Len(s) \in Nat
  BY LenProperties
<1>2. IsFiniteSet(1 .. Len(s))
  BY <1>1, FS_Interval
<1>3. Heads(s) \in SUBSET (1 .. Len(s))
  BY DEF Heads
<1>4. IsFiniteSet(Heads(s))
  BY <1>2, <1>3, FS_Subset
<1> QED  BY <1>4, FS_CardinalityType

\* No element at all is an empty stream.
LEMMA NoElements ==
    /\ Elements(<<>>, 0)
    /\ \A s : Elements(s, 0) => s = <<>>
    /\ \A s : \A n : Elements(s, n) => n \in Nat /\ s \in Seq(Token)
<1>1. Elements(<<>>, 0)
  <2>1. <<>> \in Seq(Token) /\ Len(<<>>) = 0
    BY EmptySeq
  <2>2. Heads(<<>>) = {}
    BY <2>1 DEF Heads
  <2>3. Cardinality(Heads(<<>>)) = 0
    BY <2>2, FS_EmptySet
  <2>4. Whole(<<>>)
    BY <2>1 DEF Whole
  <2> QED  BY <2>3, <2>4 DEF Elements
<1>2. ASSUME NEW s, Elements(s, 0) PROVE s = <<>>
  <2>1. s \in Seq(Token) /\ Whole(s) /\ Cardinality(Heads(s)) = 0
    BY <1>2 DEF Elements, Whole
  <2>2. Heads(s) = {}
    BY <2>1, HeadsFinite, FS_EmptySet
  <2>3. SUFFICES ASSUME s # <<>> PROVE FALSE
    OBVIOUS
  <2>4. 1 \in 1 .. Len(s)
    BY <2>1, <2>3, EmptySeq
  <2>5. s[1].k \in {"$", "$-1"}
    BY <2>1, <2>3, <2>4 DEF Whole
  <2> QED  BY <2>2, <2>4, <2>5 DEF Heads
<1>3. ASSUME NEW s, NEW n, Elements(s, n) PROVE n \in Nat /\ s \in Seq(Token)
  BY <1>3, HeadsFinite DEF Elements, Whole
<1> QED  BY <1>1, <1>2, <1>3

\* The headers after the first d tokens, the first of which was one, are one fewer.
LEMMA HeadsAfter ==
    ASSUME NEW s \in Seq(Token), NEW u \in Seq(Token), NEW d \in {1, 2},
           Len(u) = Len(s) - d, \A i \in 1 .. Len(u) : u[i] = s[i + d],
           1 \in Heads(s), d = 2 => 2 \notin Heads(s)
    PROVE  /\ Cardinality(Heads(s)) > 0
           /\ Cardinality(Heads(u)) = Cardinality(Heads(s)) - 1
<1>1. Len(s) \in Nat /\ Len(u) \in Nat
  BY LenProperties
<1> DEFINE H == Heads(s) \ {1}
           f == [i \in H |-> i - d]
<1>2. IsFiniteSet(Heads(s)) /\ Cardinality(Heads(s)) \in Nat
  BY HeadsFinite
<1>3. IsFiniteSet(H) /\ Cardinality(H) = Cardinality(Heads(s)) - 1 /\ Cardinality(H) \in Nat
  BY <1>2, FS_RemoveElement, FS_CardinalityType
<1>4. ASSUME NEW i \in H PROVE i \in d + 1 .. Len(s) /\ i - d \in Heads(u)
  <2>1. i \in 1 .. Len(s) /\ s[i].k \in {"$", "$-1"} /\ i # 1 /\ (d = 2 => i # 2)
    BY DEF Heads
  <2>2. i \in d + 1 .. Len(s) /\ i - d \in 1 .. Len(u) /\ (i - d) + d = i
    BY <1>1, <2>1
  <2> QED  BY <2>1, <2>2 DEF Heads
<1>5. ASSUME NEW j \in Heads(u) PROVE j + d \in H /\ (j + d) - d = j
  <2>1. j \in 1 .. Len(u) /\ u[j].k \in {"$", "$-1"}
    BY DEF Heads
  <2>2. j + d \in 1 .. Len(s) /\ j + d # 1 /\ (j + d) - d = j
    BY <1>1, <2>1
  <2> QED  BY <2>1, <2>2 DEF Heads
<1>6. f \in [H -> Heads(u)] /\ \A i \in H : f[i] = i - d
  BY <1>4
<1>7. \A a, b \in H : f[a] = f[b] => a = b
  BY <1>1, <1>4, <1>6
<1>8. \A j \in Heads(u) : \E i \in H : f[i] = j
  BY <1>5, <1>6
<1> HIDE DEF f, H
<1>9. f \in Bijection(H, Heads(u))
  BY <1>6, <1>7, <1>8 DEF Bijection, Injection, Surjection, IsInjective
<1>10. Cardinality(Heads(u)) = Cardinality(H)
  BY <1>3, <1>9, FS_Bijection DEF ExistsBijection
<1> QED  BY <1>2, <1>3, <1>10

\* Reading an element that is nil.
LEMMA TakeNil ==
    ASSUME NEW s, NEW n, Elements(s, n), s # <<>>, Head(s).k = "$-1"
    PROVE  n > 0 /\ Elements(Tail(s), n - 1)
<1>0. Whole(s) /\ s \in Seq(Token) /\ n \in Nat /\ Cardinality(Heads(s)) = n
  BY NoElements DEF Elements, Whole
<1>1. PICK u : u = Tail(s)
  OBVIOUS
<1>2. /\ u \in Seq(Token) /\ Len(u) = Len(s) - 1 /\ \A i \in 1 .. Len(u) : u[i] = s[i + 1]
      /\ Len(s) \in Nat \ {0} /\ Head(s) = s[1]
  <2>1. /\ Head(s) = s[1] /\ u \in Seq(Token) /\ Len(u) = Len(s) - 1
        /\ \A i \in 1 .. Len(u) : u[i] = s[i + 1]
    BY <1>0, <1>1, HeadTailProperties
  <2>2. Len(s) \in Nat \ {0}
    BY <1>0, EmptySeq, LenProperties
  <2> QED  BY <2>1, <2>2
<1>3. 1 \in Heads(s)
  BY <1>2 DEF Heads
<1>4. n > 0 /\ Cardinality(Heads(u)) = n - 1
  <2>1. PICK d \in {1, 2} : d = 1
    OBVIOUS
  <2>2. /\ s \in Seq(Token) /\ u \in Seq(Token) /\ Len(u) = Len(s) - d
        /\ (\A i \in 1 .. Len(u) : u[i] = s[i + d])
        /\ 1 \in Heads(s) /\ (d = 2 => 2 \notin Heads(s))
    BY <1>0, <1>2, <1>3, <2>1
  <2>3. Cardinality(Heads(s)) > 0 /\ Cardinality(Heads(u)) = Cardinality(Heads(s)) - 1
    BY <2>2, HeadsAfter
  <2> QED  BY <1>0, <2>3
<1>5. Whole(u)
  <2>1. ASSUME NEW i \in 1 .. Len(u)
        PROVE  /\ u[i].k \in {"$", "$-1"} \cup Data
               /\ u[i].k = "$" <=> i < Len(u) /\ u[i + 1].k \in Data
    <3>1. i + 1 \in 1 .. Len(s) /\ u[i] = s[i + 1] /\ (i < Len(u) <=> i + 1 < Len(s))
      BY <1>2
    <3>2. i < Len(u) => u[i + 1] = s[(i + 1) + 1]
      BY <1>2
    <3> QED  BY <1>0, <3>1, <3>2 DEF Whole
  <2>2. u # <<>> => u[1].k \notin Data
    <3> SUFFICES ASSUME u # <<>> PROVE u[1].k \notin Data
      OBVIOUS
    <3>1. 1 < Len(s) /\ u[1] = s[1 + 1] /\ 1 \in 1 .. Len(s)
      BY <1>2, EmptySeq
    <3> QED  BY <1>0, <1>2, <3>1 DEF Whole
  <2> QED  BY <1>2, <2>1, <2>2 DEF Whole
<1> QED  BY <1>1, <1>4, <1>5 DEF Elements

\* Reading the header of an element: its payload is next, whole elements follow.
LEMMA TakeHeader ==
    ASSUME NEW s, NEW n, Elements(s, n), s # <<>>, Head(s).k = "$"
    PROVE  /\ n > 0 /\ Tail(s) # <<>> /\ Head(Tail(s)).k \in Data
           /\ Elements(Tail(Tail(s)), n - 1)
<1>0. Whole(s) /\ s \in Seq(Token) /\ n \in Nat /\ Cardinality(Heads(s)) = n
  BY NoElements DEF Elements, Whole
<1>1. PICK t : t = Tail(s)
  OBVIOUS
<1>2. /\ t \in Seq(Token) /\ Len(t) = Len(s) - 1 /\ \A i \in 1 .. Len(t) : t[i] = s[i + 1]
      /\ Len(s) \in Nat \ {0} /\ Head(s) = s[1]
  BY <1>0, <1>1, HeadTailProperties, EmptySeq
<1>3. 1 < Len(s) /\ s[1 + 1].k \in Data /\ 1 \in 1 .. Len(s)
  BY <1>0, <1>2 DEF Whole
<1>4. t # <<>> /\ Head(t).k \in Data
  <2>1. t # <<>> /\ Head(t) = t[1] /\ t[1] = s[1 + 1]
    BY <1>2, <1>3, EmptySeq
  <2> QED  BY <1>3, <2>1
<1>5. PICK u : u = Tail(t)
  OBVIOUS
<1>6. /\ u \in Seq(Token) /\ Len(u) = Len(t) - 1 /\ \A i \in 1 .. Len(u) : u[i] = t[i + 1]
  BY <1>2, <1>4, <1>5, HeadTailProperties
<1>7. Len(u) = Len(s) - 2 /\ \A i \in 1 .. Len(u) : u[i] = s[i + 2] /\ i + 2 \in 1 .. Len(s)
  <2>1. \A i \in 1 .. Len(u) : i + 1 \in 1 .. Len(t) /\ (i + 1) + 1 = i + 2
    BY <1>2, <1>6, LenProperties
  <2> QED  BY <1>2, <1>6, <2>1
<1>8. 1 \in Heads(s) /\ 2 \notin Heads(s)
  BY <1>2, <1>3 DEF Heads, Data
<1>9. n > 0 /\ Cardinality(Heads(u)) = n - 1
  BY <1>0, <1>6, <1>7, <1>8, HeadsAfter
<1>10. Whole(u)
  <2>1. ASSUME NEW i \in 1 .. Len(u)
        PROVE  /\ u[i].k \in {"$", "$-1"} \cup Data
               /\ u[i].k = "$" <=> i < Len(u) /\ u[i + 1].k \in Data
    <3>1. i + 2 \in 1 .. Len(s) /\ u[i] = s[i + 2] /\ (i < Len(u) <=> i + 2 < Len(s))
      BY <1>2, <1>7
    <3>2. i < Len(u) => u[i + 1] = s[(i + 2) + 1]
      BY <1>2, <1>7
    <3> QED  BY <1>0, <3>1, <3>2 DEF Whole
  <2>2. u # <<>> => u[1].k \notin Data
    <3> SUFFICES ASSUME u # <<>> PROVE u[1].k \notin Data
      OBVIOUS
    <3>1. 2 < Len(s) /\ u[1] = s[2 + 1] /\ 2 \in 1 .. Len(s) /\ 1 + 1 = 2
      BY <1>2, <1>6, <1>7, EmptySeq
    <3>2. s[2].k # "$"
      BY <1>3, <3>1 DEF Data
    <3> QED  BY <1>0, <3>1, <3>2 DEF Whole
  <2> QED  BY <1>6, <2>1, <2>2 DEF Whole
<1> QED  BY <1>1, <1>4, <1>5, <1>9, <1>10 DEF Elements

\* The first token of whole elements opens one.
LEMMA FirstElement ==
    ASSUME NEW s, NEW n, Elements(s, n), s # <<>>
    PROVE  Head(s).k \in {"$", "$-1"}
<1>0. Whole(s) /\ s \in Seq(Token)
  BY DEF Elements, Whole
<1>1. Len(s) \in Nat \ {0} /\ Head(s) = s[1]
  BY <1>0, EmptySeq
<1>2. 1 \in 1 .. Len(s)
  BY <1>1
<1> QED  BY <1>0, <1>1, <1>2 DEF Whole

\* Tokens the server sends are behind those already there.
LEMMA SendBehind ==
    ASSUME NEW s \in Seq(Token), s # <<>>, NEW e \in Seq(Token)
    PROVE  /\ s \o e \in Seq(Token) /\ s \o e # <<>>
           /\ Head(s \o e) = Head(s) /\ Tail(s \o e) = Tail(s) \o e
<1>1. PICK t : t = Tail(s)
  OBVIOUS
<1>2. /\ t \in Seq(Token) /\ Len(t) = Len(s) - 1 /\ \A i \in 1 .. Len(t) : t[i] = s[i + 1]
      /\ Len(s) \in Nat \ {0} /\ Head(s) = s[1] /\ Len(e) \in Nat
  BY <1>1, HeadTailProperties, EmptySeq, LenProperties
<1>3. PICK u : u = s \o e
  OBVIOUS
<1>4. /\ u \in Seq(Token) /\ Len(u) = Len(s) + Len(e)
      /\ \A i \in 1 .. Len(s) + Len(e) : u[i] = IF i <= Len(s) THEN s[i] ELSE e[i - Len(s)]
  BY <1>3, ConcatProperties
<1>5. u # <<>> /\ Head(u) = u[1] /\ u[1] = s[1]
  BY <1>2, <1>4, EmptySeq
<1>6. PICK v : v = t \o e
  OBVIOUS
<1>7. /\ v \in Seq(Token) /\ Len(v) = Len(t) + Len(e)
      /\ \A i \in 1 .. Len(t) + Len(e) : v[i] = IF i <= Len(t) THEN t[i] ELSE e[i - Len(t)]
  BY <1>2, <1>6, ConcatProperties
<1>8. PICK w : w = Tail(u)
  OBVIOUS
<1>9. /\ w \in Seq(Token) /\ Len(w) = Len(u) - 1 /\ \A i \in 1 .. Len(w) : w[i] = u[i + 1]
  BY <1>4, <1>5, <1>8, HeadTailProperties
<1>10. Len(w) = Len(v)
  BY <1>2, <1>4, <1>7, <1>9
<1>11. ASSUME NEW i \in 1 .. Len(w) PROVE w[i] = v[i]
  <2>1. w[i] = u[i + 1] /\ i + 1 \in 1 .. Len(s) + Len(e)
    BY <1>2, <1>4, <1>9
  <2>2. CASE i <= Len(t)
    BY <1>2, <1>4, <1>7, <1>9, <2>1, <2>2
  <2>3. CASE i > Len(t)
    <3>0. ~(i <= Len(t)) /\ ~(i + 1 <= Len(s)) /\ i \in 1 .. Len(t) + Len(e)
      BY <1>2, <1>7, <1>10, <2>3
    <3>1. v[i] = e[i - Len(t)] /\ u[i + 1] = e[(i + 1) - Len(s)]
      BY <1>4, <1>7, <2>1, <3>0
    <3>2. i - Len(t) = (i + 1) - Len(s)
      BY <1>2
    <3> QED  BY <2>1, <3>1, <3>2
  <2> QED  BY <1>2, <1>9, <2>2, <2>3
<1>12. w = v
  BY <1>7, <1>9, <1>10, <1>11, SeqEqual
<1> QED  BY <1>1, <1>2, <1>3, <1>4, <1>5, <1>6, <1>8, <1>12

-----------------------------------------------------------------------------
(* The methods, their readers and the answers to them.                     *)

\* The methods, and the reader of each.
LEMMA Readers ==
    /\ Method = {"set", "multi", "discard", "exec", "bgsave", "persist", "shutdown", "mset",
                 "type", "randomkey", "incr", "zincrby", "msetnx", "sadd", "get",
                 "brpoplpush", "config_get", "debug_object", "lrange", "blpop", "zscore",
                 "zrange_scores", "zrevrange_scores"}
    /\ \A m \in {"set", "multi", "discard", "exec", "bgsave", "persist", "shutdown", "mset"} :
          ReaderOf[m] = "ok"
    /\ \A m \in {"type", "randomkey"} : ReaderOf[m] = "status"
    /\ \A m \in {"incr", "zincrby", "msetnx"} : ReaderOf[m] = "int"
    /\ ReaderOf["sadd"] = "int_ok"
    /\ \A m \in {"get", "brpoplpush", "config_get", "debug_object"} : ReaderOf[m] = "bulk"
    /\ ReaderOf["lrange"] = "multi"
    /\ ReaderOf["blpop"] = "kv"
    /\ ReaderOf["zscore"] = "double"
    /\ \A m \in {"zrange_scores", "zrevrange_scores"} : ReaderOf[m] = "none"
BY DEF Method, ReaderOf

\* The kinds of answer a command can get, those Misread names apart.
LEMMA AnswersFit ==
    ASSUME NEW m \in Sendable, NEW s \in Answers(m) \cup AnswersInMulti(m)
    PROVE  /\ s \in Shape
           /\ s = "ok" => ReaderOf[m] = "ok"
           /\ s = "int" => ReaderOf[m] \in {"int", "int_ok"} \/ m = "persist"
           /\ s = "nilmulti" => ReaderOf[m] = "kv" \/ m \in {"brpoplpush", "exec"}
           /\ \A n \in Nat : ~Misread(m, s, n) =>
                 /\ s = "nil" => ReaderOf[m] = "bulk" \/ m = "randomkey"
                 /\ s = "bulk" => ReaderOf[m] = "bulk" \/ m = "zscore"
                 /\ s = "multi" => \/ ReaderOf[m] \in {"multi", "kv"}
                                   \/ m \in {"exec", "config_get"} /\ n = 0
<1> USE DEF Shape, Misread
<1>0. m \in Method /\ m \notin Unsent
  BY DEF Sendable
<1>1. CASE m \in {"set", "multi", "discard", "shutdown", "bgsave", "persist"}
  <2>1. s \in {"error", "ok", "status", "int"} /\ (s = "int" => m = "persist")
    BY <1>1 DEF Answers, AnswersInMulti
  <2> QED  BY <1>1, <2>1, Readers
<1>2. CASE m \in {"type", "debug_object", "incr", "sadd"}
  <2>1. s \in {"error", "status", "int"} /\ (s = "int" => m \in {"incr", "sadd"})
    BY <1>2 DEF Answers, AnswersInMulti
  <2> QED  BY <2>1, Readers
<1>3. CASE m = "exec"
  <2>1. s \in {"error", "multi", "nilmulti"}
    BY <1>3 DEF Answers, AnswersInMulti
  <2> QED  BY <1>3, <2>1
<1>4. CASE m = "zincrby"
  <2>1. s \in {"error", "bulk", "status"}
    BY <1>4 DEF Answers, AnswersInMulti
  <2> QED  BY <1>4, <2>1
<1>5. CASE m \in {"get", "randomkey", "zscore"}
  <2>1. s \in {"error", "bulk", "nil", "status"}
    BY <1>5 DEF Answers, AnswersInMulti
  <2> QED  BY <1>5, <2>1, Readers
<1>6. CASE m = "brpoplpush"
  <2>1. s \in {"error", "bulk", "nilmulti", "status"}
    BY <1>6 DEF Answers, AnswersInMulti
  <2> QED  BY <1>6, <2>1, Readers
<1>7. CASE m \in {"lrange", "config_get", "zrange_scores", "blpop"}
  <2>1. s \in {"error", "multi", "nilmulti", "status"} /\ (s = "nilmulti" => m = "blpop")
    BY <1>7 DEF Answers, AnswersInMulti
  <2> QED  BY <1>7, <2>1, Readers
<1> QED  BY <1>0, <1>1, <1>2, <1>3, <1>4, <1>5, <1>6, <1>7, Readers DEF Unsent

\* A header with a sequence of tokens behind it.
LEMMA Prefixed ==
    ASSUME NEW t \in Token, NEW e \in Seq(Token), NEW a, a = <<t>> \o e
    PROVE  /\ a \in Seq(Token) /\ a # <<>> /\ a[1] = t /\ Head(a) = t /\ Tail(a) = e
<1>1. <<t>> \in Seq(Token) /\ <<t>> # <<>> /\ Head(<<t>>) = t /\ Tail(<<t>>) = <<>>
  OBVIOUS
<1>2. <<>> \o e = e
  BY ConcatEmptySeq
<1>3. a \in Seq(Token) /\ a # <<>> /\ Head(a) = t /\ Tail(a) = e
  BY <1>1, <1>2, SendBehind
<1>4. a[1] = Head(a)
  BY <1>3
<1> QED  BY <1>3, <1>4

\* The tokens of an answer, by its kind.
LEMMA WireTokens ==
    ASSUME NEW m \in Method, NEW s \in Shape, NEW a \in Wire(m, s)
    PROVE  /\ a \in Seq(Token) /\ a # <<>> /\ a[1] \in Token
           /\ a[1].k \in Header /\ a[1].n \in Nat
           /\ s = "ok" <=> a[1].k = "+OK"
           /\ s = "int" <=> a[1].k \in {":0", ":1"}
           /\ s = "nil" <=> a[1].k = "$-1"
           /\ s = "nilmulti" <=> a[1].k = "*-1"
           /\ s = "bulk" <=> a[1].k = "$"
           /\ s = "multi" <=> a[1].k = "*"
           /\ s = "bulk" => /\ Tail(a) # <<>> /\ Tail(Tail(a)) = <<>>
                            /\ Head(Tail(a)).k \in Data
                            /\ m = "zscore" => Head(Tail(a)).k = "data"
           /\ s = "multi" => Elements(Tail(a), a[1].n)
           /\ s \notin {"bulk", "multi"} => Tail(a) = <<>>
<1>1. \A k \in Prefix : Tok(k) \in Token /\ Tok(k).k = k /\ Tok(k).n = 0
  BY RedisAssumption DEF Tok, Token
<1>2. \A t \in Token : t.n \in Nat
  BY RedisAssumption DEF Token
<1>3. CASE s = "bulk"
  <2>1. PICK p \in Payload(m) : a = <<Tok("$"), Tok(p)>>
    BY <1>3 DEF Wire
  <2>2. p \in Data /\ p \in Prefix /\ "$" \in Prefix /\ "$" \in Header
        /\ (m = "zscore" => p = "data")
    BY DEF Payload, Data, Prefix, Header
  <2>3. PICK h : h = Tok("$")
    OBVIOUS
  <2>4. PICK d : d = Tok(p)
    OBVIOUS
  <2>5. h \in Token /\ d \in Token /\ h.k = "$" /\ d.k = p /\ h.n = 0 /\ a = <<h, d>>
    BY <1>1, <2>1, <2>2, <2>3, <2>4
  <2>6. /\ a \in Seq(Token) /\ a # <<>> /\ a[1] = h /\ Tail(a) = <<d>>
        /\ <<d>> # <<>> /\ Tail(<<d>>) = <<>> /\ Head(<<d>>) = d
    BY <2>5
  <2> QED  BY <1>3, <2>2, <2>5, <2>6
<1>4. CASE s = "multi"
  <2>0. PICK i \in 0 .. MaxBulks : \E x \in Lists[i] : a = <<[k |-> "*", n |-> i]>> \o x
    BY <1>4 DEF Wire
  <2>1. PICK e \in Lists[i] : a = <<[k |-> "*", n |-> i]>> \o e
    BY <2>0
  <2>2. Elements(e, i) /\ e \in Seq(Token)
    BY <2>1 DEF Lists, Elements, Whole
  <2>3. PICK t : t = [k |-> "*", n |-> i]
    OBVIOUS
  <2>4. t \in Token /\ t.k = "*" /\ t.n = i /\ a = <<t>> \o e /\ i \in Nat
    BY <2>1, <2>3, RedisAssumption DEF Token, Prefix
  <2>5. a \in Seq(Token) /\ a # <<>> /\ a[1] = t /\ Tail(a) = e
    BY <2>2, <2>4, Prefixed
  <2>6. "*" \in Header
    BY DEF Header
  <2> QED  BY <1>4, <2>2, <2>4, <2>5, <2>6
<1>5. CASE s \notin {"bulk", "multi"}
  <2>1. PICK k \in Header \ {"$", "*"} :
           /\ a = <<Tok(k)>>
           /\ s = "ok" <=> k = "+OK"
           /\ s = "int" <=> k \in {":0", ":1"}
           /\ s = "nil" <=> k = "$-1"
           /\ s = "nilmulti" <=> k = "*-1"
    <3>1. CASE s = "ok"
      BY <3>1 DEF Wire, Header
    <3>2. CASE s = "status"
      BY <3>2 DEF Wire, Header
    <3>3. CASE s = "error"
      BY <3>3 DEF Wire, Header
    <3>4. CASE s = "int"
      BY <3>4 DEF Wire, Header
    <3>5. CASE s = "nil"
      BY <3>5 DEF Wire, Header
    <3>6. CASE s = "nilmulti"
      BY <3>6 DEF Wire, Header
    <3> QED  BY <1>5, <3>1, <3>2, <3>3, <3>4, <3>5, <3>6 DEF Shape
  <2>2. PICK t : t = Tok(k)
    OBVIOUS
  <2>3. t \in Token /\ t.k = k /\ a = <<t>>
    BY <1>1, <2>1, <2>2 DEF Header, Prefix
  <2>4. a \in Seq(Token) /\ a # <<>> /\ a[1] = t /\ Tail(a) = <<>>
    BY <2>3
  <2> QED  BY <1>2, <1>5, <2>1, <2>3, <2>4
<1> QED  BY <1>3, <1>4, <1>5

\* An answer that Misread does not name is read exactly.
LEMMA AnswersReadable ==
    ASSUME NEW m \in Sendable, NEW s \in Answers(m) \cup AnswersInMulti(m),
           NEW a \in Wire(m, s)
    PROVE  /\ a \in Seq(Token) /\ a # <<>>
           /\ ~Misread(m, s, a[1].n) => Readable(m, a)
<1>1. m \in Method /\ s \in Shape /\ ReaderOf["zscore"] = "double"
  BY AnswersFit, Readers DEF Sendable
<1>2. PICK t : t = a[1]
  OBVIOUS
<1>3. PICK u : u = Tail(a)
  OBVIOUS
<1>4. /\ a \in Seq(Token) /\ a # <<>> /\ t \in Token
      /\ t.k \in Header /\ t.n \in Nat
      /\ s = "ok" <=> t.k = "+OK"
      /\ s = "int" <=> t.k \in {":0", ":1"}
      /\ s = "nil" <=> t.k = "$-1"
      /\ s = "nilmulti" <=> t.k = "*-1"
      /\ s = "bulk" <=> t.k = "$"
      /\ s = "multi" <=> t.k = "*"
      /\ s = "bulk" => /\ u # <<>> /\ Tail(u) = <<>>
                       /\ Head(u).k \in Data
                       /\ m = "zscore" => Head(u).k = "data"
      /\ s = "multi" => Elements(u, t.n)
      /\ s \notin {"bulk", "multi"} => u = <<>>
  BY <1>1, <1>2, <1>3, WireTokens
<1>5. ASSUME ~Misread(m, s, t.n) PROVE Readable(m, a)
  <2>1. /\ s = "ok" => ReaderOf[m] = "ok"
        /\ s = "int" => ReaderOf[m] \in {"int", "int_ok"} \/ m = "persist"
        /\ s = "nilmulti" => ReaderOf[m] = "kv" \/ m \in {"brpoplpush", "exec"}
        /\ s = "nil" => ReaderOf[m] = "bulk" \/ m = "randomkey"
        /\ s = "bulk" => ReaderOf[m] = "bulk" \/ m = "zscore"
        /\ s = "multi" => \/ ReaderOf[m] \in {"multi", "kv"}
                          \/ m \in {"exec", "config_get"} /\ t.n = 0
    BY <1>4, <1>5, AnswersFit
  <2>2. Tail(a) = u /\ a[1] = t
    BY <1>2, <1>3
  <2> HIDE DEF Data, Header
  <2> QED  BY <1>1, <1>4, <2>1, <2>2 DEF Readable
<1> QED  BY <1>2, <1>4, <1>5

\* A NUL byte is in the first token or in the others.
LEMMA NulTail ==
    ASSUME NEW r \in Seq(Token), r # <<>>
    PROVE  HasNul(r) <=> Head(r).k = "data0" \/ HasNul(Tail(r))
<1>1. PICK u : u = Tail(r)
  OBVIOUS
<1>2. /\ u \in Seq(Token) /\ Len(u) = Len(r) - 1 /\ \A i \in 1 .. Len(u) : u[i] = r[i + 1]
      /\ Len(r) \in Nat \ {0} /\ Head(r) = r[1]
  BY <1>1, HeadTailProperties, EmptySeq, LenProperties
<1>3. ASSUME NEW i \in 1 .. Len(r), r[i].k = "data0"
      PROVE  r[1].k = "data0" \/ \E j \in 1 .. Len(u) : u[j].k = "data0"
  <2>1. CASE i = 1
    BY <1>3, <2>1
  <2>2. CASE i # 1
    <3>1. i - 1 \in 1 .. Len(u) /\ (i - 1) + 1 = i
      BY <1>2, <2>2
    <3> QED  BY <1>2, <1>3, <3>1
  <2> QED  BY <2>1, <2>2
<1>4. ASSUME NEW j \in 1 .. Len(u), u[j].k = "data0"
      PROVE  \E i \in 1 .. Len(r) : r[i].k = "data0"
  <2>1. j + 1 \in 1 .. Len(r) /\ u[j] = r[j + 1]
    BY <1>2
  <2> QED  BY <1>4, <2>1
<1>5. 1 \in 1 .. Len(r)
  BY <1>2
<1> QED  BY <1>1, <1>2, <1>3, <1>4, <1>5 DEF HasNul

\* Nothing holds no NUL byte.
LEMMA NulEmpty == ~HasNul(<<>>)
BY EmptySeq DEF HasNul

\* What the reader of a method makes of the first line of its answer: the outcome the
\* answer deserves, with nothing left to read, or how to read the rest of it.
LEMMA LineVerdict ==
    ASSUME NEW m \in Method, NEW a, Readable(m, a), ReaderOf[m] # "none",
           NEW v, v = Verdict(ReaderOf[m], a[1].k)
    PROVE  \/ v \in Outcome /\ Tail(a) = <<>> /\ v = Deserved(m, a)
           \/ v = "payload" /\ AtPayload(0, "returned", m, a, Tail(a))
           \/ v = "value" /\ AtValue(m, a, Tail(a))
           \/ /\ v = "elements" /\ a[1].n = 0 /\ Tail(a) = <<>>
              /\ FinalOf(m, a[1].n) = Deserved(m, a)
           \/ /\ v = "elements" /\ a[1].n > 0
              /\ AtBulk(a[1].n, FinalOf(m, a[1].n), m, a, Tail(a))
<1>1. PICK t : t = a[1]
  OBVIOUS
<1>2. PICK u : u = Tail(a)
  OBVIOUS
<1>3. PICK r : r = ReaderOf[m]
  OBVIOUS
<1>4. r \in {"ok", "status", "int", "int_ok", "bulk", "multi", "kv", "double"}
      /\ (r = "kv" <=> m = "blpop") /\ (r = "int_ok" <=> m = "sadd")
      /\ (m = "persist" => r = "ok") /\ (m = "randomkey" => r = "status")
      /\ (m = "exec" => r = "ok") /\ (m = "brpoplpush" => r = "bulk")
      /\ (m = "config_get" => r = "bulk")
  BY <1>3, Readers
<1>5. /\ t.k \in Header /\ t.n \in Nat
      /\ t.k = "+OK" => r = "ok"
      /\ t.k \in {":0", ":1"} => r \in {"int", "int_ok"} \/ m = "persist"
      /\ t.k = "$-1" => r = "bulk" \/ m = "randomkey"
      /\ t.k = "*-1" => r = "kv" \/ m \in {"brpoplpush", "exec"}
      /\ t.k = "$" => /\ u # <<>> /\ Tail(u) = <<>>
                      /\ \/ r = "bulk" /\ Head(u).k \in Data
                         \/ r = "double" /\ Head(u).k = "data"
      /\ t.k = "*" => /\ Elements(u, t.n)
                      /\ \/ r \in {"multi", "kv"}
                         \/ m \in {"exec", "config_get"} /\ t.n = 0
      /\ t.k \notin {"$", "*"} => u = <<>>
  BY <1>1, <1>2, <1>3 DEF Readable
<1>6. v = Verdict(r, t.k) /\ Meaning(a) = CASE t.k = "-"   -> "protocol_error"
                                            [] t.k = "$-1" -> "missing_value"
                                            [] t.k = "*-1" -> "key_error"
                                            [] OTHER       -> "returned"
  BY <1>1, <1>3 DEF Meaning
<1>7. /\ a \in Seq(Token) /\ a # <<>> /\ Head(a) = t /\ u \in Seq(Token)
      /\ HasNul(a) <=> t.k = "data0" \/ HasNul(u)
  <2>1. a \in Seq(Token) /\ a # <<>>
    BY DEF Readable
  <2>2. Head(a) = t /\ u \in Seq(Token)
    BY <1>1, <1>2, <2>1, HeadTailProperties
  <2> QED  BY <1>2, <2>1, <2>2, NulTail
<1>8. t.k # "data0"
  BY <1>5 DEF Header
<1>9. u = <<>> => ~HasNul(a)
  BY <1>7, <1>8, NulEmpty
<1>10. Refused(m, a) <=>
          \/ t.k = "+" /\ r # "status"
          \/ m = "persist" /\ t.k \in {":0", ":1"}
          \/ m = "randomkey" /\ t.k = "$-1"
          \/ m \in {"brpoplpush", "exec"} /\ t.k = "*-1"
          \/ m \in {"exec", "config_get"} /\ t.k = "*"
          \/ m = "sadd" /\ t.k = ":0"
          \/ m = "blpop" /\ t.k = "*" /\ t.n < 2
          \/ HasNul(a)
  BY <1>1, <1>3 DEF Refused
<1> DEFINE d == Deserved(m, a)
<1>11. d = IF Refused(m, a) THEN "protocol_error" ELSE Meaning(a)
  BY DEF Deserved
<1>12. CASE t.k \notin {"$", "*"}
  <2>1. u = <<>> /\ ~HasNul(a)
    BY <1>5, <1>9, <1>12
  <2>2. v \in Outcome /\ v = d
    <3> HIDE DEF d
    <3>1. CASE t.k = "+OK"
      BY <1>5, <1>6, <1>10, <1>11, <2>1, <3>1 DEF Verdict, Outcome
    <3>2. CASE t.k = "+"
      BY <1>4, <1>6, <1>10, <1>11, <2>1, <3>2 DEF Verdict, Outcome
    <3>3. CASE t.k = "-"
      BY <1>4, <1>6, <1>10, <1>11, <2>1, <3>3 DEF Verdict, Outcome
    <3>4. CASE t.k \in {":0", ":1"}
      BY <1>4, <1>5, <1>6, <1>10, <1>11, <2>1, <3>4 DEF Verdict, Outcome
    <3>5. CASE t.k = "$-1"
      BY <1>4, <1>5, <1>6, <1>10, <1>11, <2>1, <3>5 DEF Verdict, Outcome
    <3>6. CASE t.k = "*-1"
      BY <1>4, <1>5, <1>6, <1>10, <1>11, <2>1, <3>6 DEF Verdict, Outcome
    <3> QED  BY <1>5, <1>12, <3>1, <3>2, <3>3, <3>4, <3>5, <3>6 DEF Header
  <2> QED  BY <1>2, <2>1, <2>2
<1>13. CASE t.k = "$"
  <2>1. u # <<>> /\ Tail(u) = <<>> /\ (HasNul(a) <=> HasNul(u))
    BY <1>5, <1>7, <1>8, <1>13
  <2>2. CASE r = "bulk"
    <3>1. v = "payload" /\ Head(u).k \in Data
      BY <1>5, <1>6, <1>13, <2>2 DEF Verdict
    <3>2. AtPayload(0, "returned", m, a, u)
      BY <1>1, <1>3, <1>13, <2>1, <2>2, <3>1 DEF AtPayload
    <3> QED  BY <1>2, <3>1, <3>2
  <2>3. CASE r = "double"
    <3>1. v = "value" /\ Head(u).k = "data"
      BY <1>5, <1>6, <1>13, <2>3 DEF Verdict
    <3>2. ~HasNul(a)
      BY <1>7, <1>8, <2>1, <3>1, NulTail, NulEmpty
    <3>3. AtValue(m, a, u)
      BY <1>1, <1>3, <1>13, <2>1, <2>3, <3>1, <3>2 DEF AtValue
    <3> QED  BY <1>2, <3>1, <3>3
  <2> QED  BY <1>5, <1>13, <2>2, <2>3
<1>14. CASE t.k = "*" /\ r \in {"multi", "kv"}
  <2>1. v = "elements" /\ Elements(u, t.n)
    BY <1>5, <1>6, <1>14 DEF Verdict
  <2>2. CASE t.n = 0
    <3>1. u = <<>> /\ ~HasNul(a)
      BY <1>9, <2>1, <2>2, NoElements
    <3>2. FinalOf(m, t.n) = d
      BY <1>3, <1>4, <1>6, <1>10, <1>11, <1>14, <3>1 DEF FinalOf
    <3> QED  BY <1>1, <1>2, <2>1, <2>2, <3>1, <3>2
  <2>3. CASE t.n # 0
    <3>1. AtBulk(t.n, FinalOf(m, t.n), m, a, u)
      BY <1>1, <1>3, <1>5, <1>7, <1>8, <1>14, <2>1, <2>3 DEF AtBulk, InList
    <3> QED  BY <1>1, <1>2, <1>5, <2>1, <2>3, <3>1
  <2> QED  BY <2>2, <2>3
<1>15. CASE t.k = "*" /\ r \notin {"multi", "kv"}
  <2>1. m \in {"exec", "config_get"} /\ t.n = 0 /\ Elements(u, t.n)
    BY <1>5, <1>15
  <2>2. u = <<>>
    BY <2>1, NoElements
  <2>3. v = "protocol_error" /\ d = "protocol_error"
    <3> HIDE DEF d
    <3> QED  BY <1>4, <1>6, <1>10, <1>11, <1>15, <2>1 DEF Verdict
  <2> QED  BY <1>2, <2>2, <2>3 DEF Outcome
<1> QED  BY <1>12, <1>13, <1>14, <1>15

\* A list, and a single bulk reply, without a NUL byte ends as it deserves.
LEMMA DeservedValue ==
    ASSUME NEW m \in Method, NEW a, ~HasNul(a),
           \/ a[1].k = "$"
           \/ a[1].k = "*" /\ ReaderOf[m] \in {"multi", "kv"}
    PROVE  /\ a[1].k = "$" => Deserved(m, a) = "returned"
           /\ a[1].k = "*" => Deserved(m, a) = FinalOf(m, a[1].n)
<1>1. PICK t : t = a[1]
  OBVIOUS
<1>2. /\ ReaderOf[m] = "kv" <=> m = "blpop"
      /\ ReaderOf["exec"] = "ok" /\ ReaderOf["config_get"] = "bulk"
  BY Readers
<1>3. t.k \in {"$", "*"} => Meaning(a) = "returned"
  BY <1>1 DEF Meaning
<1>4. /\ t.k = "$" => ~Refused(m, a)
      /\ t.k = "*" => (Refused(m, a) <=> m = "blpop" /\ t.n < 2)
  BY <1>1, <1>2 DEF Refused
<1> QED  BY <1>1, <1>2, <1>3, <1>4 DEF Deserved, FinalOf

-----------------------------------------------------------------------------
(* What is read and what is to come.                                       *)

\* What every step of the client keeps.
LEMMA ClientTypes ==
    ASSUME RedisInv
    PROVE  /\ state \in State /\ left \in 0 .. MaxBulks /\ final \in Outcome
           /\ method \in Method /\ outcome \in Outcome \cup {"none"} /\ mismatch \in BOOLEAN
           /\ closed \in BOOLEAN /\ writing \in Seq(Token) /\ stream \in Seq(Token)
           /\ answer \in Seq(Token)
           /\ asked \in Seq(Sendable) /\ TypeOK /\ MaxBulks \in Nat
BY RedisAssumption DEF RedisInv, TypeOK

\* Reading takes the first token of what the answer has still to give.
LEMMA Reading ==
    ASSUME RedisInv, Consume, UNCHANGED writing
    PROVE  /\ stream # <<>> /\ stream' \in Seq(Token)
           /\ rest \in Seq(Token) /\ rest # <<>> /\ Head(rest) = Head(stream)
           /\ Head(stream) \in Token /\ Head(stream).n \in 0 .. MaxBulks
           /\ rest' = Tail(rest) /\ rest' \in Seq(Token)
<1>1. stream \in Seq(Token) /\ stream # <<>> /\ stream' = Tail(stream)
      /\ writing \in Seq(Token) /\ writing' = writing
  BY DEF RedisInv, TypeOK, Consume
<1>2. Head(stream) \in Token /\ stream' \in Seq(Token)
  BY <1>1, HeadTailProperties
<1>3. /\ stream \o writing \in Seq(Token) /\ stream \o writing # <<>>
      /\ Head(stream \o writing) = Head(stream)
      /\ Tail(stream \o writing) = Tail(stream) \o writing
  BY <1>1, SendBehind
<1>4. rest' = stream' \o writing'
  BY DEF rest
<1>5. rest' = Tail(rest)
  BY <1>1, <1>3, <1>4 DEF rest
<1>6. rest \in Seq(Token) /\ rest # <<>> /\ Head(rest) = Head(stream)
  BY <1>3 DEF rest
<1>7. rest' \in Seq(Token)
  BY <1>5, <1>6, HeadTailProperties
<1> QED  BY <1>1, <1>2, <1>5, <1>6, <1>7 DEF Token

\* Nothing is left when nothing is received or to come.
LEMMA RestEmpty ==
    ASSUME NEW s \in Seq(Token), NEW w \in Seq(Token)
    PROVE  /\ s \o w = <<>> <=> s = <<>> /\ w = <<>>
           /\ s = <<>> => s \o w = w
<1>1. Len(s \o w) = Len(s) + Len(w) /\ s \o w \in Seq(Token) /\ Len(s) \in Nat /\ Len(w) \in Nat
  BY ConcatProperties, LenProperties
<1>2. s \o w = <<>> <=> Len(s) + Len(w) = 0
  BY <1>1, EmptySeq
<1>3. (s = <<>> <=> Len(s) = 0) /\ (w = <<>> <=> Len(w) = 0)
  BY EmptySeq
<1>4. s = <<>> => s \o w = w
  BY ConcatEmptySeq
<1> QED  BY <1>1, <1>2, <1>3, <1>4

\* Delivering a token moves it, and changes nothing of what the answer has to give.
LEMMA Moved ==
    ASSUME NEW s \in Seq(Token), NEW w \in Seq(Token), w # <<>>
    PROVE  /\ Append(s, Head(w)) \in Seq(Token) /\ Tail(w) \in Seq(Token)
           /\ Append(s, Head(w)) \o Tail(w) = s \o w
<1>1. PICK h : h = Head(w)
  OBVIOUS
<1>2. PICK u : u = Tail(w)
  OBVIOUS
<1>3. /\ h \in Token /\ u \in Seq(Token) /\ Len(u) = Len(w) - 1 /\ h = w[1]
      /\ \A i \in 1 .. Len(u) : u[i] = w[i + 1]
      /\ Len(w) \in Nat \ {0} /\ Len(s) \in Nat
  BY <1>1, <1>2, HeadTailProperties, EmptySeq, LenProperties
<1>4. PICK b : b = Append(s, h)
  OBVIOUS
<1>5. /\ b \in Seq(Token) /\ Len(b) = Len(s) + 1
      /\ \A i \in 1 .. Len(s) : b[i] = s[i]
      /\ b[Len(s) + 1] = h
  BY <1>3, <1>4, AppendProperties
<1>6. PICK x : x = b \o u
  OBVIOUS
<1>7. /\ x \in Seq(Token) /\ Len(x) = Len(b) + Len(u)
      /\ \A i \in 1 .. Len(b) + Len(u) : x[i] = IF i <= Len(b) THEN b[i] ELSE u[i - Len(b)]
  BY <1>3, <1>5, <1>6, ConcatProperties
<1>8. PICK y : y = s \o w
  OBVIOUS
<1>9. /\ y \in Seq(Token) /\ Len(y) = Len(s) + Len(w)
      /\ \A i \in 1 .. Len(s) + Len(w) : y[i] = IF i <= Len(s) THEN s[i] ELSE w[i - Len(s)]
  BY <1>8, ConcatProperties
<1>10. Len(x) = Len(y)
  BY <1>3, <1>5, <1>7, <1>9
<1>11. ASSUME NEW i \in 1 .. Len(x) PROVE x[i] = y[i]
  <2>1. CASE i <= Len(s)
    BY <1>3, <1>5, <1>7, <1>9, <1>10, <2>1
  <2>2. CASE i = Len(s) + 1
    <3>1. x[i] = b[i] /\ y[i] = w[i - Len(s)] /\ i - Len(s) = 1
      BY <1>3, <1>5, <1>7, <1>9, <1>10, <2>2
    <3> QED  BY <1>3, <1>5, <2>2, <3>1
  <2>3. CASE i > Len(s) + 1
    <3>1. x[i] = u[i - Len(b)] /\ y[i] = w[i - Len(s)]
      BY <1>3, <1>5, <1>7, <1>9, <1>10, <2>3
    <3>2. i - Len(b) \in 1 .. Len(u) /\ (i - Len(b)) + 1 = i - Len(s)
      BY <1>3, <1>5, <1>7, <1>10, <2>3
    <3> QED  BY <1>3, <3>1, <3>2
  <2> QED  BY <1>3, <1>5, <1>7, <2>1, <2>2, <2>3
<1>12. x = y
  BY <1>7, <1>9, <1>10, <1>11, SeqEqual
<1> QED  BY <1>1, <1>2, <1>3, <1>4, <1>5, <1>6, <1>8, <1>12

\* While a method reads and no reply was misread, some of the answer is missing.
LEMMA Unfinished ==
    ASSUME RedisInv, ~mismatch, state # "idle"
    PROVE  answer = <<>> \/ stream # <<>> \/ writing # <<>>
<1>0. Synced /\ state \in State /\ stream \in Seq(Token) /\ writing \in Seq(Token)
      /\ left \in Nat
  BY ClientTypes DEF RedisInv
<1>1. CASE state = "overrun"
  BY <1>0, <1>1 DEF Synced, Cut
<1>2. CASE Waiting
  BY <1>2 DEF Waiting
<1>3. CASE InAnswer /\ state \in {"line", "bulk", "payload", "value"}
  <2>1. rest # <<>>
    <3>1. CASE state = "line"
      BY <1>3, <3>1 DEF InAnswer, Readable
    <3>2. CASE state = "bulk"
      <4>1. left > 0 /\ Elements(rest, left)
        BY <1>3, <3>2 DEF InAnswer, AtBulk, InList
      <4>2. Cardinality(Heads(rest)) = left /\ Cardinality(Heads(<<>>)) = 0
        BY <4>1, NoElements DEF Elements
      <4> QED  BY <4>1, <4>2
    <3>3. CASE state = "payload"
      BY <1>3, <3>3 DEF InAnswer, AtPayload
    <3>4. CASE state = "value"
      BY <1>3, <3>4 DEF InAnswer, AtValue
    <3> QED  BY <1>3, <3>1, <3>2, <3>3, <3>4
  <2> QED  BY <1>0, <2>1, RestEmpty DEF rest
<1> QED  BY <1>0, <1>1, <1>2, <1>3 DEF Synced, State

-----------------------------------------------------------------------------
(* Steps of the server.                                                    *)

\* Answering the command of the method that waits for it.
LEMMA AnswerInv ==
    ASSUME RedisInv, Answer
    PROVE  RedisInv'
<1>0. /\ TypeOK /\ asked \in Seq(Sendable) /\ asked # <<>> /\ ~closed /\ writing = <<>>
      /\ asked' = Tail(asked)
      /\ UNCHANGED <<state, left, final, stream, closed, method, outcome>>
  BY DEF RedisInv, Answer
<1>1. PICK m : m = Head(asked)
  OBVIOUS
<1>2. m \in Sendable /\ Tail(asked) \in Seq(Sendable) /\ Tail(asked) \in Seq(Method)
  <2>1. m \in Sendable /\ Tail(asked) \in Seq(Sendable)
    BY <1>0, <1>1, HeadTailProperties
  <2>2. Sendable \subseteq Method
    BY DEF Sendable
  <2> QED  BY <2>1, <2>2, SeqMonotonic
<1>3. PICK s \in Answers(m) \cup AnswersInMulti(m) : \E x \in Wire(m, s) :
         /\ writing' = x
         /\ inMulti' = IF m = "multi" /\ s = "ok" THEN TRUE
                       ELSE IF m \in {"exec", "discard"} THEN FALSE ELSE inMulti
         /\ mismatch' = (mismatch \/ Misread(m, s, x[1].n))
         /\ answer' = IF mismatch' THEN <<>> ELSE x
  BY <1>1 DEF Answer
<1>4. PICK a \in Wire(m, s) :
         /\ writing' = a
         /\ inMulti' = IF m = "multi" /\ s = "ok" THEN TRUE
                       ELSE IF m \in {"exec", "discard"} THEN FALSE ELSE inMulti
         /\ mismatch' = (mismatch \/ Misread(m, s, a[1].n))
         /\ answer' = IF mismatch' THEN <<>> ELSE a
  BY <1>3
<1>5. /\ a \in Seq(Token) /\ a # <<>>
      /\ ~Misread(m, s, a[1].n) => Readable(m, a)
  BY <1>2, AnswersReadable
<1>6. TypeOK' /\ asked' \in Seq(Sendable)
  <2>1. mismatch' \in BOOLEAN
    BY <1>4
  <2>2. inMulti' \in BOOLEAN
    BY <1>0, <1>4 DEF TypeOK
  <2>3. answer' \in Seq(Token)
    BY <1>4, <1>5, EmptySeq
  <2>4. writing' \in Seq(Token)
    BY <1>4, <1>5
  <2> QED  BY <1>0, <1>2, <2>1, <2>2, <2>3, <2>4 DEF TypeOK
<1>7. ASSUME ~mismatch' PROVE Synced'
  <2>1. ~mismatch /\ ~Misread(m, s, a[1].n)
    BY <1>4, <1>7
  <2>2. Synced /\ state \in State
    BY <1>0, <2>1 DEF RedisInv, TypeOK
  <2>3. Waiting /\ ReaderOf[method] # "none"
    BY <1>0, <2>2 DEF Synced, Rested, InAnswer, Cut, State
  <2>4. asked = <<method>> /\ stream = <<>> /\ m = method /\ state = "line" /\ left = 0
    BY <1>0, <1>1, <2>3 DEF Waiting
  <2>5. asked' = <<>> /\ answer' = a /\ writing' = a /\ stream' = <<>>
    BY <1>0, <1>4, <1>7, <2>4
  <2>6. rest' = a
    <3>1. <<>> \o a = a
      BY <1>5, ConcatEmptySeq
    <3> QED  BY <2>5, <3>1 DEF rest
  <2>7. Readable(method', answer')
    BY <1>0, <1>5, <2>1, <2>4, <2>5
  <2>8. InAnswer'
    BY <1>0, <2>4, <2>5, <2>6, <2>7 DEF InAnswer
  <2> QED  BY <1>0, <2>3, <2>4, <2>8 DEF Synced
<1> QED  BY <1>6, <1>7 DEF RedisInv

\* Delivering a token.
LEMMA DeliverInv ==
    ASSUME RedisInv, Deliver
    PROVE  RedisInv'
<1>0. /\ TypeOK /\ asked \in Seq(Sendable) /\ ~closed /\ writing # <<>>
      /\ stream' = Append(stream, Head(writing)) /\ writing' = Tail(writing)
      /\ UNCHANGED <<state, left, final, asked, inMulti, closed, answer, method, outcome,
                     mismatch>>
      /\ stream \in Seq(Token) /\ writing \in Seq(Token) /\ state \in State
  BY DEF RedisInv, Deliver, TypeOK
<1>1. /\ Append(stream, Head(writing)) \in Seq(Token) /\ Tail(writing) \in Seq(Token)
      /\ Append(stream, Head(writing)) \o Tail(writing) = stream \o writing
  BY <1>0, Moved
<1>2. TypeOK' /\ asked' \in Seq(Sendable)
  BY <1>0, <1>1 DEF TypeOK
<1>3. rest' = rest
  <2>1. rest' = stream' \o writing'
    BY DEF rest
  <2> QED  BY <1>0, <1>1, <2>1 DEF rest
<1>4. ASSUME ~mismatch PROVE Synced'
  <2>1. Synced
    BY <1>4 DEF RedisInv
  <2>2. InAnswer /\ ReaderOf[method] # "none" /\ state \in {"line", "bulk", "payload", "value"}
    BY <1>0, <2>1 DEF Synced, Rested, Waiting, Cut, State
  <2>3. InAnswer'
    BY <1>0, <1>3, <2>2 DEF InAnswer
  <2> QED  BY <1>0, <2>2, <2>3 DEF Synced
<1> QED  BY <1>0, <1>2, <1>4 DEF RedisInv

\* The server closes the connection: what it had not sent stays missing.
LEMMA ServerCloseInv ==
    ASSUME RedisInv, ServerClose
    PROVE  RedisInv'
<1>1. /\ ~closed /\ closed' = TRUE /\ asked' = <<>>
      /\ UNCHANGED <<state, left, final, stream, writing, inMulti, answer, method, outcome,
                     mismatch>>
  BY DEF ServerClose
<1>2. asked' \in Seq(Sendable) /\ asked' \in Seq(Method)
  BY <1>1, EmptySeq
<1>3. TypeOK'
  BY <1>1, <1>2 DEF RedisInv, TypeOK
<1>4. ASSUME ~mismatch PROVE Synced'
  <2>1. Synced /\ state \in State
    BY <1>4 DEF RedisInv, TypeOK
  <2>2. state # "overrun" /\ state # "aborted"
    BY <1>1, <2>1 DEF Synced, Cut
  <2>3. rest' = rest
    BY <1>1 DEF rest
  <2>4. CASE state = "idle"
    <3>1. Rested
      BY <2>1, <2>4 DEF Synced
    <3>2. Rested'
      BY <1>1, <3>1 DEF Rested
    <3> QED  BY <1>1, <2>4, <3>2 DEF Synced
  <2>5. CASE Waiting /\ state # "idle"
    <3>1. Waiting'
      BY <1>1, <2>5 DEF Waiting
    <3> QED  BY <1>1, <2>1, <2>2, <2>5, <3>1 DEF Synced, State
  <2>6. CASE InAnswer /\ state # "idle"
    <3>1. InAnswer'
      BY <1>1, <2>3, <2>6 DEF InAnswer
    <3> QED  BY <1>1, <2>1, <2>2, <2>6, <3>1 DEF Synced, State
  <2> QED  BY <2>1, <2>2, <2>4, <2>5, <2>6 DEF Synced, State
<1> QED  BY <1>1, <1>2, <1>3, <1>4 DEF RedisInv

-----------------------------------------------------------------------------
(* Steps of the client.                                                    *)

\* A method that read its answer to the end is at rest.
LEMMA ReadToEnd ==
    ASSUME RedisInv, rest' = <<>>, stream' \in Seq(Token), writing' \in Seq(Token),
           asked = <<>>, Readable(method, answer), UNCHANGED <<serverVars, method>>,
           NEW o, Ends(o), o = Deserved(method, answer)
    PROVE  Synced'
<1>1. UNCHANGED <<asked, writing, answer, closed, method>> /\ answer # <<>>
  BY DEF serverVars, Readable
<1>2. rest' = stream' \o writing'
  BY DEF rest
<1>3. stream' = <<>> /\ writing' = <<>>
  BY <1>2, RestEmpty
<1>4. state' = "idle" /\ outcome' = o /\ left' = 0
  BY DEF Ends
<1>5. outcome' = Deserved(method', answer')
  BY <1>1, <1>4
<1>6. Rested'
  BY <1>1, <1>3, <1>4, <1>5 DEF Rested
<1> QED  BY <1>4, <1>6 DEF Synced

\* The first line of a reply.
LEMMA RecvLineInv ==
    ASSUME RedisInv, RecvLine
    PROVE  RedisInv'
<1>0. /\ state \in State /\ left \in 0 .. MaxBulks /\ final \in Outcome
      /\ method \in Method /\ outcome \in Outcome \cup {"none"}
      /\ writing \in Seq(Token) /\ stream \in Seq(Token)
      /\ asked \in Seq(Sendable) /\ TypeOK /\ MaxBulks \in Nat
  BY ClientTypes
<1>1. PICK t : t = Head(stream)
  OBVIOUS
<1>2. PICK v : v = Verdict(ReaderOf[method], t.k)
  OBVIOUS
<1>3. PICK f : f = FinalOf(method, t.n)
  OBVIOUS
<1>4. /\ state = "line" /\ Consume /\ UNCHANGED <<serverVars, method, mismatch>>
      /\ \/ v \in Outcome /\ Ends(v)
         \/ v \in {"payload", "value"} /\ state' = v /\ UNCHANGED <<left, final, outcome>>
         \/ v = "elements" /\ t.n = 0 /\ Ends(f)
         \/ v = "elements" /\ t.n > 0 /\ state' = "bulk" /\ left' = t.n
               /\ final' = f /\ UNCHANGED outcome
  BY <1>1, <1>2, <1>3 DEF RecvLine, FinalOf
<1>5. /\ stream # <<>> /\ stream' \in Seq(Token) /\ rest \in Seq(Token) /\ rest # <<>>
      /\ Head(rest) = t /\ t \in Token /\ t.n \in 0 .. MaxBulks
      /\ rest' = Tail(rest) /\ rest' \in Seq(Token)
  BY <1>1, <1>4, Reading DEF serverVars
<1>6. f \in {"returned", "protocol_error"} /\ f \in Outcome
  BY <1>3 DEF Outcome, FinalOf
<1>7. TypeOK' /\ asked' \in Seq(Sendable)
  <2>1. /\ state' \in State /\ left' \in 0 .. MaxBulks /\ final' \in Outcome
        /\ outcome' \in Outcome \cup {"none"}
    BY <1>0, <1>4, <1>5, <1>6 DEF Ends, State, Outcome
  <2> QED  BY <1>0, <1>4, <1>5, <2>1 DEF TypeOK, serverVars
<1>8. ASSUME ~mismatch PROVE Synced'
  <2>0. InAnswer /\ ReaderOf[method] # "none"
    BY <1>4, <1>5, <1>8 DEF RedisInv, Synced, Waiting
  <2>1. asked = <<>> /\ Readable(method, answer) /\ left = 0 /\ rest = answer
    BY <1>4, <2>0 DEF InAnswer
  <2>2. t = answer[1] /\ rest' = Tail(answer)
    BY <1>5, <2>1
  <2>3. UNCHANGED <<asked, writing, answer, closed, method>>
    BY <1>4 DEF serverVars
  <2>4. \/ v \in Outcome /\ Tail(answer) = <<>> /\ v = Deserved(method, answer)
        \/ v = "payload" /\ AtPayload(0, "returned", method, answer, Tail(answer))
        \/ v = "value" /\ AtValue(method, answer, Tail(answer))
        \/ /\ v = "elements" /\ t.n = 0 /\ Tail(answer) = <<>>
           /\ f = Deserved(method, answer)
        \/ /\ v = "elements" /\ t.n > 0
           /\ AtBulk(t.n, f, method, answer, Tail(answer))
    <3>1. v = Verdict(ReaderOf[method], answer[1].k) /\ f = FinalOf(method, answer[1].n)
      BY <1>2, <1>3, <2>2
    <3> QED  BY <1>0, <2>0, <2>1, <2>2, <3>1, LineVerdict
  <2>5. "payload" \notin Outcome /\ "value" \notin Outcome /\ "elements" \notin Outcome
    BY DEF Outcome
  <2>6. ASSUME NEW o, Ends(o), Tail(answer) = <<>>, o = Deserved(method, answer) PROVE Synced'
    <3>1. rest' = <<>> /\ writing' \in Seq(Token)
      BY <1>0, <2>2, <2>3, <2>6
    <3> QED  BY <1>4, <1>5, <2>1, <2>6, <3>1, ReadToEnd
  <2>7. CASE v \in Outcome
    BY <1>4, <2>4, <2>5, <2>6, <2>7
  <2>8. CASE v = "payload"
    <3>1. state' = "payload" /\ left' = 0 /\ UNCHANGED <<final, outcome>>
      BY <1>4, <2>1, <2>5, <2>8
    <3>2. AtPayload(0, "returned", method, answer, Tail(answer))
      BY <2>4, <2>5, <2>8
    <3>3. AtPayload(left', final', method', answer', rest')
      BY <2>2, <2>3, <3>1, <3>2 DEF AtPayload
    <3>4. InAnswer'
      BY <2>1, <2>3, <3>1, <3>3 DEF InAnswer
    <3> QED  BY <2>0, <2>3, <3>1, <3>4 DEF Synced
  <2>9. CASE v = "value"
    <3>1. state' = "value" /\ left' = 0 /\ AtValue(method, answer, Tail(answer))
      BY <1>4, <2>1, <2>4, <2>5, <2>9
    <3>2. AtValue(method', answer', rest')
      BY <2>2, <2>3, <3>1
    <3>3. InAnswer'
      BY <2>1, <2>3, <3>1, <3>2 DEF InAnswer
    <3> QED  BY <2>0, <2>3, <3>1, <3>3 DEF Synced
  <2>10. CASE v = "elements" /\ t.n = 0
    <3>1. Ends(f) /\ Tail(answer) = <<>> /\ f = Deserved(method, answer)
      BY <1>4, <2>4, <2>5, <2>10
    <3> QED  BY <2>6, <3>1
  <2>11. CASE v = "elements" /\ t.n # 0
    <3>1. state' = "bulk" /\ left' = t.n /\ final' = f
          /\ AtBulk(t.n, f, method, answer, Tail(answer))
      BY <1>4, <2>4, <2>5, <2>11
    <3>2. AtBulk(left', final', method', answer', rest')
      BY <2>2, <2>3, <3>1
    <3>3. InAnswer'
      BY <2>1, <2>3, <3>1, <3>2 DEF InAnswer
    <3> QED  BY <2>0, <2>3, <3>1, <3>3 DEF Synced
  <2> QED  BY <2>4, <2>7, <2>8, <2>9, <2>10, <2>11
<1> QED  BY <1>4, <1>7, <1>8 DEF RedisInv, serverVars

\* An element, or the single bulk reply, has been read.
LEMMA ElementDone ==
    ASSUME RedisInv, stream' \in Seq(Token), writing' \in Seq(Token), ElementRead,
           UNCHANGED <<serverVars, method>>, asked = <<>>, Readable(method, answer),
           ReaderOf[method] # "none",
           AfterElement(left, final, method, answer, rest')
    PROVE  Synced'
<1>0. left \in Nat /\ method \in Method /\ UNCHANGED <<asked, writing, answer, method>>
  BY ClientTypes DEF serverVars
<1>1. PICK r : r = rest'
  OBVIOUS
<1>2. /\ HasNul(answer) <=> HasNul(r)
      /\ left = 0 => r = <<>> /\ answer[1].k = "$" /\ ReaderOf[method] = "bulk"
      /\ left > 0 => InList(left - 1, final, method, answer, r)
  BY <1>1 DEF AfterElement
<1>3. CASE left = 0
  <2>1. Ends("returned") /\ r = <<>> /\ ~HasNul(answer) /\ answer[1].k = "$"
    BY <1>0, <1>2, <1>3, NulEmpty DEF ElementRead
  <2>2. Deserved(method, answer) = "returned"
    BY <1>0, <2>1, DeservedValue
  <2> QED  BY <1>1, <2>1, <2>2, ReadToEnd
<1>4. CASE left = 1
  <2>1. Ends(final) /\ left - 1 = 0
    BY <1>0, <1>4 DEF ElementRead
  <2>2. /\ answer[1].k = "*" /\ ReaderOf[method] \in {"multi", "kv"}
        /\ final = FinalOf(method, answer[1].n) /\ Elements(r, 0)
    BY <1>2, <1>4, <2>1 DEF InList
  <2>3. r = <<>> /\ ~HasNul(answer)
    BY <1>2, <2>2, NoElements, NulEmpty
  <2>4. Deserved(method, answer) = final
    BY <1>0, <2>2, <2>3, DeservedValue
  <2> QED  BY <1>1, <2>1, <2>3, <2>4, ReadToEnd
<1>5. CASE left > 1
  <2>1. state' = "bulk" /\ left' = left - 1 /\ final' = final /\ left' > 0
    BY <1>0, <1>5 DEF ElementRead
  <2>2. AtBulk(left', final', method', answer', rest')
    BY <1>0, <1>1, <1>2, <1>5, <2>1 DEF AtBulk
  <2>3. InAnswer'
    BY <1>0, <2>1, <2>2 DEF InAnswer
  <2> QED  BY <1>0, <2>1, <2>3 DEF Synced
<1> QED  BY <1>0, <1>3, <1>4, <1>5

\* The types an element read leaves.
LEMMA ElementTypes ==
    ASSUME RedisInv, NEW o \in Outcome, ElementRead \/ Ends(o)
    PROVE  state' \in State /\ left' \in 0 .. MaxBulks /\ final' \in Outcome
           /\ outcome' \in Outcome \cup {"none"}
<1>0. left \in 0 .. MaxBulks /\ final \in Outcome /\ outcome \in Outcome \cup {"none"}
      /\ MaxBulks \in Nat
  BY ClientTypes
<1>1. CASE Ends(o)
  BY <1>0, <1>1 DEF Ends, State, Outcome
<1>2. CASE ElementRead
  BY <1>0, <1>2 DEF ElementRead, Ends, State, Outcome
<1> QED  BY <1>1, <1>2

\* The header line of an element.
LEMMA RecvElementInv ==
    ASSUME RedisInv, RecvElement
    PROVE  RedisInv'
<1>0. /\ state \in State /\ left \in 0 .. MaxBulks /\ final \in Outcome
      /\ outcome \in Outcome \cup {"none"} /\ writing \in Seq(Token) /\ stream \in Seq(Token)
      /\ asked \in Seq(Sendable) /\ TypeOK /\ MaxBulks \in Nat
  BY ClientTypes
<1>1. PICK k : k = Head(stream).k
  OBVIOUS
<1>2. /\ state = "bulk" /\ Consume /\ UNCHANGED <<serverVars, method, mismatch>>
      /\ \/ k = "$" /\ state' = "payload" /\ UNCHANGED <<left, final, outcome>>
         \/ k = "$-1" /\ ElementRead
         \/ k \notin {"$", "$-1"} /\ Ends("protocol_error")
  BY <1>1 DEF RecvElement
<1>3. UNCHANGED <<asked, writing, answer, closed, method>> /\ writing' \in Seq(Token)
  BY <1>0, <1>2 DEF serverVars
<1>4. /\ stream' \in Seq(Token) /\ rest \in Seq(Token) /\ rest # <<>>
      /\ Head(rest).k = k /\ rest' = Tail(rest)
  BY <1>1, <1>2, <1>3, Reading
<1>5. TypeOK' /\ asked' \in Seq(Sendable)
  <2>1. /\ state' \in State /\ left' \in 0 .. MaxBulks /\ final' \in Outcome
        /\ outcome' \in Outcome \cup {"none"}
    <3>1. "protocol_error" \in Outcome
      BY DEF Outcome
    <3> QED  BY <1>0, <1>2, <3>1, ElementTypes DEF State
  <2> QED  BY <1>0, <1>2, <1>3, <1>4, <2>1 DEF TypeOK, serverVars
<1>6. ASSUME ~mismatch PROVE Synced'
  <2>1. InAnswer /\ ReaderOf[method] # "none"
    BY <1>2, <1>6 DEF RedisInv, Synced, Waiting
  <2>2. asked = <<>> /\ Readable(method, answer) /\ AtBulk(left, final, method, answer, rest)
    BY <1>2, <2>1 DEF InAnswer
  <2>3. /\ left > 0 /\ answer[1].k = "*" /\ ReaderOf[method] \in {"multi", "kv"}
        /\ final = FinalOf(method, answer[1].n) /\ Elements(rest, left)
        /\ HasNul(answer) <=> HasNul(rest)
    BY <2>2 DEF AtBulk, InList
  <2>4. k \in {"$", "$-1"}
    BY <1>4, <2>3, FirstElement
  <2>5. HasNul(answer) <=> HasNul(Tail(rest))
    BY <1>4, <2>3, <2>4, NulTail
  <2>6. CASE k = "$-1"
    <3>1. Elements(Tail(rest), left - 1)
      BY <1>4, <2>3, <2>6, TakeNil
    <3>2. AfterElement(left, final, method, answer, Tail(rest))
      BY <1>0, <2>3, <2>5, <3>1 DEF AfterElement, InList
    <3>3. AfterElement(left, final, method, answer, rest')
      BY <1>4, <3>2
    <3> QED  BY <1>2, <1>3, <1>4, <2>1, <2>2, <2>6, <3>3, ElementDone
  <2>7. CASE k = "$"
    <3>1. /\ Tail(rest) # <<>> /\ Head(Tail(rest)).k \in Data
          /\ Elements(Tail(Tail(rest)), left - 1)
      BY <1>4, <2>3, <2>7, TakeHeader
    <3>2. AtPayload(left, final, method, answer, Tail(rest))
      BY <1>0, <2>3, <2>5, <3>1 DEF AtPayload, InList
    <3>3. state' = "payload" /\ UNCHANGED <<left, final>>
      BY <1>2, <2>7
    <3>4. AtPayload(left', final', method', answer', rest')
      BY <1>3, <1>4, <3>2, <3>3
    <3>5. InAnswer'
      BY <1>3, <2>2, <3>3, <3>4 DEF InAnswer
    <3> QED  BY <1>3, <2>1, <3>3, <3>5 DEF Synced
  <2> QED  BY <2>4, <2>6, <2>7
<1> QED  BY <1>2, <1>5, <1>6 DEF RedisInv

\* The payload of an element or of the single bulk reply.
LEMMA RecvPayloadInv ==
    ASSUME RedisInv, RecvPayload
    PROVE  RedisInv'
<1>0. /\ state \in State /\ left \in 0 .. MaxBulks /\ final \in Outcome
      /\ outcome \in Outcome \cup {"none"} /\ writing \in Seq(Token) /\ stream \in Seq(Token)
      /\ asked \in Seq(Sendable) /\ TypeOK /\ MaxBulks \in Nat /\ method \in Method
  BY ClientTypes
<1>1. PICK short \in BOOLEAN : short <=> Head(stream).k = "data0"
  OBVIOUS
<1>2. /\ state = "payload" /\ Consume /\ UNCHANGED <<serverVars, method>>
      /\ IF short THEN Ends("protocol_error") ELSE ElementRead
      /\ mismatch' <=> mismatch \/ (short /\ left > 1)
      /\ mismatch' \in BOOLEAN
  BY <1>1 DEF RecvPayload
<1>3. UNCHANGED <<asked, writing, answer, closed, method>> /\ writing' \in Seq(Token)
  BY <1>0, <1>2 DEF serverVars
<1>4. /\ stream' \in Seq(Token) /\ rest \in Seq(Token) /\ rest # <<>>
      /\ short <=> Head(rest).k = "data0"
      /\ rest' = Tail(rest)
  BY <1>1, <1>2, <1>3, Reading
<1>5. TypeOK' /\ asked' \in Seq(Sendable)
  <2>1. /\ state' \in State /\ left' \in 0 .. MaxBulks /\ final' \in Outcome
        /\ outcome' \in Outcome \cup {"none"}
    <3>1. "protocol_error" \in Outcome
      BY DEF Outcome
    <3> QED  BY <1>2, <3>1, ElementTypes
  <2> QED  BY <1>0, <1>2, <1>3, <1>4, <2>1 DEF TypeOK, serverVars
<1>6. ASSUME ~mismatch' PROVE Synced'
  <2>1. ~mismatch /\ ~(short /\ left > 1)
    BY <1>2, <1>6
  <2>2. InAnswer /\ ReaderOf[method] # "none"
    BY <1>2, <2>1 DEF RedisInv, Synced, Waiting
  <2>3. asked = <<>> /\ Readable(method, answer) /\ AtPayload(left, final, method, answer, rest)
    BY <1>2, <2>2 DEF InAnswer
  <2>4. /\ HasNul(answer) <=> HasNul(rest)
        /\ left = 0 => Tail(rest) = <<>> /\ answer[1].k = "$" /\ ReaderOf[method] = "bulk"
        /\ left > 0 => InList(left - 1, final, method, answer, Tail(rest))
    BY <2>3 DEF AtPayload
  <2>5. HasNul(rest) <=> short \/ HasNul(Tail(rest))
    BY <1>4, NulTail
  <2>6. CASE ~short
    <3>1. AfterElement(left, final, method, answer, Tail(rest))
      BY <2>4, <2>5, <2>6 DEF AfterElement
    <3>2. AfterElement(left, final, method, answer, rest') /\ ElementRead
      BY <1>2, <1>4, <2>6, <3>1
    <3> QED  BY <1>2, <1>3, <1>4, <2>2, <2>3, <3>2, ElementDone
  <2>7. CASE short
    <3>1. Tail(rest) = <<>>
      <4>1. CASE left = 0
        BY <2>4, <4>1
      <4>2. CASE left = 1
        <5>1. Elements(Tail(rest), 0)
          BY <2>4, <4>2 DEF InList
        <5> QED  BY <5>1, NoElements
      <4> QED  BY <1>0, <2>1, <2>7, <4>1, <4>2
    <3>2. Deserved(method, answer) = "protocol_error"
      BY <2>4, <2>5, <2>7 DEF Deserved, Refused
    <3>3. rest' = <<>> /\ Ends("protocol_error")
      BY <1>2, <1>4, <2>7, <3>1
    <3> QED  BY <1>2, <1>3, <1>4, <2>3, <3>2, <3>3, ReadToEnd
  <2> QED  BY <2>6, <2>7
<1> QED  BY <1>2, <1>5, <1>6 DEF RedisInv

\* The second line of a double.
LEMMA RecvValueInv ==
    ASSUME RedisInv, RecvValue
    PROVE  RedisInv'
<1>0. /\ TypeOK /\ asked \in Seq(Sendable) /\ writing \in Seq(Token) /\ method \in Method
  BY ClientTypes
<1>1. PICK o \in {"returned", "value_error"} :
         Ends(o) /\ (Head(stream).k = "data" => o = "returned")
  BY DEF RecvValue
<1>2. state = "value" /\ Consume /\ UNCHANGED <<serverVars, method, mismatch>>
  BY DEF RecvValue
<1>3. UNCHANGED <<asked, writing, answer, closed, method>> /\ writing' \in Seq(Token)
  BY <1>0, <1>2 DEF serverVars
<1>4. /\ stream' \in Seq(Token) /\ Head(rest) = Head(stream) /\ rest' = Tail(rest)
  BY <1>2, <1>3, Reading
<1>5. TypeOK' /\ asked' \in Seq(Sendable)
  <2>1. o \in Outcome
    BY DEF Outcome
  <2>2. /\ state' \in State /\ left' \in 0 .. MaxBulks /\ final' \in Outcome
        /\ outcome' \in Outcome \cup {"none"}
    BY <1>1, <2>1, ElementTypes
  <2> QED  BY <1>0, <1>2, <1>3, <1>4, <2>2 DEF TypeOK, serverVars
<1>6. ASSUME ~mismatch PROVE Synced'
  <2>1. InAnswer
    BY <1>2, <1>6 DEF RedisInv, Synced, Waiting
  <2>2. asked = <<>> /\ Readable(method, answer) /\ AtValue(method, answer, rest)
    BY <1>2, <2>1 DEF InAnswer
  <2>3. /\ Tail(rest) = <<>> /\ Head(rest).k = "data" /\ ~HasNul(answer)
        /\ answer[1].k = "$"
    BY <2>2 DEF AtValue
  <2>4. o = "returned" /\ Deserved(method, answer) = "returned"
    BY <1>0, <1>1, <1>4, <2>3, DeservedValue
  <2> QED  BY <1>1, <1>2, <1>3, <1>4, <2>2, <2>3, <2>4, ReadToEnd
<1> QED  BY <1>2, <1>5, <1>6 DEF RedisInv

\* A recv that fails in a payload, and what it leads to.
LEMMA OverrunInv ==
    ASSUME RedisInv, RecvFails \/ RecvOverrun
    PROVE  RedisInv'
<1>0. /\ TypeOK /\ asked \in Seq(Sendable) /\ writing \in Seq(Token) /\ stream \in Seq(Token)
  BY ClientTypes
<1>1. CASE RecvFails
  <2>1. /\ state = "payload" /\ state' = "overrun"
        /\ mismatch' <=> mismatch \/ ~closed \/ stream # <<>>
        /\ mismatch' \in BOOLEAN
        /\ UNCHANGED <<left, final, stream, asked, writing, inMulti, closed, answer, method,
                       outcome>>
    BY <1>1 DEF RecvFails, serverVars
  <2>2. TypeOK'
    BY <1>0, <2>1 DEF TypeOK, State
  <2>3. ASSUME ~mismatch' PROVE Synced'
    <3>1. ~mismatch /\ closed /\ stream = <<>>
      BY <2>1, <2>3
    <3>2. InAnswer
      BY <2>1, <3>1 DEF RedisInv, Synced, Waiting
    <3>3. asked = <<>> /\ answer # <<>>
      BY <3>2 DEF InAnswer, Readable
    <3>4. writing # <<>>
      BY <2>1, <3>1, <3>3, Unfinished
    <3> QED  BY <2>1, <3>1, <3>3, <3>4 DEF Synced, Cut
  <2> QED  BY <1>0, <2>1, <2>2, <2>3 DEF RedisInv
<1>2. CASE RecvOverrun
  <2>1. /\ state = "overrun" /\ Len(stream) > 1
        /\ stream' = <<Tok("?")>> \o SubSeq(stream, 3, Len(stream))
        /\ UNCHANGED <<asked, writing, inMulti, closed, answer, method, mismatch>>
        /\ \/ ElementRead
           \/ Ends("protocol_error")
           \/ state' = "aborted" /\ UNCHANGED <<left, final, outcome>>
    BY <1>2 DEF RecvOverrun, serverVars
  <2>2. stream' \in Seq(Token)
    <3>1. Tok("?") \in Token
      BY RedisAssumption DEF Tok, Token, Prefix
    <3>2. <<Tok("?")>> \in Seq(Token)
      BY <3>1
    <3>3. SubSeq(stream, 3, Len(stream)) \in Seq(Token)
      BY <1>0, SubSeqProperties
    <3> QED  BY <2>1, <3>2, <3>3, ConcatProperties
  <2>3. /\ state' \in State /\ left' \in 0 .. MaxBulks /\ final' \in Outcome
        /\ outcome' \in Outcome \cup {"none"}
    <3>1. "protocol_error" \in Outcome
      BY DEF Outcome
    <3> QED  BY <1>0, <2>1, <3>1, ElementTypes DEF TypeOK, State
  <2>4. TypeOK'
    BY <1>0, <2>1, <2>2, <2>3 DEF TypeOK
  <2>5. mismatch
    <3> SUFFICES ASSUME ~mismatch PROVE FALSE
      BY <1>0 DEF TypeOK
    <3>1. stream = <<>>
      BY <2>1 DEF RedisInv, Synced, Cut
    <3> QED  BY <2>1, <3>1, EmptySeq
  <2> QED  BY <1>0, <2>1, <2>4, <2>5 DEF RedisInv
<1> QED  BY <1>1, <1>2

\* The end of the connection: part of the answer never came.
LEMMA RecvClosedInv ==
    ASSUME RedisInv, RecvClosed
    PROVE  RedisInv'
<1>0. /\ TypeOK /\ asked \in Seq(Sendable) /\ state \in State /\ method \in Method
  BY ClientTypes
<1>1. PICK o : o = IF method = "shutdown" THEN "returned" ELSE "connection_error"
  OBVIOUS
<1>2. /\ state \notin {"idle", "aborted"} /\ closed
      /\ stream = <<>> \/ (state = "overrun" /\ Len(stream) = 1)
      /\ stream' = <<>> /\ Ends(o)
      /\ UNCHANGED <<asked, writing, inMulti, closed, answer, method, mismatch>>
  BY <1>1 DEF RecvClosed, serverVars
<1>3. o \in Outcome /\ o \in Lost(method)
  BY <1>1 DEF Outcome, Lost
<1>4. TypeOK'
  <2>1. /\ state' \in State /\ left' \in 0 .. MaxBulks /\ final' \in Outcome
        /\ outcome' \in Outcome \cup {"none"}
    BY <1>2, <1>3, ElementTypes
  <2>2. stream' \in Seq(Token)
    BY <1>2, EmptySeq
  <2> QED  BY <1>0, <1>2, <2>1, <2>2 DEF TypeOK
<1>5. ASSUME ~mismatch PROVE Synced'
  <2>1. Synced
    BY <1>5 DEF RedisInv
  <2>2. stream = <<>>
    BY <1>2, <2>1 DEF Synced, Cut
  <2>3. asked = <<>>
    BY <1>0, <1>2, <2>1 DEF Synced, Waiting, InAnswer, Cut, State
  <2>4. answer = <<>> \/ writing # <<>>
    BY <1>2, <1>5, <2>2, Unfinished
  <2>5. state' = "idle" /\ outcome' = o /\ left' = 0
    BY <1>2 DEF Ends
  <2>6. outcome' \in Lost(method')
    BY <1>2, <1>3, <2>5
  <2>7. Rested'
    BY <1>2, <2>3, <2>4, <2>5, <2>6 DEF Rested
  <2> QED  BY <2>5, <2>7 DEF Synced
<1> QED  BY <1>0, <1>2, <1>4, <1>5 DEF RedisInv

\* Calling a method.
LEMMA CallInv ==
    ASSUME RedisInv, NEW m \in Used, CallMethod(m)
    PROVE  RedisInv'
<1>0. /\ state \in State /\ left \in 0 .. MaxBulks /\ final \in Outcome
      /\ outcome \in Outcome \cup {"none"} /\ writing \in Seq(Token) /\ stream \in Seq(Token)
      /\ asked \in Seq(Sendable) /\ TypeOK /\ MaxBulks \in Nat /\ m \in Method
  BY ClientTypes, RedisAssumption
<1>1. /\ state = "idle" /\ method' = m /\ answer' = <<>>
      /\ mismatch' <=> mismatch \/ m \in {"mset", "msetnx", "zrange_scores"}
      /\ mismatch' \in BOOLEAN
      /\ asked' = IF m \in Unsent \/ closed THEN asked ELSE Append(asked, m)
      /\ UNCHANGED <<stream, writing, inMulti, closed>>
      /\ \/ closed /\ m \notin Unsent /\ Ends("connection_error")
         \/ ReaderOf[m] = "none" /\ Ends("returned")
         \/ /\ ReaderOf[m] # "none" /\ state' = "line" /\ outcome' = "none"
            /\ UNCHANGED <<left, final>>
  BY DEF CallMethod
<1>2. asked' \in Seq(Sendable) /\ asked' \in Seq(Method)
  <2>1. m \notin Unsent => m \in Sendable
    BY <1>0 DEF Sendable
  <2>2. asked' \in Seq(Sendable)
    BY <1>0, <1>1, <2>1, AppendProperties
  <2>3. Sendable \subseteq Method
    BY DEF Sendable
  <2> QED  BY <2>2, <2>3, SeqMonotonic
<1>3. TypeOK'
  <2>1. "connection_error" \in Outcome /\ "returned" \in Outcome
    BY DEF Outcome
  <2>2. /\ state' \in State /\ left' \in 0 .. MaxBulks /\ final' \in Outcome
        /\ outcome' \in Outcome \cup {"none"}
    BY <1>0, <1>1, <2>1, ElementTypes DEF State
  <2>3. answer' \in Seq(Token)
    BY <1>1, EmptySeq
  <2> QED  BY <1>0, <1>1, <1>2, <2>2, <2>3 DEF TypeOK
<1>4. ASSUME ~mismatch' PROVE Synced'
  <2>1. ~mismatch /\ m \notin {"mset", "msetnx", "zrange_scores"}
    BY <1>1, <1>4
  <2>2. stream = <<>> /\ asked = <<>> /\ left = 0 /\ (~closed => writing = <<>>)
    BY <1>1, <2>1 DEF RedisInv, Synced, Rested
  <2>3. CASE closed /\ m \notin Unsent /\ Ends("connection_error")
    <3>1. state' = "idle" /\ outcome' = "connection_error" /\ left' = 0
      BY <2>3 DEF Ends
    <3>2. outcome' \in Lost(method')
      BY <3>1 DEF Lost
    <3>3. Rested'
      BY <1>1, <2>2, <2>3, <3>1, <3>2 DEF Rested
    <3> QED  BY <3>1, <3>3 DEF Synced
  <2>4. CASE ReaderOf[m] = "none" /\ Ends("returned")
    <3>1. state' = "idle" /\ left' = 0 /\ ReaderOf[method'] = "none"
      BY <1>1, <2>4 DEF Ends
    <3>2. m \in Unsent
      BY <1>0, <2>1, <2>4, Readers DEF Unsent
    <3>3. Rested'
      BY <1>1, <2>2, <3>1, <3>2 DEF Rested
    <3> QED  BY <3>1, <3>3 DEF Synced
  <2>5. CASE ReaderOf[m] # "none" /\ state' = "line" /\ UNCHANGED left
    <3>1. m \notin Unsent
      BY <2>1, <2>5, Readers DEF Unsent
    <3>2. asked' = IF closed THEN <<>> ELSE <<m>>
      BY <1>1, <2>2, <3>1
    <3>3. Waiting'
      BY <1>1, <2>2, <2>5, <3>2 DEF Waiting
    <3> QED  BY <1>1, <2>5, <3>3 DEF Synced
  <2> QED  BY <1>1, <2>3, <2>4, <2>5
<1> QED  BY <1>1, <1>2, <1>3, <1>4 DEF RedisInv

-----------------------------------------------------------------------------
(* The properties.                                                         *)

\* The connection just opened.
LEMMA InitInv == Init => RedisInv
<1> SUFFICES ASSUME Init PROVE RedisInv
  OBVIOUS
<1>1. /\ stream \in Seq(Token) /\ asked \in Seq(Sendable) /\ asked \in Seq(Method)
      /\ writing \in Seq(Token) /\ answer \in Seq(Token)
  BY EmptySeq DEF Init
<1>2. "set" \in Method
  BY Readers
<1>3. TypeOK
  <2>1. state \in State /\ final \in Outcome /\ outcome \in Outcome \cup {"none"}
    BY DEF Init, State, Outcome
  <2>2. left \in 0 .. MaxBulks
    BY RedisAssumption DEF Init
  <2>3. inMulti \in BOOLEAN /\ closed \in BOOLEAN /\ mismatch \in BOOLEAN /\ method \in Method
    BY <1>2 DEF Init
  <2> QED  BY <1>1, <2>1, <2>2, <2>3 DEF TypeOK
<1>4. Synced
  BY DEF Init, Synced, Rested
<1> QED  BY <1>1, <1>3, <1>4 DEF RedisInv

\* Every step.
LEMMA NextInv ==
    ASSUME RedisInv, [Next]_vars
    PROVE  RedisInv'
<1>1. CASE UNCHANGED vars
  <2>1. /\ UNCHANGED <<state, left, final, stream, method, outcome, mismatch>>
        /\ UNCHANGED <<asked, writing, inMulti, closed, answer>>
    BY <1>1 DEF vars, serverVars
  <2>2. TypeOK' /\ asked' \in Seq(Sendable)
    BY <2>1 DEF RedisInv, TypeOK
  <2>3. ASSUME Synced PROVE Synced'
    <3>1. rest' = rest
      BY <2>1 DEF rest
    <3>2. (Rested => Rested') /\ (Waiting => Waiting') /\ (Cut => Cut')
      BY <2>1 DEF Rested, Waiting, Cut
    <3>3. InAnswer => InAnswer'
      BY <2>1, <3>1 DEF InAnswer
    <3> QED  BY <2>1, <2>3, <3>2, <3>3 DEF Synced
  <2> QED  BY <2>1, <2>2, <2>3 DEF RedisInv
<1>2. CASE \E m \in Used : CallMethod(m)
  BY <1>2, CallInv
<1>3. CASE ClientStep \/ RecvFails
  BY <1>3, RecvLineInv, RecvElementInv, RecvPayloadInv, RecvValueInv, OverrunInv, RecvClosedInv
     DEF ClientStep
<1>4. CASE ServerStep \/ ServerClose
  BY <1>4, AnswerInv, DeliverInv, ServerCloseInv DEF ServerStep
<1> QED  BY <1>1, <1>2, <1>3, <1>4 DEF Next

\* The inductive invariant: at every point of every reader, what was read, what is in
\* the stream and what the server has still to send make one whole answer.
THEOREM RedisInvariant == Spec => []RedisInv
<1>1. RedisInv /\ [Next]_vars => RedisInv'
  BY NextInv
<1> QED  BY InitInv, <1>1, PTL DEF Spec

\* For every set of methods, length of replies and content of values: between two calls
\* nothing is unread or unanswered, and a reader never waits for bytes nobody will send,
\* until the first answer that a reader is known not to consume exactly.
THEOREM StreamCorrect == Spec => []StreamConsistent
<1>1. ASSUME RedisInv PROVE StreamConsistent
  <2>1. TypeOK
    BY <1>1 DEF RedisInv
  <2>2. InSync
    BY <1>1 DEF RedisInv, Synced, Rested, InSync
  <2>3. NeverStuck
    <3> SUFFICES ASSUME state # "idle", ~mismatch, ~closed
                 PROVE  stream # <<>> \/ asked # <<>> \/ writing # <<>>
      BY DEF NeverStuck
    <3>1. Synced /\ state \in State
      BY <1>1 DEF RedisInv, TypeOK
    <3>2. CASE Waiting
      BY <3>2 DEF Waiting
    <3>3. CASE ~Waiting
      <4>1. InAnswer
        BY <3>1, <3>3 DEF Synced, Cut, State
      <4>2. answer # <<>>
        BY <4>1 DEF InAnswer, Readable
      <4> QED  BY <1>1, <4>2, Unfinished
    <3> QED  BY <3>2, <3>3
  <2> QED  BY <2>1, <2>2, <2>3 DEF StreamConsistent
<1> QED  BY <1>1, RedisInvariant, PTL

\* For every set of methods, length of replies and content of values, until the first
\* misread reply: a call whose answer arrived in whole ends as that answer deserves
\* (the value it carries is returned, nil, nil lists and errors surface as such, the
\* answers Refused names are protocol errors), and one whose answer was cut short, at
\* whatever token, ends with the loss of the connection.
THEOREM OutcomeCorrect == Spec => []OutcomeMatchesAnswer
<1>1. RedisInv => OutcomeMatchesAnswer
  BY DEF RedisInv, Synced, Rested, OutcomeMatchesAnswer
<1> QED  BY <1>1, RedisInvariant, PTL
=============================================================================
