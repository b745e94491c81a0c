--------------------------- MODULE CppEpollProofs ---------------------------
(***************************************************************************)
(* The safety properties of CppEpoll for any number of connections, any    *)
(* size of event_list and any limit on draining.  Each property needs the  *)
(* others: flags and kernel agree because a free slot is registered for    *)
(* nothing, what is queued is current because an entry of event_list is    *)
(* when it is posted, and nothing owed is left because the queues are run  *)
(* empty.                                                                  *)
(***************************************************************************)
EXTENDS CppEpoll, Lists, Integers, FiniteSets, Functions, TLAPS, SequenceTheorems,
        FiniteSetTheorems, WellFoundedInduction

-----------------------------------------------------------------------------
(* Lists.  The intrusive lists (ngx_queue_t, the stack of free connections) *)
(* are sequences: what linking and unlinking an element does to the set of  *)
(* elements, and that it keeps every element on the list once.  Unlinking   *)
(* from the middle, Minus, is a recursive function; what it computes is     *)
(* proved from the least counterexample (WFMin), which needs no induction   *)
(* rule.                                                                    *)

\* The empty list.
LEMMA EmptyRange == Range(<<>>) = {} /\ IsInjective(<<>>)
BY DEF Range, IsInjective

\* Linking an element at the end of a list.
LEMMA AppendRange ==
    ASSUME NEW S, NEW s \in Seq(S), NEW e \in S
    PROVE  /\ Range(Append(s, e)) = Range(s) \cup {e}
           /\ IsInjective(s) /\ e \notin Range(s) => IsInjective(Append(s, e))
<1> DEFINE n == Len(s)
           a == Append(s, e)
<1>1. /\ n \in Nat /\ DOMAIN s = 1 .. n /\ DOMAIN a = 1 .. n + 1
      /\ \A i \in 1 .. n : a[i] = s[i]
      /\ a[n + 1] = e
  <2>1. a \in Seq(S) /\ Len(a) = n + 1
    BY AppendProperties
  <2> QED  BY <2>1, AppendProperties, LenProperties
<1> HIDE DEF n, a
<1>2. Range(a) = Range(s) \cup {e}
  <2>1. ASSUME NEW x \in Range(a) PROVE x \in Range(s) \cup {e}
    <3>1. PICK i \in 1 .. n + 1 : x = a[i]
      BY <1>1, <2>1 DEF Range
    <3>2. CASE i \in 1 .. n
      BY <1>1, <3>1, <3>2 DEF Range
    <3>3. CASE i = n + 1
      BY <1>1, <3>1, <3>3
    <3> QED  BY <1>1, <3>2, <3>3
  <2>2. ASSUME NEW x \in Range(s) PROVE x \in Range(a)
    <3>1. PICK i \in 1 .. n : x = s[i]
      BY <1>1, <2>2 DEF Range
    <3>2. i \in 1 .. n + 1 /\ x = a[i]
      BY <1>1, <3>1
    <3> QED  BY <1>1, <3>2 DEF Range
  <2>3. e \in Range(a)
    BY <1>1 DEF Range
  <2> QED  BY <2>1, <2>2, <2>3
<1>3. ASSUME IsInjective(s), e \notin Range(s) PROVE IsInjective(a)
  <2> SUFFICES ASSUME NEW i \in 1 .. n + 1, NEW j \in 1 .. n + 1, a[i] = a[j]
               PROVE  i = j
    BY <1>1 DEF IsInjective
  <2>1. \A k \in 1 .. n : a[k] # e
    BY <1>1, <1>3 DEF Range
  <2>2. CASE i \in 1 .. n /\ j \in 1 .. n
    BY <1>1, <1>3, <2>2 DEF IsInjective
  <2>3. CASE i = n + 1 \/ j = n + 1
    BY <1>1, <2>1, <2>3
  <2> QED  BY <1>1, <2>2, <2>3
<1> QED  BY <1>2, <1>3 DEF a

\* Taking the first element off a list.
LEMMA TailRange ==
    ASSUME NEW S, NEW s \in Seq(S), s # <<>>
    PROVE  /\ Head(s) \in S /\ Head(s) = s[1]
           /\ Range(s) = Range(Tail(s)) \cup {Head(s)}
           /\ IsInjective(s) => IsInjective(Tail(s)) /\ Head(s) \notin Range(Tail(s))
<1> DEFINE n == Len(s)
           u == Tail(s)
<1>1. /\ n \in Nat \ {0} /\ DOMAIN s = 1 .. n /\ DOMAIN u = 1 .. n - 1
      /\ \A i \in 1 .. n - 1 : u[i] = s[i + 1]
      /\ Head(s) = s[1] /\ Head(s) \in S
  <2>1. u \in Seq(S) /\ Len(u) = n - 1
    BY HeadTailProperties
  <2>2. n \in Nat \ {0}
    BY EmptySeq
  <2>3. DOMAIN s = 1 .. n /\ DOMAIN u = 1 .. n - 1
    BY <2>1, <2>2, LenProperties
  <2>4. \A i \in 1 .. n - 1 : u[i] = s[i + 1]
    BY <2>1, HeadTailProperties
  <2>5. Head(s) = s[1] /\ Head(s) \in S
    BY HeadTailProperties
  <2> QED  BY <2>2, <2>3, <2>4, <2>5
<1> HIDE DEF n, u
<1>2. Range(s) = Range(u) \cup {Head(s)}
  <2>1. ASSUME NEW x \in Range(s) PROVE x \in Range(u) \cup {Head(s)}
    <3>1. PICK i \in 1 .. n : x = s[i]
      BY <1>1, <2>1 DEF Range
    <3>2. CASE i = 1
      BY <1>1, <3>1, <3>2
    <3>3. CASE i # 1
      <4>1. i - 1 \in 1 .. n - 1 /\ u[i - 1] = s[i]
        BY <1>1, <3>3
      <4> QED  BY <1>1, <3>1, <4>1 DEF Range
    <3> QED  BY <3>2, <3>3
  <2>2. ASSUME NEW x \in Range(u) PROVE x \in Range(s)
    <3>1. PICK i \in 1 .. n - 1 : x = u[i]
      BY <1>1, <2>2 DEF Range
    <3>2. i + 1 \in 1 .. n /\ x = s[i + 1]
      BY <1>1, <3>1
    <3> QED  BY <1>1, <3>2 DEF Range
  <2>3. Head(s) \in Range(s)
    BY <1>1 DEF Range
  <2> QED  BY <2>1, <2>2, <2>3
<1>3. ASSUME IsInjective(s)
      PROVE  IsInjective(u) /\ Head(s) \notin Range(u)
  <2>1. IsInjective(u)
    <3> SUFFICES ASSUME NEW i \in 1 .. n - 1, NEW j \in 1 .. n - 1, u[i] = u[j]
                 PROVE  i = j
      BY <1>1 DEF IsInjective
    <3>1. i + 1 \in 1 .. n /\ j + 1 \in 1 .. n /\ s[i + 1] = s[j + 1]
      BY <1>1
    <3>2. i + 1 = j + 1
      BY <1>1, <1>3, <3>1 DEF IsInjective
    <3> QED  BY <1>1, <3>2
  <2>2. ASSUME NEW i \in 1 .. n - 1 PROVE u[i] # Head(s)
    <3>1. i + 1 \in 1 .. n /\ 1 \in 1 .. n /\ i + 1 # 1
      BY <1>1
    <3> QED  BY <1>1, <1>3, <3>1 DEF IsInjective
  <2> QED  BY <1>1, <2>1, <2>2 DEF Range
<1> QED  BY <1>1, <1>2, <1>3 DEF u

\* One list after another.
LEMMA ConcatRange ==
    ASSUME NEW S, NEW s \in Seq(S), NEW t \in Seq(S)
    PROVE  /\ s \o t \in Seq(S)
           /\ Range(s \o t) = Range(s) \cup Range(t)
           /\ IsInjective(s) /\ IsInjective(t) /\ Range(s) \cap Range(t) = {}
                => IsInjective(s \o t)
<1> DEFINE m == Len(s)
           n == Len(t)
           c == s \o t
<1>1. /\ m \in Nat /\ n \in Nat /\ DOMAIN s = 1 .. m /\ DOMAIN t = 1 .. n
      /\ c \in Seq(S) /\ Len(c) = m + n
  BY LenProperties, ConcatProperties
<1>2. DOMAIN c = 1 .. m + n
  BY <1>1, LenProperties
<1>3. /\ \A i \in 1 .. m : c[i] = s[i] /\ s[i] \in Range(s)
      /\ \A i \in 1 .. n : c[m + i] = t[i] /\ t[i] \in Range(t)
  <2>1. \A i \in 1 .. m + n : c[i] = IF i <= m THEN s[i] ELSE t[i - m]
    BY ConcatProperties
  <2> HIDE DEF m, n, c
  <2>2. \A i \in 1 .. m : c[i] = s[i]
    BY <1>1, <2>1
  <2>3. ASSUME NEW i \in 1 .. n PROVE c[m + i] = t[i]
    <3>1. PICK k \in 1 .. m + n : k = m + i /\ ~(k <= m) /\ k - m = i
      BY <1>1
    <3>2. c[k] = IF k <= m THEN s[k] ELSE t[k - m]
      BY <2>1
    <3>3. c[k] = t[i]
      BY <3>1, <3>2
    <3> QED  BY <3>1, <3>3
  <2> QED  BY <1>1, <2>2, <2>3 DEF Range
<1> HIDE DEF m, n, c
<1>4. ASSUME NEW i \in 1 .. m + n PROVE i \in 1 .. m \/ \E j \in 1 .. n : i = m + j
  <2>1. CASE i \in 1 .. m
    BY <2>1
  <2>2. CASE i \notin 1 .. m
    <3>1. i - m \in 1 .. n /\ i = m + (i - m)
      BY <1>1, <2>2
    <3> QED  BY <3>1
  <2> QED  BY <2>1, <2>2
<1>5. ASSUME NEW x \in Range(c) PROVE x \in Range(s) \cup Range(t)
  <2>1. PICK i \in 1 .. m + n : x = c[i]
    BY <1>2, <1>5 DEF Range
  <2> QED  BY <1>3, <1>4, <2>1
<1>6. ASSUME NEW x \in Range(s) \cup Range(t) PROVE x \in Range(c)
  <2>1. CASE x \in Range(s)
    <3>1. PICK i \in 1 .. m : x = s[i]
      BY <1>1, <2>1 DEF Range
    <3>2. i \in 1 .. m + n /\ x = c[i]
      BY <1>1, <1>3, <3>1
    <3> QED  BY <1>2, <3>2 DEF Range
  <2>2. CASE x \in Range(t)
    <3>1. PICK i \in 1 .. n : x = t[i]
      BY <1>1, <2>2 DEF Range
    <3>2. m + i \in 1 .. m + n /\ x = c[m + i]
      BY <1>1, <1>3, <3>1
    <3> QED  BY <1>2, <3>2 DEF Range
  <2> QED  BY <1>6, <2>1, <2>2
<1>7. ASSUME IsInjective(s), IsInjective(t), Range(s) \cap Range(t) = {}
      PROVE  IsInjective(c)
  <2> SUFFICES ASSUME NEW i \in 1 .. m + n, NEW j \in 1 .. m + n, c[i] = c[j]
               PROVE  i = j
    BY <1>2 DEF IsInjective
  <2>1. CASE i \in 1 .. m /\ j \in 1 .. m
    BY <1>1, <1>3, <1>7, <2>1 DEF IsInjective
  <2>2. CASE i \notin 1 .. m /\ j \notin 1 .. m
    <3>1. PICK a \in 1 .. n : i = m + a
      BY <1>4, <2>2
    <3>2. PICK b \in 1 .. n : j = m + b
      BY <1>4, <2>2
    <3>3. t[a] = t[b]
      BY <1>3, <3>1, <3>2
    <3>4. a = b
      BY <1>1, <1>7, <3>3 DEF IsInjective
    <3> QED  BY <3>1, <3>2, <3>4
  <2>3. CASE (i \in 1 .. m) # (j \in 1 .. m)
    BY <1>3, <1>4, <1>7, <2>3
  <2> QED  BY <2>1, <2>2, <2>3
<1>8. Range(c) = Range(s) \cup Range(t)
  BY <1>5, <1>6
<1> QED  BY <1>1, <1>7, <1>8 DEF c

\* A part of a list.
LEMMA SubSeqRange ==
    ASSUME NEW S, NEW s \in Seq(S), NEW m \in 1 .. Len(s) + 1
    PROVE  /\ SubSeq(s, m, Len(s)) \in Seq(S)
           /\ Range(SubSeq(s, m, Len(s))) \subseteq Range(s)
           /\ IsInjective(s) => IsInjective(SubSeq(s, m, Len(s)))
<1> DEFINE n == Len(s)
           u == SubSeq(s, m, n)
<1>1. n \in Nat /\ DOMAIN s = 1 .. n /\ \A i \in 1 .. n : s[i] \in S
  BY LenProperties, ElementOfSeq
<1>2. \A i \in m .. n : s[i] \in S
  BY <1>1
<1>3. /\ u \in Seq(S) /\ Len(u) = (IF m <= n THEN n - m + 1 ELSE 0)
      /\ \A i \in 1 .. n - m + 1 : u[i] = s[m + i - 1]
  BY <1>1, <1>2, SubSeqProperties
<1> HIDE DEF n, u
<1>4. DOMAIN u = 1 .. n - m + 1
  <2>1. DOMAIN u = 1 .. Len(u)
    BY <1>3, LenProperties
  <2>2. Len(u) = n - m + 1
    BY <1>1, <1>3 DEF n
  <2> QED  BY <2>1, <2>2
<1>5. \A i \in 1 .. n - m + 1 : m + i - 1 \in 1 .. n
  BY <1>1 DEF n
<1>6. Range(u) \subseteq Range(s)
  BY <1>1, <1>3, <1>4, <1>5 DEF Range
<1>7. ASSUME IsInjective(s), NEW i \in 1 .. n - m + 1, NEW j \in 1 .. n - m + 1, u[i] = u[j]
      PROVE  i = j
  <2>1. s[m + i - 1] = s[m + j - 1]
    BY <1>3, <1>7
  <2>2. m + i - 1 = m + j - 1
    BY <1>1, <1>5, <1>7, <2>1 DEF IsInjective
  <2> QED  BY <1>1, <2>2
<1>8. IsInjective(s) => IsInjective(u)
  BY <1>4, <1>7 DEF IsInjective
<1> QED  BY <1>3, <1>6, <1>8 DEF n, u

\* A set of natural numbers with an element has a least one.
LEMMA LeastNat ==
    ASSUME NEW T \in SUBSET Nat, T # {}
    PROVE  \E n \in T : \A k \in T : n <= k
<1> DEFINE R == {ss \in Nat \X Nat : ss[1] < ss[2]}
<1>1. IsWellFoundedOn(R, Nat)
  BY NatLessThanWellFounded DEF OpToRel
<1>2. PICK x \in T : \A y \in T : ~(<<y, x>> \in R)
  BY <1>1, WFMin, Zenon
<1>3. ASSUME NEW y \in T PROVE x <= y
  <2>1. x \in Nat /\ y \in Nat
    OBVIOUS
  <2>2. ~(<<y, x>> \in R)
    BY <1>2
  <2>3. ~(y < x)
    BY <2>1, <2>2
  <2> QED  BY <2>1, <2>3
<1> QED  BY <1>3

\* What of the first i elements of s is not in T, for each i.
KeptOf(g, S, s, T) ==
    /\ g \in [0 .. Len(s) -> Seq(S)]
    /\ g[0] = <<>>
    /\ \A i \in 1 .. Len(s) :
          g[i] = IF s[i] \in T THEN g[i - 1] ELSE Append(g[i - 1], s[i])

\* The function by which Minus is defined satisfies its equation.
LEMMA MinusDefined ==
    ASSUME NEW S, NEW s \in Seq(S), NEW T
    PROVE  \E g : KeptOf(g, S, s, T) /\ Minus(s, T) = g[Len(s)]
<1> DEFINE N == Len(s)
           Rule(g, n) == /\ g \in [0 .. n -> Seq(S)]
                         /\ g[0] = <<>>
                         /\ \A i \in 1 .. n :
                               g[i] = IF s[i] \in T THEN g[i - 1]
                                      ELSE Append(g[i - 1], s[i])
           Bad == {n \in 0 .. N : ~\E g : Rule(g, n)}
<1>1. N \in Nat /\ \A i \in 1 .. N : s[i] \in S
  BY LenProperties, ElementOfSeq
<1>2. Bad = {}
  <2> SUFFICES ASSUME Bad # {} PROVE FALSE
    OBVIOUS
  <2>1. PICK n \in Bad : \A k \in Bad : n <= k
    <3>1. Bad \in SUBSET Nat
      BY <1>1
    <3> HIDE DEF Bad
    <3> QED  BY <3>1, LeastNat
  <2>2. CASE n = 0
    <3> DEFINE g == [i \in 0 .. 0 |-> <<>>]
    <3>1. Rule(g, 0)
      BY EmptySeq
    <3> QED  BY <2>2, <3>1
  <2>3. CASE n # 0
    <3>1. n \in 1 .. N /\ n - 1 \in 0 .. N /\ n - 1 \notin Bad
      <4>1. n \in 0 .. N
        OBVIOUS
      <4> HIDE DEF Bad
      <4> QED  BY <1>1, <2>1, <2>3, <4>1
    <3>2. PICK f : Rule(f, n - 1)
      <4> HIDE DEF Rule
      <4> QED  BY <3>1
    <3> DEFINE last == IF s[n] \in T THEN f[n - 1] ELSE Append(f[n - 1], s[n])
               g == [i \in 0 .. n |-> IF i = n THEN last ELSE f[i]]
    <3>3. last \in Seq(S)
      BY <1>1, <3>1, <3>2, AppendProperties
    <3>4. g \in [0 .. n -> Seq(S)]
      <4> HIDE DEF last
      <4> QED  BY <1>1, <3>1, <3>2, <3>3
    <3>5. g[0] = <<>>
      BY <1>1, <3>1, <3>2
    <3>6. ASSUME NEW i \in 1 .. n
          PROVE  g[i] = IF s[i] \in T THEN g[i - 1] ELSE Append(g[i - 1], s[i])
      <4>1. CASE i = n
        <5>1. g[i] = last /\ g[i - 1] = f[n - 1]
          BY <1>1, <3>1, <4>1
        <5> QED  BY <4>1, <5>1
      <4>2. CASE i # n
        <5>1. i \in 1 .. n - 1 /\ i - 1 \in 0 .. n /\ i - 1 # n /\ i \in 0 .. n
          BY <1>1, <3>1, <4>2
        <5>2. g[i] = f[i] /\ g[i - 1] = f[i - 1]
          BY <4>2, <5>1
        <5> QED  BY <3>2, <5>1, <5>2
      <4> QED  BY <4>1, <4>2
    <3>7. Rule(g, n)
      BY <3>4, <3>5, <3>6
    <3> QED  BY <2>1, <3>7
  <2> QED  BY <2>2, <2>3
<1>3. PICK g : Rule(g, N)
  <2>1. N \in 0 .. N
    BY <1>1
  <2> HIDE DEF Rule, N
  <2> QED  BY <1>2, <2>1
<1> DEFINE Eq(h) == h = [i \in 0 .. N |->
                            IF i = 0 THEN <<>>
                            ELSE IF s[i] \in T THEN h[i - 1] ELSE Append(h[i - 1], s[i])]
           kept == CHOOSE h : Eq(h)
<1>4. Eq(g)
  <2>1. ASSUME NEW i \in 0 .. N
        PROVE  g[i] = IF i = 0 THEN <<>>
                      ELSE IF s[i] \in T THEN g[i - 1] ELSE Append(g[i - 1], s[i])
    <3>1. CASE i = 0
      BY <1>3, <3>1
    <3>2. CASE i # 0
      <4>1. i \in 1 .. N
        BY <1>1, <3>2
      <4> QED  BY <1>3, <3>2, <4>1
    <3> QED  BY <3>1, <3>2
  <2> QED  BY <1>3, <2>1
<1>5. Eq(kept)
  BY <1>4
<1>6. Minus(s, T) = kept[N]
  BY DEF Minus
<1> HIDE DEF kept
<1>7. /\ DOMAIN kept = 0 .. N /\ kept[0] = <<>>
      /\ \A i \in 1 .. N :
            kept[i] = IF s[i] \in T THEN kept[i - 1] ELSE Append(kept[i - 1], s[i])
  <2> DEFINE V(i) == IF i = 0 THEN <<>>
                     ELSE IF s[i] \in T THEN kept[i - 1] ELSE Append(kept[i - 1], s[i])
  <2>1. kept = [i \in 0 .. N |-> V(i)]
    BY <1>5
  <2>2. DOMAIN kept = 0 .. N /\ \A i \in 0 .. N : kept[i] = V(i)
    <3> HIDE DEF V
    <3> QED  BY <2>1
  <2>3. V(0) = <<>> /\ \A i \in 1 .. N :
            V(i) = IF s[i] \in T THEN kept[i - 1] ELSE Append(kept[i - 1], s[i])
    BY <1>1
  <2>4. kept[0] = <<>>
    <3>1. 0 \in 0 .. N
      BY <1>1
    <3> HIDE DEF V
    <3> QED  BY <2>2, <2>3, <3>1
  <2>5. ASSUME NEW i \in 1 .. N
        PROVE  kept[i] = IF s[i] \in T THEN kept[i - 1] ELSE Append(kept[i - 1], s[i])
    <3>1. i \in 0 .. N
      BY <1>1
    <3>2. kept[i] = V(i)
      BY <2>2, <3>1
    <3> HIDE DEF V
    <3> QED  BY <2>3, <3>2
  <2> QED  BY <2>2, <2>4, <2>5
<1>8. \A i \in 0 .. N : kept[i] \in Seq(S)
  <2> DEFINE Odd == {i \in 0 .. N : kept[i] \notin Seq(S)}
  <2> SUFFICES ASSUME Odd # {} PROVE FALSE
    OBVIOUS
  <2>1. PICK n \in Odd : \A k \in Odd : n <= k
    <3>1. Odd \in SUBSET Nat
      BY <1>1
    <3> HIDE DEF Odd
    <3> QED  BY <3>1, LeastNat
  <2>2. n # 0
    BY <1>7, EmptySeq
  <2>3. n \in 1 .. N /\ n - 1 \in 0 .. N /\ n - 1 \notin Odd
    BY <1>1, <2>1, <2>2
  <2>4. kept[n] \in Seq(S)
    <3>1. kept[n - 1] \in Seq(S) /\ s[n] \in S
      BY <1>1, <2>3
    <3>2. Append(kept[n - 1], s[n]) \in Seq(S)
      BY <3>1, AppendProperties
    <3>3. kept[n] = kept[n - 1] \/ kept[n] = Append(kept[n - 1], s[n])
      BY <1>7, <2>3
    <3> QED  BY <3>1, <3>2, <3>3
  <2> QED  BY <2>4
<1>9. kept \in [0 .. N -> Seq(S)]
  BY <1>5, <1>8
<1>10. KeptOf(kept, S, s, T)
  BY <1>7, <1>9 DEF KeptOf
<1> QED  BY <1>6, <1>10

\* Unlinking keeps the other elements, each once and in a place of its own: Minus(s, T)
\* is s at the positions h.
LEMMA MinusFacts ==
    ASSUME NEW S, NEW s \in Seq(S), NEW T
    PROVE  /\ Minus(s, T) \in Seq(S)
           /\ Range(Minus(s, T)) = Range(s) \ T
           /\ \E h \in [1 .. Len(Minus(s, T)) -> 1 .. Len(s)] :
                 /\ \A a, b \in 1 .. Len(Minus(s, T)) : h[a] = h[b] => a = b
                 /\ \A a \in 1 .. Len(Minus(s, T)) : Minus(s, T)[a] = s[h[a]]
<1> DEFINE N == Len(s)
<1>0. PICK g : KeptOf(g, S, s, T) /\ Minus(s, T) = g[Len(s)]
  BY MinusDefined
<1>1. /\ g \in [0 .. N -> Seq(S)]
      /\ g[0] = <<>>
      /\ \A i \in 1 .. N :
            g[i] = IF s[i] \in T THEN g[i - 1] ELSE Append(g[i - 1], s[i])
      /\ Minus(s, T) = g[N]
  BY <1>0 DEF KeptOf
<1>2. N \in Nat /\ DOMAIN s = 1 .. N /\ \A i \in 1 .. N : s[i] \in S
  BY LenProperties, ElementOfSeq
<1> HIDE DEF N
<1> DEFINE Kept(n) == Range(g[n]) = {s[j] : j \in 1 .. n} \ T
           Embeds(n, h) == /\ h \in [1 .. Len(g[n]) -> 1 .. n]
                           /\ \A a, b \in 1 .. Len(g[n]) : h[a] = h[b] => a = b
                           /\ \A a \in 1 .. Len(g[n]) : g[n][a] = s[h[a]]
           Good(n) == Kept(n) /\ \E h : Embeds(n, h)
           Bad == {n \in 0 .. N : ~Good(n)}
<1>3. Good(0)
  <2>1. g[0] = <<>> /\ Len(g[0]) = 0
    BY <1>1, EmptySeq
  <2>2. Kept(0)
    BY <2>1, EmptyRange
  <2>3. Embeds(0, <<>>)
    BY <2>1
  <2> HIDE DEF Kept, Embeds
  <2> QED  BY <2>2, <2>3
<1>4. ASSUME NEW n \in 1 .. N, Good(n - 1) PROVE Good(n)
  <2>1. /\ n \in 0 .. N /\ n - 1 \in 0 .. N /\ s[n] \in S
        /\ g[n] \in Seq(S) /\ g[n - 1] \in Seq(S)
        /\ g[n] = IF s[n] \in T THEN g[n - 1] ELSE Append(g[n - 1], s[n])
    BY <1>1, <1>2
  <2>2. PICK h : Embeds(n - 1, h)
    BY <1>4
  <2>3. {s[j] : j \in 1 .. n} = {s[j] : j \in 1 .. n - 1} \cup {s[n]}
    <3>1. \A j : j \in 1 .. n <=> j \in 1 .. n - 1 \/ j = n
      BY <1>2
    <3> QED  BY <3>1
  <2>4. CASE s[n] \in T
    <3>1. g[n] = g[n - 1]
      BY <2>1, <2>4
    <3>2. Kept(n)
      BY <1>4, <2>3, <2>4, <3>1
    <3>3. Embeds(n, h)
      <4>1. \A a \in 1 .. Len(g[n]) : h[a] \in 1 .. n
        BY <1>2, <2>2, <3>1
      <4> QED  BY <2>2, <3>1, <4>1
    <3> HIDE DEF Kept, Embeds
    <3> QED  BY <3>2, <3>3
  <2>5. CASE s[n] \notin T
    <3> DEFINE m == Len(g[n - 1])
               f == [a \in 1 .. m + 1 |-> IF a = m + 1 THEN n ELSE h[a]]
    <3>1. g[n] = Append(g[n - 1], s[n])
      BY <2>1, <2>5
    <3>2. /\ m \in Nat /\ Len(g[n]) = m + 1 /\ g[n][m + 1] = s[n]
          /\ \A a \in 1 .. m : g[n][a] = g[n - 1][a]
      BY <2>1, <3>1, AppendProperties, LenProperties
    <3>3. Kept(n)
      <4>1. Range(g[n]) = Range(g[n - 1]) \cup {s[n]}
        BY <2>1, <3>1, AppendRange
      <4> QED  BY <1>4, <2>3, <2>5, <4>1
    <3> HIDE DEF m
    <3>4. /\ h \in [1 .. m -> 1 .. n - 1]
          /\ \A a, b \in 1 .. m : h[a] = h[b] => a = b
          /\ \A a \in 1 .. m : g[n - 1][a] = s[h[a]]
      BY <2>2 DEF m
    <3>5. /\ f \in [1 .. m + 1 -> 1 .. n]
          /\ \A a, b \in 1 .. m + 1 : f[a] = f[b] => a = b
          /\ \A a \in 1 .. m + 1 : g[n][a] = s[f[a]]
      <4>1. \A a \in 1 .. m + 1 : a = m + 1 \/ a \in 1 .. m
        BY <3>2
      <4>2. \A a \in 1 .. m : h[a] \in 1 .. n - 1 /\ f[a] = h[a] /\ f[a] # n
        BY <1>2, <3>2, <3>4
      <4>3. f[m + 1] = n
        BY <3>2
      <4>4. f \in [1 .. m + 1 -> 1 .. n]
        BY <1>2, <3>2, <3>4, <4>1, <4>2
      <4> HIDE DEF f
      <4>5. ASSUME NEW a \in 1 .. m + 1, NEW b \in 1 .. m + 1, f[a] = f[b] PROVE a = b
        <5>1. CASE a = m + 1
          BY <4>1, <4>2, <4>3, <4>5, <5>1
        <5>2. CASE b = m + 1
          BY <4>1, <4>2, <4>3, <4>5, <5>2
        <5>3. CASE a \in 1 .. m /\ b \in 1 .. m
          BY <3>4, <4>2, <4>5, <5>3
        <5> QED  BY <4>1, <5>1, <5>2, <5>3
      <4>6. ASSUME NEW a \in 1 .. m + 1 PROVE g[n][a] = s[f[a]]
        <5>1. CASE a = m + 1
          BY <3>2, <4>3, <5>1
        <5>2. CASE a \in 1 .. m
          BY <3>2, <3>4, <4>2, <5>2
        <5> QED  BY <4>1, <5>1, <5>2
      <4> QED  BY <4>4, <4>5, <4>6
    <3>6. Embeds(n, f)
      BY <3>2, <3>5
    <3> HIDE DEF Kept, Embeds
    <3> QED  BY <3>3, <3>6
  <2> QED  BY <2>4, <2>5
<1>5. Bad = {}
  <2> SUFFICES ASSUME Bad # {} PROVE FALSE
    OBVIOUS
  <2> HIDE DEF Good
  <2>1. PICK n \in Bad : \A k \in Bad : n <= k
    <3>1. Bad \in SUBSET Nat
      BY <1>2
    <3> HIDE DEF Bad
    <3> QED  BY <3>1, LeastNat
  <2>2. n # 0
    BY <1>3
  <2>3. n \in 0 .. N
    OBVIOUS
  <2>4. n \in 1 .. N /\ n - 1 \in 0 .. N /\ n - 1 \notin Bad
    <3> HIDE DEF Bad
    <3> QED  BY <1>2, <2>1, <2>2, <2>3
  <2>5. Good(n - 1)
    BY <2>4
  <2> QED  BY <1>4, <2>4, <2>5
<1>6. Good(N)
  <2> HIDE DEF Good
  <2>1. N \in 0 .. N
    BY <1>2
  <2> QED  BY <1>5, <2>1
<1>7. Range(s) = {s[j] : j \in 1 .. N}
  BY <1>2 DEF Range
<1>8. g[N] \in Seq(S)
  BY <1>1, <1>2
<1>9. PICK h : Embeds(N, h)
  BY <1>6
<1>10. PICK z : z = Minus(s, T)
  OBVIOUS
<1>11. /\ z \in Seq(S) /\ Range(z) = Range(s) \ T /\ h \in [1 .. Len(z) -> 1 .. N]
       /\ \A a, b \in 1 .. Len(z) : h[a] = h[b] => a = b
       /\ \A a \in 1 .. Len(z) : z[a] = s[h[a]]
  BY <1>1, <1>6, <1>7, <1>8, <1>9, <1>10
<1> QED  BY <1>10, <1>11 DEF N

\* Unlinking from a list without repetitions leaves none.
LEMMA MinusInjective ==
    ASSUME NEW S, NEW s \in Seq(S), NEW T, IsInjective(s)
    PROVE  IsInjective(Minus(s, T))
<1> DEFINE r == Minus(s, T)
<1>1. PICK h \in [1 .. Len(r) -> 1 .. Len(s)] :
         /\ \A a, b \in 1 .. Len(r) : h[a] = h[b] => a = b
         /\ \A a \in 1 .. Len(r) : r[a] = s[h[a]]
  BY MinusFacts
<1>2. DOMAIN r = 1 .. Len(r) /\ DOMAIN s = 1 .. Len(s)
  BY MinusFacts, LenProperties
<1> HIDE DEF r
<1>3. ASSUME NEW a \in 1 .. Len(r), NEW b \in 1 .. Len(r), r[a] = r[b] PROVE a = b
  <2>1. s[h[a]] = s[h[b]] /\ h[a] \in 1 .. Len(s) /\ h[b] \in 1 .. Len(s)
    BY <1>1, <1>3
  <2>2. h[a] = h[b]
    BY <1>2, <2>1 DEF IsInjective
  <2> QED  BY <1>1, <2>2
<1>4. IsInjective(r)
  BY <1>2, <1>3 DEF IsInjective
<1> QED  BY <1>4 DEF r

\* Nothing can be unlinked from the empty list.
LEMMA MinusEmpty == ASSUME NEW T PROVE Minus(<<>>, T) = <<>>
<1>1. \A s \in Seq({}) : Minus(s, T) \in Seq({}) /\ Range(Minus(s, T)) = Range(s) \ T
  BY MinusFacts
<1>2. <<>> \in Seq({}) /\ Range(<<>>) = {}
  BY EmptySeq, EmptyRange
<1>3. Minus(<<>>, T) \in Seq({}) /\ Range(Minus(<<>>, T)) = {}
  BY <1>1, <1>2
<1>4. ASSUME Minus(<<>>, T) # <<>> PROVE FALSE
  BY <1>3, <1>4, TailRange
<1> QED  BY <1>4

\* Where the iteration is, or will be when the running handler returns.
At == IF phase = "handler" THEN back ELSE phase

\* What the phases of ngx_process_events_and_timers leave to the next ones.
Iteration ==
    /\ phase = "handler" => back \in {"entry", "write", "accept", "timers", "posted"}
    /\ posting => phase = "entry"
    /\ At = "write" => list # <<>>
    /\ At \in {"timers", "posted", "wait"} => acceptQ = <<>>
    /\ At = "wait" => postedQ = <<>>

\* The instance bit is the parity of the uses of its slot; entries that will be
\* posted were reported for the present use.
Generations ==
    /\ \A s \in Slot : instance[s] = gen[s] % 2
    /\ \A x \in Range(list) : x.instance = x.gen % 2
    /\ posting => \A x \in Range(list) : open[x.slot] /\ x.gen = gen[x.slot]

\* No event is twice on a queue.
Once(q) == \A i, j \in DOMAIN q : q[i].ev = q[j].ev => i = j

\* What is queued on q is for the present use of its slot.
Fresh(q) == \A x \in Range(q) : open[x.ev[1]] /\ x.gen = gen[x.ev[1]]

QueuesCurrent ==
    /\ Fresh(acceptQ) /\ Fresh(postedQ)
    /\ Once(acceptQ) /\ Once(postedQ)
    /\ QueuedEvents(acceptQ) \cap QueuedEvents(postedQ) = {}

\* An event marked ready is queued until its handler runs, but for the write events
\* of CppEpollHandler, which queues the read event instead.
OwedQueued ==
    \A e \in owed : \/ module = "cpp_epoll" /\ e[2] = "w"
                    \/ e \in QueuedEvents(acceptQ) \cup QueuedEvents(postedQ)

Slots  == KernelAgrees /\ SlotAccounting
Queues == Iteration /\ Generations /\ QueuesCurrent /\ OwedQueued
EpollInv == TypeOK /\ Slots /\ Queues

-----------------------------------------------------------------------------
(* The posted queues.                                                      *)

\* Removing the events of closed connections from a queue.
LEMMA WithoutFacts ==
    ASSUME NEW q \in Seq(Queued), NEW S
    PROVE  /\ Without(q, S) \in Seq(Queued)
           /\ Range(Without(q, S)) = {x \in Range(q) : x.ev \notin S}
           /\ QueuedEvents(Without(q, S)) = QueuedEvents(q) \ S
           /\ Once(q) => Once(Without(q, S))
           /\ q = <<>> => Without(q, S) = <<>>
<1> DEFINE T == {x \in Range(q) : x.ev \in S}
           r == Minus(q, T)
<1>1. Without(q, S) = r
  BY DEF Without
<1> HIDE DEF T
<1>2. r \in Seq(Queued) /\ Range(r) = Range(q) \ T
  BY MinusFacts
<1>3. PICK h \in [1 .. Len(r) -> 1 .. Len(q)] :
         /\ \A a, b \in 1 .. Len(r) : h[a] = h[b] => a = b
         /\ \A a \in 1 .. Len(r) : r[a] = q[h[a]]
  BY MinusFacts
<1>4. DOMAIN r = 1 .. Len(r) /\ DOMAIN q = 1 .. Len(q)
  BY <1>2, LenProperties
<1>5. q = <<>> => r = <<>>
  BY MinusEmpty
<1> HIDE DEF r
<1>6. Range(r) = {x \in Range(q) : x.ev \notin S}
  BY <1>2 DEF T
<1>7. QueuedEvents(r) = QueuedEvents(q) \ S
  BY <1>6 DEF QueuedEvents
<1>8. ASSUME Once(q), NEW a \in 1 .. Len(r), NEW b \in 1 .. Len(r), r[a].ev = r[b].ev
      PROVE  a = b
  <2>1. q[h[a]].ev = q[h[b]].ev /\ h[a] \in 1 .. Len(q) /\ h[b] \in 1 .. Len(q)
    BY <1>3, <1>8
  <2>2. h[a] = h[b]
    BY <1>4, <1>8, <2>1 DEF Once
  <2> QED  BY <1>3, <2>2
<1>9. Once(q) => Once(r)
  BY <1>4, <1>8 DEF Once
<1> QED  BY <1>1, <1>2, <1>5, <1>6, <1>7, <1>9

\* Taking the first event off a queue.
LEMMA QueueTail ==
    ASSUME NEW q \in Seq(Queued), q # <<>>, Once(q)
    PROVE  /\ Tail(q) \in Seq(Queued) /\ Head(q) \in Queued /\ Head(q) \in Range(q)
           /\ Range(Tail(q)) \subseteq Range(q)
           /\ QueuedEvents(Tail(q)) = QueuedEvents(q) \ {Head(q).ev}
           /\ Once(Tail(q))
<1> DEFINE n == Len(q)
           u == Tail(q)
<1>1. /\ u \in Seq(Queued) /\ Head(q) \in Queued /\ Len(u) = n - 1 /\ n \in Nat \ {0}
      /\ \A i \in 1 .. n - 1 : u[i] = q[i + 1]
  BY HeadTailProperties, EmptySeq
<1>2. Range(q) = Range(u) \cup {Head(q)} /\ Head(q) = q[1]
  BY TailRange
<1>3. DOMAIN q = 1 .. n /\ DOMAIN u = 1 .. n - 1
  BY <1>1, LenProperties
<1> HIDE DEF n, u
<1>4. ASSUME NEW i \in 1 .. n - 1, NEW j \in 1 .. n - 1, u[i].ev = u[j].ev PROVE i = j
  <2>1. i + 1 \in 1 .. n /\ j + 1 \in 1 .. n /\ q[i + 1].ev = q[j + 1].ev
    BY <1>1, <1>4
  <2>2. i + 1 = j + 1
    BY <1>3, <2>1 DEF Once
  <2> QED  BY <2>2
<1>5. ASSUME NEW i \in 1 .. n - 1 PROVE u[i].ev # Head(q).ev
  <2>1. i + 1 \in 1 .. n /\ 1 \in 1 .. n /\ i + 1 # 1
    BY <1>1
  <2>2. q[i + 1].ev # q[1].ev
    BY <1>3, <2>1 DEF Once
  <2> QED  BY <1>1, <1>2, <2>2
<1>6. \A x \in Range(u) : x.ev # Head(q).ev
  BY <1>3, <1>5 DEF Range
<1>7. QueuedEvents(u) = QueuedEvents(q) \ {Head(q).ev}
  BY <1>2, <1>6 DEF QueuedEvents
<1>8. Once(u)
  BY <1>3, <1>4 DEF Once
<1> QED  BY <1>1, <1>2, <1>7, <1>8 DEF u

\* ngx_post_event.
LEMMA PostToFacts ==
    ASSUME NEW q \in Seq(Queued), NEW e \in Event, NEW g \in 0 .. MaxGen, NEW A,
           QueuedEvents(q) \subseteq A, Once(q)
    PROVE  /\ PostTo(q, e, g, A) \in Seq(Queued)
           /\ QueuedEvents(PostTo(q, e, g, A)) = QueuedEvents(q) \cup ({e} \ A)
           /\ Range(PostTo(q, e, g, A)) \subseteq Range(q) \cup {[ev |-> e, gen |-> g]}
           /\ Once(PostTo(q, e, g, A))
<1>1. CASE e \in A
  BY <1>1 DEF PostTo
<1>2. CASE e \notin A
  <2> DEFINE x == [ev |-> e, gen |-> g]
             a == Append(q, x)
             n == Len(q)
  <2>1. x \in Queued /\ x.ev = e
    BY DEF Queued
  <2> HIDE DEF x
  <2>2. PostTo(q, e, g, A) = a
    BY <1>2 DEF PostTo, x
  <2>3. Range(a) = Range(q) \cup {x}
    BY <2>1, AppendRange
  <2>4. /\ a \in Seq(Queued) /\ Len(a) = n + 1 /\ n \in Nat /\ DOMAIN q = 1 .. n
        /\ \A i \in 1 .. n : a[i] = q[i]
        /\ a[n + 1] = x
    BY <2>1, AppendProperties, LenProperties
  <2>5. DOMAIN a = 1 .. n + 1
    BY <2>4, LenProperties
  <2> HIDE DEF a, n
  <2>6. QueuedEvents(a) = QueuedEvents(q) \cup {e}
    BY <2>1, <2>3 DEF QueuedEvents
  <2>7. \A i \in 1 .. n : q[i].ev # e
    BY <1>2, <2>4 DEF QueuedEvents, Range
  <2>8. ASSUME NEW i \in 1 .. n + 1, NEW j \in 1 .. n + 1, a[i].ev = a[j].ev PROVE i = j
    <3>1. CASE i \in 1 .. n /\ j \in 1 .. n
      BY <2>4, <2>8, <3>1 DEF Once
    <3>2. CASE i = n + 1 \/ j = n + 1
      BY <2>1, <2>4, <2>7, <2>8, <3>2
    <3> QED  BY <2>4, <3>1, <3>2
  <2>9. Once(a)
    BY <2>5, <2>8 DEF Once
  <2> QED  BY <1>2, <2>2, <2>3, <2>4, <2>6, <2>9 DEF x
<1> QED  BY <1>1, <1>2

-----------------------------------------------------------------------------
(* Registration: add, del, add_conn and del_conn.                          *)

\* They change only the flags and what the kernel knows.
LEMMA RegistrationFrame ==
    ASSUME EpollInv,
           UNCHANGED <<open, instance, free, reusable, gen, queueVars, loopVars, owed>>,
           active' \in [Event -> BOOLEAN], interest' \in [Slot -> SUBSET Dir],
           regInst' \in [Slot -> {0, 1}], KernelAgrees'
    PROVE  EpollInv'
<1> USE DEF queueVars, loopVars
<1>1. TypeOK'
  BY DEF EpollInv, TypeOK
<1>2. SlotAccounting'
  BY DEF EpollInv, Slots, SlotAccounting
<1>3. Iteration' /\ Generations'
  BY DEF EpollInv, Queues, Iteration, Generations, At
<1>4. QueuesCurrent' /\ OwedQueued'
  BY DEF EpollInv, Queues, QueuesCurrent, OwedQueued, Fresh, Once, QueuedEvents
<1> QED  BY <1>1, <1>2, <1>3, <1>4 DEF EpollInv, Slots, Queues

\* The flag that add or del changes, and the kernel's interest it asks for.
LEMMA OneEvent ==
    ASSUME EpollInv, NEW s \in Slot, NEW d \in Dir, NEW on \in BOOLEAN,
           NEW op \in {"ADD", "MOD", "DEL"}, NEW dirs \in SUBSET Dir, open[s],
           active' = [active EXCEPT ![<<s, d>>] = on], EpollCtl(op, s, dirs),
           dirs = {c \in Dir : IF c = d THEN on ELSE active[<<s, c>>]},
           (op = "DEL") => dirs = {},
           UNCHANGED <<open, instance>>
    PROVE  /\ active' \in [Event -> BOOLEAN] /\ interest' \in [Slot -> SUBSET Dir]
           /\ regInst' \in [Slot -> {0, 1}] /\ KernelAgrees'
<1>0. TypeOK /\ KernelAgrees
  BY DEF EpollInv, Slots
<1>1. active' \in [Event -> BOOLEAN] /\ interest' \in [Slot -> SUBSET Dir]
      /\ regInst' \in [Slot -> {0, 1}]
  BY <1>0 DEF TypeOK, EpollCtl
<1>2. \A x \in Slot, c \in Dir :
         active'[<<x, c>>] = IF x = s /\ c = d THEN on ELSE active[<<x, c>>]
  BY <1>0 DEF TypeOK, Event
<1>3. \A x \in Slot : /\ interest'[x] = IF x = s THEN dirs ELSE interest[x]
                      /\ regInst'[x] = IF x = s /\ op # "DEL" THEN instance[s] ELSE regInst[x]
  BY <1>0 DEF TypeOK, EpollCtl
<1>4. ASSUME NEW x \in Slot
      PROVE  /\ interest'[x] = {c \in Dir : active'[<<x, c>>]}
             /\ interest'[x] # {} => open'[x] /\ regInst'[x] = instance'[x]
  <2>1. CASE x = s
    <3>1. interest'[s] = dirs /\ \A c \in Dir : active'[<<s, c>>] = IF c = d THEN on ELSE active[<<s, c>>]
      BY <1>2, <1>3
    <3>2. dirs # {} => op # "DEL" /\ regInst'[s] = instance[s]
      BY <1>3
    <3>3. dirs = {c \in Dir : active'[<<s, c>>]}
      BY <3>1
    <3> QED  BY <2>1, <3>1, <3>2, <3>3
  <2>2. CASE x # s
    <3>1. /\ interest[x] = {c \in Dir : active[<<x, c>>]}
          /\ interest[x] # {} => open[x] /\ regInst[x] = instance[x]
      BY <1>0 DEF KernelAgrees, Registered
    <3>2. \A c \in Dir : active'[<<x, c>>] = active[<<x, c>>]
      BY <1>2, <2>2
    <3>3. interest'[x] = interest[x] /\ regInst'[x] = regInst[x]
      BY <1>3, <2>2
    <3> QED  BY <3>1, <3>2, <3>3
  <2> QED  BY <2>1, <2>2
<1> QED  BY <1>1, <1>4 DEF KernelAgrees, Registered

\* add: MOD is chosen exactly when the kernel watches the descriptor already.
LEMMA AddInv ==
    ASSUME EpollInv, NEW s \in Slot, NEW d \in Dir, Add(s, d)
    PROVE  EpollInv'
<1>0. /\ open[s] /\ active' = [active EXCEPT ![<<s, d>>] = TRUE]
      /\ UNCHANGED <<open, instance, free, reusable, gen, queueVars, loopVars, owed>>
  BY DEF Add, MayRegister
<1>1. interest[s] = {c \in Dir : active[<<s, c>>]} /\ TypeOK
  BY DEF EpollInv, Slots, KernelAgrees
<1>2. \A c \in Dir : c = d \/ c = Other(d)
  BY DEF Dir, Other
<1>3. CASE active[<<s, Other(d)>>]
  <2>1. EpollCtl("MOD", s, Dir)
    BY <1>3 DEF Add
  <2>2. Dir = {c \in Dir : IF c = d THEN TRUE ELSE active[<<s, c>>]}
    BY <1>2, <1>3
  <2> QED  BY <1>0, <2>1, <2>2, OneEvent, RegistrationFrame
<1>4. CASE ~active[<<s, Other(d)>>]
  <2>1. EpollCtl("ADD", s, {d})
    BY <1>4 DEF Add
  <2>2. {d} = {c \in Dir : IF c = d THEN TRUE ELSE active[<<s, c>>]}
    BY <1>2, <1>4
  <2> QED  BY <1>0, <2>1, <2>2, OneEvent, RegistrationFrame
<1> QED  BY <1>3, <1>4

\* del: the descriptor is dropped when the other event is not active either.
LEMMA DelInv ==
    ASSUME EpollInv, NEW s \in Slot, NEW d \in Dir, Del(s, d)
    PROVE  EpollInv'
<1>0. /\ open[s] /\ active' = [active EXCEPT ![<<s, d>>] = FALSE]
      /\ UNCHANGED <<open, instance, free, reusable, gen, queueVars, loopVars, owed>>
  BY DEF Del, MayRegister
<1>1. \A c \in Dir : c = d \/ c = Other(d)
  BY DEF Dir, Other
<1>2. Other(d) \in Dir /\ Other(d) # d
  BY DEF Dir, Other
<1>3. CASE active[<<s, Other(d)>>]
  <2>1. EpollCtl("MOD", s, {Other(d)})
    BY <1>3 DEF Del
  <2>2. {Other(d)} = {c \in Dir : IF c = d THEN FALSE ELSE active[<<s, c>>]}
    BY <1>1, <1>2, <1>3
  <2> QED  BY <1>0, <1>2, <2>1, <2>2, OneEvent, RegistrationFrame
<1>4. CASE ~active[<<s, Other(d)>>]
  <2>1. EpollCtl("DEL", s, {})
    BY <1>4 DEF Del
  <2>2. {} = {c \in Dir : IF c = d THEN FALSE ELSE active[<<s, c>>]}
    BY <1>1, <1>4
  <2> QED  BY <1>0, <2>1, <2>2, OneEvent, RegistrationFrame
<1> QED  BY <1>3, <1>4

\* add_conn and del_conn change both flags.
LEMMA ConnInv ==
    ASSUME EpollInv, NEW s \in Slot, AddConn(s) \/ DelConn(s)
    PROVE  EpollInv'
<1>0. TypeOK /\ KernelAgrees /\ open[s]
      /\ UNCHANGED <<open, instance, free, reusable, gen, queueVars, loopVars, owed>>
  BY DEF EpollInv, Slots, AddConn, DelConn
<1>1. PICK on \in BOOLEAN : /\ on => AddConn(s)
                            /\ ~on => DelConn(s)
  OBVIOUS
<1>2. \A x \in Slot, c \in Dir :
         active'[<<x, c>>] <=> IF x = s THEN on ELSE active[<<x, c>>]
  <2>1. \A x \in Slot, c \in Dir : <<x, c>> \in Event /\ <<x, c>>[1] = x
    BY DEF Event
  <2>2. CASE on
    <3>1. active' = [e \in Event |-> e[1] = s \/ active[e]]
      BY <1>1, <2>2 DEF AddConn
    <3>2. \A x \in Slot, c \in Dir : active'[<<x, c>>] <=> x = s \/ active[<<x, c>>]
      BY <2>1, <3>1
    <3> QED  BY <2>2, <3>2
  <2>3. CASE ~on
    <3>1. active' = [e \in Event |-> e[1] # s /\ active[e]]
      BY <1>1, <2>3 DEF DelConn
    <3>2. \A x \in Slot, c \in Dir : active'[<<x, c>>] <=> x # s /\ active[<<x, c>>]
      BY <2>1, <3>1
    <3> QED  BY <2>3, <3>2
  <2> QED  BY <2>2, <2>3
<1>3. \A x \in Slot : /\ interest'[x] = IF x = s THEN (IF on THEN Dir ELSE {}) ELSE interest[x]
                      /\ regInst'[x] = IF x = s /\ on THEN instance[s] ELSE regInst[x]
  BY <1>0, <1>1 DEF AddConn, DelConn, TypeOK, EpollCtl
<1>4. /\ active' \in [Event -> BOOLEAN] /\ interest' \in [Slot -> SUBSET Dir]
      /\ regInst' \in [Slot -> {0, 1}]
  <2>1. active' \in [Event -> BOOLEAN]
    <3>1. CASE AddConn(s)
      BY <3>1 DEF AddConn
    <3>2. CASE DelConn(s)
      BY <3>2 DEF DelConn
    <3> QED  BY <3>1, <3>2
  <2>2. EpollCtl("ADD", s, Dir) \/ EpollCtl("DEL", s, {})
    BY DEF AddConn, DelConn
  <2>3. /\ interest \in [Slot -> SUBSET Dir] /\ regInst \in [Slot -> {0, 1}]
        /\ instance \in [Slot -> {0, 1}]
    BY <1>0 DEF TypeOK
  <2>4. interest' \in [Slot -> SUBSET Dir]
    BY <2>2, <2>3 DEF EpollCtl
  <2>5. regInst' \in [Slot -> {0, 1}]
    BY <2>2, <2>3 DEF EpollCtl
  <2> QED  BY <2>1, <2>4, <2>5
<1>5. ASSUME NEW x \in Slot
      PROVE  /\ interest'[x] = {c \in Dir : active'[<<x, c>>]}
             /\ interest'[x] # {} => open'[x] /\ regInst'[x] = instance'[x]
  <2>1. CASE x = s
    BY <1>0, <1>2, <1>3, <2>1
  <2>2. CASE x # s
    BY <1>0, <1>2, <1>3, <2>2 DEF KernelAgrees, Registered
  <2> QED  BY <2>1, <2>2
<1>6. KernelAgrees'
  BY <1>5 DEF KernelAgrees, Registered
<1> QED  BY <1>0, <1>4, <1>6, RegistrationFrame

-----------------------------------------------------------------------------
(* Closing connections, taking slots into use, and the reusable queue.     *)

\* The connections of S are closed and the slots of N taken into use: what
\* ngx_close_connection (N = {}) and ngx_get_connection do.
LEMMA Recycle ==
    ASSUME EpollInv, NEW S \in SUBSET Slot, NEW N \in SUBSET Slot,
           \A x \in S : open[x],
           \A x \in N : x \in S \/ ~open[x],
           Forget(S), phase = "handler", UNCHANGED <<regInst, loopVars>>,
           open' \in [Slot -> BOOLEAN], active' \in [Event -> BOOLEAN],
           \A x \in Slot : open'[x] <=> x \in N \/ (x \notin S /\ open[x]),
           \A x \in Slot, c \in Dir :
              active'[<<x, c>>] <=> x \notin S /\ x \notin N /\ active[<<x, c>>],
           free' \in Seq(Slot), Range(free') = (Range(free) \cup S) \ N, IsInjective(free'),
           instance' \in [Slot -> {0, 1}], gen' \in [Slot -> 0 .. MaxGen],
           \A x \in Slot : x \notin N => instance'[x] = instance[x] /\ gen'[x] = gen[x],
           \A x \in Slot : instance'[x] = gen'[x] % 2
    PROVE  EpollInv'
<1>0. /\ TypeOK /\ KernelAgrees /\ SlotAccounting /\ Iteration /\ Generations
      /\ QueuesCurrent /\ OwedQueued
  BY DEF EpollInv, Slots, Queues
<1>1. /\ acceptQ \in Seq(Queued) /\ postedQ \in Seq(Queued) /\ reusable \in Seq(Slot)
      /\ acceptQ' = Without(acceptQ, S \X Dir) /\ postedQ' = Without(postedQ, S \X Dir)
      /\ reusable' = Minus(reusable, S) /\ owed' = owed \ (S \X Dir)
      /\ \A x \in Slot : interest'[x] = IF x \in S THEN {} ELSE interest[x]
      /\ interest' \in [Slot -> SUBSET Dir]
  BY <1>0 DEF TypeOK, Forget
<1>2. /\ acceptQ' \in Seq(Queued) /\ postedQ' \in Seq(Queued)
      /\ Range(acceptQ') = {x \in Range(acceptQ) : x.ev \notin S \X Dir}
      /\ Range(postedQ') = {x \in Range(postedQ) : x.ev \notin S \X Dir}
      /\ QueuedEvents(acceptQ') = QueuedEvents(acceptQ) \ (S \X Dir)
      /\ QueuedEvents(postedQ') = QueuedEvents(postedQ) \ (S \X Dir)
      /\ acceptQ = <<>> => acceptQ' = <<>>
      /\ postedQ = <<>> => postedQ' = <<>>
  BY <1>1, WithoutFacts
<1>3. Once(acceptQ') /\ Once(postedQ')
  BY <1>0, <1>1, WithoutFacts DEF QueuesCurrent
<1>4. /\ reusable' \in Seq(Slot) /\ Range(reusable') = Range(reusable) \ S
      /\ IsInjective(reusable')
  BY <1>0, <1>1, MinusFacts, MinusInjective DEF SlotAccounting
<1>5. TypeOK'
  BY <1>0, <1>1, <1>2, <1>4 DEF TypeOK, loopVars
<1>6. KernelAgrees'
  <2> SUFFICES ASSUME NEW x \in Slot
               PROVE  /\ interest'[x] = {c \in Dir : active'[<<x, c>>]}
                      /\ interest'[x] # {} => open'[x] /\ regInst'[x] = instance'[x]
    BY DEF KernelAgrees, Registered
  <2>1. /\ interest[x] = {c \in Dir : active[<<x, c>>]}
        /\ interest[x] # {} => open[x] /\ regInst[x] = instance[x]
    BY <1>0 DEF KernelAgrees, Registered
  <2>2. CASE x \in S
    BY <1>1, <2>2
  <2>3. CASE x \in N /\ x \notin S
    BY <1>1, <2>1, <2>3
  <2>4. CASE x \notin N /\ x \notin S
    <3>1. \A c \in Dir : active'[<<x, c>>] <=> active[<<x, c>>]
      BY <2>4
    <3>2. interest'[x] = interest[x] /\ instance'[x] = instance[x] /\ (open'[x] <=> open[x])
      BY <1>1, <2>4
    <3> QED  BY <2>1, <3>1, <3>2
  <2> QED  BY <2>2, <2>3, <2>4
<1>7. SlotAccounting'
  <2>1. Range(free') = {x \in Slot : ~open'[x]}
    BY <1>0 DEF SlotAccounting
  <2>2. \A x \in Range(reusable') : open'[x] /\ x # Listener
    <3>1. Range(reusable) \subseteq Slot
      BY <1>1, ElementOfSeq, LenProperties DEF Range
    <3> QED  BY <1>0, <1>4, <3>1 DEF SlotAccounting
  <2> QED  BY <1>4, <2>1, <2>2 DEF SlotAccounting
<1>8. Iteration'
  BY <1>0, <1>2 DEF Iteration, At, loopVars
<1>9. Generations'
  BY <1>0, <1>8 DEF Iteration, Generations, loopVars
<1>10. ASSUME NEW q \in Seq(Queued), Fresh(q), NEW x \in Range(q), x.ev \notin S \X Dir
       PROVE  open'[x.ev[1]] /\ x.gen = gen'[x.ev[1]]
  <2>1. x \in Queued
    BY <1>10, ElementOfSeq, LenProperties DEF Range
  <2>2. x.ev \in Slot \X Dir
    BY <2>1 DEF Queued, Event
  <2>3. PICK y \in Slot, c \in Dir : x.ev = <<y, c>>
    BY <2>2
  <2>4. y \notin S /\ x.ev[1] = y
    BY <1>10, <2>3
  <2>5. open[y] /\ x.gen = gen[y]
    BY <1>10, <2>4 DEF Fresh
  <2>6. y \notin N
    BY <2>4, <2>5
  <2> QED  BY <2>3, <2>4, <2>5, <2>6
<1>11. QueuesCurrent'
  <2>1. Fresh(acceptQ)'
    BY <1>0, <1>1, <1>2, <1>10 DEF QueuesCurrent, Fresh
  <2>2. Fresh(postedQ)'
    BY <1>0, <1>1, <1>2, <1>10 DEF QueuesCurrent, Fresh
  <2> QED  BY <1>0, <1>2, <1>3, <2>1, <2>2 DEF QueuesCurrent, Once
<1>12. OwedQueued'
  BY <1>0, <1>1, <1>2 DEF OwedQueued, loopVars
<1> QED  BY <1>5, <1>6, <1>7, <1>8, <1>9, <1>11, <1>12 DEF EpollInv, Slots, Queues

\* A flag of each event, written as a function, at an event.
LEMMA ActiveOutside ==
    ASSUME TypeOK, NEW S, active' = [e \in Event |-> e[1] \notin S /\ active[e]]
    PROVE  /\ active' \in [Event -> BOOLEAN]
           /\ \A x \in Slot, c \in Dir : active'[<<x, c>>] <=> x \notin S /\ active[<<x, c>>]
<1>1. active' \in [Event -> BOOLEAN]
  BY DEF TypeOK
<1>2. ASSUME NEW x \in Slot, NEW c \in Dir
      PROVE  active'[<<x, c>>] <=> x \notin S /\ active[<<x, c>>]
  <2>1. <<x, c>> \in Event /\ <<x, c>>[1] = x
    BY DEF Event
  <2> QED  BY <2>1
<1> QED  BY <1>1, <1>2

\* ngx_close_connection.
LEMMA CloseInv ==
    ASSUME EpollInv, NEW s \in Slot, Close(s)
    PROVE  EpollInv'
<1>0. /\ TypeOK /\ SlotAccounting /\ Generations
  BY DEF EpollInv, Slots, Queues
<1>1. /\ phase = "handler" /\ open[s] /\ Forget({s}) /\ open' = [open EXCEPT ![s] = FALSE]
      /\ active' = [e \in Event |-> e[1] # s /\ active[e]]
      /\ free' = <<s>> \o free /\ UNCHANGED <<instance, regInst, gen, loopVars>>
  BY DEF Close, InHandler
<1>2. /\ active' \in [Event -> BOOLEAN]
      /\ \A x \in Slot, c \in Dir : active'[<<x, c>>] <=> x \notin {s} /\ active[<<x, c>>]
  <2>1. active' = [e \in Event |-> e[1] \notin {s} /\ active[e]]
    BY <1>1
  <2> QED  BY <1>0, <2>1, ActiveOutside
<1>3. open' \in [Slot -> BOOLEAN] /\ \A x \in Slot : open'[x] <=> x \notin {s} /\ open[x]
  BY <1>0, <1>1 DEF TypeOK
<1>14. <<s>> \in Seq(Slot) /\ Range(<<s>>) = {s} /\ IsInjective(<<s>>)
  BY DEF Range, IsInjective
<1>4. PICK one : one = <<s>> /\ one \in Seq(Slot) /\ Range(one) = {s} /\ IsInjective(one)
  BY <1>14
<1>5. free \in Seq(Slot) /\ IsInjective(free) /\ s \notin Range(free)
  BY <1>0, <1>1 DEF TypeOK, SlotAccounting
<1>6. free' \in Seq(Slot) /\ Range(free') = Range(free) \cup {s} /\ IsInjective(free')
  <2>1. Range(one) \cap Range(free) = {}
    BY <1>4, <1>5
  <2>2. /\ one \o free \in Seq(Slot) /\ Range(one \o free) = Range(one) \cup Range(free)
        /\ IsInjective(one \o free)
    <3>1. one \in Seq(Slot) /\ free \in Seq(Slot) /\ IsInjective(one) /\ IsInjective(free)
      BY <1>4, <1>5
    <3> QED  BY <2>1, <3>1, ConcatRange
  <2> QED  BY <1>1, <1>4, <2>2
<1>7. /\ instance' \in [Slot -> {0, 1}] /\ gen' \in [Slot -> 0 .. MaxGen]
      /\ \A x \in Slot : instance'[x] = gen'[x] % 2
  BY <1>0, <1>1 DEF TypeOK, Generations
<1>8. \E S \in SUBSET Slot, N \in SUBSET Slot :
         /\ S = {s} /\ N = {}
  OBVIOUS
<1>9. PICK S \in SUBSET Slot, N \in SUBSET Slot : S = {s} /\ N = {}
  BY <1>8
<1>10. /\ \A x \in S : open[x]
       /\ \A x \in N : x \in S \/ ~open[x]
       /\ Forget(S)
       /\ \A x \in Slot : open'[x] <=> x \in N \/ (x \notin S /\ open[x])
       /\ \A x \in Slot, c \in Dir :
             active'[<<x, c>>] <=> x \notin S /\ x \notin N /\ active[<<x, c>>]
       /\ Range(free') = (Range(free) \cup S) \ N
       /\ \A x \in Slot : x \notin N => instance'[x] = instance[x] /\ gen'[x] = gen[x]
  BY <1>1, <1>2, <1>3, <1>6, <1>9
<1> QED  BY <1>1, <1>2, <1>3, <1>6, <1>7, <1>10, Recycle

\* ngx_reusable_connection.
LEMMA SetReusableInv ==
    ASSUME EpollInv, NEW s \in Slot, NEW on \in BOOLEAN, SetReusable(s, on)
    PROVE  EpollInv'
<1>0. /\ TypeOK /\ KernelAgrees /\ SlotAccounting
  BY DEF EpollInv, Slots
<1> DEFINE rest == Minus(reusable, {s})
<1>1. /\ open[s] /\ s # Listener
      /\ reusable' = IF on THEN <<s>> \o rest ELSE rest
      /\ UNCHANGED <<open, instance, active, interest, regInst, free, gen,
                     queueVars, loopVars, owed>>
  BY DEF SetReusable
<1>2. /\ rest \in Seq(Slot) /\ Range(rest) = Range(reusable) \ {s} /\ IsInjective(rest)
  BY <1>0, MinusFacts, MinusInjective DEF TypeOK, SlotAccounting
<1> HIDE DEF rest
<1>13. <<s>> \in Seq(Slot) /\ Range(<<s>>) = {s} /\ IsInjective(<<s>>)
  BY DEF Range, IsInjective
<1>3. PICK one : one = <<s>> /\ one \in Seq(Slot) /\ Range(one) = {s} /\ IsInjective(one)
  BY <1>13
<1>4. /\ reusable' \in Seq(Slot) /\ Range(reusable') \subseteq Range(reusable) \cup {s}
      /\ IsInjective(reusable')
  <2>1. Range(one) \cap Range(rest) = {}
    BY <1>2, <1>3
  <2>2. /\ one \o rest \in Seq(Slot) /\ Range(one \o rest) = Range(one) \cup Range(rest)
        /\ IsInjective(one \o rest)
    BY <1>2, <1>3, <2>1, ConcatRange
  <2> QED  BY <1>1, <1>2, <1>3, <2>2
<1>5. TypeOK'
  BY <1>0, <1>1, <1>4 DEF TypeOK, queueVars, loopVars
<1>6. KernelAgrees' /\ SlotAccounting'
  BY <1>0, <1>1, <1>4 DEF KernelAgrees, Registered, SlotAccounting
<1>7. Queues'
  BY <1>1 DEF EpollInv, Queues, Iteration, Generations, QueuesCurrent, OwedQueued, At,
              Fresh, Once, QueuedEvents, queueVars, loopVars
<1> QED  BY <1>5, <1>6, <1>7 DEF EpollInv, Slots

\* What ngx_drain_connections closes is in use and not a listening socket.
LEMMA DrainedFacts ==
    ASSUME EpollInv
    PROVE  /\ Drained \in Seq(Slot) /\ IsInjective(Drained)
           /\ \A x \in Range(Drained) : x \in Slot /\ open[x]
           /\ free # <<>> => Drained = <<>>
<1>0. TypeOK /\ SlotAccounting
  BY DEF EpollInv, Slots
<1>1. CASE free # <<>>
  <2>1. Drained = <<>>
    BY <1>1 DEF Drained
  <2> QED  BY <1>1, <2>1, EmptySeq, EmptyRange
<1>2. CASE free = <<>>
  <2>1. PICK n : n = Len(reusable)
    OBVIOUS
  <2>2. PICK k : k = IF n > DrainMax THEN n - DrainMax + 1 ELSE 1
    OBVIOUS
  <2>3. reusable \in Seq(Slot) /\ n \in Nat /\ DrainMax \in Nat
    BY <1>0, <2>1, EpollAssumption, LenProperties DEF TypeOK
  <2>4. k \in 1 .. n + 1
    BY <2>2, <2>3
  <2>5. Drained = SubSeq(reusable, k, Len(reusable))
    BY <1>2, <2>1, <2>2 DEF Drained
  <2>6. /\ Drained \in Seq(Slot) /\ Range(Drained) \subseteq Range(reusable)
        /\ IsInjective(Drained)
    BY <1>0, <2>1, <2>3, <2>4, <2>5, SubSeqRange DEF SlotAccounting
  <2>7. Range(reusable) \subseteq Slot
    BY <2>3, ElementOfSeq, LenProperties DEF Range
  <2> QED  BY <1>0, <1>2, <2>6, <2>7 DEF SlotAccounting
<1> QED  BY <1>1, <1>2

\* ngx_get_connection: the slot taken was free, or in use by a connection it drained.
LEMMA GetInv ==
    ASSUME EpollInv, Get
    PROVE  EpollInv'
<1>0. /\ TypeOK /\ SlotAccounting /\ Generations /\ free \in Seq(Slot)
  BY DEF EpollInv, Slots, Queues, TypeOK
<1>1. PICK avail : avail = Drained \o free
  OBVIOUS
<1>2. PICK S : S = Range(Drained)
  OBVIOUS
<1>3. PICK s : s = Head(avail)
  OBVIOUS
<1>4. /\ phase = "handler" /\ avail # <<>> /\ gen[s] < MaxGen /\ Forget(S)
      /\ open' = [x \in Slot |-> x = s \/ (x \notin S /\ open[x])]
      /\ active' = [e \in Event |-> e[1] \notin S \cup {s} /\ active[e]]
      /\ free' = Tail(avail)
      /\ instance' = [instance EXCEPT ![s] = 1 - @]
      /\ gen' = [gen EXCEPT ![s] = @ + 1]
      /\ UNCHANGED <<regInst, loopVars>>
  BY <1>1, <1>2, <1>3 DEF Get, InHandler
<1>5. /\ S \subseteq Slot /\ \A x \in S : open[x]
      /\ Range(free) = {x \in Slot : ~open[x]}
  BY <1>0, <1>2, DrainedFacts DEF SlotAccounting
<1>6. avail \in Seq(Slot) /\ Range(avail) = Range(free) \cup S /\ IsInjective(avail)
  <2>1. Drained \in Seq(Slot) /\ IsInjective(Drained) /\ IsInjective(free)
    BY <1>0, DrainedFacts DEF SlotAccounting
  <2>2. Range(Drained) \cap Range(free) = {}
    BY <1>2, <1>5
  <2> QED  BY <1>0, <1>1, <1>2, <2>1, <2>2, ConcatRange
<1>7. /\ s \in Slot /\ s \in Range(avail) /\ Tail(avail) \in Seq(Slot)
      /\ Range(Tail(avail)) = Range(avail) \ {s} /\ IsInjective(Tail(avail))
  <2>1. s \in Slot /\ Tail(avail) \in Seq(Slot)
    BY <1>3, <1>4, <1>6, HeadTailProperties
  <2>2. /\ Range(avail) = Range(Tail(avail)) \cup {s}
        /\ IsInjective(Tail(avail)) /\ s \notin Range(Tail(avail))
    BY <1>3, <1>4, <1>6, TailRange
  <2> QED  BY <2>1, <2>2
<1>8. s \in S \/ ~open[s]
  BY <1>5, <1>6, <1>7
<1>9. /\ active' \in [Event -> BOOLEAN]
      /\ \A x \in Slot, c \in Dir :
            active'[<<x, c>>] <=> x \notin S \cup {s} /\ active[<<x, c>>]
  BY <1>0, <1>4, ActiveOutside
<1>10. open' \in [Slot -> BOOLEAN]
       /\ \A x \in Slot : open'[x] <=> x = s \/ (x \notin S /\ open[x])
  BY <1>0, <1>4 DEF TypeOK
<1>11. /\ instance' \in [Slot -> {0, 1}] /\ gen' \in [Slot -> 0 .. MaxGen]
       /\ \A x \in Slot : x # s => instance'[x] = instance[x] /\ gen'[x] = gen[x]
       /\ instance'[s] = 1 - instance[s] /\ gen'[s] = gen[s] + 1
  <2>1. instance \in [Slot -> {0, 1}] /\ gen \in [Slot -> 0 .. MaxGen] /\ MaxGen \in Nat
    BY <1>0, EpollAssumption DEF TypeOK
  <2>2. gen[s] + 1 \in 0 .. MaxGen /\ 1 - instance[s] \in {0, 1}
    <3>1. gen[s] \in 0 .. MaxGen /\ gen[s] < MaxGen /\ instance[s] \in {0, 1} /\ MaxGen \in Nat
      BY <1>4, <1>7, <2>1
    <3>2. ASSUME NEW g \in 0 .. MaxGen, g < MaxGen, NEW b \in {0, 1}
          PROVE  g + 1 \in 0 .. MaxGen /\ 1 - b \in {0, 1}
      BY <3>1, <3>2
    <3> QED  BY <3>1, <3>2
  <2> QED  BY <1>4, <1>7, <2>1, <2>2
<1>12. \A x \in Slot : instance'[x] = gen'[x] % 2
  <2>1. \A x \in Slot : instance[x] = gen[x] % 2 /\ gen[x] \in Nat
    BY <1>0, EpollAssumption DEF Generations, TypeOK
  <2>2. ASSUME NEW g \in Nat PROVE 1 - (g % 2) = (g + 1) % 2
    BY <2>2
  <2>3. 1 - instance[s] = (gen[s] + 1) % 2
    BY <1>7, <2>1, <2>2
  <2> QED  BY <1>11, <2>1, <2>3
<1>13. PICK N \in SUBSET Slot : N = {s}
  BY <1>7
<1>15. PICK T \in SUBSET Slot : T = S
  BY <1>5
<1>14. /\ \A x \in T : open[x]
       /\ \A x \in N : x \in T \/ ~open[x]
       /\ \A x \in Slot : open'[x] <=> x \in N \/ (x \notin T /\ open[x])
       /\ \A x \in Slot, c \in Dir :
             active'[<<x, c>>] <=> x \notin T /\ x \notin N /\ active[<<x, c>>]
       /\ free' \in Seq(Slot) /\ Range(free') = (Range(free) \cup T) \ N /\ IsInjective(free')
       /\ Forget(T) /\ phase = "handler" /\ UNCHANGED <<regInst, loopVars>>
       /\ \A x \in Slot : x \notin N => instance'[x] = instance[x] /\ gen'[x] = gen[x]
  BY <1>4, <1>5, <1>6, <1>7, <1>8, <1>9, <1>10, <1>11, <1>13, <1>15
<1>16. /\ open' \in [Slot -> BOOLEAN] /\ active' \in [Event -> BOOLEAN]
       /\ instance' \in [Slot -> {0, 1}] /\ gen' \in [Slot -> 0 .. MaxGen]
  BY <1>9, <1>10, <1>11
<1> QED  BY <1>12, <1>14, <1>16, Recycle

-----------------------------------------------------------------------------
(* One iteration of ngx_process_events_and_timers.                         *)

\* The loop itself changes no connection.
LEMMA LoopFrame ==
    ASSUME EpollInv, UNCHANGED <<module, slotVars>>,
           list' \in Seq(Entry), acceptQ' \in Seq(Queued), postedQ' \in Seq(Queued),
           posting' \in BOOLEAN, phase' \in Phase, back' \in Phase, call' \in Call,
           owed' \in SUBSET Event, Queues'
    PROVE  EpollInv'
<1> USE DEF slotVars
<1>1. TypeOK'
  BY DEF EpollInv, TypeOK
<1>2. Slots'
  BY DEF EpollInv, Slots, KernelAgrees, SlotAccounting, Registered
<1> QED  BY <1>1, <1>2 DEF EpollInv

\* The types the loop steps start from.
LEMMA LoopTypes ==
    ASSUME EpollInv
    PROVE  /\ list \in Seq(Entry) /\ acceptQ \in Seq(Queued) /\ postedQ \in Seq(Queued)
           /\ posting \in BOOLEAN /\ phase \in Phase /\ back \in Phase /\ call \in Call
           /\ owed \in SUBSET Event /\ module \in {"cpp_epoll", "ngx_epoll"}
           /\ gen \in [Slot -> 0 .. MaxGen]
           /\ Iteration /\ Generations /\ QueuesCurrent /\ OwedQueued
BY EpollAssumption DEF EpollInv, TypeOK, Queues

\* Calling a handler: what it is called with is remembered, and an event whose own
\* handler was called with it is no longer owed.
LEMMA CallTypes ==
    ASSUME NEW h \in Event, NEW arg \in Event, NEW g \in 0 .. MaxGen,
           NEW from \in {"list", "queue", "timer"}, NEW b \in Phase,
           owed \in SUBSET Event, CallHandler(h, arg, g, from, b)
    PROVE  /\ call' \in Call /\ owed' \in SUBSET Event /\ phase' = "handler" /\ back' = b
           /\ h = arg => owed' = owed \ {h}
           /\ h # arg => owed' = owed \cup {h}
           /\ phase' \in Phase /\ back' \in Phase
           /\ call'.handler = h /\ call'.gen = g
BY DEF CallHandler, Call, Phase

\* Everything the kernel reports is about the present use of its slot.
LEMMA ReportFacts ==
    ASSUME EpollInv, NEW x \in Reports
    PROVE  /\ x \in Entry /\ x.instance = x.gen % 2
           /\ open[x.slot] /\ x.gen = gen[x.slot]
<1>1. PICK s \in Slot : /\ Registered(s)
                        /\ x \in [slot : {s}, instance : {regInst[s]}, gen : {gen[s]},
                                  flags : Reportable(s)]
  BY DEF Reports
<1>2. /\ regInst[s] \in {0, 1} /\ gen[s] \in 0 .. MaxGen /\ open[s]
      /\ regInst[s] = instance[s] /\ instance[s] = gen[s] % 2
  BY <1>1 DEF EpollInv, TypeOK, Slots, KernelAgrees, Queues, Generations
<1>3. Reportable(s) \subseteq SUBSET Flag
  BY DEF Reportable, Flag
<1>4. x.slot = s /\ x.instance = regInst[s] /\ x.gen = gen[s] /\ x.flags \in SUBSET Flag
  BY <1>1, <1>3
<1>5. x \in Entry
  BY <1>1, <1>2, <1>3 DEF Entry
<1> QED  BY <1>2, <1>4, <1>5

\* epoll_wait.
LEMMA EpollWaitInv ==
    ASSUME EpollInv, EpollWait
    PROVE  EpollInv'
<1>0. /\ acceptQ \in Seq(Queued) /\ postedQ \in Seq(Queued) /\ back \in Phase
      /\ call \in Call /\ owed \in SUBSET Event
      /\ Iteration /\ Generations /\ QueuesCurrent /\ OwedQueued
  BY LoopTypes
<1>1. /\ phase = "wait" /\ phase' = "entry" /\ posting' \in BOOLEAN
      /\ UNCHANGED <<module, slotVars, queueVars, back, call, owed>>
  BY DEF EpollWait
<1>2. PICK n \in 0 .. Events : list' \in [1 .. n -> Reports]
  BY DEF EpollWait
<1>3. n \in Nat
  BY EpollAssumption
<1>4. \A x \in Range(list') : x \in Reports
  BY <1>2 DEF Range
<1>5. list' \in Seq(Entry)
  <2>1. list' \in [1 .. n -> Entry]
    BY <1>2, ReportFacts
  <2> QED  BY <1>3, <2>1
<1>6. Iteration'
  BY <1>0, <1>1 DEF Iteration, At, queueVars
<1>7. Generations'
  BY <1>0, <1>1, <1>4, ReportFacts DEF Generations, slotVars
<1>8. QueuesCurrent' /\ OwedQueued'
  BY <1>0, <1>1 DEF QueuesCurrent, OwedQueued, Fresh, Once, QueuedEvents, slotVars, queueVars
<1>9. phase' \in Phase
  BY <1>1 DEF Phase
<1> QED  BY <1>0, <1>1, <1>5, <1>6, <1>7, <1>8, <1>9, LoopFrame DEF Queues, queueVars

\* An event of the present use of a slot is put on a queue.
LEMMA PostFresh ==
    ASSUME EpollInv, NEW q \in Seq(Queued), NEW e \in Event, NEW g \in 0 .. MaxGen, NEW A,
           QueuedEvents(q) \subseteq A, Once(q), Fresh(q), open[e[1]], g = gen[e[1]]
    PROVE  /\ PostTo(q, e, g, A) \in Seq(Queued)
           /\ QueuedEvents(PostTo(q, e, g, A)) = QueuedEvents(q) \cup ({e} \ A)
           /\ Once(PostTo(q, e, g, A)) /\ Fresh(PostTo(q, e, g, A))
<1>1. /\ PostTo(q, e, g, A) \in Seq(Queued)
      /\ QueuedEvents(PostTo(q, e, g, A)) = QueuedEvents(q) \cup ({e} \ A)
      /\ Range(PostTo(q, e, g, A)) \subseteq Range(q) \cup {[ev |-> e, gen |-> g]}
      /\ Once(PostTo(q, e, g, A))
  BY PostToFacts
<1>2. Fresh(PostTo(q, e, g, A))
  BY <1>1 DEF Fresh
<1> QED  BY <1>1, <1>2

\* What is left of event_list once an entry is done.
LEMMA ListTail ==
    ASSUME EpollInv, list # <<>>
    PROVE  /\ Tail(list) \in Seq(Entry) /\ Head(list) \in Entry
           /\ Head(list) \in Range(list) /\ Range(Tail(list)) \subseteq Range(list)
<1>1. list \in Seq(Entry)
  BY LoopTypes
<1> QED  BY <1>1, HeadTailProperties, TailRange

\* process_events_list with NGX_POST_EVENTS.
LEMMA PostEntryInv ==
    ASSUME EpollInv, PostEntry
    PROVE  EpollInv'
<1>0. /\ acceptQ \in Seq(Queued) /\ postedQ \in Seq(Queued) /\ back \in Phase
      /\ call \in Call /\ owed \in SUBSET Event /\ module \in {"cpp_epoll", "ngx_epoll"}
      /\ Iteration /\ Generations /\ QueuesCurrent /\ OwedQueued
  BY LoopTypes
<1>1. /\ phase = "entry" /\ posting /\ list # <<>> /\ list' = Tail(list)
      /\ UNCHANGED <<module, slotVars, posting, phase, back, call>>
  BY DEF PostEntry
<1>2. PICK x : x = Head(list)
  OBVIOUS
<1>3. /\ x \in Entry /\ x \in Range(list) /\ list' \in Seq(Entry)
      /\ Range(list') \subseteq Range(list)
  BY <1>1, <1>2, ListTail
<1>4. /\ x.slot \in Slot /\ x.gen \in 0 .. MaxGen /\ open[x.slot] /\ x.gen = gen[x.slot]
  BY <1>0, <1>1, <1>3 DEF Entry, Generations
<1>5. PICK e : e = <<x.slot, "r">>
  OBVIOUS
<1>6. PICK w : w = WriteArg(x.slot)
  OBVIOUS
<1>7. /\ e \in Event /\ w \in Event /\ e[1] = x.slot /\ w[1] = x.slot
      /\ <<x.slot, "w">> \in Event /\ <<x.slot, "w">>[2] = "w"
      /\ module # "cpp_epoll" => w = <<x.slot, "w">>
  BY <1>4, <1>5, <1>6 DEF Event, Dir, WriteArg
<1>8. PICK before : before = QueuedEvents(acceptQ) \cup QueuedEvents(postedQ)
  OBVIOUS
<1>9. PICK after : after = IF ReadDue(x) THEN before \cup {e} ELSE before
  OBVIOUS
<1>10. PICK P : P = IF x.slot # Listener /\ ReadDue(x) THEN PostTo(postedQ, e, x.gen, before)
                                                       ELSE postedQ
  OBVIOUS
<1>11. /\ Fresh(acceptQ) /\ Fresh(postedQ) /\ Once(acceptQ) /\ Once(postedQ)
       /\ QueuedEvents(acceptQ) \cap QueuedEvents(postedQ) = {}
  BY <1>0 DEF QueuesCurrent
<1>12. CASE Stale(x)
  <2>1. UNCHANGED <<queueVars, owed>>
    BY <1>2, <1>12 DEF PostEntry
  <2>2. Iteration' /\ Generations'
    BY <1>0, <1>1, <1>3, <2>1 DEF Iteration, Generations, At, slotVars, queueVars
  <2>3. QueuesCurrent' /\ OwedQueued'
    BY <1>0, <1>1, <2>1 DEF QueuesCurrent, OwedQueued, Fresh, Once, QueuedEvents, slotVars,
                            queueVars
  <2> QED  BY <1>0, <1>1, <1>3, <2>1, <2>2, <2>3, LoopFrame, LoopTypes DEF Queues, queueVars
<1>13. CASE ~Stale(x)
  <2>1. /\ acceptQ' = IF x.slot = Listener /\ ReadDue(x)
                        THEN PostTo(acceptQ, e, x.gen, before) ELSE acceptQ
        /\ postedQ' = IF WriteDue(x) THEN PostTo(P, w, x.gen, after) ELSE P
        /\ owed' = owed \cup (IF ReadDue(x) THEN {e} ELSE {})
                        \cup (IF WriteDue(x) THEN {<<x.slot, "w">>} ELSE {})
    BY <1>2, <1>5, <1>6, <1>8, <1>9, <1>10, <1>13 DEF PostEntry
  <2>2. /\ acceptQ' \in Seq(Queued) /\ Once(acceptQ') /\ Fresh(acceptQ')
        /\ QueuedEvents(acceptQ') = QueuedEvents(acceptQ) \cup
              (IF x.slot = Listener /\ ReadDue(x) THEN {e} \ before ELSE {})
    <3>1. QueuedEvents(acceptQ) \subseteq before
      BY <1>8
    <3> QED  BY <1>0, <1>4, <1>7, <1>11, <2>1, <3>1, PostFresh
  <2>3. /\ P \in Seq(Queued) /\ Once(P) /\ Fresh(P)
        /\ QueuedEvents(P) = QueuedEvents(postedQ) \cup
              (IF x.slot # Listener /\ ReadDue(x) THEN {e} \ before ELSE {})
    <3>1. QueuedEvents(postedQ) \subseteq before
      BY <1>8
    <3> QED  BY <1>0, <1>4, <1>7, <1>10, <1>11, <3>1, PostFresh
  <2>4. QueuedEvents(P) \subseteq after /\ QueuedEvents(acceptQ') \cup QueuedEvents(P) = after
        /\ QueuedEvents(acceptQ') \cap QueuedEvents(P) = {}
    BY <1>8, <1>9, <1>11, <2>2, <2>3
  <2>5. /\ postedQ' \in Seq(Queued) /\ Once(postedQ') /\ Fresh(postedQ')
        /\ QueuedEvents(postedQ') = QueuedEvents(P) \cup
              (IF WriteDue(x) THEN {w} \ after ELSE {})
    BY <1>4, <1>7, <2>1, <2>3, <2>4, PostFresh
  <2>6. QueuesCurrent'
    <3>1. QueuedEvents(acceptQ') \cap QueuedEvents(postedQ') = {}
      BY <2>4, <2>5
    <3>2. Fresh(acceptQ)' /\ Fresh(postedQ)' /\ Once(acceptQ)' /\ Once(postedQ)'
      BY <1>1, <2>2, <2>5 DEF Fresh, Once, slotVars
    <3> QED  BY <3>1, <3>2 DEF QueuesCurrent, QueuedEvents
  <2>7. OwedQueued'
    <3>1. after \cup (IF WriteDue(x) THEN {w} ELSE {})
            \subseteq QueuedEvents(acceptQ') \cup QueuedEvents(postedQ')
      BY <2>4, <2>5
    <3>2. ASSUME NEW o \in owed'
          PROVE  \/ module = "cpp_epoll" /\ o[2] = "w"
                 \/ o \in QueuedEvents(acceptQ') \cup QueuedEvents(postedQ')
      <4>1. CASE o \in owed
        BY <1>0, <1>8, <1>9, <3>1, <4>1 DEF OwedQueued
      <4>2. CASE ReadDue(x) /\ o = e
        BY <1>9, <3>1, <4>2
      <4>3. CASE WriteDue(x) /\ o = <<x.slot, "w">>
        BY <1>7, <3>1, <4>3
      <4> QED  BY <2>1, <3>2, <4>1, <4>2, <4>3
    <3> QED  BY <1>1, <3>2 DEF OwedQueued, QueuedEvents
  <2>8. Iteration' /\ Generations'
    BY <1>0, <1>1, <1>3 DEF Iteration, Generations, At, slotVars
  <2>9. owed' \in SUBSET Event
    BY <1>0, <1>7, <2>1
  <2>10. Queues'
    BY <2>6, <2>7, <2>8 DEF Queues
  <2>11. phase' \in Phase /\ posting' \in BOOLEAN /\ back' \in Phase /\ call' \in Call
    BY <1>1, LoopTypes
  <2> QED  BY <1>1, <1>3, <2>2, <2>5, <2>9, <2>10, <2>11, LoopFrame
<1> QED  BY <1>12, <1>13

\* The connections and the queues stay, event_list shrinks at most, and what becomes
\* owed is a write event of CppEpollHandler.
LEMMA QueuesKept ==
    ASSUME EpollInv, UNCHANGED <<module, slotVars, queueVars>>,
           Range(list') \subseteq Range(list),
           posting' => posting,
           \A e \in owed' : e \in owed \/ (module = "cpp_epoll" /\ e[2] = "w")
    PROVE  Generations' /\ QueuesCurrent' /\ OwedQueued'
<1>0. Generations /\ QueuesCurrent /\ OwedQueued
  BY LoopTypes
<1>1. Generations'
  BY <1>0 DEF Generations, slotVars
<1>2. QueuesCurrent'
  BY <1>0 DEF QueuesCurrent, Fresh, Once, QueuedEvents, slotVars, queueVars
<1>3. OwedQueued'
  BY <1>0 DEF OwedQueued, QueuedEvents, queueVars
<1> QED  BY <1>1, <1>2, <1>3

\* process_events_list without NGX_POST_EVENTS, the read half of an entry.
LEMMA ReadNowInv ==
    ASSUME EpollInv, ReadNow
    PROVE  EpollInv'
<1>0. /\ acceptQ \in Seq(Queued) /\ postedQ \in Seq(Queued) /\ list \in Seq(Entry)
      /\ phase \in Phase /\ back \in Phase /\ call \in Call /\ owed \in SUBSET Event
      /\ posting \in BOOLEAN /\ Iteration
  BY LoopTypes
<1>1. /\ phase = "entry" /\ ~posting /\ list # <<>>
      /\ UNCHANGED <<module, slotVars, queueVars, posting>>
  BY DEF ReadNow
<1>2. PICK x : x = Head(list)
  OBVIOUS
<1>3. /\ x \in Entry /\ Tail(list) \in Seq(Entry) /\ Range(Tail(list)) \subseteq Range(list)
  BY <1>1, <1>2, ListTail
<1>4. PICK e : e = <<x.slot, "r">>
  OBVIOUS
<1>5. e \in Event /\ x.gen \in 0 .. MaxGen
  BY <1>3, <1>4 DEF Entry, Event, Dir
<1>6. CASE Stale(x)
  <2>1. list' = Tail(list) /\ UNCHANGED <<phase, back, call, owed>>
    BY <1>2, <1>6 DEF ReadNow
  <2>2. Generations' /\ QueuesCurrent' /\ OwedQueued'
    BY <1>1, <1>3, <2>1, QueuesKept
  <2>3. Iteration'
    BY <1>0, <1>1, <2>1 DEF Iteration, At, queueVars
  <2> QED  BY <1>0, <1>1, <1>3, <2>1, <2>2, <2>3, LoopFrame DEF Queues, queueVars
<1>7. CASE ~Stale(x) /\ ReadDue(x)
  <2>1. UNCHANGED list /\ CallHandler(e, e, x.gen, "list", "write")
    BY <1>2, <1>4, <1>7 DEF ReadNow
  <2>2. /\ call' \in Call /\ owed' \in SUBSET Event /\ phase' = "handler" /\ back' = "write"
        /\ owed' = owed \ {e} /\ phase' \in Phase /\ back' \in Phase
    BY <1>0, <1>5, <2>1, CallTypes DEF Phase
  <2>3. Generations' /\ QueuesCurrent' /\ OwedQueued'
    BY <1>1, <2>1, <2>2, QueuesKept
  <2>4. Iteration'
    BY <1>0, <1>1, <2>1, <2>2 DEF Iteration, At, queueVars
  <2> QED  BY <1>0, <1>1, <2>1, <2>2, <2>3, <2>4, LoopFrame DEF Queues, queueVars
<1>8. CASE ~Stale(x) /\ ~ReadDue(x)
  <2>1. phase' = "write" /\ UNCHANGED <<list, back, call, owed>>
    BY <1>2, <1>8 DEF ReadNow
  <2>2. Generations' /\ QueuesCurrent' /\ OwedQueued'
    BY <1>1, <2>1, QueuesKept
  <2>3. Iteration' /\ phase' \in Phase
    BY <1>0, <1>1, <2>1 DEF Iteration, At, queueVars, Phase
  <2> QED  BY <1>0, <1>1, <2>1, <2>2, <2>3, LoopFrame DEF Queues, queueVars
<1> QED  BY <1>6, <1>7, <1>8

\* The write half of an entry.
LEMMA WriteNowInv ==
    ASSUME EpollInv, WriteNow
    PROVE  EpollInv'
<1>0. /\ acceptQ \in Seq(Queued) /\ postedQ \in Seq(Queued) /\ list \in Seq(Entry)
      /\ phase \in Phase /\ back \in Phase /\ call \in Call /\ owed \in SUBSET Event
      /\ posting \in BOOLEAN /\ Iteration
  BY LoopTypes
<1>1. /\ phase = "write" /\ list' = Tail(list) /\ list # <<>> /\ ~posting
      /\ UNCHANGED <<module, slotVars, queueVars, posting>>
  BY <1>0 DEF WriteNow, Iteration, At
<1>2. PICK x : x = Head(list)
  OBVIOUS
<1>3. /\ x \in Entry /\ Tail(list) \in Seq(Entry) /\ Range(Tail(list)) \subseteq Range(list)
  BY <1>1, <1>2, ListTail
<1>4. PICK e : e = <<x.slot, "w">>
  OBVIOUS
<1>5. PICK w : w = WriteArg(x.slot)
  OBVIOUS
<1>6. /\ e \in Event /\ w \in Event /\ e[2] = "w" /\ x.gen \in 0 .. MaxGen
      /\ module # "cpp_epoll" => w = e
  BY <1>3, <1>4, <1>5 DEF Entry, Event, Dir, WriteArg
<1>7. CASE WriteDue(x) /\ ~Stale(x)
  <2>1. CallHandler(e, w, x.gen, "list", "entry")
    BY <1>2, <1>4, <1>5, <1>7 DEF WriteNow
  <2>2. /\ call' \in Call /\ owed' \in SUBSET Event /\ phase' = "handler" /\ back' = "entry"
        /\ e = w => owed' = owed \ {e}
        /\ e # w => owed' = owed \cup {e}
        /\ phase' \in Phase /\ back' \in Phase
    BY <1>0, <1>6, <2>1, CallTypes DEF Phase
  <2>3. \A o \in owed' : o \in owed \/ (module = "cpp_epoll" /\ o[2] = "w")
    BY <1>6, <2>2
  <2>4. Generations' /\ QueuesCurrent' /\ OwedQueued'
    BY <1>1, <1>3, <2>3, QueuesKept
  <2>5. Iteration'
    BY <1>0, <1>1, <2>2 DEF Iteration, At, queueVars
  <2> QED  BY <1>0, <1>1, <1>3, <2>2, <2>4, <2>5, LoopFrame DEF Queues, queueVars
<1>8. CASE ~(WriteDue(x) /\ ~Stale(x))
  <2>1. phase' = "entry" /\ UNCHANGED <<back, call, owed>>
    BY <1>2, <1>8 DEF WriteNow
  <2>2. Generations' /\ QueuesCurrent' /\ OwedQueued'
    BY <1>1, <1>3, <2>1, QueuesKept
  <2>3. Iteration' /\ phase' \in Phase
    BY <1>0, <1>1, <2>1 DEF Iteration, At, queueVars, Phase
  <2> QED  BY <1>0, <1>1, <1>3, <2>1, <2>2, <2>3, LoopFrame DEF Queues, queueVars
<1> QED  BY <1>7, <1>8

\* Steps that only move on: the list is done, the timers are, a handler returns; and
\* a timer's handler is called.
LEMMA PhaseInv ==
    ASSUME EpollInv,
           \/ ListDone \/ TimersDone \/ HandlerReturns
           \/ \E s \in Slot : ExpireTimer(s)
    PROVE  EpollInv'
<1>0. /\ acceptQ \in Seq(Queued) /\ postedQ \in Seq(Queued) /\ list \in Seq(Entry)
      /\ phase \in Phase /\ back \in Phase /\ call \in Call /\ owed \in SUBSET Event
      /\ posting \in BOOLEAN /\ Iteration /\ gen \in [Slot -> 0 .. MaxGen]
  BY LoopTypes
<1>1. /\ UNCHANGED <<module, slotVars, queueVars, list>> /\ posting' \in BOOLEAN
      /\ posting' => posting
  <2>1. CASE ListDone
    BY <2>1, Zenon DEF ListDone
  <2>2. CASE TimersDone \/ HandlerReturns \/ \E s \in Slot : ExpireTimer(s)
    <3>1. UNCHANGED <<module, slotVars, queueVars, list, posting>>
      BY <2>2 DEF TimersDone, HandlerReturns, ExpireTimer
    <3> QED  BY <1>0, <3>1
  <2> QED  BY <2>1, <2>2
<1>2. /\ owed' \subseteq owed /\ call' \in Call /\ phase' \in Phase /\ back' \in Phase
      /\ Iteration'
  <2>1. CASE ListDone
    BY <1>0, <1>1, <2>1 DEF ListDone, Iteration, At, queueVars, Phase
  <2>2. CASE TimersDone
    BY <1>0, <1>1, <2>2 DEF TimersDone, Iteration, At, queueVars, Phase
  <2>3. CASE HandlerReturns
    <3>1. NoCall \in Call
      <4>1. 0 \in 0 .. MaxGen /\ <<Listener, "r">> \in Event
        BY EpollAssumption DEF Event, Dir
      <4> QED  BY <4>1 DEF NoCall, Call
    <3> QED  BY <1>0, <1>1, <2>3, <3>1 DEF HandlerReturns, InHandler, Iteration, At, queueVars,
                                           Phase
  <2>4. CASE \E s \in Slot : ExpireTimer(s)
    <3>1. PICK s \in Slot : ExpireTimer(s)
      BY <2>4
    <3>2. PICK d \in Dir : CallHandler(<<s, d>>, <<s, d>>, gen[s], "timer", "timers")
      BY <3>1 DEF ExpireTimer
    <3>3. PICK e \in Event : e = <<s, d>>
      BY DEF Event
    <3>4. /\ call' \in Call /\ owed' = owed \ {e} /\ phase' = "handler" /\ back' = "timers"
          /\ phase' \in Phase /\ back' \in Phase
      <4>1. CallHandler(e, e, gen[s], "timer", "timers") /\ gen[s] \in 0 .. MaxGen
        BY <1>0, <3>2, <3>3
      <4> QED  BY <1>0, <4>1, CallTypes DEF Phase
    <3> QED  BY <1>0, <1>1, <3>1, <3>4 DEF ExpireTimer, Iteration, At, queueVars
  <2> QED  BY <2>1, <2>2, <2>3, <2>4
<1>3. Generations' /\ QueuesCurrent' /\ OwedQueued'
  BY <1>1, <1>2, QueuesKept
<1>4. Queues'
  BY <1>2, <1>3 DEF Queues
<1> QED  BY <1>0, <1>1, <1>2, <1>4, LoopFrame DEF queueVars

\* ngx_event_process_posted of one queue and not of the other: the event taken off is
\* no longer owed.
LEMMA TakePosted ==
    ASSUME EpollInv, NEW x, NEW q \in {acceptQ, postedQ}, q # <<>>, x = Head(q),
           UNCHANGED <<module, slotVars, list, posting>>,
           acceptQ' = (IF q = acceptQ THEN Tail(acceptQ) ELSE acceptQ),
           postedQ' = (IF q = acceptQ THEN postedQ ELSE Tail(postedQ)),
           owed' = owed \ {x.ev}
    PROVE  /\ acceptQ' \in Seq(Queued) /\ postedQ' \in Seq(Queued) /\ x \in Queued
           /\ Generations' /\ QueuesCurrent' /\ OwedQueued'
<1>0. /\ acceptQ \in Seq(Queued) /\ postedQ \in Seq(Queued) /\ owed \in SUBSET Event
      /\ Generations /\ QueuesCurrent /\ OwedQueued
  BY LoopTypes
<1>1. /\ Fresh(acceptQ) /\ Fresh(postedQ) /\ Once(acceptQ) /\ Once(postedQ)
      /\ QueuedEvents(acceptQ) \cap QueuedEvents(postedQ) = {}
  BY <1>0 DEF QueuesCurrent
<1>2. /\ Tail(q) \in Seq(Queued) /\ x \in Queued /\ x \in Range(q)
      /\ Range(Tail(q)) \subseteq Range(q)
      /\ QueuedEvents(Tail(q)) = QueuedEvents(q) \ {x.ev}
      /\ Once(Tail(q))
  BY <1>0, <1>1, QueueTail
<1>3. x.ev \in QueuedEvents(q)
  BY <1>2 DEF QueuedEvents
<1>4. /\ acceptQ' \in Seq(Queued) /\ postedQ' \in Seq(Queued)
      /\ Once(acceptQ') /\ Once(postedQ')
      /\ Range(acceptQ') \subseteq Range(acceptQ) /\ Range(postedQ') \subseteq Range(postedQ)
  BY <1>0, <1>1, <1>2
<1>5. /\ QueuedEvents(acceptQ') = QueuedEvents(acceptQ) \ {x.ev}
      /\ QueuedEvents(postedQ') = QueuedEvents(postedQ) \ {x.ev}
  BY <1>1, <1>2, <1>3
<1>6. Generations'
  BY <1>0 DEF Generations, slotVars
<1>7. QueuesCurrent'
  <2>1. Fresh(acceptQ)' /\ Fresh(postedQ)' /\ Once(acceptQ)' /\ Once(postedQ)'
    BY <1>1, <1>4 DEF Fresh, Once, slotVars
  <2> QED  BY <1>1, <1>5, <2>1 DEF QueuesCurrent, QueuedEvents
<1>8. OwedQueued'
  BY <1>0, <1>5 DEF OwedQueued, QueuedEvents
<1> QED  BY <1>2, <1>4, <1>6, <1>7, <1>8

\* Running the accept events.
LEMMA RunAcceptInv ==
    ASSUME EpollInv, RunAccept
    PROVE  EpollInv'
<1>0. /\ acceptQ \in Seq(Queued) /\ postedQ \in Seq(Queued) /\ list \in Seq(Entry)
      /\ phase \in Phase /\ back \in Phase /\ call \in Call /\ owed \in SUBSET Event
      /\ posting \in BOOLEAN /\ Iteration
  BY LoopTypes
<1>1. phase = "accept" /\ UNCHANGED <<module, slotVars, postedQ, list, posting>>
  BY DEF RunAccept
<1>2. CASE acceptQ = <<>>
  <2>1. phase' = "timers" /\ UNCHANGED <<acceptQ, back, call, owed>>
    BY <1>2 DEF RunAccept
  <2>2. Generations' /\ QueuesCurrent' /\ OwedQueued'
    BY <1>1, <2>1, QueuesKept DEF queueVars
  <2>3. Iteration' /\ phase' \in Phase
    BY <1>0, <1>1, <1>2, <2>1 DEF Iteration, At, Phase
  <2> QED  BY <1>0, <1>1, <2>1, <2>2, <2>3, LoopFrame DEF Queues
<1>3. CASE acceptQ # <<>>
  <2>1. PICK x : x = Head(acceptQ)
    OBVIOUS
  <2>2. acceptQ' = Tail(acceptQ) /\ CallHandler(x.ev, x.ev, x.gen, "queue", "accept")
    BY <1>3, <2>1 DEF RunAccept
  <2>3. owed' = owed \ {x.ev}
    BY <2>2 DEF CallHandler
  <2>4. /\ acceptQ' \in Seq(Queued) /\ postedQ' \in Seq(Queued) /\ x \in Queued
        /\ Generations' /\ QueuesCurrent' /\ OwedQueued'
    BY <1>1, <1>3, <2>1, <2>2, <2>3, TakePosted
  <2>5. x.ev \in Event /\ x.gen \in 0 .. MaxGen
    BY <2>4 DEF Queued
  <2>6. /\ call' \in Call /\ owed' \in SUBSET Event /\ phase' = "handler" /\ back' = "accept"
        /\ phase' \in Phase /\ back' \in Phase
    BY <1>0, <2>2, <2>5, CallTypes DEF Phase
  <2>7. Iteration'
    BY <1>0, <1>1, <2>6 DEF Iteration, At
  <2> QED  BY <1>0, <1>1, <2>4, <2>6, <2>7, LoopFrame DEF Queues
<1> QED  BY <1>2, <1>3

\* Running the other posted events.
LEMMA RunPostedInv ==
    ASSUME EpollInv, RunPosted
    PROVE  EpollInv'
<1>0. /\ acceptQ \in Seq(Queued) /\ postedQ \in Seq(Queued) /\ list \in Seq(Entry)
      /\ phase \in Phase /\ back \in Phase /\ call \in Call /\ owed \in SUBSET Event
      /\ posting \in BOOLEAN /\ Iteration
  BY LoopTypes
<1>1. /\ phase = "posted" /\ acceptQ = <<>>
      /\ UNCHANGED <<module, slotVars, acceptQ, list, posting>>
  BY <1>0 DEF RunPosted, Iteration, At
<1>2. CASE postedQ = <<>>
  <2>1. phase' = "wait" /\ UNCHANGED <<postedQ, back, call, owed>>
    BY <1>2 DEF RunPosted
  <2>2. Generations' /\ QueuesCurrent' /\ OwedQueued'
    BY <1>1, <2>1, QueuesKept DEF queueVars
  <2>3. Iteration' /\ phase' \in Phase
    BY <1>0, <1>1, <1>2, <2>1 DEF Iteration, At, Phase
  <2> QED  BY <1>0, <1>1, <2>1, <2>2, <2>3, LoopFrame DEF Queues
<1>3. CASE postedQ # <<>>
  <2>1. PICK x : x = Head(postedQ)
    OBVIOUS
  <2>2. postedQ' = Tail(postedQ) /\ CallHandler(x.ev, x.ev, x.gen, "queue", "posted")
    BY <1>3, <2>1 DEF RunPosted
  <2>3. owed' = owed \ {x.ev}
    BY <2>2 DEF CallHandler
  <2>4. /\ acceptQ' \in Seq(Queued) /\ postedQ' \in Seq(Queued) /\ x \in Queued
        /\ Generations' /\ QueuesCurrent' /\ OwedQueued'
    BY <1>1, <1>3, <2>1, <2>2, <2>3, TakePosted
  <2>5. x.ev \in Event /\ x.gen \in 0 .. MaxGen
    BY <2>4 DEF Queued
  <2>6. /\ call' \in Call /\ owed' \in SUBSET Event /\ phase' = "handler" /\ back' = "posted"
        /\ phase' \in Phase /\ back' \in Phase
    BY <1>0, <2>2, <2>5, CallTypes DEF Phase
  <2>7. Iteration'
    BY <1>0, <1>1, <2>6 DEF Iteration, At
  <2> QED  BY <1>0, <1>1, <2>4, <2>6, <2>7, LoopFrame DEF Queues
<1> QED  BY <1>2, <1>3

-----------------------------------------------------------------------------
(* The invariant of the specification.                                     *)

\* The free stack the cycle starts with holds every slot but the listener's, once.
LEMMA InitialFree ==
    ASSUME Init
    PROVE  free \in Seq(Slot) /\ Range(free) = Slot \ {Listener} /\ IsInjective(free)
<1>1. PICK n : n = Cardinality(Slot) - 1
  OBVIOUS
<1>2. PICK F : F = Slot \ {Listener}
  OBVIOUS
<1>3. IsFiniteSet(F) /\ Cardinality(F) = n /\ n \in Nat
  <2>1. IsFiniteSet(F) /\ Cardinality(F) = Cardinality(Slot) - 1
    BY <1>2, EpollAssumption, FS_RemoveElement
  <2> QED  BY <1>1, <2>1, FS_CardinalityType
<1>4. free \in [1 .. n -> F] /\ Range(free) = F
  BY <1>1, <1>2 DEF Init
<1>5. IsFiniteSet(1 .. n) /\ Cardinality(1 .. n) = n
  BY <1>3, FS_Interval
<1>6. free \in Surjection(1 .. n, F)
  <2>1. \A t \in F : \E s \in 1 .. n : free[s] = t
    BY <1>4 DEF Range
  <2> QED  BY <1>4, <2>1 DEF Surjection
<1>7. free \in Injection(1 .. n, F)
  BY <1>3, <1>5, <1>6, FS_SurjSameCardinalityImpliesInj
<1>8. IsInjective(free)
  BY <1>4, <1>7 DEF Injection
<1>9. free \in Seq(Slot)
  BY <1>2, <1>3, <1>4
<1> QED  BY <1>2, <1>4, <1>8, <1>9

\* The initial states.
LEMMA InitInv == Init => EpollInv
<1> SUFFICES ASSUME Init PROVE EpollInv
  OBVIOUS
<1>1. Listener \in Slot /\ MaxGen \in Nat
  BY EpollAssumption
<1>2. <<Listener, "r">> \in Event
  BY <1>1 DEF Event, Dir
<1>3. NoCall \in Call
  <2>1. 0 \in 0 .. MaxGen
    BY <1>1
  <2> QED  BY <1>2, <2>1 DEF NoCall, Call
<1>4. free \in Seq(Slot) /\ Range(free) = Slot \ {Listener} /\ IsInjective(free)
  BY InitialFree
<1>5. reusable = <<>> /\ list = <<>> /\ acceptQ = <<>> /\ postedQ = <<>>
  BY DEF Init
<1>6. Range(reusable) = {} /\ Range(list) = {} /\ Range(acceptQ) = {} /\ Range(postedQ) = {}
  BY <1>5, EmptyRange
<1>7. TypeOK
  <2>1. /\ module \in EventModules /\ open \in [Slot -> BOOLEAN]
        /\ instance \in [Slot -> {0, 1}] /\ active \in [Event -> BOOLEAN]
        /\ interest \in [Slot -> SUBSET Dir] /\ regInst \in [Slot -> {0, 1}]
    BY DEF Init, Dir
  <2>2. /\ posting \in BOOLEAN /\ phase \in Phase /\ back \in Phase
        /\ owed \in SUBSET Event
    BY DEF Init, Phase
  <2>3. gen \in [Slot -> 0 .. MaxGen] /\ call \in Call
    BY <1>1, <1>3 DEF Init
  <2> QED  BY <1>4, <1>5, <2>1, <2>2, <2>3 DEF TypeOK
<1>8. KernelAgrees
  <2> SUFFICES ASSUME NEW s \in Slot
               PROVE  /\ interest[s] = {d \in Dir : active[<<s, d>>]}
                      /\ interest[s] # {} => open[s] /\ regInst[s] = instance[s]
    BY DEF KernelAgrees, Registered
  <2>1. /\ interest[s] = IF s = Listener THEN {"r"} ELSE {}
        /\ open[s] <=> s = Listener
        /\ regInst[s] = 0 /\ instance[s] = 0
    BY DEF Init
  <2>2. \A d \in Dir : active[<<s, d>>] <=> s = Listener /\ d = "r"
    <3>1. \A d \in Dir : <<s, d>> \in Event
      BY DEF Event
    <3> QED  BY <3>1 DEF Init
  <2>3. {d \in Dir : active[<<s, d>>]} = IF s = Listener THEN {"r"} ELSE {}
    BY <2>2 DEF Dir
  <2> QED  BY <2>1, <2>3
<1>9. SlotAccounting
  <2>1. Range(free) = {s \in Slot : ~open[s]}
    BY <1>4 DEF Init
  <2>2. IsInjective(reusable)
    BY <1>5 DEF IsInjective
  <2> QED  BY <1>4, <1>6, <2>1, <2>2 DEF SlotAccounting
<1>10. Iteration /\ Generations
  BY <1>6 DEF Init, Iteration, Generations, At
<1>11. QueuesCurrent /\ OwedQueued
  <2>1. Once(acceptQ) /\ Once(postedQ)
    BY <1>5 DEF Once
  <2>2. QueuedEvents(acceptQ) = {}
    BY <1>6 DEF QueuedEvents
  <2> QED  BY <1>6, <2>1, <2>2 DEF Init, QueuesCurrent, OwedQueued, Fresh
<1> QED  BY <1>7, <1>8, <1>9, <1>10, <1>11 DEF EpollInv, Slots, Queues

\* Every step of a handler and of the loop.
LEMMA NextInv ==
    ASSUME EpollInv, [Next]_vars
    PROVE  EpollInv'
<1>1. CASE HandlerStep
  <2>1. CASE Get
    BY <2>1, GetInv
  <2>2. CASE \E s \in Slot, d \in Dir : Add(s, d) \/ Del(s, d)
    BY <2>2, AddInv, DelInv
  <2>3. CASE \E s \in Slot : AddConn(s) \/ DelConn(s) \/ Close(s)
    BY <2>3, ConnInv, CloseInv
  <2>4. CASE \E s \in Slot, on \in BOOLEAN : SetReusable(s, on)
    BY <2>4, SetReusableInv
  <2> QED  BY <1>1, <2>1, <2>2, <2>3, <2>4 DEF HandlerStep
<1>2. CASE LoopStep
  BY <1>2, EpollWaitInv, PostEntryInv, ReadNowInv, WriteNowInv, PhaseInv, RunAcceptInv,
     RunPostedInv DEF LoopStep
<1>3. CASE UNCHANGED vars
  BY <1>3 DEF vars, slotVars, queueVars, loopVars, EpollInv, TypeOK, Slots, Queues,
              KernelAgrees, Registered, SlotAccounting, Iteration, At, Generations,
              QueuesCurrent, Fresh, Once, QueuedEvents, OwedQueued
<1> QED  BY <1>1, <1>2, <1>3 DEF Next

\* The inductive invariant: flags and kernel, stack and queues, generations and what is
\* owed, together.
THEOREM EpollInvariant == Spec => []EpollInv
<1>1. EpollInv /\ [Next]_vars => EpollInv'
  BY NextInv
<1> QED  BY InitInv, <1>1, PTL DEF Spec

\* For any number of slots: after any sequence of registrations, closes, drains and
\* reuses made by handlers, ev->active is what the kernel watches, the kernel hands back
\* the present instance bit, and a slot is free once or in use.
THEOREM TableCorrect == Spec => []TableConsistent
<1>1. EpollInv => TableConsistent
  BY DEF EpollInv, Slots, TableConsistent
<1> QED  BY <1>1, EpollInvariant, PTL

\* The two posted queues, one after the other, hold only events of the present use of
\* their slot, each once: ngx_close_connection removes the others.
THEOREM PostedCorrect == Spec => []PostedAreCurrent
<1>1. ASSUME EpollInv PROVE PostedAreCurrent
  <2>1. acceptQ \in Seq(Queued) /\ postedQ \in Seq(Queued) /\ QueuesCurrent
    BY <1>1, LoopTypes
  <2>2. /\ Fresh(acceptQ) /\ Fresh(postedQ) /\ Once(acceptQ) /\ Once(postedQ)
        /\ QueuedEvents(acceptQ) \cap QueuedEvents(postedQ) = {}
    BY <2>1 DEF QueuesCurrent
  <2>3. PICK q : q = acceptQ \o postedQ
    OBVIOUS
  <2>4. PICK m : m = Len(acceptQ)
    OBVIOUS
  <2>5. PICK n : n = Len(postedQ)
    OBVIOUS
  <2>6. /\ q \in Seq(Queued) /\ Len(q) = m + n /\ m \in Nat /\ n \in Nat
        /\ DOMAIN acceptQ = 1 .. m /\ DOMAIN postedQ = 1 .. n
        /\ \A i \in 1 .. m + n : q[i] = IF i <= m THEN acceptQ[i] ELSE postedQ[i - m]
    BY <2>1, <2>3, <2>4, <2>5, ConcatProperties, LenProperties
  <2>7. DOMAIN q = 1 .. m + n
    BY <2>6, LenProperties
  <2>8. ASSUME NEW i \in 1 .. m + n
        PROVE  q[i] \in Range(acceptQ) \cup Range(postedQ)
    <3>1. CASE i <= m
      <4>1. i \in DOMAIN acceptQ /\ q[i] = acceptQ[i]
        BY <2>6, <3>1
      <4> QED  BY <4>1 DEF Range
    <3>2. CASE i > m
      <4>1. i - m \in 1 .. n /\ q[i] = postedQ[i - m]
        BY <2>6, <3>2
      <4> QED  BY <2>6, <4>1 DEF Range
    <3> QED  BY <2>6, <3>1, <3>2
  <2>9. \A i \in 1 .. m + n : open[q[i].ev[1]] /\ q[i].gen = gen[q[i].ev[1]]
    BY <2>2, <2>8 DEF Fresh
  <2>10. \A i \in 1 .. m : q[i].ev \in QueuedEvents(acceptQ)
    <3>1. \A i \in 1 .. m : i \in DOMAIN acceptQ /\ q[i] = acceptQ[i]
      BY <2>6
    <3> QED  BY <3>1 DEF QueuedEvents, Range
  <2>11. \A i \in m + 1 .. m + n : /\ i - m \in 1 .. n /\ q[i] = postedQ[i - m]
                                   /\ q[i].ev \in QueuedEvents(postedQ)
    <3>1. \A i \in m + 1 .. m + n : i - m \in 1 .. n /\ q[i] = postedQ[i - m]
      BY <2>6
    <3> QED  BY <2>6, <3>1 DEF QueuedEvents, Range
  <2>12. ASSUME NEW i \in 1 .. m + n, NEW j \in 1 .. m + n, q[i].ev = q[j].ev
         PROVE  i = j
    <3>1. CASE i <= m /\ j <= m
      BY <2>2, <2>6, <2>12, <3>1 DEF Once
    <3>2. CASE i > m /\ j > m
      <4>1. i \in m + 1 .. m + n /\ j \in m + 1 .. m + n
        BY <2>6, <3>2
      <4>2. i - m \in DOMAIN postedQ /\ j - m \in DOMAIN postedQ
            /\ postedQ[i - m].ev = postedQ[j - m].ev
        BY <2>6, <2>11, <2>12, <4>1
      <4>3. i - m = j - m
        BY <2>2, <4>2 DEF Once
      <4> QED  BY <2>6, <4>3
    <3>3. CASE i <= m /\ j > m
      <4>1. i \in 1 .. m /\ j \in m + 1 .. m + n
        BY <2>6, <3>3
      <4> QED  BY <2>2, <2>10, <2>11, <2>12, <4>1
    <3>4. CASE i > m /\ j <= m
      <4>1. j \in 1 .. m /\ i \in m + 1 .. m + n
        BY <2>6, <3>4
      <4> QED  BY <2>2, <2>10, <2>11, <2>12, <4>1
    <3> QED  BY <2>6, <3>1, <3>2, <3>3, <3>4
  <2> QED  BY <2>3, <2>7, <2>9, <2>12 DEF PostedAreCurrent
<1> QED  BY <1>1, EpollInvariant, PTL

\* Whatever handlers did in between, when epoll_wait is called again every readable event
\* the last iteration marked ready has reached its handler; with ngx_epoll_module.c
\* every writable one too.
THEOREM ReadsReach == Spec => []ReadsDelivered
<1>1. ASSUME EpollInv PROVE ReadsDelivered
  <2> SUFFICES ASSUME phase = "wait", NEW e \in owed
               PROVE  module = "cpp_epoll" /\ e \in Slot \X {"w"}
    BY DEF ReadsDelivered
  <2>1. acceptQ = <<>> /\ postedQ = <<>> /\ OwedQueued /\ e \in Event
    BY <1>1, LoopTypes DEF Iteration, At
  <2>2. QueuedEvents(acceptQ) \cup QueuedEvents(postedQ) = {}
    BY <2>1, EmptyRange DEF QueuedEvents
  <2>3. module = "cpp_epoll" /\ e[2] = "w"
    BY <2>1, <2>2 DEF OwedQueued
  <2> QED  BY <2>1, <2>3 DEF Event
<1> QED  BY <1>1, EpollInvariant, PTL

\* Every handler call is for a connection in use, and an event kept from epoll_wait is
\* not delivered to the next use of its slot: its generation and the slot's differ by
\* an even number, which is all that one bit can tell.
THEOREM CallsCorrect == Spec => CallsMatchInstance
<1>1. ASSUME EpollInv, [Next]_vars, Calls
      PROVE  /\ open[call'.handler[1]]
             /\ (gen[call'.handler[1]] - call'.gen) % 2 = 0
  <2>0. /\ list \in Seq(Entry) /\ acceptQ \in Seq(Queued) /\ postedQ \in Seq(Queued)
        /\ gen \in [Slot -> 0 .. MaxGen] /\ MaxGen \in Nat
        /\ Iteration /\ Generations /\ QueuesCurrent
    BY <1>1, LoopTypes, EpollAssumption
  <2>1. ASSUME NEW q \in Seq(Queued), q # <<>>, Fresh(q), call'.handler = Head(q).ev,
               call'.gen = Head(q).gen
        PROVE  open[call'.handler[1]] /\ (gen[call'.handler[1]] - call'.gen) % 2 = 0
    <3>1. Head(q) \in Range(q) /\ Head(q) \in Queued
      BY <2>1, TailRange, HeadTailProperties
    <3>2. open[call'.handler[1]] /\ gen[call'.handler[1]] = call'.gen
      BY <2>1, <3>1 DEF Fresh
    <3>3. call'.gen \in Nat
      BY <2>0, <2>1, <3>1 DEF Queued
    <3>4. ASSUME NEW g \in Nat PROVE (g - g) % 2 = 0
      OBVIOUS
    <3> QED  BY <3>2, <3>3, <3>4
  <2>2. ASSUME NEW s \in Slot, call'.handler[1] = s, list # <<>>, s = Head(list).slot,
               call'.gen = Head(list).gen, ~Stale(Head(list))
        PROVE  open[s] /\ call'.gen % 2 = gen[s] % 2 /\ call'.gen \in Nat /\ gen[s] \in Nat
    <3>1. Head(list) \in Range(list) /\ Head(list) \in Entry
      BY <1>1, <2>2, ListTail
    <3>2. Head(list).instance = Head(list).gen % 2 /\ instance[s] = gen[s] % 2
      BY <2>0, <3>1 DEF Generations
    <3>3. Head(list).gen \in Nat /\ gen[s] \in Nat
      BY <2>0, <3>1 DEF Entry
    <3> QED  BY <2>2, <3>2, <3>3 DEF Stale
  <2>3. ASSUME NEW a \in Nat, NEW b \in Nat, a % 2 = b % 2 PROVE (b - a) % 2 = 0
    BY <2>3
  <2>4. CASE ReadNow
    <3>1. list # <<>> /\ phase = "entry"
      BY <2>4 DEF ReadNow
    <3>2. PICK s \in Slot : s = Head(list).slot
      BY <1>1, <3>1, ListTail DEF Entry
    <3>3. ~Stale(Head(list)) /\ ReadDue(Head(list))
      BY <1>1, <2>4 DEF ReadNow, Calls
    <3>4. call'.handler = <<s, "r">> /\ call'.gen = Head(list).gen
      BY <2>4, <3>2, <3>3 DEF ReadNow, CallHandler
    <3> QED  BY <2>2, <2>3, <3>1, <3>2, <3>3, <3>4
  <2>5. CASE WriteNow
    <3>1. list # <<>>
      BY <2>0, <2>5 DEF WriteNow, Iteration, At
    <3>2. PICK s \in Slot : s = Head(list).slot
      BY <1>1, <3>1, ListTail DEF Entry
    <3>3. ~Stale(Head(list)) /\ WriteDue(Head(list))
      BY <1>1, <2>5 DEF WriteNow, Calls
    <3>4. call'.handler = <<s, "w">> /\ call'.gen = Head(list).gen
      BY <2>5, <3>2, <3>3 DEF WriteNow, CallHandler
    <3> QED  BY <2>2, <2>3, <3>1, <3>2, <3>3, <3>4
  <2>6. CASE RunAccept
    <3>1. /\ acceptQ # <<>> /\ call'.handler = Head(acceptQ).ev
          /\ call'.gen = Head(acceptQ).gen
      BY <1>1, <2>6 DEF RunAccept, Calls, CallHandler
    <3>2. Fresh(acceptQ) /\ Fresh(postedQ)
      BY <2>0 DEF QueuesCurrent
    <3> QED  BY <2>0, <2>1, <3>1, <3>2
  <2>7. CASE RunPosted
    <3>1. /\ postedQ # <<>> /\ call'.handler = Head(postedQ).ev
          /\ call'.gen = Head(postedQ).gen
      BY <1>1, <2>7 DEF RunPosted, Calls, CallHandler
    <3>2. Fresh(acceptQ) /\ Fresh(postedQ)
      BY <2>0 DEF QueuesCurrent
    <3> QED  BY <2>0, <2>1, <3>1, <3>2
  <2>8. CASE \E s \in Slot : ExpireTimer(s)
    BY <2>0, <2>8 DEF ExpireTimer, CallHandler
  <2>9. CASE EpollWait \/ PostEntry \/ ListDone \/ TimersDone \/ HandlerReturns
    BY <1>1, <2>0, <2>9 DEF EpollWait, PostEntry, ListDone, TimersDone, HandlerReturns,
                            Iteration, Calls, InHandler
  <2>10. CASE HandlerStep
    BY <1>1, <2>10 DEF HandlerStep, Add, Del, AddConn, DelConn, Close, SetReusable, Get,
                       loopVars, Calls
  <2>11. CASE UNCHANGED vars
    BY <1>1, <2>11 DEF vars, loopVars, Calls
  <2> QED  BY <1>1, <2>4, <2>5, <2>6, <2>7, <2>8, <2>9, <2>10, <2>11 DEF Next, LoopStep
<1>2. EpollInv /\ [Next]_vars =>
        [Calls => /\ open[call'.handler[1]]
                  /\ (gen[call'.handler[1]] - call'.gen) % 2 = 0]_vars
  BY <1>1
<1> QED  BY <1>2, EpollInvariant, PTL DEF Spec, CallsMatchInstance
=============================================================================
