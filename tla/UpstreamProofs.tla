--------------------------- MODULE UpstreamProofs ---------------------------
(***************************************************************************)
(* Upstream for every configuration of an upstream{} block and any number  *)
(* of overlapping requests: the weights stay in balance, round robin       *)
(* charges the peer that failed, tries are bounded, and "no live           *)
(* upstreams" is said only if there is none.                               *)
(***************************************************************************)
EXTENDS Upstream, FiniteSets, TLAPS, SequenceTheorems, FiniteSetTheorems,
        WellFoundedInduction

-----------------------------------------------------------------------------
(* Lists and numbers.                                                      *)

\* The empty list.
LEMMA EmptyRange == Range(<<>>) = {} /\ IsInjective(<<>>)
BY DEF Range, IsInjective

\* Linking an element at the end of a list.
LEMMA AppendRange ==
    ASSUME NEW S, NEW s \in Seq(S), NEW e \in S
    PROVE  /\ Range(Append(s, e)) = Range(s) \cup {e}
           /\ IsInjective(s) /\ e \notin Range(s) => IsInjective(Append(s, e))
<1> DEFINE n == Len(s)
           a == Append(s, e)
<1>1. /\ n \in Nat /\ DOMAIN s = 1 .. n /\ DOMAIN a = 1 .. n + 1
      /\ \A i \in 1 .. n : a[i] = s[i]
      /\ a[n + 1] = e
  <2>1. a \in Seq(S) /\ Len(a) = n + 1
    BY AppendProperties
  <2> QED  BY <2>1, AppendProperties, LenProperties
<1> HIDE DEF n, a
<1>2. Range(a) = Range(s) \cup {e}
  <2>1. ASSUME NEW x \in Range(a) PROVE x \in Range(s) \cup {e}
    <3>1. PICK i \in 1 .. n + 1 : x = a[i]
      BY <1>1, <2>1 DEF Range
    <3>2. CASE i \in 1 .. n
      BY <1>1, <3>1, <3>2 DEF Range
    <3>3. CASE i = n + 1
      BY <1>1, <3>1, <3>3
    <3> QED  BY <1>1, <3>2, <3>3
  <2>2. ASSUME NEW x \in Range(s) PROVE x \in Range(a)
    <3>1. PICK i \in 1 .. n : x = s[i]
      BY <1>1, <2>2 DEF Range
    <3>2. i \in 1 .. n + 1 /\ x = a[i]
      BY <1>1, <3>1
    <3> QED  BY <1>1, <3>2 DEF Range
  <2>3. e \in Range(a)
    BY <1>1 DEF Range
  <2> QED  BY <2>1, <2>2, <2>3
<1>3. ASSUME IsInjective(s), e \notin Range(s) PROVE IsInjective(a)
  <2> SUFFICES ASSUME NEW i \in 1 .. n + 1, NEW j \in 1 .. n + 1, a[i] = a[j]
               PROVE  i = j
    BY <1>1 DEF IsInjective
  <2>1. \A k \in 1 .. n : a[k] # e
    BY <1>1, <1>3 DEF Range
  <2>2. CASE i \in 1 .. n /\ j \in 1 .. n
    BY <1>1, <1>3, <2>2 DEF IsInjective
  <2>3. CASE i = n + 1 \/ j = n + 1
    BY <1>1, <2>1, <2>3
  <2> QED  BY <1>1, <2>2, <2>3
<1> QED  BY <1>2, <1>3 DEF a

\* A set of natural numbers with an element has a least one.
LEMMA LeastNat ==
    ASSUME NEW T \in SUBSET Nat, T # {}
    PROVE  \E n \in T : \A k \in T : n <= k
<1> DEFINE R == {ss \in Nat \X Nat : ss[1] < ss[2]}
<1>1. IsWellFoundedOn(R, Nat)
  BY NatLessThanWellFounded DEF OpToRel
<1>2. PICK x \in T : \A y \in T : ~(<<y, x>> \in R)
  BY <1>1, WFMin, Zenon
<1>3. ASSUME NEW y \in T PROVE x <= y
  <2>1. x \in Nat /\ y \in Nat
    OBVIOUS
  <2>2. ~(<<y, x>> \in R)
    BY <1>2
  <2>3. ~(y < x)
    BY <2>1, <2>2
  <2> QED  BY <2>1, <2>3
<1> QED  BY <1>3

-----------------------------------------------------------------------------
(* The inductive invariant.                                                *)

PeerRec == [cw : Int, ew : Nat, fails : Nat, accessed : Nat, checked : Nat]

ReqRec == [st : State, kind : {"plain", "unbuffered", "cacheable"},
           backup : BOOLEAN, current : Nat, tried : SUBSET Peers,
           random : Nat, tries : Nat, start : Nat, used : {0} \cup Peers,
           error : BOOLEAN, end : End, conns : Seq(Peers), sends : Nat]

\* The tries a request starts with.
Allowed == IF conf.tries # 0 /\ Cardinality(Peers) > conf.tries
           THEN conf.tries ELSE Cardinality(Peers)

Holding == {"connecting", "sent", "responding"}

\* A request holds a peer in three of its states, and the tries it has left and those
\* it made are no more than it was given.
TriesGood(q) ==
    /\ q.used # 0 <=> q.st \in Holding
    /\ q.st = "new" => q.conns = <<>> /\ q.sends = 0 /\ q.tried = {}
    /\ Len(q.conns) <= Allowed
    /\ q.st = "connect" => q.tries >= 1 /\ Len(q.conns) + q.tries <= Allowed
    /\ q.used # 0 => q.tries >= 1 /\ Len(q.conns) + q.tries <= Allowed + 1

\* A body that is not kept was not sent before the request is.
BodyGood(q) ==
    q.kind = "unbuffered" =>
        q.sends <= 1 /\ (q.st \in {"new", "connect", "connecting"} => q.sends = 0)

\* Round robin: no peer twice; the peers tried are remembered, except that a request
\* that moves on to the backup servers forgets the primary ones; and the index it
\* keeps is that of the peer it holds.
ChoiceGood(q) ==
    conf.balancer = "rr" =>
        /\ IsInjective(q.conns)
        /\ ~Single =>
             /\ q.tried \subseteq Range(q.conns) \cap Group(q.backup)
             /\ \A p \in Range(q.conns) : p \in q.tried \/ (q.backup /\ p \in Group(FALSE))
             /\ q.used # 0 => Current(q) = q.used

ReqGood(q) == q \in ReqRec /\ TriesGood(q) /\ BodyGood(q) /\ ChoiceGood(q)

\* The account of the peers ps with the failures h that happened.
WeightsGood(ps) ==
    /\ ps \in [Peers -> PeerRec]
    /\ \A p \in Peers : ps[p].ew \in 0 .. conf.servers[p].weight
    /\ \A b \in BOOLEAN : SumFunction([p \in Group(b) |-> ps[p].cw]) = 0

BlamesGood(ps, h) ==
    conf.balancer = "rr" =>
        \A p \in Peers :
            /\ ps[p].fails <= h[p].failed
            /\ ps[p].ew < conf.servers[p].weight => h[p].failed > 0

\* A peer that failed and was looked at again since is being probed: it is in the set U of
\* the peers that requests hold.
ProbesGood(ps, h, U) ==
    conf.balancer = "rr" /\ ~Single =>
        \A p \in Peers :
            /\ ps[p].accessed = h[p].last
            /\ ps[p].fails > 0 /\ ps[p].checked > ps[p].accessed => p \in U

\* The peers that the requests in S hold.
Held(S) == {rq[x].used : x \in S}

HistType(h) == h \in [Peers -> [failed : Nat, last : Nat]]

UpInv ==
    /\ conf \in Confs /\ now \in Nat /\ HistType(hist)
    /\ run \in Request \cup {None}
    /\ rq \in [Request -> ReqRec]
    /\ \A r \in Request : ReqGood(rq[r]) /\ (rq[r].st = "connect" <=> run = r)
    /\ WeightsGood(peer) /\ BlamesGood(peer, hist) /\ ProbesGood(peer, hist, Held(Request))

-----------------------------------------------------------------------------
(* Sums over finite sets, as SumFunction computes them.                    *)

\* The element a fold takes next.
PickOf(s) == CHOOSE x \in s : TRUE

\* g has the sum of f over each of the sets in D.
SumRule(g, f, D) ==
    /\ g \in [D -> Int]
    /\ \A t \in D : g[t] = IF t = {} THEN 0 ELSE f[PickOf(t)] + g[t \ {PickOf(t)}]

\* g is the sum of f at any element and over the rest, for each subset of S.
Splits(g, f, S) ==
    /\ g[{}] = 0
    /\ \A t \in SUBSET S : g[t] \in Int /\ \A x \in t : g[t] = f[x] + g[t \ {x}]

\* f has a number for every element of S.
IntOn(f, S) == \A x \in S : f[x] \in Int

\* Removing an element of a finite set.
LEMMA OneLess ==
    ASSUME NEW S, IsFiniteSet(S), NEW t \in SUBSET S
    PROVE  /\ IsFiniteSet(t) /\ Cardinality(t) \in Nat
           /\ \A x \in t : t \ {x} \in SUBSET S /\ Cardinality(t \ {x}) = Cardinality(t) - 1
           /\ t # {} => PickOf(t) \in t
           /\ Cardinality(t) = 0 <=> t = {}
<1>1. IsFiniteSet(t) /\ Cardinality(t) \in Nat
  BY FS_Subset, FS_CardinalityType
<1>2. \A x \in t : Cardinality(t \ {x}) = Cardinality(t) - 1
  BY <1>1, FS_RemoveElement
<1>3. t # {} => PickOf(t) \in t
  BY DEF PickOf
<1>4. Cardinality(t) = 0 <=> t = {}
  BY <1>1, FS_EmptySet
<1> QED  BY <1>1, <1>2, <1>3, <1>4

\* Induction over the subsets of a finite set: a family that is not empty has a member
\* that is in it although none of the sets with one element less is.
LEMMA Minimal ==
    ASSUME NEW S, IsFiniteSet(S), NEW F \in SUBSET (SUBSET S), F # {}
    PROVE  \E s \in F : \A x \in s : s \ {x} \notin F
<1> DEFINE T == {Cardinality(s) : s \in F}
<1>1. T \in SUBSET Nat /\ T # {}
  BY OneLess
<1>2. PICK n \in T : \A k \in T : n <= k
  <2> HIDE DEF T
  <2> QED  BY <1>1, LeastNat
<1>3. PICK s \in F : Cardinality(s) = n
  OBVIOUS
<1>4. ASSUME NEW x \in s, s \ {x} \in F PROVE FALSE
  <2>1. Cardinality(s \ {x}) = n - 1 /\ n \in Nat
    BY <1>3, OneLess
  <2>2. Cardinality(s \ {x}) \in T
    BY <1>4
  <2>3. n <= n - 1
    <3> HIDE DEF T
    <3> QED  BY <1>2, <2>1, <2>2
  <2> QED  BY <2>1, <2>3
<1> QED  BY <1>4

\* The sums over all subsets exist.
LEMMA SumExists ==
    ASSUME NEW S, IsFiniteSet(S), NEW f, IntOn(f, S)
    PROVE  \E g : SumRule(g, f, SUBSET S)
<1> DEFINE Small(n) == {t \in SUBSET S : Cardinality(t) <= n}
           N == Cardinality(S)
           Bad == {n \in Nat : ~\E g : SumRule(g, f, Small(n))}
<1>1. N \in Nat /\ SUBSET S = Small(N)
  <2>1. N \in Nat
    BY FS_CardinalityType
  <2>2. ASSUME NEW t \in SUBSET S PROVE Cardinality(t) <= N
    BY FS_Subset
  <2> QED  BY <2>1, <2>2
<1>2. Bad = {}
  <2> SUFFICES ASSUME Bad # {} PROVE FALSE
    OBVIOUS
  <2>1. PICK n \in Bad : \A k \in Bad : n <= k
    <3>1. Bad \in SUBSET Nat
      OBVIOUS
    <3> HIDE DEF Bad
    <3> QED  BY <3>1, LeastNat
  <2>2. n \in Nat /\ ~\E g : SumRule(g, f, Small(n))
    OBVIOUS
  <2>3. CASE n = 0
    <3> DEFINE g == [t \in Small(0) |-> 0]
    <3>1. \A t \in Small(0) : t = {}
      BY OneLess
    <3>2. SumRule(g, f, Small(0))
      <4> HIDE DEF Small
      <4> QED  BY <3>1 DEF SumRule
    <3> QED  BY <2>2, <2>3, <3>2
  <2>4. CASE n # 0
    <3>1. n - 1 \in Nat /\ n - 1 \notin Bad
      <4> HIDE DEF Bad
      <4>1. n - 1 \in Nat /\ ~(n <= n - 1)
        BY <2>2, <2>4
      <4> QED  BY <2>1, <4>1
    <3>2. PICK h : SumRule(h, f, Small(n - 1))
      BY <3>1
    <3> DEFINE V(t) == IF t = {} THEN 0 ELSE f[PickOf(t)] + h[t \ {PickOf(t)}]
               g == [t \in Small(n) |-> V(t)]
    <3>3. ASSUME NEW t \in Small(n), t # {}
          PROVE  PickOf(t) \in S /\ t \ {PickOf(t)} \in Small(n - 1)
      <4>1. /\ PickOf(t) \in t /\ t \ {PickOf(t)} \in SUBSET S
            /\ Cardinality(t \ {PickOf(t)}) = Cardinality(t) - 1 /\ Cardinality(t) \in Nat
        BY <3>3, OneLess
      <4> QED  BY <2>2, <4>1
    <3>4. \A t \in Small(n - 1) : t \in Small(n) /\ h[t] = V(t) /\ h[t] \in Int
      <4>1. \A t \in Small(n - 1) : t \in Small(n)
        <5>1. ASSUME NEW t \in SUBSET S, Cardinality(t) <= n - 1 PROVE Cardinality(t) <= n
          BY <2>2, <5>1, OneLess
        <5> QED  BY <5>1
      <4> HIDE DEF Small
      <4> QED  BY <3>2, <4>1 DEF SumRule
    <3>5. \A t \in Small(n) : V(t) \in Int
      <4>1. ASSUME NEW t \in Small(n), t # {} PROVE f[PickOf(t)] \in Int /\ h[t \ {PickOf(t)}] \in Int
        <5> HIDE DEF Small, V
        <5> QED  BY <3>3, <3>4, <4>1 DEF IntOn
      <4> HIDE DEF Small
      <4> QED  BY <4>1
    <3>6. ASSUME NEW t \in Small(n)
          PROVE  g[t] = IF t = {} THEN 0 ELSE f[PickOf(t)] + g[t \ {PickOf(t)}]
      <4>1. CASE t = {}
        <5> HIDE DEF Small
        <5> QED  BY <4>1
      <4>2. CASE t # {}
        <5>1. PICK u : u = t \ {PickOf(t)}
          OBVIOUS
        <5>2. u \in Small(n - 1) /\ u \in Small(n) /\ h[u] = V(u)
          <6> HIDE DEF Small, V
          <6> QED  BY <3>3, <3>4, <4>2, <5>1
        <5>3. g[u] = h[u]
          <6> HIDE DEF Small, V
          <6> QED  BY <5>2
        <5>4. g[t] = f[PickOf(t)] + h[u]
          <6> HIDE DEF Small
          <6> QED  BY <4>2, <5>1
        <5> HIDE DEF g
        <5> QED  BY <4>2, <5>1, <5>3, <5>4
      <4> QED  BY <4>1, <4>2
    <3>7. g \in [Small(n) -> Int]
      <4> HIDE DEF Small, V
      <4> QED  BY <3>5
    <3>8. SumRule(g, f, Small(n))
      <4> HIDE DEF Small, g
      <4> QED  BY <3>6, <3>7 DEF SumRule
    <3> QED  BY <2>2, <3>8
  <2> QED  BY <2>3, <2>4
<1>3. \E g : SumRule(g, f, Small(N))
  <2> HIDE DEF Small, N
  <2> QED  BY <1>1, <1>2
<1> QED
  <2> HIDE DEF Small
  <2> QED  BY <1>1, <1>3

\* SumFunction is such a sum.
LEMMA SumDefined ==
    ASSUME NEW S, IsFiniteSet(S), NEW f, IntOn(f, S)
    PROVE  \E g : SumRule(g, f, SUBSET S) /\ SumFunctionOnSet(f, S) = g[S]
<1> DEFINE Eq(h) == h = [s \in SUBSET S |->
                           IF s = {} THEN 0
                           ELSE f[CHOOSE x \in s : TRUE] + h[s \ {CHOOSE x \in s : TRUE}]]
           iter == CHOOSE h : Eq(h)
<1>1. PICK g : SumRule(g, f, SUBSET S)
  BY SumExists
<1>2. Eq(g)
  BY <1>1 DEF SumRule, PickOf
<1>3. Eq(iter)
  BY <1>2
<1>4. SumFunctionOnSet(f, S) = iter[S]
  BY DEF SumFunctionOnSet, FoldFunctionOnSet, MapThenFoldSet
<1> HIDE DEF iter
<1>5. \A t \in SUBSET S : iter[t] = IF t = {} THEN 0 ELSE f[PickOf(t)] + iter[t \ {PickOf(t)}]
  BY <1>3 DEF PickOf
<1>6. ASSUME NEW t \in SUBSET S PROVE iter[t] \in Int
  <2> DEFINE F == {s \in SUBSET S : iter[s] \notin Int}
  <2> SUFFICES ASSUME F # {} PROVE FALSE
    OBVIOUS
  <2>1. PICK s \in F : \A x \in s : s \ {x} \notin F
    <3>1. F \in SUBSET (SUBSET S)
      OBVIOUS
    <3> HIDE DEF F
    <3> QED  BY <3>1, Minimal
  <2>2. s # {}
    <3>1. {} \in SUBSET S
      OBVIOUS
    <3>2. iter[{}] = 0
      BY <1>5, <3>1
    <3>3. iter[s] \notin Int
      OBVIOUS
    <3> HIDE DEF F
    <3> QED  BY <3>2, <3>3
  <2>3. PickOf(s) \in s /\ PickOf(s) \in S /\ iter[s \ {PickOf(s)}] \in Int
    BY <2>1, <2>2, OneLess
  <2> QED  BY <1>5, <2>2, <2>3 DEF IntOn
<1>7. iter \in [SUBSET S -> Int]
  <2>1. iter = [s \in SUBSET S |-> iter[s]]
    <3> DEFINE W(s) == IF s = {} THEN 0
                       ELSE f[CHOOSE x \in s : TRUE] + iter[s \ {CHOOSE x \in s : TRUE}]
    <3>1. iter = [s \in SUBSET S |-> W(s)]
      BY <1>3
    <3> HIDE DEF W
    <3> QED  BY <3>1
  <2> QED  BY <1>6, <2>1
<1> QED  BY <1>4, <1>5, <1>7 DEF SumRule

\* A sum over a set is the value at any of its elements and the sum over the rest.
LEMMA SumSplit ==
    ASSUME NEW S, IsFiniteSet(S), NEW f, IntOn(f, S), NEW g,
           SumRule(g, f, SUBSET S)
    PROVE  Splits(g, f, S)
<1>0. g[{}] = 0 /\ \A t \in SUBSET S : g[t] \in Int
  <2>1. {} \in SUBSET S
    OBVIOUS
  <2> QED  BY <2>1 DEF SumRule
<1>1. \A t \in SUBSET S : t # {} =>
         PickOf(t) \in t /\ g[t] = f[PickOf(t)] + g[t \ {PickOf(t)}]
  BY OneLess DEF SumRule
<1> DEFINE F == {t \in SUBSET S : \E x \in t : g[t] # f[x] + g[t \ {x}]}
<1>2. F = {}
  <2> SUFFICES ASSUME F # {} PROVE FALSE
    OBVIOUS
  <2>1. PICK t \in F : \A x \in t : t \ {x} \notin F
    <3>1. F \in SUBSET (SUBSET S)
      OBVIOUS
    <3> HIDE DEF F
    <3> QED  BY <3>1, Minimal
  <2>2. PICK x \in t : g[t] # f[x] + g[t \ {x}]
    OBVIOUS
  <2>3. t \in SUBSET S /\ t # {}
    BY <2>2
  <2>4. PICK y \in t : g[t] = f[y] + g[t \ {y}]
    BY <1>1, <2>3
  <2>5. x # y
    BY <2>2, <2>4
  <2>6. PICK u : u = (t \ {x}) \ {y}
    OBVIOUS
  <2>7. u = (t \ {y}) \ {x} /\ u \in SUBSET S /\ t \ {x} \in SUBSET S /\ t \ {y} \in SUBSET S
        /\ x \in t \ {y} /\ y \in t \ {x} /\ x \in S /\ y \in S
    BY <2>3, <2>5, <2>6
  <2>13. t \ {y} \notin F /\ t \ {x} \notin F
    BY <2>1
  <2>8. g[t \ {y}] = f[x] + g[(t \ {y}) \ {x}]
    BY <2>7, <2>13
  <2>9. g[t \ {x}] = f[y] + g[(t \ {x}) \ {y}]
    BY <2>7, <2>13
  <2>10. f[x] \in Int /\ f[y] \in Int /\ g[u] \in Int
    BY <1>0, <2>7 DEF IntOn
  <2>11. f[y] + (f[x] + g[u]) = f[x] + (f[y] + g[u])
    BY <2>10
  <2>12. g[t \ {y}] = f[x] + g[u] /\ g[t \ {x}] = f[y] + g[u]
    BY <2>6, <2>7, <2>8, <2>9
  <2> HIDE DEF F
  <2> QED  BY <2>2, <2>4, <2>11, <2>12
<1> QED  BY <1>0, <1>2 DEF Splits

\* Adding e on the elements of C adds the sum of e over C.
LEMMA SumAdds ==
    ASSUME NEW S, IsFiniteSet(S), NEW C \in SUBSET S, NEW f, NEW e, NEW h,
           IntOn(f, S), IntOn(e, C),
           \A x \in S : h[x] = IF x \in C THEN f[x] + e[x] ELSE f[x]
    PROVE  /\ SumFunctionOnSet(f, S) \in Int /\ SumFunctionOnSet(e, C) \in Int
           /\ SumFunctionOnSet(h, S) = SumFunctionOnSet(f, S) + SumFunctionOnSet(e, C)
<1>1. IsFiniteSet(C) /\ IntOn(h, S)
  BY FS_Subset DEF IntOn
<1>2. PICK gf : SumRule(gf, f, SUBSET S) /\ SumFunctionOnSet(f, S) = gf[S]
  BY SumDefined
<1>3. PICK gh : SumRule(gh, h, SUBSET S) /\ SumFunctionOnSet(h, S) = gh[S]
  BY <1>1, SumDefined
<1>4. PICK ge : SumRule(ge, e, SUBSET C) /\ SumFunctionOnSet(e, C) = ge[C]
  BY <1>1, SumDefined
<1>5. gf[{}] = 0 /\ \A t \in SUBSET S : gf[t] \in Int /\ \A x \in t : gf[t] = f[x] + gf[t \ {x}]
  <2>1. Splits(gf, f, S)
    BY <1>2, SumSplit
  <2> QED  BY <2>1 DEF Splits
<1>6. gh[{}] = 0 /\ \A t \in SUBSET S : gh[t] \in Int /\ \A x \in t : gh[t] = h[x] + gh[t \ {x}]
  <2>1. Splits(gh, h, S)
    BY <1>1, <1>3, SumSplit
  <2> QED  BY <2>1 DEF Splits
<1>7. ge[{}] = 0 /\ \A t \in SUBSET C : ge[t] \in Int /\ \A x \in t : ge[t] = e[x] + ge[t \ {x}]
  <2>1. Splits(ge, e, C)
    BY <1>1, <1>4, SumSplit
  <2> QED  BY <2>1 DEF Splits
<1> DEFINE F == {t \in SUBSET S : gh[t] # gf[t] + ge[t \cap C]}
<1>8. F = {}
  <2> SUFFICES ASSUME F # {} PROVE FALSE
    OBVIOUS
  <2>1. PICK t \in F : \A x \in t : t \ {x} \notin F
    <3>1. F \in SUBSET (SUBSET S)
      OBVIOUS
    <3> HIDE DEF F
    <3> QED  BY <3>1, Minimal
  <2>2. t \in SUBSET S /\ gh[t] # gf[t] + ge[t \cap C]
    OBVIOUS
  <2>3. t # {}
    <3>1. {} \cap C = {}
      OBVIOUS
    <3> HIDE DEF F
    <3>2. t = {} => gh[t] = 0 /\ gf[t] = 0 /\ ge[t \cap C] = 0
      BY <1>5, <1>6, <1>7, <3>1
    <3> QED  BY <2>2, <3>2
  <2>4. PICK x \in t : TRUE
    BY <2>3
  <2>5. PICK u : u = t \ {x}
    OBVIOUS
  <2>6. u \in SUBSET S /\ x \in S /\ gh[u] = gf[u] + ge[u \cap C]
    BY <2>1, <2>2, <2>5
  <2>7. /\ gh[t] = h[x] + gh[u] /\ gf[t] = f[x] + gf[u] /\ gf[u] \in Int /\ f[x] \in Int
        /\ ge[u \cap C] \in Int
    <3>1. u \cap C \in SUBSET C
      OBVIOUS
    <3> HIDE DEF F
    <3> QED  BY <1>5, <1>6, <1>7, <2>2, <2>5, <2>6, <3>1 DEF IntOn
  <2>8. CASE x \in C
    <3>1. u \cap C = (t \cap C) \ {x} /\ x \in t \cap C /\ t \cap C \in SUBSET C
      BY <2>5, <2>8
    <3>2. ge[t \cap C] = e[x] + ge[u \cap C] /\ e[x] \in Int /\ h[x] = f[x] + e[x]
      BY <1>7, <2>6, <2>8, <3>1 DEF IntOn
    <3> HIDE DEF F
    <3> QED  BY <2>2, <2>6, <2>7, <3>2
  <2>9. CASE x \notin C
    <3>1. u \cap C = t \cap C /\ h[x] = f[x]
      BY <2>5, <2>6, <2>9
    <3> HIDE DEF F
    <3>2. f[x] + (gf[u] + ge[u \cap C]) = (f[x] + gf[u]) + ge[u \cap C]
      BY <2>7
    <3> QED  BY <2>2, <2>6, <2>7, <3>1, <3>2
  <2> QED  BY <2>8, <2>9
<1>9. gh[S] = gf[S] + ge[C]
  <2>1. S \cap C = C /\ S \in SUBSET S
    OBVIOUS
  <2> QED  BY <1>8, <2>1
<1>10. gf[S] \in Int /\ ge[C] \in Int
  BY <1>5, <1>7
<1> QED  BY <1>2, <1>3, <1>4, <1>9, <1>10

\* Of a finite set of numbers with a value each there is a first one with the greatest.
LEMMA BestExists ==
    ASSUME NEW C \in SUBSET Nat, IsFiniteSet(C), C # {}, NEW v, \A x \in C : v[x] \in Int
    PROVE  \E p \in C : \A x \in C : v[p] > v[x] \/ (v[p] = v[x] /\ p <= x)
<1> DEFINE Best(s, p) == p \in s /\ \A x \in s : v[p] > v[x] \/ (v[p] = v[x] /\ p <= x)
           F == {s \in SUBSET C : s # {} /\ ~\E p : Best(s, p)}
<1>1. F = {}
  <2> SUFFICES ASSUME F # {} PROVE FALSE
    OBVIOUS
  <2>1. PICK s \in F : \A x \in s : s \ {x} \notin F
    <3>1. F \in SUBSET (SUBSET C)
      OBVIOUS
    <3> HIDE DEF F
    <3> QED  BY <3>1, Minimal
  <2>2. s \in SUBSET C /\ s # {} /\ ~\E p : Best(s, p)
    OBVIOUS
  <2>3. PICK x \in s : TRUE
    BY <2>2
  <2>4. x \in Nat /\ v[x] \in Int /\ \A y \in s : y \in Nat /\ v[y] \in Int
    BY <2>2
  <2>5. CASE s \ {x} = {}
    <3>1. \A y \in s : y = x
      BY <2>5
    <3>2. Best(s, x)
      BY <2>4, <3>1
    <3> QED  BY <2>2, <3>2
  <2>6. CASE s \ {x} # {}
    <3>1. PICK p : Best(s \ {x}, p)
      BY <2>1, <2>2, <2>6
    <3>2. p \in s /\ p \in Nat /\ v[p] \in Int
      BY <2>4, <3>1
    <3>3. \A y \in s : y # x => v[p] > v[y] \/ (v[p] = v[y] /\ p <= y)
      BY <3>1
    <3>4. CASE v[p] > v[x] \/ (v[p] = v[x] /\ p <= x)
      <4>1. Best(s, p)
        BY <3>2, <3>3, <3>4
      <4> QED  BY <2>2, <4>1
    <3>5. CASE ~(v[p] > v[x] \/ (v[p] = v[x] /\ p <= x))
      <4>1. v[x] > v[p] \/ (v[x] = v[p] /\ x <= p)
        <5> HIDE DEF Best, F
        <5> QED  BY <2>4, <3>2, <3>5
      <4>2. ASSUME NEW y \in s PROVE v[x] > v[y] \/ (v[x] = v[y] /\ x <= y)
        <5>1. y \in Nat /\ v[y] \in Int
          BY <2>4
        <5>2. CASE y = x
          BY <2>4, <5>2
        <5>3. CASE y # x
          BY <2>4, <3>2, <3>3, <4>1, <5>1, <5>3
        <5> QED  BY <5>2, <5>3
      <4>3. Best(s, x)
        BY <4>2
      <4> QED  BY <2>2, <4>3
    <3> QED  BY <3>4, <3>5
  <2> QED  BY <2>5, <2>6
<1> QED  BY <1>1

-----------------------------------------------------------------------------
(* The servers of a configuration.                                         *)

\* The servers are numbered from 1, and there is at least one.
LEMMA PeersFacts ==
    ASSUME conf \in Confs
    PROVE  /\ Peers \in SUBSET (Nat \ {0}) /\ IsFiniteSet(Peers)
           /\ Cardinality(Peers) \in Nat \ {0}
           /\ \A p \in Peers : /\ conf.servers[p].weight \in Nat \ {0}
                               /\ conf.servers[p].max_fails \in Nat
                               /\ conf.servers[p].down \in BOOLEAN
                               /\ conf.servers[p].backup \in BOOLEAN
<1>1. /\ conf.servers \in Seq([weight : Nat \ {0}, max_fails : Nat,
                               down : BOOLEAN, backup : BOOLEAN])
      /\ \E p \in DOMAIN conf.servers : ~conf.servers[p].backup
  BY ConfAssumption
<1>2. Len(conf.servers) \in Nat /\ Peers = 1 .. Len(conf.servers)
  BY <1>1, LenProperties DEF Peers
<1>3. IsFiniteSet(Peers)
  BY <1>2, FS_Interval
<1>4. Peers # {}
  BY <1>1 DEF Peers
<1>5. Cardinality(Peers) \in Nat \ {0}
  BY <1>3, <1>4, FS_CardinalityType, FS_EmptySet
<1>6. \A p \in Peers : conf.servers[p] \in [weight : Nat \ {0}, max_fails : Nat,
                                            down : BOOLEAN, backup : BOOLEAN]
  BY <1>1, <1>2, ElementOfSeq
<1> QED  BY <1>2, <1>3, <1>5, <1>6

\* The two groups share the servers out, and the first of a group is its smallest.
LEMMA GroupFacts ==
    ASSUME conf \in Confs
    PROVE  /\ \A b \in BOOLEAN : Group(b) \in SUBSET Peers /\ IsFiniteSet(Group(b))
           /\ Group(FALSE) # {}
           /\ \A p \in Peers : p \in Group(FALSE) \/ p \in Group(TRUE)
           /\ \A p \in Group(FALSE) : p \notin Group(TRUE)
           /\ \A b \in BOOLEAN : Group(b) # {} =>
                 Min(Group(b)) \in Group(b) /\ \A p \in Group(b) : Min(Group(b)) <= p
<1>1. \A b \in BOOLEAN : Group(b) \in SUBSET Peers /\ IsFiniteSet(Group(b))
  BY PeersFacts, FS_Subset DEF Group
<1>2. Group(FALSE) # {}
  <2>1. PICK p \in Peers : ~conf.servers[p].backup
    BY ConfAssumption DEF Peers
  <2>2. conf.servers[p].backup = FALSE
    BY <2>1, PeersFacts
  <2> QED  BY <2>1, <2>2 DEF Group
<1>3. \A p \in Peers : p \in Group(FALSE) \/ p \in Group(TRUE)
  BY PeersFacts DEF Group
<1>4. \A p \in Group(FALSE) : p \notin Group(TRUE)
  BY DEF Group
<1>5. ASSUME NEW b \in BOOLEAN, Group(b) # {}
      PROVE  Min(Group(b)) \in Group(b) /\ \A p \in Group(b) : Min(Group(b)) <= p
  <2>1. Group(b) \in SUBSET Nat
    BY <1>1, PeersFacts
  <2>2. PICK n \in Group(b) : \A k \in Group(b) : n <= k
    BY <1>5, <2>1, LeastNat
  <2> QED  BY <2>2 DEF Min
<1> QED  BY <1>1, <1>2, <1>3, <1>4, <1>5

\* A request is given at least one try, and no more than there are servers.
LEMMA AllowedFacts ==
    ASSUME conf \in Confs
    PROVE  /\ Allowed \in Nat \ {0} /\ Allowed <= Cardinality(Peers)
           /\ conf.tries # 0 => Allowed <= conf.tries
<1>1. conf.tries \in Nat
  BY ConfAssumption
<1> QED  BY <1>1, PeersFacts DEF Allowed

-----------------------------------------------------------------------------
(* Choosing a peer.                                                        *)

\* The sum over one element.
LEMMA SumSingle ==
    ASSUME NEW x, NEW f, f[x] \in Int
    PROVE  SumFunctionOnSet(f, {x}) = f[x]
<1>1. IsFiniteSet({x}) /\ IntOn(f, {x})
  BY FS_Singleton DEF IntOn
<1>2. PICK g : SumRule(g, f, SUBSET {x}) /\ SumFunctionOnSet(f, {x}) = g[{x}]
  BY <1>1, SumDefined
<1>3. Splits(g, f, {x})
  BY <1>1, <1>2, SumSplit
<1>4. {x} \in SUBSET {x} /\ x \in {x} /\ {x} \ {x} = {}
  OBVIOUS
<1>5. g[{}] = 0 /\ g[{x}] = f[x] + g[{x} \ {x}]
  BY <1>3, <1>4 DEF Splits
<1>6. g[{x}] = f[x] + 0 /\ f[x] + 0 = f[x]
  BY <1>4, <1>5
<1> QED  BY <1>2, <1>6

\* Raising the weights of the candidates C and taking their total off the one chosen
\* keeps the sum of the current weights of the group.
LEMMA GroupSum ==
    ASSUME NEW G, IsFiniteSet(G), NEW C \in SUBSET G, NEW x \in C, NEW cw, NEW ew, NEW new,
           IntOn(cw, G), IntOn(ew, C), NEW T, T = SumFunctionOnSet(ew, C),
           \A p \in G : new[p] = IF p \in C THEN cw[p] + ew[p] - (IF p = x THEN T ELSE 0)
                                            ELSE cw[p]
    PROVE  SumFunctionOnSet(new, G) = SumFunctionOnSet(cw, G) /\ T \in Int
<1> DEFINE h == [p \in G |-> IF p \in C THEN cw[p] + ew[p] ELSE cw[p]]
           off == [p \in {x} |-> -T]
<1>1. /\ SumFunctionOnSet(cw, G) \in Int /\ T \in Int
      /\ SumFunctionOnSet(h, G) = SumFunctionOnSet(cw, G) + T
  <2>1. /\ IsFiniteSet(G) /\ C \in SUBSET G /\ IntOn(cw, G) /\ IntOn(ew, C)
        /\ \A p \in G : h[p] = IF p \in C THEN cw[p] + ew[p] ELSE cw[p]
    OBVIOUS
  <2> HIDE DEF h
  <2>2. /\ SumFunctionOnSet(cw, G) \in Int /\ SumFunctionOnSet(ew, C) \in Int
        /\ SumFunctionOnSet(h, G) = SumFunctionOnSet(cw, G) + SumFunctionOnSet(ew, C)
    BY ONLY <2>1, SumAdds
  <2> QED  BY <2>2
<1>2. IntOn(h, G) /\ IntOn(off, {x}) /\ {x} \in SUBSET G
  BY <1>1 DEF IntOn
<1>3. \A p \in G : new[p] = IF p \in {x} THEN h[p] + off[p] ELSE h[p]
  <2>1. ASSUME NEW p \in G PROVE new[p] = IF p \in {x} THEN h[p] + off[p] ELSE h[p]
    <3>1. CASE p = x
      <4>1. p \in C /\ new[p] = cw[p] + ew[p] - T /\ h[p] = cw[p] + ew[p] /\ off[p] = -T
        BY <3>1
      <4>2. cw[p] \in Int /\ ew[p] \in Int
        BY <4>1 DEF IntOn
      <4> HIDE DEF h, off
      <4> QED  BY <1>1, <3>1, <4>1, <4>2
    <3>2. CASE p # x
      <4>1. CASE p \in C
        <5>1. cw[p] \in Int /\ ew[p] \in Int
          BY <4>1 DEF IntOn
        <5>2. new[p] = cw[p] + ew[p] - 0 /\ h[p] = cw[p] + ew[p]
          BY <3>2, <4>1
        <5> HIDE DEF h, off
        <5> QED  BY <3>2, <5>1, <5>2
      <4> QED  BY <3>2, <4>1
    <3> QED  BY <3>1, <3>2
  <2> QED  BY <2>1
<1>4. SumFunctionOnSet(off, {x}) = -T
  <2>1. off[x] = -T /\ off[x] \in Int
    BY <1>1
  <2> HIDE DEF off
  <2> QED  BY <2>1, SumSingle
<1>5. SumFunctionOnSet(h, G) \in Int /\ SumFunctionOnSet(new, G) = SumFunctionOnSet(h, G) + SumFunctionOnSet(off, {x})
  <2> HIDE DEF h, off
  <2> QED  BY <1>2, <1>3, SumAdds
<1> HIDE DEF h, off
<1> QED  BY <1>1, <1>4, <1>5

\* The peer that is chosen and the weight it pays.
Best(q, ps) ==
    CHOOSE p \in Candidates(q, ps) : \A x \in Candidates(q, ps) :
        Raised(ps, p) > Raised(ps, x) \/ (Raised(ps, p) = Raised(ps, x) /\ p <= x)

Total(q, ps) == SumFunction([p \in Candidates(q, ps) |-> ps[p].ew])

\* What GetPeer makes of a candidate.
Scored(q, ps, p) ==
    [ps[p] EXCEPT !.cw = Raised(ps, p) - (IF p = Best(q, ps) THEN Total(q, ps) ELSE 0),
                  !.ew = IF @ < conf.servers[p].weight THEN @ + 1 ELSE @,
                  !.checked = IF p = Best(q, ps) /\ now - @ > FailTimeout THEN now ELSE @]

\* GetPeer written with these.
LEMMA GetPeerParts ==
    ASSUME NEW q, NEW ps
    PROVE  GetPeer(q, ps) =
             IF Single THEN [q |-> [q EXCEPT !.used = Best(q, ps)], ps |-> ps]
             ELSE [q  |-> [q EXCEPT !.used = Best(q, ps),
                                    !.current = Best(q, ps) - Min(Group(q.backup)),
                                    !.tried = @ \cup {Best(q, ps)}],
                   ps |-> [p \in Peers |-> IF p \notin Candidates(q, ps) THEN ps[p]
                                           ELSE Scored(q, ps, p)]]
BY Zenon DEF GetPeer, Best, Total, Scored

\* There is a best candidate.
LEMMA BestFacts ==
    ASSUME conf \in Confs, NEW q, q.backup \in BOOLEAN, NEW ps \in [Peers -> PeerRec],
           Candidates(q, ps) # {}
    PROVE  /\ Candidates(q, ps) \in SUBSET Group(q.backup) /\ IsFiniteSet(Candidates(q, ps))
           /\ Best(q, ps) \in Candidates(q, ps)
<1>1. Candidates(q, ps) \in SUBSET Group(q.backup)
  BY DEF Candidates
<1>2. /\ Candidates(q, ps) \in SUBSET Peers /\ Candidates(q, ps) \in SUBSET Nat
      /\ IsFiniteSet(Candidates(q, ps))
  BY <1>1, GroupFacts, PeersFacts, FS_Subset
<1>3. PICK C : C = Candidates(q, ps)
  OBVIOUS
<1>4. PICK v : v = [p \in C |-> Raised(ps, p)]
  OBVIOUS
<1>5. \A p \in C : v[p] = Raised(ps, p) /\ v[p] \in Int
  BY <1>2, <1>3, <1>4 DEF Raised, PeerRec
<1>6. C \in SUBSET Nat /\ IsFiniteSet(C) /\ C # {} /\ \A x \in C : v[x] \in Int
  BY <1>2, <1>3, <1>5
<1>7. \E p \in C : \A x \in C : v[p] > v[x] \/ (v[p] = v[x] /\ p <= x)
  BY ONLY <1>6, BestExists
<1>8. \E p \in C : \A x \in C : Raised(ps, p) > Raised(ps, x)
                                 \/ (Raised(ps, p) = Raised(ps, x) /\ p <= x)
  BY <1>5, <1>7
<1>9. Best(q, ps) \in Candidates(q, ps)
  BY <1>3, <1>8 DEF Best
<1> QED  BY <1>1, <1>2, <1>9

\* What choosing does to the account of each peer.
LEMMA ChosenPeers ==
    ASSUME conf \in Confs, now \in Nat, NEW q, q.backup \in BOOLEAN,
           NEW ps, WeightsGood(ps), Candidates(q, ps) # {}, ~Single,
           NEW new, new = GetPeer(q, ps).ps
    PROVE  /\ new \in [Peers -> PeerRec]
           /\ \A p \in Peers : /\ new[p].fails = ps[p].fails
                               /\ new[p].accessed = ps[p].accessed
                               /\ ps[p].ew <= new[p].ew
                               /\ new[p].ew \in 0 .. conf.servers[p].weight
                               /\ new[p].checked = ps[p].checked \/ p = Best(q, ps)
           /\ \A p \in Peers : new[p].cw = IF p \in Candidates(q, ps)
                THEN ps[p].cw + ps[p].ew - (IF p = Best(q, ps) THEN Total(q, ps) ELSE 0)
                ELSE ps[p].cw
           /\ Total(q, ps) \in Int
<1>1. ps \in [Peers -> PeerRec] /\ \A p \in Peers : ps[p].ew \in 0 .. conf.servers[p].weight
  BY DEF WeightsGood
<1>2. PICK C : C = Candidates(q, ps)
  OBVIOUS
<1>3. PICK T : T = Total(q, ps)
  OBVIOUS
<1>4. PICK b : b = Best(q, ps)
  OBVIOUS
<1>5. C \in SUBSET Peers /\ IsFiniteSet(C) /\ b \in C
  BY <1>1, <1>2, <1>4, BestFacts, GroupFacts
<1>6. T \in Int
  <2>1. PICK ew : ew = [p \in C |-> ps[p].ew]
    OBVIOUS
  <2>2. T = SumFunctionOnSet(ew, C)
    BY <1>2, <1>3, <2>1 DEF Total, SumFunction
  <2>3. IsFiniteSet(C) /\ IntOn(ew, C)
    BY <1>1, <1>5, <2>1 DEF IntOn, PeerRec
  <2>4. PICK g : SumRule(g, ew, SUBSET C) /\ SumFunctionOnSet(ew, C) = g[C]
    BY <2>3, SumDefined
  <2>5. C \in SUBSET C
    OBVIOUS
  <2> QED  BY <2>2, <2>4, <2>5 DEF SumRule
<1>7. new = [p \in Peers |-> IF p \notin C THEN ps[p] ELSE Scored(q, ps, p)]
  BY <1>2, GetPeerParts
<1>8. ASSUME NEW p \in Peers
      PROVE  /\ new[p] \in PeerRec
             /\ new[p].fails = ps[p].fails /\ new[p].accessed = ps[p].accessed
             /\ ps[p].ew <= new[p].ew /\ new[p].ew \in 0 .. conf.servers[p].weight
             /\ new[p].checked = ps[p].checked \/ p = b
             /\ new[p].cw = IF p \in C THEN ps[p].cw + ps[p].ew - (IF p = b THEN T ELSE 0)
                            ELSE ps[p].cw
  <2>1. /\ ps[p] \in PeerRec /\ conf.servers[p].weight \in Nat
        /\ ps[p].ew \in 0 .. conf.servers[p].weight
    BY <1>1, PeersFacts
  <2>2. CASE p \notin C
    <3>1. new[p] = ps[p]
      BY <1>7, <2>2
    <3> QED  BY <2>1, <2>2, <3>1 DEF PeerRec
  <2>3. CASE p \in C
    <3>1. PICK w : w = conf.servers[p].weight
      OBVIOUS
    <3>2. w \in Nat /\ ps[p].ew \in 0 .. w
      BY <2>1, <3>1
    <3>3. PICK c : c = Raised(ps, p) - (IF p = b THEN T ELSE 0)
      OBVIOUS
    <3>4. PICK e : e = IF ps[p].ew < w THEN ps[p].ew + 1 ELSE ps[p].ew
      OBVIOUS
    <3>5. PICK k : k = IF p = b /\ now - ps[p].checked > FailTimeout THEN now ELSE ps[p].checked
      OBVIOUS
    <3>6. /\ c = ps[p].cw + ps[p].ew - (IF p = b THEN T ELSE 0)
          /\ c \in Int
      BY <1>6, <2>1, <3>3 DEF PeerRec, Raised
    <3>7. e \in Nat /\ ps[p].ew <= e /\ e \in 0 .. w
      BY <3>2, <3>4
    <3>8. k \in Nat /\ (k = ps[p].checked \/ p = b)
      BY <2>1, <3>5 DEF PeerRec
    <3>9. new[p] = [ps[p] EXCEPT !.cw = c, !.ew = e, !.checked = k]
      <4>1. new[p] = Scored(q, ps, p)
        BY <1>7, <2>3
      <4> QED  BY <1>3, <1>4, <3>1, <3>3, <3>4, <3>5, <4>1 DEF Scored
    <3>10. /\ new[p] \in PeerRec /\ new[p].cw = c /\ new[p].ew = e /\ new[p].checked = k
           /\ new[p].fails = ps[p].fails /\ new[p].accessed = ps[p].accessed
      BY <2>1, <3>6, <3>7, <3>8, <3>9 DEF PeerRec
    <3> QED  BY <2>3, <3>1, <3>6, <3>7, <3>8, <3>10
  <2> QED  BY <2>2, <2>3
<1> QED  BY <1>2, <1>3, <1>4, <1>6, <1>7, <1>8

\* Choosing a peer keeps the account: the weights stay in balance, no failure appears,
\* and the peer that may now be looked at again is the one the request holds.
LEMMA ChosenAccount ==
    ASSUME conf \in Confs, now \in Nat, NEW q, q.backup \in BOOLEAN,
           NEW ps, WeightsGood(ps), Candidates(q, ps) # {}, ~Single,
           NEW h, HistType(h), BlamesGood(ps, h), NEW O, ProbesGood(ps, h, O),
           NEW new, new = GetPeer(q, ps).ps
    PROVE  WeightsGood(new) /\ BlamesGood(new, h) /\ ProbesGood(new, h, O \cup {Best(q, ps)})
<1>1. ps \in [Peers -> PeerRec]
  BY DEF WeightsGood
<1>2. PICK C : C = Candidates(q, ps)
  OBVIOUS
<1>3. PICK T : T = Total(q, ps)
  OBVIOUS
<1>4. PICK b : b = Best(q, ps)
  OBVIOUS
<1>5. /\ new \in [Peers -> PeerRec]
      /\ \A p \in Peers : /\ new[p].fails = ps[p].fails
                          /\ new[p].accessed = ps[p].accessed
                          /\ ps[p].ew <= new[p].ew
                          /\ new[p].ew \in 0 .. conf.servers[p].weight
                          /\ new[p].checked = ps[p].checked \/ p = b
      /\ \A p \in Peers : new[p].cw = IF p \in C
           THEN ps[p].cw + ps[p].ew - (IF p = b THEN T ELSE 0) ELSE ps[p].cw
  BY <1>2, <1>3, <1>4, ChosenPeers
<1>6. C \in SUBSET Group(q.backup) /\ b \in C
  BY <1>1, <1>2, <1>4, BestFacts
<1>7. ASSUME NEW bk \in BOOLEAN
      PROVE  SumFunction([p \in Group(bk) |-> new[p].cw]) = 0
  <2>1. SumFunction([p \in Group(bk) |-> ps[p].cw]) = 0
    BY DEF WeightsGood
  <2>2. PICK G : G = Group(bk)
    OBVIOUS
  <2>3. G \in SUBSET Peers /\ IsFiniteSet(G)
    BY <2>2, GroupFacts
  <2>4. PICK f : f = [p \in G |-> ps[p].cw]
    OBVIOUS
  <2>5. PICK k : k = [p \in G |-> new[p].cw]
    OBVIOUS
  <2>6. SumFunctionOnSet(f, G) = 0
    BY <2>1, <2>2, <2>4 DEF SumFunction
  <2>7. SumFunctionOnSet(k, G) = 0
    <3>1. CASE bk = q.backup
      <4>1. PICK ew : ew = [p \in C |-> ps[p].ew]
        OBVIOUS
      <4>2. T = SumFunctionOnSet(ew, C)
        BY <1>2, <1>3, <4>1 DEF Total, SumFunction
      <4>3. C \in SUBSET G /\ b \in C
        BY <1>6, <2>2, <3>1
      <4>4. IntOn(f, G) /\ IntOn(ew, C)
        BY <1>1, <2>3, <2>4, <4>1, <4>3 DEF IntOn, PeerRec
      <4>5. \A p \in G : k[p] = IF p \in C THEN f[p] + ew[p] - (IF p = b THEN T ELSE 0)
                                           ELSE f[p]
        <5>1. ASSUME NEW p \in G
              PROVE k[p] = IF p \in C THEN f[p] + ew[p] - (IF p = b THEN T ELSE 0) ELSE f[p]
          <6>1. p \in Peers /\ k[p] = new[p].cw /\ f[p] = ps[p].cw
            BY <2>3, <2>4, <2>5
          <6>2. p \in C => ew[p] = ps[p].ew
            BY <4>1
          <6> QED  BY <1>5, <6>1, <6>2
        <5> QED  BY <5>1
      <4>6. /\ IsFiniteSet(G) /\ C \in SUBSET G /\ b \in C /\ IntOn(f, G) /\ IntOn(ew, C)
            /\ T = SumFunctionOnSet(ew, C)
            /\ \A p \in G : k[p] = IF p \in C THEN f[p] + ew[p] - (IF p = b THEN T ELSE 0)
                                              ELSE f[p]
        BY <2>3, <4>2, <4>3, <4>4, <4>5
      <4>7. SumFunctionOnSet(k, G) = SumFunctionOnSet(f, G)
        BY ONLY <4>6, GroupSum
      <4> QED  BY <2>6, <4>7
    <3>2. CASE bk # q.backup
      <4>1. \A p \in G : p \notin C
        BY <1>6, <2>2, <3>2 DEF Group
      <4>2. \A p \in G : new[p].cw = ps[p].cw
        BY <1>5, <2>3, <4>1
      <4>3. k = f
        BY <2>4, <2>5, <4>2
      <4> QED  BY <2>6, <4>3
    <3> QED  BY <3>1, <3>2
  <2> QED  BY <2>2, <2>5, <2>7 DEF SumFunction
<1>8. WeightsGood(new)
  BY <1>5, <1>7 DEF WeightsGood
<1>9. BlamesGood(new, h)
  <2>1. SUFFICES ASSUME conf.balancer = "rr", NEW p \in Peers
                 PROVE  /\ new[p].fails <= h[p].failed
                        /\ new[p].ew < conf.servers[p].weight => h[p].failed > 0
    BY DEF BlamesGood
  <2>2. /\ ps[p].fails <= h[p].failed
        /\ ps[p].ew < conf.servers[p].weight => h[p].failed > 0
    BY <2>1 DEF BlamesGood
  <2>3. ps[p].ew \in Nat /\ new[p].ew \in Nat /\ conf.servers[p].weight \in Nat
    BY <1>1, <1>5, PeersFacts DEF PeerRec
  <2>4. new[p].fails = ps[p].fails /\ ps[p].ew <= new[p].ew
    BY <1>5
  <2> QED  BY <2>2, <2>3, <2>4
<1>10. ProbesGood(new, h, O \cup {b})
  <2>1. SUFFICES ASSUME conf.balancer = "rr", NEW p \in Peers
                 PROVE  /\ new[p].accessed = h[p].last
                        /\ new[p].fails > 0 /\ new[p].checked > new[p].accessed => p \in O \cup {b}
    BY DEF ProbesGood
  <2>2. /\ ps[p].accessed = h[p].last
        /\ ps[p].fails > 0 /\ ps[p].checked > ps[p].accessed => p \in O
    BY <2>1 DEF ProbesGood
  <2>3. /\ new[p].accessed = ps[p].accessed /\ new[p].fails = ps[p].fails
        /\ new[p].checked = ps[p].checked \/ p = b
    BY <1>5
  <2> QED  BY <2>2, <2>3
<1> QED  BY <1>4, <1>8, <1>9, <1>10

\* A request that asks for a peer, what asking leaves as it was, and the request with
\* the peer it got noted among its connections.
Asks(q) == q \in ReqRec /\ q.st = "connect" /\ TriesGood(q) /\ ChoiceGood(q)

Kept(q, t) ==
    /\ t.st = q.st /\ t.kind = q.kind /\ t.tries = q.tries /\ t.start = q.start
    /\ t.error = q.error /\ t.end = q.end /\ t.conns = q.conns /\ t.sends = q.sends

Joined(q) == [q EXCEPT !.conns = IF q.used = 0 THEN @ ELSE Append(@, q.used)]

\* The account of peers ps, with the failures h, while requests hold the peers U.
Account(ps, h, U) == WeightsGood(ps) /\ BlamesGood(ps, h) /\ ProbesGood(ps, h, U)

\* g is the answer of a balancer to q.
Got(q, g, h, U) ==
    /\ g.q \in ReqRec /\ Kept(q, g.q) /\ ChoiceGood(Joined(g.q))
    /\ Account(g.ps, h, U \cup {g.q.used})

\* What ChoiceGood says with several servers, after a peer is noted.
LEMMA JoinedChoice ==
    ASSUME conf \in Confs, NEW q \in ReqRec, ChoiceGood(q), q.used = 0, ~Single,
           NEW b \in Group(q.backup), b \notin q.tried, NEW t \in ReqRec,
           t.used = b, t.backup = q.backup, t.current = b - Min(Group(q.backup)),
           t.tried = q.tried \cup {b}, t.conns = Append(q.conns, b)
    PROVE  ChoiceGood(t)
<1> SUFFICES ASSUME conf.balancer = "rr"
             PROVE  /\ IsInjective(t.conns)
                    /\ t.tried \subseteq Range(t.conns) \cap Group(t.backup)
                    /\ \A p \in Range(t.conns) : p \in t.tried \/ (t.backup /\ p \in Group(FALSE))
                    /\ Current(t) = t.used
  BY DEF ChoiceGood
<1>1. /\ IsInjective(q.conns) /\ q.tried \subseteq Range(q.conns) \cap Group(q.backup)
      /\ \A p \in Range(q.conns) : p \in q.tried \/ (q.backup /\ p \in Group(FALSE))
  BY DEF ChoiceGood
<1>2. q.conns \in Seq(Peers) /\ q.backup \in BOOLEAN
  BY DEF ReqRec
<1>3. b \in Peers
  BY <1>2, GroupFacts
<1>4. b \notin Range(q.conns)
  <2>1. q.backup => b \in Group(TRUE)
    BY <1>2
  <2>2. ~(q.backup /\ b \in Group(FALSE))
    BY <2>1, GroupFacts
  <2> QED  BY <1>1, <2>2
<1>5. Range(t.conns) = Range(q.conns) \cup {b} /\ IsInjective(t.conns)
  BY <1>1, <1>2, <1>3, <1>4, AppendRange
<1>6. Current(t) = t.used
  <2>1. Min(Group(q.backup)) \in Group(q.backup)
    BY <1>2, GroupFacts
  <2>2. Min(Group(q.backup)) \in Nat /\ b \in Nat
    BY <1>2, <1>3, <2>1, GroupFacts, PeersFacts
  <2>3. Current(t) = Min(Group(q.backup)) + (b - Min(Group(q.backup)))
    BY DEF Current
  <2> QED  BY <2>2, <2>3
<1>7. t.tried \subseteq Range(t.conns) \cap Group(t.backup)
  BY <1>1, <1>5
<1>8. \A p \in Range(t.conns) : p \in t.tried \/ (t.backup /\ p \in Group(FALSE))
  BY <1>1, <1>5
<1> QED  BY <1>5, <1>6, <1>7, <1>8

\* The answer of ngx_http_upstream_get_peer.
LEMMA GetPeerFacts ==
    ASSUME conf \in Confs, now \in Nat, NEW q, Asks(q), NEW ps, NEW h, HistType(h), NEW U,
           Account(ps, h, U), Candidates(q, ps) # {}
    PROVE  Got(q, GetPeer(q, ps), h, U) /\ GetPeer(q, ps).q.used # 0
<1>1. /\ q \in ReqRec /\ q.backup \in BOOLEAN /\ ps \in [Peers -> PeerRec]
      /\ q.conns \in Seq(Peers) /\ q.used = 0 /\ ChoiceGood(q) /\ q.tried \in SUBSET Peers
  BY DEF Asks, ReqRec, Account, WeightsGood, TriesGood, Holding
<1>2. PICK b : b = Best(q, ps)
  OBVIOUS
<1>3. /\ b \in Group(q.backup) /\ b \in Peers /\ b \in Nat /\ b # 0
      /\ Single \/ b \notin q.tried
  <2>1. b \in Candidates(q, ps)
    BY <1>1, <1>2, BestFacts
  <2>2. b \in Group(q.backup) /\ (Single \/ b \notin q.tried)
    BY <2>1 DEF Candidates
  <2>3. b \in Peers
    BY <1>1, <2>2, GroupFacts
  <2> QED  BY <2>2, <2>3, PeersFacts
<1>4. PICK g : g = GetPeer(q, ps)
  OBVIOUS
<1>5. CASE Single
  <2>1. g = [q |-> [q EXCEPT !.used = b], ps |-> ps]
    BY <1>2, <1>4, <1>5, GetPeerParts
  <2>2. g.ps = ps /\ g.q = [q EXCEPT !.used = b]
    BY <2>1
  <2>3. g.q \in ReqRec /\ Kept(q, g.q) /\ g.q.used = b
    BY <1>1, <1>3, <2>2 DEF ReqRec, Kept
  <2>4. Joined(g.q).conns = Append(q.conns, b)
    BY <1>1, <1>3, <2>2, <2>3 DEF Joined, Kept, ReqRec
  <2>5. q.conns = <<>>
    <3>1. q.tries \in Nat /\ q.tries >= 1 /\ Len(q.conns) + q.tries <= Allowed
      BY DEF Asks, TriesGood, ReqRec
    <3>2. Allowed \in Nat /\ Allowed <= 1 /\ Len(q.conns) \in Nat
      BY <1>1, <1>5, AllowedFacts, LenProperties DEF Single
    <3>3. Len(q.conns) = 0
      BY <3>1, <3>2
    <3> QED  BY <1>1, <3>3, EmptySeq
  <2>6. IsInjective(Append(q.conns, b))
    <3>1. IsInjective(q.conns) /\ b \notin Range(q.conns)
      BY <2>5, EmptyRange
    <3> QED  BY <1>1, <1>3, <3>1, AppendRange
  <2>7. ChoiceGood(Joined(g.q))
    BY <1>5, <2>4, <2>6 DEF ChoiceGood
  <2>8. Account(ps, h, U \cup {b})
    BY <1>5 DEF Account, ProbesGood
  <2> QED  BY <1>3, <1>4, <2>2, <2>3, <2>7, <2>8 DEF Got
<1>6. CASE ~Single
  <2>1. PICK m : m = Min(Group(q.backup))
    OBVIOUS
  <2>2. b - m \in Nat
    <3>1. m \in Group(q.backup) /\ m <= b
      BY <1>1, <1>3, <2>1, GroupFacts
    <3>2. m \in Nat
      BY <1>1, <3>1, GroupFacts, PeersFacts
    <3> QED  BY <1>3, <3>1, <3>2
  <2>3. PICK new : new = g.ps
    OBVIOUS
  <2>4. g.q = [q EXCEPT !.used = b, !.current = b - m, !.tried = @ \cup {b}]
    BY <1>2, <1>4, <1>6, <2>1, GetPeerParts
  <2>5. /\ g.q \in ReqRec /\ Kept(q, g.q) /\ g.q.used = b /\ g.q.backup = q.backup
        /\ g.q.current = b - m /\ g.q.tried = q.tried \cup {b}
    <3>1. PICK c \in Nat : c = b - m
      BY <2>2
    <3>2. PICK s \in SUBSET Peers : s = q.tried \cup {b}
      BY <1>1, <1>3
    <3>3. g.q = [q EXCEPT !.used = b, !.current = c, !.tried = s]
      BY <2>4, <3>1, <3>2
    <3>4. b \in {0} \cup Peers
      BY <1>3
    <3>5. g.q \in ReqRec
      BY <1>1, <3>3, <3>4 DEF ReqRec
    <3>6. Kept(q, g.q) /\ g.q.used = b /\ g.q.backup = q.backup /\ g.q.current = c /\ g.q.tried = s
      BY <1>1, <3>3 DEF ReqRec, Kept
    <3> QED  BY <3>1, <3>2, <3>5, <3>6
  <2>6. PICK t : t = Joined(g.q)
    OBVIOUS
  <2>7. Append(q.conns, b) \in Seq(Peers)
    BY <1>1, <1>3, AppendProperties
  <2>8. g.q.conns = q.conns
    BY <2>5 DEF Kept
  <2>9. t = [g.q EXCEPT !.conns = Append(q.conns, b)]
    BY <1>3, <2>5, <2>6, <2>8 DEF Joined
  <2>10. /\ t \in ReqRec /\ t.used = b /\ t.backup = q.backup /\ t.current = b - m
         /\ t.tried = q.tried \cup {b} /\ t.conns = Append(q.conns, b)
    BY <2>5, <2>7, <2>9 DEF ReqRec
  <2>11. ChoiceGood(t)
    BY <1>1, <1>3, <1>6, <2>1, <2>10, JoinedChoice
  <2>12. Account(new, h, U \cup {b})
    <3>1. /\ conf \in Confs /\ now \in Nat /\ q.backup \in BOOLEAN /\ WeightsGood(ps)
          /\ Candidates(q, ps) # {} /\ ~Single /\ HistType(h) /\ BlamesGood(ps, h)
          /\ ProbesGood(ps, h, U) /\ new = GetPeer(q, ps).ps
      BY <1>1, <1>4, <1>6, <2>3 DEF Account
    <3>2. WeightsGood(new) /\ BlamesGood(new, h) /\ ProbesGood(new, h, U \cup {Best(q, ps)})
      BY ONLY <3>1, ChosenAccount
    <3> QED  BY <1>2, <3>2 DEF Account
  <2> QED  BY <1>3, <1>4, <2>3, <2>5, <2>6, <2>11, <2>12 DEF Got
<1> QED  BY <1>5, <1>6

\* Forgiving failures keeps the account.
LEMMA ForgivenFacts ==
    ASSUME conf \in Confs, NEW ps, NEW h, HistType(h), NEW U, Account(ps, h, U), NEW S
    PROVE  Account(Forgiven(ps, S), h, U \cup {0})
<1>1. PICK new : new = Forgiven(ps, S)
  OBVIOUS
<1>2. ps \in [Peers -> PeerRec] /\ \A p \in Peers : ps[p].ew \in 0 .. conf.servers[p].weight
  BY DEF Account, WeightsGood
<1>3. ASSUME NEW p \in Peers
      PROVE  /\ new[p] \in PeerRec /\ new[p].cw = ps[p].cw /\ new[p].ew = ps[p].ew
             /\ new[p].accessed = ps[p].accessed /\ new[p].checked = ps[p].checked
             /\ new[p].fails = ps[p].fails \/ new[p].fails = 0
  <2>1. ps[p] \in PeerRec
    BY <1>2
  <2>2. new[p] = IF p \in S THEN [ps[p] EXCEPT !.fails = 0] ELSE ps[p]
    BY <1>1 DEF Forgiven
  <2> QED  BY <2>1, <2>2 DEF PeerRec
<1>4. new \in [Peers -> PeerRec]
  BY <1>1, <1>3 DEF Forgiven
<1>5. \A b \in BOOLEAN : [p \in Group(b) |-> new[p].cw] = [p \in Group(b) |-> ps[p].cw]
  BY <1>3, GroupFacts
<1>6. WeightsGood(new)
  BY <1>2, <1>3, <1>4, <1>5 DEF Account, WeightsGood
<1>7. BlamesGood(new, h)
  <2>1. SUFFICES ASSUME conf.balancer = "rr", NEW p \in Peers
                 PROVE  /\ new[p].fails <= h[p].failed
                        /\ new[p].ew < conf.servers[p].weight => h[p].failed > 0
    BY DEF BlamesGood
  <2>2. /\ ps[p].fails <= h[p].failed
        /\ ps[p].ew < conf.servers[p].weight => h[p].failed > 0
    BY <2>1 DEF Account, BlamesGood
  <2>3. h[p].failed \in Nat
    BY DEF HistType
  <2> QED  BY <1>3, <2>2, <2>3
<1>8. ProbesGood(new, h, U \cup {0})
  <2>1. SUFFICES ASSUME conf.balancer = "rr", ~Single, NEW p \in Peers
                 PROVE  /\ new[p].accessed = h[p].last
                        /\ new[p].fails > 0 /\ new[p].checked > new[p].accessed => p \in U \cup {0}
    BY DEF ProbesGood
  <2>2. /\ ps[p].accessed = h[p].last
        /\ ps[p].fails > 0 /\ ps[p].checked > ps[p].accessed => p \in U
    BY <2>1 DEF Account, ProbesGood
  <2> QED  BY <1>3, <2>2
<1> QED  BY <1>1, <1>6, <1>7, <1>8 DEF Account

\* Every server that q may still use is down, was tried or is excluded.
NoneLeft(q, ps) ==
    \A p \in IF q.backup THEN Group(TRUE) ELSE Peers :
        conf.servers[p].down \/ (~Single /\ (p \in q.tried \/ Excluded(ps, p)))

\* A request that moves on to the backup servers.
Spare(q) == [q EXCEPT !.backup = TRUE, !.tried = {}]

\* A request that moves on asks as before, with no server tried.
LEMMA SpareFacts ==
    ASSUME conf \in Confs, NEW q, Asks(q), ~q.backup
    PROVE  Asks(Spare(q)) /\ Kept(q, Spare(q)) /\ Spare(q).used = 0
<1>1. PICK t : t = Spare(q)
  OBVIOUS
<1>2. q \in ReqRec /\ q.backup = FALSE /\ q.used = 0
  BY DEF Asks, TriesGood, ReqRec, Holding
<1>3. t \in ReqRec /\ Kept(q, t) /\ t.used = 0 /\ t.backup = TRUE /\ t.tried = {}
  BY <1>1, <1>2 DEF Spare, ReqRec, Kept
<1>4. TriesGood(t) /\ t.st = "connect"
  BY <1>3, <1>2 DEF Asks, TriesGood, Kept, Holding
<1>5. ChoiceGood(t)
  <2> SUFFICES ASSUME conf.balancer = "rr"
               PROVE  /\ IsInjective(t.conns)
                      /\ ~Single => \A p \in Range(t.conns) : p \in Group(FALSE)
    BY <1>3 DEF ChoiceGood
  <2>1. /\ IsInjective(q.conns)
        /\ ~Single => q.tried \subseteq Group(q.backup) /\ \A p \in Range(q.conns) : p \in q.tried
    BY <1>2 DEF Asks, ChoiceGood
  <2>2. t.conns = q.conns
    BY <1>3 DEF Kept
  <2> QED  BY <1>2, <2>1, <2>2
<1> QED  BY <1>1, <1>3, <1>4, <1>5 DEF Asks

\* An answer without a peer: the request is as it was.
LEMMA NoPeer ==
    ASSUME conf \in Confs, NEW q, Asks(q), NEW ps, NEW h, HistType(h), NEW U,
           Account(ps, h, U), NEW S
    PROVE  Got(q, [q |-> q, ps |-> Forgiven(ps, S)], h, U)
<1>1. q \in ReqRec /\ q.used = 0 /\ ChoiceGood(q)
  BY DEF Asks, TriesGood, Holding
<1>2. Joined(q) = q
  BY <1>1 DEF Joined, ReqRec
<1>3. Kept(q, q)
  BY DEF Kept
<1>4. Account(Forgiven(ps, S), h, U \cup {0})
  BY ForgivenFacts
<1> QED  BY <1>1, <1>2, <1>3, <1>4 DEF Got

\* The answer of ngx_http_upstream_get_round_robin_peer: if there is no peer in it,
\* none was left.
LEMMA RoundRobinFacts ==
    ASSUME conf \in Confs, now \in Nat, NEW q, Asks(q), NEW ps, NEW h, HistType(h), NEW U,
           Account(ps, h, U)
    PROVE  /\ Got(q, GetRoundRobin(q, ps), h, U)
           /\ GetRoundRobin(q, ps).q.used = 0 => NoneLeft(q, ps)
<1>1. PICK t : t = Spare(q)
  OBVIOUS
<1>2. /\ q.backup \in BOOLEAN /\ q.used = 0
      /\ \A p \in Peers : conf.servers[p].down \in BOOLEAN
  BY PeersFacts DEF Asks, ReqRec, TriesGood, Holding
<1>3. PICK g : g = GetRoundRobin(q, ps)
  OBVIOUS
<1>4. CASE Candidates(q, ps) # {}
  <2>1. g = GetPeer(q, ps)
    BY <1>3, <1>4 DEF GetRoundRobin
  <2> QED  BY <1>3, <1>4, <2>1, GetPeerFacts
<1>5. ASSUME Candidates(q, ps) = {}, NEW p \in Group(q.backup)
      PROVE  conf.servers[p].down \/ (~Single /\ (p \in q.tried \/ Excluded(ps, p)))
  BY <1>5 DEF Candidates
<1>6. CASE Candidates(q, ps) = {} /\ (q.backup \/ Group(TRUE) = {})
  <2>1. g = [q |-> q, ps |-> Forgiven(ps, Group(q.backup))]
    BY <1>3, <1>6 DEF GetRoundRobin
  <2>2. Got(q, g, h, U)
    BY <2>1, NoPeer
  <2>3. NoneLeft(q, ps)
    <3>1. \A p \in IF q.backup THEN Group(TRUE) ELSE Peers : p \in Group(q.backup)
      BY <1>2, <1>6, GroupFacts
    <3> QED  BY <1>5, <1>6, <3>1 DEF NoneLeft
  <2> QED  BY <1>3, <2>2, <2>3
<1>7. CASE Candidates(q, ps) = {} /\ ~q.backup /\ Group(TRUE) # {}
  <2>1. g = IF Candidates(t, ps) # {} THEN GetPeer(t, ps)
            ELSE [q |-> t, ps |-> Forgiven(ps, Peers)]
    BY <1>1, <1>3, <1>7 DEF GetRoundRobin, Spare
  <2>2. Asks(t) /\ Kept(q, t) /\ t.used = 0
    BY <1>1, <1>7, SpareFacts
  <2>3. CASE Candidates(t, ps) # {}
    <3>1. Got(t, g, h, U) /\ g.q.used # 0
      BY <2>1, <2>2, <2>3, GetPeerFacts
    <3>2. Got(q, g, h, U)
      BY <2>2, <3>1 DEF Got, Kept
    <3> QED  BY <1>3, <3>1, <3>2
  <2>4. CASE Candidates(t, ps) = {}
    <3>1. g = [q |-> t, ps |-> Forgiven(ps, Peers)]
      BY <2>1, <2>4
    <3>2. Got(t, g, h, U)
      BY <2>2, <3>1, NoPeer
    <3>3. Got(q, g, h, U)
      BY <2>2, <3>2 DEF Got, Kept
    <3>4. ASSUME NEW p \in Group(TRUE)
          PROVE  conf.servers[p].down \/ (~Single /\ Excluded(ps, p))
      <4>1. t.backup = TRUE /\ t.tried = {}
        BY <1>1 DEF Spare, Asks, ReqRec
      <4> QED  BY <2>4, <4>1 DEF Candidates
    <3>5. NoneLeft(q, ps)
      <4>1. SUFFICES ASSUME NEW p \in Peers
                     PROVE  conf.servers[p].down \/ (~Single /\ (p \in q.tried \/ Excluded(ps, p)))
        BY <1>7 DEF NoneLeft
      <4>2. CASE p \in Group(FALSE)
        <5>1. q.backup = FALSE
          BY <1>2, <1>7
        <5> QED  BY <1>5, <1>7, <4>2, <5>1
      <4>3. CASE p \in Group(TRUE)
        BY <3>4, <4>3
      <4> QED  BY <4>2, <4>3, GroupFacts
    <3> QED  BY <1>3, <3>3, <3>5
  <2> QED  BY <2>3, <2>4
<1> QED  BY <1>2, <1>4, <1>6, <1>7

\* The answer of either balancer.
LEMMA GetFacts ==
    ASSUME conf \in Confs, now \in Nat, NEW q, Asks(q), NEW ps, NEW h, HistType(h), NEW U,
           Account(ps, h, U), NEW g \in Get(q, ps)
    PROVE  /\ Got(q, g, h, U)
           /\ conf.balancer = "rr" /\ g.q.used = 0 => NoneLeft(q, ps)
<1>1. CASE conf.balancer = "rr"
  <2>1. g = GetRoundRobin(q, ps)
    BY <1>1 DEF Get
  <2> QED  BY <2>1, RoundRobinFacts
<1>2. CASE conf.balancer # "rr"
  <2>1. PICK t : t = [q EXCEPT !.random = @ + 1]
    OBVIOUS
  <2>2. q \in ReqRec /\ q.backup \in BOOLEAN /\ q.used = 0
    BY DEF Asks, ReqRec, TriesGood, Holding
  <2>3. t \in ReqRec /\ Kept(q, t) /\ t.used = 0 /\ t.tried = q.tried
    <3>1. PICK n \in Nat : n = q.random + 1
      BY <2>2 DEF ReqRec
    <3>2. t = [q EXCEPT !.random = n]
      BY <2>1, <3>1
    <3> QED  BY <2>2, <3>2 DEF ReqRec, Kept
  <2>4. Asks(t)
    BY <1>2, <2>2, <2>3 DEF Asks, Kept, TriesGood, ChoiceGood, Holding
  <2>5. CASE q.random > RandomTries \/ Single
    <3>1. g = GetRoundRobin(t, ps)
      BY <1>2, <2>1, <2>5 DEF Get
    <3>2. Got(t, g, h, U)
      BY <2>4, <3>1, RoundRobinFacts
    <3> QED  BY <1>2, <2>3, <3>2 DEF Got, Kept
  <2>6. CASE ~(q.random > RandomTries \/ Single)
    <3>1. PICK p \in Group(q.backup) : g = [q |-> [t EXCEPT !.used = p], ps |-> ps]
      BY <1>2, <2>1, <2>6 DEF Get
    <3>2. p \in Peers
      BY <2>2, GroupFacts
    <3>3. g.q = [t EXCEPT !.used = p] /\ g.ps = ps
      BY <3>1
    <3>4. g.q \in ReqRec /\ Kept(q, g.q)
      BY <2>3, <3>2, <3>3 DEF ReqRec, Kept
    <3>5. ChoiceGood(Joined(g.q)) /\ Account(g.ps, h, U \cup {g.q.used})
      BY <1>2, <3>3 DEF ChoiceGood, Account, ProbesGood
    <3> QED  BY <1>2, <3>4, <3>5 DEF Got
  <2> QED  BY <2>5, <2>6
<1> QED  BY <1>1, <1>2

-----------------------------------------------------------------------------
(* Giving a peer back.                                                     *)

\* The failures h after one of the peer in use.
Faulted(h, q) == [h EXCEPT ![q.used].failed = @ + 1, ![q.used].last = now]

\* An effective weight is lowered to zero at least.
LEMMA Lowered ==
    ASSUME NEW n \in Nat, NEW w \in Nat, NEW m \in Nat \ {0}
    PROVE  Max({0, n - w \div m}) \in 0 .. n
<1>1. w \div m \in Nat
  OBVIOUS
<1>2. PICK k \in Int : k = n - w \div m /\ k <= n
  BY <1>1
<1>3. PICK x \in {0, k} : \A y \in {0, k} : x >= y
  BY <1>2
<1>4. Max({0, k}) \in {0, k} /\ \A y \in {0, k} : Max({0, k}) >= y
  BY <1>3 DEF Max
<1> QED  BY <1>2, <1>4

\* What giving the peer back does to the account of each peer.
LEMMA FreedPeers ==
    ASSUME conf \in Confs, now \in Nat, NEW q, NEW ps, WeightsGood(ps), ~Single,
           NEW failed \in BOOLEAN, NEW new, new = Free(q, ps, failed).ps
    PROVE  /\ new \in [Peers -> PeerRec]
           /\ \A p \in Peers : new[p].cw = ps[p].cw /\ new[p].ew \in 0 .. conf.servers[p].weight
           /\ \A p \in Peers : p # Current(q) => new[p] = ps[p]
           /\ \A p \in Peers : p = Current(q) /\ failed =>
                 /\ new[p].fails = ps[p].fails + 1
                 /\ new[p].accessed = now /\ new[p].checked = now
           /\ \A p \in Peers : p = Current(q) /\ ~failed =>
                 /\ new[p].fails = IF ps[p].accessed < ps[p].checked THEN 0 ELSE ps[p].fails
                 /\ new[p].accessed = ps[p].accessed /\ new[p].checked = ps[p].checked
                 /\ new[p].ew = ps[p].ew
<1>1. ps \in [Peers -> PeerRec] /\ \A p \in Peers : ps[p].ew \in 0 .. conf.servers[p].weight
  BY DEF WeightsGood
<1>2. PICK c : c = Current(q)
  OBVIOUS
<1>3. CASE failed
  <2>1. PICK s : s = conf.servers[c]
    OBVIOUS
  <2>2. PICK e : e = IF s.max_fails = 0 THEN ps[c].ew
                     ELSE Max({0, ps[c].ew - s.weight \div s.max_fails})
    OBVIOUS
  <2>3. new = [ps EXCEPT ![c].fails = @ + 1, ![c].accessed = now, ![c].checked = now, ![c].ew = e]
    BY <1>2, <1>3, <2>1, <2>2 DEF Free
  <2>4. \A p \in Peers : p # c => new[p] = ps[p]
    BY <1>1, <2>3
  <2>5. ASSUME c \in Peers
        PROVE  /\ new[c] \in PeerRec /\ new[c].cw = ps[c].cw
               /\ new[c].ew \in 0 .. s.weight /\ new[c].fails = ps[c].fails + 1
               /\ new[c].accessed = now /\ new[c].checked = now
    <3>1. ps[c] \in PeerRec /\ s.weight \in Nat /\ s.max_fails \in Nat /\ ps[c].ew \in 0 .. s.weight
      BY <1>1, <2>1, <2>5, PeersFacts
    <3>2. e \in 0 .. s.weight
      <4>1. CASE s.max_fails = 0
        BY <2>2, <3>1, <4>1
      <4>2. CASE s.max_fails # 0
        <5>1. e \in 0 .. ps[c].ew
          BY <2>2, <3>1, <4>2, Lowered DEF PeerRec
        <5> QED  BY <3>1, <5>1
      <4> QED  BY <4>1, <4>2
    <3>3. new[c] = [ps[c] EXCEPT !.fails = @ + 1, !.accessed = now, !.checked = now, !.ew = e]
      BY <1>1, <2>3, <2>5, <3>1 DEF PeerRec
    <3>4. PICK k \in Nat : k = ps[c].fails + 1
      BY <3>1 DEF PeerRec
    <3>5. PICK n \in Nat : n = now
      OBVIOUS
    <3>6. PICK d \in Nat : d = e
      BY <3>1, <3>2
    <3>7. new[c] = [ps[c] EXCEPT !.fails = k, !.accessed = n, !.checked = n, !.ew = d]
      BY <3>3, <3>4, <3>5, <3>6
    <3>8. /\ new[c] \in PeerRec /\ new[c].cw = ps[c].cw /\ new[c].ew = d
          /\ new[c].fails = k /\ new[c].accessed = n /\ new[c].checked = n
      BY <3>1, <3>7 DEF PeerRec
    <3> QED  BY <3>2, <3>4, <3>5, <3>6, <3>8
  <2>6. new \in [Peers -> PeerRec]
    <3>1. new = [p \in Peers |-> new[p]]
      BY <1>1, <2>3
    <3>2. \A p \in Peers : new[p] \in PeerRec
      BY <1>1, <2>4, <2>5
    <3> QED  BY <3>1, <3>2
  <2> QED  BY <1>1, <1>2, <1>3, <2>1, <2>4, <2>5, <2>6
<1>4. CASE ~failed
  <2>1. PICK f : f = IF ps[c].accessed < ps[c].checked THEN 0 ELSE ps[c].fails
    OBVIOUS
  <2>2. new = [ps EXCEPT ![c].fails = f]
    BY <1>2, <1>4, <2>1 DEF Free
  <2>3. \A p \in Peers : p # c => new[p] = ps[p]
    BY <1>1, <2>2
  <2>4. ASSUME c \in Peers
        PROVE  new[c] \in PeerRec /\ new[c] = [ps[c] EXCEPT !.fails = f]
    <3>1. ps[c] \in PeerRec /\ f \in Nat
      BY <1>1, <2>1, <2>4 DEF PeerRec
    <3>2. new[c] = [ps[c] EXCEPT !.fails = f]
      BY <1>1, <2>2, <2>4
    <3> QED  BY <3>1, <3>2 DEF PeerRec
  <2>5. new \in [Peers -> PeerRec]
    <3>1. new = [p \in Peers |-> new[p]]
      BY <1>1, <2>2
    <3>2. \A p \in Peers : new[p] \in PeerRec
      BY <1>1, <2>3, <2>4
    <3> QED  BY <3>1, <3>2
  <2>6. c \in Peers => /\ new[c].fails = f /\ new[c].accessed = ps[c].accessed
                       /\ new[c].checked = ps[c].checked /\ new[c].ew = ps[c].ew
                       /\ new[c].cw = ps[c].cw
    BY <1>1, <2>4 DEF PeerRec
  <2> QED  BY <1>1, <1>2, <1>4, <2>1, <2>3, <2>5, <2>6
<1> QED  BY <1>3, <1>4

\* Giving a peer back, with its failure noted if it failed, keeps the account without
\* the request's hold on the peer.
LEMMA FreedAccount ==
    ASSUME conf \in Confs, now \in Nat, NEW q \in ReqRec, q.used # 0, ChoiceGood(q),
           NEW ps, NEW h, HistType(h), NEW U, Account(ps, h, U \cup {q.used}),
           NEW failed \in BOOLEAN, NEW k, k = IF failed THEN Faulted(h, q) ELSE h
    PROVE  HistType(k) /\ Account(Free(q, ps, failed).ps, k, U)
<1>1. q.used \in Peers /\ h \in [Peers -> [failed : Nat, last : Nat]] /\ WeightsGood(ps)
  BY DEF ReqRec, HistType, Account
<1>2. PICK u : u = q.used
  OBVIOUS
<1>3. HistType(k) /\ \A p \in Peers :
         /\ h[p].failed \in Nat /\ k[p].failed \in Nat /\ h[p].failed <= k[p].failed
         /\ ~failed \/ p # u => k[p] = h[p]
         /\ failed /\ p = u => k[p].failed = h[p].failed + 1 /\ k[p].last = now
  <2>1. CASE failed
    <3>1. k = [h EXCEPT ![u].failed = @ + 1, ![u].last = now]
      BY <1>2, <2>1 DEF Faulted
    <3>2. k \in [Peers -> [failed : Nat, last : Nat]]
      BY <1>1, <1>2, <3>1
    <3>3. \A p \in Peers : p # u => k[p] = h[p]
      BY <1>1, <3>1
    <3>4. k[u].failed = h[u].failed + 1 /\ k[u].last = now /\ h[u].failed \in Nat
      BY <1>1, <1>2, <3>1
    <3>5. \A p \in Peers : h[p].failed \in Nat /\ k[p].failed \in Nat
      BY <1>1, <3>2
    <3>6. \A p \in Peers : h[p].failed <= k[p].failed
      BY <3>3, <3>4, <3>5
    <3> QED  BY <2>1, <3>2, <3>3, <3>4, <3>5, <3>6 DEF HistType
  <2>2. CASE ~failed
    BY <1>1, <2>2 DEF HistType
  <2> QED  BY <2>1, <2>2
<1>4. CASE Single
  <2>1. Free(q, ps, failed).ps = ps
    BY <1>4 DEF Free
  <2>2. BlamesGood(ps, k)
    <3>1. SUFFICES ASSUME conf.balancer = "rr", NEW p \in Peers
                   PROVE  /\ ps[p].fails <= k[p].failed
                          /\ ps[p].ew < conf.servers[p].weight => k[p].failed > 0
      BY DEF BlamesGood
    <3>2. /\ ps[p].fails <= h[p].failed
          /\ ps[p].ew < conf.servers[p].weight => h[p].failed > 0
      BY <3>1 DEF BlamesGood, Account
    <3>3. ps[p].fails \in Nat
      BY <1>1 DEF WeightsGood, PeerRec
    <3>4. h[p].failed \in Nat /\ k[p].failed \in Nat /\ h[p].failed <= k[p].failed
      BY <1>3
    <3> QED  BY <3>2, <3>3, <3>4
  <2> QED  BY <1>1, <1>3, <1>4, <2>1, <2>2 DEF Account, ProbesGood
<1>5. CASE ~Single
  <2>1. PICK new : new = Free(q, ps, failed).ps
    OBVIOUS
  <2>2. PICK c : c = Current(q)
    OBVIOUS
  <2>3. /\ new \in [Peers -> PeerRec]
        /\ \A p \in Peers : new[p].cw = ps[p].cw /\ new[p].ew \in 0 .. conf.servers[p].weight
        /\ \A p \in Peers : p # c => new[p] = ps[p]
        /\ \A p \in Peers : p = c /\ failed =>
              /\ new[p].fails = ps[p].fails + 1
              /\ new[p].accessed = now /\ new[p].checked = now
        /\ \A p \in Peers : p = c /\ ~failed =>
              /\ new[p].fails = IF ps[p].accessed < ps[p].checked THEN 0 ELSE ps[p].fails
              /\ new[p].accessed = ps[p].accessed /\ new[p].checked = ps[p].checked
              /\ new[p].ew = ps[p].ew
    BY <1>1, <1>5, <2>1, <2>2, FreedPeers
  <2>4. WeightsGood(new)
    <3>1. \A b \in BOOLEAN : [p \in Group(b) |-> new[p].cw] = [p \in Group(b) |-> ps[p].cw]
      BY <2>3, GroupFacts
    <3> QED  BY <1>1, <2>3, <3>1 DEF WeightsGood
  <2>5. conf.balancer = "rr" => c = u
    BY <1>2, <1>5, <2>2 DEF ChoiceGood
  <2>6. \A p \in Peers : ps[p] \in PeerRec /\ new[p] \in PeerRec
    BY <1>1, <2>3 DEF WeightsGood
  <2>7. BlamesGood(new, k)
    <3>1. SUFFICES ASSUME conf.balancer = "rr", NEW p \in Peers
                   PROVE  /\ new[p].fails <= k[p].failed
                          /\ new[p].ew < conf.servers[p].weight => k[p].failed > 0
      BY DEF BlamesGood
    <3>2. /\ ps[p].fails <= h[p].failed
          /\ ps[p].ew < conf.servers[p].weight => h[p].failed > 0
      BY <3>1 DEF BlamesGood, Account
    <3>3. ps[p].fails \in Nat /\ h[p].failed \in Nat /\ k[p].failed \in Nat
      BY <1>3, <2>6 DEF PeerRec
    <3>4. CASE p # c
      <4>1. new[p] = ps[p] /\ k[p] = h[p]
        BY <1>3, <2>3, <2>5, <3>1, <3>4
      <4> QED  BY <3>2, <4>1
    <3>5. CASE p = c /\ failed
      <4>1. new[p].fails = ps[p].fails + 1 /\ k[p].failed = h[p].failed + 1
        BY <1>3, <2>3, <2>5, <3>1, <3>5
      <4> QED  BY <3>2, <3>3, <4>1
    <3>6. CASE p = c /\ ~failed
      <4>1. (new[p].fails = 0 \/ new[p].fails = ps[p].fails) /\ new[p].ew = ps[p].ew /\ k[p] = h[p]
        BY <1>3, <2>3, <3>6
      <4> QED  BY <3>2, <3>3, <4>1
    <3> QED  BY <3>4, <3>5, <3>6
  <2>8. ProbesGood(new, k, U)
    <3>1. SUFFICES ASSUME conf.balancer = "rr", NEW p \in Peers
                   PROVE  /\ new[p].accessed = k[p].last
                          /\ new[p].fails > 0 /\ new[p].checked > new[p].accessed => p \in U
      BY DEF ProbesGood
    <3>2. /\ ps[p].accessed = h[p].last
          /\ ps[p].fails > 0 /\ ps[p].checked > ps[p].accessed => p \in U \cup {u}
      BY <1>2, <1>5, <3>1 DEF ProbesGood, Account
    <3>3. CASE p # c
      <4>1. new[p] = ps[p] /\ k[p] = h[p] /\ p # u
        BY <1>3, <2>3, <2>5, <3>1, <3>3
      <4> QED  BY <3>2, <4>1
    <3>4. CASE p = c /\ failed
      <4>1. new[p].accessed = now /\ new[p].checked = now /\ k[p].last = now
        BY <1>3, <2>3, <2>5, <3>1, <3>4
      <4> QED  BY <4>1
    <3>5. CASE p = c /\ ~failed
      <4>1. /\ new[p].fails = IF ps[p].accessed < ps[p].checked THEN 0 ELSE ps[p].fails
            /\ new[p].accessed = ps[p].accessed /\ new[p].checked = ps[p].checked /\ k[p] = h[p]
        BY <1>3, <2>3, <3>5
      <4>2. ps[p].accessed \in Nat /\ ps[p].checked \in Nat
        BY <2>6 DEF PeerRec
      <4>3. new[p].checked > new[p].accessed => new[p].fails = 0
        BY <4>1, <4>2
      <4> QED  BY <3>2, <4>1, <4>3
    <3> QED  BY <3>3, <3>4, <3>5
  <2> QED  BY <1>3, <2>1, <2>4, <2>7, <2>8 DEF Account
<1> QED  BY <1>4, <1>5

-----------------------------------------------------------------------------
(* Ending a request, or its try.                                           *)

\* A request inside ngx_http_upstream_connect or with a peer.
Live(q) ==
    /\ q \in ReqRec /\ q.st \in Holding \cup {"connect"}
    /\ Len(q.conns) <= Allowed /\ BodyGood(q) /\ ChoiceGood(q)
    /\ q.used # 0 => q.tries >= 1 /\ Len(q.conns) + q.tries <= Allowed + 1

\* t is q without a peer, after Free or as it was.
Without(t, q) ==
    /\ t \in ReqRec /\ t.used = 0 /\ t.st = q.st /\ t.kind = q.kind /\ t.error = q.error
    /\ t.end = q.end /\ t.conns = q.conns /\ t.sends = q.sends /\ t.start = q.start
    /\ t.backup = q.backup /\ t.tried = q.tried
    /\ q.used # 0 => t.tries <= q.tries - 1

\* A request that ended.
Ended(t, end) == [t EXCEPT !.st = "done", !.end = end]

\* A request that ends (finalization in Finalize and NextPeer) keeps the invariant of its own record.
LEMMA EndedGood ==
    ASSUME NEW q, Live(q), NEW t, Without(t, q), NEW end \in End,
           NEW d, d = Ended(t, end)
    PROVE  ReqGood(d) /\ d.used = 0 /\ d.st = "done" /\ d.end = end
<1>1. /\ d \in ReqRec /\ d.used = 0 /\ d.st = "done" /\ d.end = end /\ d.kind = q.kind
      /\ d.conns = q.conns /\ d.sends = q.sends /\ d.backup = q.backup /\ d.tried = q.tried
  BY DEF Without, ReqRec, State, Ended
<1>2. TriesGood(d)
  BY <1>1 DEF TriesGood, Live, Holding
<1>3. BodyGood(d)
  BY <1>1 DEF BodyGood, Live
<1>4. ChoiceGood(d)
  BY <1>1 DEF ChoiceGood, Live
<1> QED  BY <1>1, <1>2, <1>3, <1>4 DEF ReqGood

\* A request that tries again.
Again(t) == [t EXCEPT !.st = "connect"]

\* A request sent to another peer (the retry of NextPeer) keeps the invariant of its own record.
LEMMA AgainGood ==
    ASSUME conf \in Confs, NEW q, Live(q), q.used # 0, NEW t, Without(t, q), t.tries # 0,
           q.kind = "unbuffered" => q.sends = 0,
           NEW d, d = Again(t)
    PROVE  ReqGood(d) /\ d.used = 0 /\ d.st = "connect" /\ d.end = q.end
<1>1. /\ d \in ReqRec /\ d.used = 0 /\ d.st = "connect" /\ d.end = q.end /\ d.kind = q.kind
      /\ d.conns = q.conns /\ d.sends = q.sends /\ d.backup = q.backup /\ d.tried = q.tried
      /\ d.tries = t.tries /\ t.tries \in Nat
  BY DEF Without, ReqRec, State, Again
<1>2. TriesGood(d)
  <2>1. /\ t.tries <= q.tries - 1 /\ Len(q.conns) + q.tries <= Allowed + 1
        /\ Len(q.conns) <= Allowed
    BY DEF Without, Live
  <2>2. q.tries \in Nat /\ Len(q.conns) \in Nat /\ Allowed \in Nat
    BY AllowedFacts, LenProperties DEF Live, ReqRec
  <2>3. t.tries >= 1 /\ Len(q.conns) + t.tries <= Allowed
    BY <1>1, <2>1, <2>2
  <2> QED  BY <1>1, <2>1, <2>3 DEF TriesGood, Holding
<1>3. BodyGood(d)
  BY <1>1 DEF BodyGood
<1>4. ChoiceGood(d)
  BY <1>1 DEF ChoiceGood, Live
<1> QED  BY <1>1, <1>2, <1>3, <1>4 DEF ReqGood

\* The request that Free returns.
LEMMA FreedRequest ==
    ASSUME NEW q, Live(q), q.used # 0, NEW ps, NEW failed
    PROVE  Without(Free(q, ps, failed).q, q)
<1>1. q \in ReqRec /\ q.tries \in Nat /\ q.tries >= 1
  BY DEF Live, ReqRec
<1>2. PICK n : n = IF Single THEN 0 ELSE q.tries - 1
  OBVIOUS
<1>3. n \in Nat /\ n <= q.tries - 1
  BY <1>1, <1>2
<1>4. Free(q, ps, failed).q = [q EXCEPT !.used = 0, !.tries = n]
  <2>1. CASE Single
    BY <1>2, <2>1 DEF Free
  <2>2. CASE ~Single
    <3>1. Free(q, ps, failed).q = [q EXCEPT !.used = 0, !.tries = IF @ > 0 THEN @ - 1 ELSE 0]
      BY <2>2 DEF Free
    <3>2. n = IF q.tries > 0 THEN q.tries - 1 ELSE 0
      BY <1>1, <1>2, <2>2
    <3> QED  BY <3>1, <3>2
  <2> QED  BY <2>1, <2>2
<1> QED  BY <1>1, <1>3, <1>4 DEF Without, ReqRec

\* What a request and its peers become: t, with the account of the failures k.
Becomes(r, t, k, U) ==
    /\ rq' = [rq EXCEPT ![r] = t] /\ ReqGood(t) /\ t.used = 0
    /\ HistType(k) /\ Account(peer', k, U)

\* ngx_http_upstream_finalize_request.
LEMMA FinalizeFacts ==
    ASSUME conf \in Confs, now \in Nat, NEW r, NEW q, Live(q), NEW ps, NEW h, HistType(h),
           NEW U, Account(ps, h, U \cup {q.used}), q.used = 0 => Account(ps, h, U),
           NEW end \in End, Finalize(r, q, ps, end)
    PROVE  \E t : Becomes(r, t, h, U) /\ t.st = "done" /\ t.end = end /\ run' = None
<1>1. PICK g : g = IF q.used = 0 THEN [q |-> q, ps |-> ps] ELSE Free(q, ps, FALSE)
  OBVIOUS
<1>2. PICK t : t = g.q
  OBVIOUS
<1>3. PICK d : d = Ended(t, end)
  OBVIOUS
<1>4. rq' = [rq EXCEPT ![r] = d] /\ peer' = g.ps /\ run' = None
  BY <1>1, <1>2, <1>3 DEF Finalize, Enters, Ended
<1>5. Without(t, q) /\ Account(g.ps, h, U)
  <2>1. CASE q.used = 0
    BY <1>1, <1>2, <2>1 DEF Without, Live
  <2>2. CASE q.used # 0
    <3>1. g = Free(q, ps, FALSE) /\ FALSE \in BOOLEAN /\ h = IF FALSE THEN Faulted(h, q) ELSE h
      BY <1>1, <2>2
    <3>2. q \in ReqRec /\ ChoiceGood(q)
      BY DEF Live
    <3>3. Account(Free(q, ps, FALSE).ps, h, U)
      BY <2>2, <3>1, <3>2, FreedAccount
    <3> QED  BY <1>2, <2>2, <3>1, <3>3, FreedRequest
  <2> QED  BY <2>1, <2>2
<1>6. ReqGood(d) /\ d.used = 0 /\ d.st = "done" /\ d.end = end
  <2>1. Live(q) /\ Without(t, q) /\ end \in End /\ d = Ended(t, end)
    BY <1>3, <1>5
  <2> QED  BY ONLY <2>1, EndedGood
<1> QED  BY <1>4, <1>5, <1>6 DEF Becomes

\* More peers that are held do no harm.
LEMMA AccountMore ==
    ASSUME NEW ps, NEW h, NEW U, Account(ps, h, U), NEW V
    PROVE  Account(ps, h, U \cup V)
BY DEF Account, ProbesGood

\* ngx_http_upstream_next; k is h with the failure that made it go on.
LEMMA NextPeerFacts ==
    ASSUME conf \in Confs, now \in Nat, NEW r, NEW q, Live(q), q.st # "responding",
           NEW ps, NEW h, HistType(h), NEW U, Account(ps, h, U \cup {q.used}),
           q.used = 0 => Account(ps, h, U),
           NEW ft \in Failure, q.used = 0 => ft = "nolive",
           NEW k, k = IF q.used # 0 /\ ft # "http_404" THEN Faulted(h, q) ELSE h,
           NextPeer(r, q, ps, ft)
    PROVE  \E t : /\ Becomes(r, t, k, U)
                  /\ (t.st = "done" /\ run' = None) \/ (t.st = "connect" /\ run' = r)
                  /\ t.end = "nolive" => ft = "nolive" \/ q.end = "nolive"
<1>1. PICK g : g = IF q.used = 0 THEN [q |-> q, ps |-> ps] ELSE Free(q, ps, ft # "http_404")
  OBVIOUS
<1>2. PICK t : t = g.q
  OBVIOUS
<1>3. PICK new : new = g.ps
  OBVIOUS
<1>4. IF q.error THEN Finalize(r, t, new, "closed")
      ELSE IF GivesUp(t, ft)
           THEN Finalize(r, t, new, IF ft = "nolive" THEN "nolive" ELSE "failed")
           ELSE Enters(r, Again(t), new) /\ run' = r
  BY <1>1, <1>2, <1>3 DEF NextPeer, Again
<1>5. Without(t, q) /\ Account(new, k, U) /\ HistType(k)
  <2>1. CASE q.used = 0
    BY <1>1, <1>2, <1>3, <2>1 DEF Without, Live
  <2>2. CASE q.used # 0
    <3>1. PICK failed \in BOOLEAN : failed = (ft # "http_404")
      OBVIOUS
    <3>2. g = Free(q, ps, failed) /\ k = IF failed THEN Faulted(h, q) ELSE h
      BY <1>1, <2>2, <3>1
    <3>3. q \in ReqRec /\ ChoiceGood(q)
      BY DEF Live
    <3>4. HistType(k) /\ Account(Free(q, ps, failed).ps, k, U)
      BY <2>2, <3>2, <3>3, FreedAccount
    <3> QED  BY <1>2, <1>3, <2>2, <3>2, <3>4, FreedRequest
  <2> QED  BY <2>1, <2>2
<1>6. Live(t) /\ t.used = 0
  BY <1>5 DEF Live, Without, BodyGood, ChoiceGood
<1>7. Account(new, k, U \cup {t.used})
  BY <1>5, AccountMore
<1>8. CASE q.error
  <2>1. Finalize(r, t, new, "closed") /\ "closed" \in End
    BY <1>4, <1>8 DEF End
  <2>2. \E d : Becomes(r, d, k, U) /\ d.st = "done" /\ d.end = "closed" /\ run' = None
    BY <1>5, <1>6, <1>7, <2>1, FinalizeFacts
  <2>3. PICK d : Becomes(r, d, k, U) /\ d.st = "done" /\ d.end = "closed" /\ run' = None
    BY <2>2
  <2>4. ~(d.end = "nolive")
    BY <2>3
  <2> QED  BY <2>3, <2>4
<1>9. CASE ~q.error /\ GivesUp(t, ft)
  <2>1. PICK e : e = IF ft = "nolive" THEN "nolive" ELSE "failed"
    OBVIOUS
  <2>2. Finalize(r, t, new, e) /\ e \in End
    BY <1>4, <1>9, <2>1 DEF End
  <2>3. \E d : Becomes(r, d, k, U) /\ d.st = "done" /\ d.end = e /\ run' = None
    BY <1>5, <1>6, <1>7, <2>2, FinalizeFacts
  <2>4. PICK d : Becomes(r, d, k, U) /\ d.st = "done" /\ d.end = e /\ run' = None
    BY <2>3
  <2>5. d.end = "nolive" => ft = "nolive"
    BY <2>1, <2>4
  <2> QED  BY <2>4, <2>5
<1>10. CASE ~q.error /\ ~GivesUp(t, ft)
  <2>1. PICK d : d = Again(t)
    OBVIOUS
  <2>2. rq' = [rq EXCEPT ![r] = d] /\ peer' = new /\ run' = r
    BY <1>4, <1>10, <2>1 DEF Enters
  <2>3. t.tries # 0 /\ ft \in conf.next /\ ~(t.kind = "unbuffered" /\ t.st = "sent")
    BY <1>10 DEF GivesUp
  <2>4. q.used # 0
    <3>1. ft # "nolive"
      BY <2>3, ConfAssumption
    <3> QED  BY <3>1
  <2>5. q.kind = "unbuffered" => q.sends = 0
    BY <1>5, <2>3 DEF Without, Live, BodyGood, Holding
  <2>6. ReqGood(d) /\ d.used = 0 /\ d.st = "connect" /\ d.end = q.end
    BY <1>5, <2>1, <2>3, <2>4, <2>5, AgainGood
  <2>7. Becomes(r, d, k, U)
    BY <1>5, <2>2, <2>6 DEF Becomes
  <2> QED  BY <2>2, <2>6, <2>7
<1> QED  BY <1>8, <1>9, <1>10

-----------------------------------------------------------------------------
(* Every step keeps the invariant.                                         *)

\* The peers that the other requests hold.
Others(r) == Held(Request \ {r})

\* The peers in use are one request's and those of the others.
LEMMA HeldSplit ==
    ASSUME NEW r \in Request
    PROVE  Held(Request) = Others(r) \cup {rq[r].used}
BY DEF Others, Held

\* The configuration does not change.
LEMMA SameConf ==
    ASSUME conf' = conf
    PROVE  /\ \A q : ReqGood(q)' <=> ReqGood(q)
           /\ \A ps : WeightsGood(ps)' <=> WeightsGood(ps)
           /\ \A ps, h : BlamesGood(ps, h)' <=> BlamesGood(ps, h)
           /\ \A ps, h, U : ProbesGood(ps, h, U)' <=> ProbesGood(ps, h, U)
           /\ \A h : HistType(h)' <=> HistType(h)
           /\ ReqRec' = ReqRec
<1>1. Peers' = Peers
  BY DEF Peers
<1>2. \A b : Group(b)' = Group(b)
  BY <1>1 DEF Group
<1>3. Single' = Single /\ Allowed' = Allowed
  BY <1>1 DEF Single, Allowed
<1>4. ReqRec' = ReqRec
  BY <1>1 DEF ReqRec
<1>5. \A q : Current(q)' = Current(q)
  BY <1>2 DEF Current
<1>6. \A q : TriesGood(q)' <=> TriesGood(q)
  BY <1>3 DEF TriesGood
<1>7. \A q : BodyGood(q)' <=> BodyGood(q)
  BY DEF BodyGood
<1>8. \A q : ChoiceGood(q)' <=> ChoiceGood(q)
  BY <1>2, <1>3, <1>5 DEF ChoiceGood
<1>9. \A q : ReqGood(q)' <=> ReqGood(q)
  BY <1>4, <1>6, <1>7, <1>8 DEF ReqGood
<1>10. \A ps : WeightsGood(ps)' <=> WeightsGood(ps)
  BY <1>1, <1>2 DEF WeightsGood
<1>11. \A ps, h : BlamesGood(ps, h)' <=> BlamesGood(ps, h)
  BY <1>1 DEF BlamesGood
<1>12. \A ps, h, U : ProbesGood(ps, h, U)' <=> ProbesGood(ps, h, U)
  BY <1>1, <1>3 DEF ProbesGood
<1>13. \A h : HistType(h)' <=> HistType(h)
  BY <1>1 DEF HistType
<1> QED  BY <1>4, <1>9, <1>10, <1>11, <1>12, <1>13

\* The step that NoLiveMeansNone allows.
NoLiveStep ==
    \A r \in Request :
        conf.balancer = "rr" /\ rq[r].end = "none" /\ rq'[r].end = "nolive" =>
            \A p \in IF rq[r].backup THEN Group(TRUE) ELSE Peers :
                \/ conf.servers[p].down
                \/ p \in Range(rq[r].conns)
                \/ now - hist[p].last <= FailTimeout
                \/ \E x \in Request : rq[x].used = p

\* Request r makes a step and is t after it.
MovesTo(r, t) ==
    /\ rq' = [rq EXCEPT ![r] = t] /\ ReqGood(t) /\ conf' = conf /\ now' = now
    /\ run \in {None, r} /\ run' \in {None, r} /\ (t.st = "connect" <=> run' = r)
    /\ HistType(hist') /\ Account(peer', hist', Others(r) \cup {t.used})
    /\ conf.balancer = "rr" /\ t.end = "nolive" => rq[r].end = "nolive" \/ NoneLeft(rq[r], peer)

\* An excluded peer failed a moment ago, or is being probed.
LEMMA ExcludedFacts ==
    ASSUME UpInv, conf.balancer = "rr", ~Single, NEW p \in Peers, Excluded(peer, p)
    PROVE  now - hist[p].last <= FailTimeout \/ \E x \in Request : rq[x].used = p
<1>1. /\ conf \in Confs /\ now \in Nat /\ peer \in [Peers -> PeerRec]
      /\ ProbesGood(peer, hist, Held(Request))
  BY DEF UpInv, WeightsGood
<1>2. /\ peer[p].accessed = hist[p].last
      /\ peer[p].fails > 0 /\ peer[p].checked > peer[p].accessed => p \in Held(Request)
  BY <1>1 DEF ProbesGood
<1>3. peer[p].accessed \in Nat /\ peer[p].checked \in Nat /\ peer[p].fails \in Nat
  BY <1>1 DEF PeerRec
<1>4. /\ conf.servers[p].max_fails # 0 /\ conf.servers[p].max_fails \in Nat
      /\ peer[p].fails >= conf.servers[p].max_fails /\ now - peer[p].checked <= FailTimeout
  BY <1>1, PeersFacts DEF Excluded
<1>5. CASE peer[p].checked > peer[p].accessed
  <2>1. p \in Held(Request)
    BY <1>2, <1>3, <1>4, <1>5
  <2> QED  BY <2>1 DEF Held
<1>6. CASE ~(peer[p].checked > peer[p].accessed)
  <2>1. now - hist[p].last <= FailTimeout
    BY <1>1, <1>2, <1>3, <1>4, <1>6, UpstreamAssumption
  <2> QED  BY <2>1
<1> QED  BY <1>5, <1>6

\* A step of one request keeps the invariant.
LEMMA Moves ==
    ASSUME UpInv, NEW r \in Request, NEW t, MovesTo(r, t)
    PROVE  UpInv' /\ NoLiveStep
<1>1. /\ rq' = [rq EXCEPT ![r] = t] /\ ReqGood(t) /\ t \in ReqRec /\ conf' = conf /\ now' = now
      /\ run \in {None, r} /\ run' \in {None, r} /\ (t.st = "connect" <=> run' = r)
      /\ HistType(hist') /\ Account(peer', hist', Others(r) \cup {t.used})
      /\ conf.balancer = "rr" /\ t.end = "nolive" => rq[r].end = "nolive" \/ NoneLeft(rq[r], peer)
  BY DEF MovesTo, ReqGood
<1>2. /\ conf \in Confs /\ now \in Nat /\ rq \in [Request -> ReqRec]
      /\ \A x \in Request : ReqGood(rq[x]) /\ (rq[x].st = "connect" <=> run = x)
  BY DEF UpInv
<1>3. rq' \in [Request -> ReqRec] /\ rq'[r] = t /\ \A x \in Request : x # r => rq'[x] = rq[x]
  BY <1>1, <1>2
<1>4. \A x \in Request : ReqGood(rq'[x]) /\ (rq'[x].st = "connect" <=> run' = x)
  <2>1. None \notin Request
    BY UpstreamAssumption
  <2>2. ASSUME NEW x \in Request, x # r
        PROVE  ReqGood(rq'[x]) /\ (rq'[x].st = "connect" <=> run' = x)
    <3>1. rq'[x] = rq[x] /\ run # x /\ run' # x
      BY <1>1, <1>3, <2>1, <2>2
    <3> QED  BY <1>2, <3>1
  <2> QED  BY <1>1, <1>3, <2>2
<1>5. Held(Request)' = Others(r) \cup {t.used}
  <2>1. Held(Request)' = {rq'[x].used : x \in Request}
    BY DEF Held
  <2>2. Others(r) = {rq[x].used : x \in Request \ {r}}
    BY DEF Others, Held
  <2>3. \A x \in Request \ {r} : rq'[x].used = rq[x].used
    BY <1>3
  <2> QED  BY <1>3, <2>1, <2>2, <2>3
<1>6. UpInv'
  <2>1. /\ \A q : ReqGood(q)' <=> ReqGood(q)
        /\ \A ps : WeightsGood(ps)' <=> WeightsGood(ps)
        /\ \A ps, h : BlamesGood(ps, h)' <=> BlamesGood(ps, h)
        /\ \A ps, h, U : ProbesGood(ps, h, U)' <=> ProbesGood(ps, h, U)
        /\ \A h : HistType(h)' <=> HistType(h)
        /\ ReqRec' = ReqRec
    BY <1>1, SameConf
  <2>2. WeightsGood(peer)' /\ BlamesGood(peer, hist)' /\ ProbesGood(peer, hist, Held(Request))'
    BY <1>1, <1>5, <2>1 DEF Account
  <2>3. HistType(hist)' /\ (rq \in [Request -> ReqRec])'
    BY <1>1, <1>3, <2>1
  <2>4. (\A x \in Request : ReqGood(rq[x]) /\ (rq[x].st = "connect" <=> run = x))'
    BY <1>4, <2>1
  <2>5. (conf \in Confs /\ now \in Nat /\ run \in Request \cup {None})'
    BY <1>1, <1>2
  <2> QED  BY <2>2, <2>3, <2>4, <2>5 DEF UpInv
<1>7. NoLiveStep
  <2>1. SUFFICES ASSUME NEW x \in Request, conf.balancer = "rr", rq[x].end = "none",
                        rq'[x].end = "nolive",
                        NEW p \in IF rq[x].backup THEN Group(TRUE) ELSE Peers
                 PROVE  \/ conf.servers[p].down
                        \/ p \in Range(rq[x].conns)
                        \/ now - hist[p].last <= FailTimeout
                        \/ \E y \in Request : rq[y].used = p
    BY DEF NoLiveStep
  <2>2. x = r
    BY <1>3, <2>1
  <2>3. NoneLeft(rq[x], peer)
    BY <1>1, <1>3, <2>1, <2>2
  <2>4. p \in Peers
    BY <1>2, <2>1, GroupFacts
  <2>5. conf.servers[p].down \/ (~Single /\ (p \in rq[x].tried \/ Excluded(peer, p)))
    BY <2>1, <2>3 DEF NoneLeft
  <2>6. CASE ~Single /\ p \in rq[x].tried
    <3>1. rq[x].tried \subseteq Range(rq[x].conns)
      BY <1>2, <2>1, <2>6 DEF ReqGood, ChoiceGood
    <3> QED  BY <2>6, <3>1
  <2>7. CASE ~Single /\ Excluded(peer, p)
    BY <2>1, <2>4, <2>7, ExcludedFacts
  <2> QED  BY <2>5, <2>6, <2>7
<1> QED  BY <1>6, <1>7

\* What the invariant says of one request, with the peers that the others hold.
LEMMA OneRequest ==
    ASSUME UpInv, NEW r \in Request
    PROVE  /\ conf \in Confs /\ now \in Nat /\ HistType(hist) /\ None # r
           /\ rq \in [Request -> ReqRec] /\ rq[r] \in ReqRec /\ ReqGood(rq[r])
           /\ rq[r].st = "connect" <=> run = r
           /\ Account(peer, hist, Others(r) \cup {rq[r].used})
           /\ rq[r].used = 0 => Account(peer, hist, Others(r))
           /\ rq[r].st \in Holding => Live(rq[r]) /\ rq[r].used # 0
<1>1. /\ conf \in Confs /\ now \in Nat /\ HistType(hist)
      /\ rq \in [Request -> ReqRec] /\ rq[r] \in ReqRec /\ ReqGood(rq[r])
      /\ rq[r].st = "connect" <=> run = r
  BY DEF UpInv
<1>2. Account(peer, hist, Others(r) \cup {rq[r].used})
  BY HeldSplit DEF UpInv, Account
<1>3. rq[r].used = 0 => Account(peer, hist, Others(r))
  <2>1. 0 \notin Peers
    BY <1>1, PeersFacts
  <2> QED  BY <1>2, <2>1 DEF Account, ProbesGood
<1>4. rq[r].st \in Holding => Live(rq[r]) /\ rq[r].used # 0
  BY <1>1 DEF Live, ReqGood, TriesGood
<1> QED  BY <1>1, <1>2, <1>3, <1>4, UpstreamAssumption

\* ngx_http_upstream_init_request: a request that starts.
LEMMA StartMoves ==
    ASSUME UpInv, NEW r \in Request, Start(r)
    PROVE  \E t : MovesTo(r, t)
<1>1. PICK q : q = rq[r]
  OBVIOUS
<1>2. /\ conf \in Confs /\ now \in Nat /\ HistType(hist) /\ None # r
      /\ rq \in [Request -> ReqRec] /\ q \in ReqRec /\ ReqGood(q)
      /\ Account(peer, hist, Others(r) \cup {q.used})
  BY <1>1, OneRequest
<1>3. Allowed \in Nat \ {0}
  BY <1>2, AllowedFacts
<1>4. PICK t : t = [q EXCEPT !.st = "connect", !.start = now, !.tries = Allowed]
  OBVIOUS
<1>5. /\ rq' = [rq EXCEPT ![r] = t] /\ run = None /\ run' = r /\ q.st = "new"
      /\ conf' = conf /\ peer' = peer /\ now' = now /\ hist' = hist
  BY <1>1, <1>2, <1>4 DEF Start, Allowed
<1>6. /\ t \in ReqRec /\ t.st = "connect" /\ t.tries = Allowed /\ t.used = q.used /\ t.end = q.end
      /\ t.conns = q.conns /\ t.sends = q.sends /\ t.tried = q.tried /\ t.backup = q.backup
  BY <1>2, <1>3, <1>4 DEF ReqRec, State
<1>7. q.conns = <<>> /\ q.sends = 0 /\ q.tried = {} /\ q.used = 0
  BY <1>2, <1>5 DEF ReqGood, TriesGood, Holding
<1>8. Len(q.conns) = 0
  BY <1>7
<1>9. TriesGood(t)
  BY <1>3, <1>6, <1>7, <1>8 DEF TriesGood, Holding
<1>10. BodyGood(t) /\ ChoiceGood(t)
  <2>1. BodyGood(t)
    BY <1>6, <1>7 DEF BodyGood
  <2>2. ChoiceGood(t)
    <3>1. ChoiceGood(q)
      BY <1>2 DEF ReqGood
    <3> QED  BY <1>6, <1>7, <3>1 DEF ChoiceGood
  <2> QED  BY <2>1, <2>2
<1> QED  BY <1>1, <1>2, <1>5, <1>6, <1>9, <1>10 DEF MovesTo, ReqGood

\* ngx_http_upstream_send_request: a body that is not kept is sent for the first time.
LEMMA SendRequestMoves ==
    ASSUME UpInv, NEW r \in Request, SendRequest(r)
    PROVE  \E t : MovesTo(r, t)
<1>1. PICK q : q = rq[r]
  OBVIOUS
<1>2. /\ conf \in Confs /\ now \in Nat /\ HistType(hist) /\ None # r
      /\ rq \in [Request -> ReqRec] /\ q \in ReqRec /\ ReqGood(q)
      /\ Account(peer, hist, Others(r) \cup {q.used})
  BY <1>1, OneRequest
<1>3. PICK t : t = [q EXCEPT !.st = "sent", !.sends = @ + 1]
  OBVIOUS
<1>4. /\ rq' = [rq EXCEPT ![r] = t] /\ run = None /\ run' = run /\ q.st = "connecting"
      /\ conf' = conf /\ peer' = peer /\ now' = now /\ hist' = hist
  BY <1>1, <1>2, <1>3 DEF SendRequest, Event
<1>5. /\ t \in ReqRec /\ t.st = "sent" /\ t.sends = q.sends + 1 /\ t.used = q.used
      /\ t.end = q.end /\ t.kind = q.kind /\ t.tries = q.tries /\ t.current = q.current
      /\ t.conns = q.conns /\ t.tried = q.tried /\ t.backup = q.backup
  <2>1. PICK n \in Nat : n = q.sends + 1
    BY <1>2 DEF ReqRec
  <2>2. t = [q EXCEPT !.st = "sent", !.sends = n]
    BY <1>3, <2>1
  <2> QED  BY <1>2, <2>1, <2>2 DEF ReqRec, State
<1>6. TriesGood(t)
  BY <1>2, <1>4, <1>5 DEF ReqGood, TriesGood, Holding
<1>7. BodyGood(t)
  BY <1>2, <1>4, <1>5 DEF ReqGood, BodyGood
<1>8. ChoiceGood(t)
  <2>1. Current(t) = Current(q)
    BY <1>5 DEF Current
  <2> QED  BY <1>2, <1>5, <2>1 DEF ReqGood, ChoiceGood
<1> QED  BY <1>1, <1>2, <1>4, <1>5, <1>6, <1>7, <1>8 DEF MovesTo, ReqGood

\* The step of a request that goes on to the next peer.
LEMMA NextMoves ==
    ASSUME UpInv, NEW r \in Request, run = None, rq[r].st \in {"connecting", "sent"},
           NEW ft \in Failure, ft # "nolive", NextPeer(r, rq[r], peer, ft),
           conf' = conf, now' = now,
           hist' = IF ft # "http_404" THEN Faulted(hist, rq[r]) ELSE hist
    PROVE  \E t : MovesTo(r, t)
<1>1. PICK q : q = rq[r]
  OBVIOUS
<1>2. PICK U : U = Others(r)
  OBVIOUS
<1>3. /\ conf \in Confs /\ now \in Nat /\ HistType(hist) /\ None # r /\ Live(q) /\ q.used # 0
      /\ Account(peer, hist, U \cup {q.used}) /\ q.st # "responding"
  BY <1>1, <1>2, OneRequest DEF Holding
<1>4. PICK k : k = hist'
  OBVIOUS
<1>5. k = IF q.used # 0 /\ ft # "http_404" THEN Faulted(hist, q) ELSE hist
  BY <1>1, <1>3, <1>4
<1>6. NextPeer(r, q, peer, ft)
  BY <1>1
<1>7. PICK t : /\ Becomes(r, t, k, U)
               /\ (t.st = "done" /\ run' = None) \/ (t.st = "connect" /\ run' = r)
               /\ t.end = "nolive" => ft = "nolive" \/ q.end = "nolive"
  BY <1>3, <1>5, <1>6, NextPeerFacts
<1>8. Account(peer', k, U \cup {t.used})
  BY <1>7, AccountMore DEF Becomes
<1> QED  BY <1>1, <1>2, <1>3, <1>4, <1>7, <1>8 DEF MovesTo, Becomes

\* A failure or a timeout sends the request to the next peer.
LEMMA FailsMoves ==
    ASSUME UpInv, NEW r \in Request, Fails(r)
    PROVE  \E t : MovesTo(r, t)
<1>1. PICK ft \in {"error", "timeout"} \cup (IF rq[r].st = "sent" THEN {"invalid_header"} ELSE {}) :
        NextPeer(r, rq[r], peer, ft)
  BY DEF Fails
<1>2. ft \in Failure /\ ft # "nolive" /\ ft # "http_404"
  BY <1>1 DEF Failure
<1>3. /\ run = None /\ rq[r].st \in {"connecting", "sent"} /\ conf' = conf /\ now' = now
      /\ hist' = Faulted(hist, rq[r])
  BY DEF Fails, Event, Fault, Faulted
<1> QED  BY <1>1, <1>2, <1>3, NextMoves

\* An answer is passed on, or sends the request to the next peer.
LEMMA AnswersMoves ==
    ASSUME UpInv, NEW r \in Request, Answers(r)
    PROVE  \E t : MovesTo(r, t)
<1>1. PICK q : q = rq[r]
  OBVIOUS
<1>2. /\ conf \in Confs /\ now \in Nat /\ HistType(hist) /\ None # r
      /\ rq \in [Request -> ReqRec] /\ q \in ReqRec /\ ReqGood(q)
      /\ Account(peer, hist, Others(r) \cup {q.used})
  BY <1>1, OneRequest
<1>3. run = None /\ q.st = "sent" /\ conf' = conf /\ now' = now
  BY <1>1 DEF Answers, Event
<1>4. PICK ft \in {"none", "http_500", "http_404"} :
         IF rq[r].tries > 1 /\ ft \in conf.next
         THEN /\ NextPeer(r, rq[r], peer, ft)
              /\ IF ft = "http_404" THEN UNCHANGED hist ELSE Fault(rq[r])
         ELSE rq' = [rq EXCEPT ![r].st = "responding"] /\ UNCHANGED <<peer, run, hist>>
  BY DEF Answers
<1>5. CASE rq[r].tries > 1 /\ ft \in conf.next
  <2>1. ft # "none"
    BY <1>2, <1>5, ConfAssumption
  <2>2. ft \in Failure /\ ft # "nolive"
    BY <2>1 DEF Failure
  <2>3. NextPeer(r, rq[r], peer, ft) /\ hist' = IF ft # "http_404" THEN Faulted(hist, rq[r]) ELSE hist
    BY <1>4, <1>5 DEF Fault, Faulted
  <2> QED  BY <1>1, <1>3, <2>2, <2>3, NextMoves
<1>6. CASE ~(rq[r].tries > 1 /\ ft \in conf.next)
  <2>1. PICK t : t = [q EXCEPT !.st = "responding"]
    OBVIOUS
  <2>2. rq' = [rq EXCEPT ![r] = t] /\ peer' = peer /\ run' = run /\ hist' = hist
    BY <1>1, <1>4, <1>6, <2>1
  <2>3. /\ t \in ReqRec /\ t.st = "responding" /\ t.sends = q.sends /\ t.used = q.used
        /\ t.end = q.end /\ t.kind = q.kind /\ t.tries = q.tries /\ t.current = q.current
        /\ t.conns = q.conns /\ t.tried = q.tried /\ t.backup = q.backup
    BY <1>2, <2>1 DEF ReqRec, State
  <2>4. TriesGood(t)
    BY <1>2, <1>3, <2>3 DEF ReqGood, TriesGood, Holding
  <2>5. BodyGood(t)
    BY <1>2, <1>3, <2>3 DEF ReqGood, BodyGood
  <2>6. ChoiceGood(t)
    <3>1. Current(t) = Current(q)
      BY <2>3 DEF Current
    <3> QED  BY <1>2, <2>3, <3>1 DEF ReqGood, ChoiceGood
  <2> QED  BY <1>1, <1>2, <1>3, <2>2, <2>3, <2>4, <2>5, <2>6 DEF MovesTo, ReqGood
<1> QED  BY <1>5, <1>6

\* The step of a request that ends.
LEMMA EndMoves ==
    ASSUME UpInv, NEW r \in Request, run = None, rq[r].st \in Holding,
           NEW q, Live(q), q.used = rq[r].used, NEW end \in End, end # "nolive",
           Finalize(r, q, peer, end), conf' = conf, now' = now, hist' = hist
    PROVE  \E t : MovesTo(r, t)
<1>1. PICK U : U = Others(r)
  OBVIOUS
<1>2. /\ conf \in Confs /\ now \in Nat /\ HistType(hist) /\ None # r /\ q.used # 0
      /\ Account(peer, hist, U \cup {q.used})
  BY <1>1, OneRequest
<1>3. PICK t : Becomes(r, t, hist, U) /\ t.st = "done" /\ t.end = end /\ run' = None
  BY <1>2, FinalizeFacts
<1>4. Account(peer', hist, U \cup {t.used})
  BY <1>3, AccountMore DEF Becomes
<1> QED  BY <1>1, <1>2, <1>3, <1>4 DEF MovesTo, Becomes

\* A header the module cannot process ends the request.
LEMMA HeaderErrorMoves ==
    ASSUME UpInv, NEW r \in Request, HeaderError(r)
    PROVE  \E t : MovesTo(r, t)
<1>1. Finalize(r, rq[r], peer, "failed") /\ "failed" \in End /\ "failed" # "nolive"
  BY DEF HeaderError, End
<1>2. run = None /\ rq[r].st \in Holding /\ conf' = conf /\ now' = now /\ hist' = hist
  BY DEF HeaderError, Event, Holding
<1>3. Live(rq[r])
  BY <1>2, OneRequest
<1> QED  BY <1>1, <1>2, <1>3, EndMoves

\* The end of the response ends the request.
LEMMA ResponseEndsMoves ==
    ASSUME UpInv, NEW r \in Request, ResponseEnds(r)
    PROVE  \E t : MovesTo(r, t)
<1>1. PICK end \in {"answered", "cut"} : Finalize(r, rq[r], peer, end)
  BY DEF ResponseEnds
<1>2. end \in End /\ end # "nolive"
  BY <1>1 DEF End
<1>3. run = None /\ rq[r].st \in Holding /\ conf' = conf /\ now' = now /\ hist' = hist
  BY DEF ResponseEnds, Event, Holding
<1>4. Live(rq[r])
  BY <1>3, OneRequest
<1> QED  BY <1>1, <1>2, <1>3, <1>4, EndMoves

\* A client that goes away ends the request unless its response is to be cached.
LEMMA ClientClosesMoves ==
    ASSUME UpInv, NEW r \in Request, ClientCloses(r)
    PROVE  \E t : MovesTo(r, t)
<1>1. PICK o : o = rq[r]
  OBVIOUS
<1>2. PICK q : q = [o EXCEPT !.error = TRUE]
  OBVIOUS
<1>3. run = None /\ o.st \in Holding /\ conf' = conf /\ now' = now /\ hist' = hist
  BY <1>1 DEF ClientCloses, Event, Holding
<1>4. /\ HistType(hist) /\ None # r /\ rq \in [Request -> ReqRec]
      /\ o \in ReqRec /\ ReqGood(o) /\ Live(o)
      /\ Account(peer, hist, Others(r) \cup {o.used})
  BY <1>1, <1>3, OneRequest
<1>5. /\ q \in ReqRec /\ q.st = o.st /\ q.sends = o.sends /\ q.used = o.used
      /\ q.end = o.end /\ q.kind = o.kind /\ q.tries = o.tries /\ q.current = o.current
      /\ q.conns = o.conns /\ q.tried = o.tried /\ q.backup = o.backup
  BY <1>2, <1>4 DEF ReqRec
<1>6. Current(q) = Current(o)
  BY <1>5 DEF Current
<1>7. BodyGood(q) /\ ChoiceGood(q) /\ TriesGood(q)
  <2>1. BodyGood(q)
    BY <1>4, <1>5 DEF ReqGood, BodyGood
  <2>2. ChoiceGood(q)
    BY <1>4, <1>5, <1>6 DEF ReqGood, ChoiceGood
  <2>3. TriesGood(q)
    BY <1>4, <1>5 DEF ReqGood, TriesGood
  <2> QED  BY <2>1, <2>2, <2>3
<1>8. CASE q.kind = "cacheable"
  <2>1. rq' = [rq EXCEPT ![r] = q] /\ peer' = peer /\ run' = run
    BY <1>1, <1>2, <1>8 DEF ClientCloses
  <2>2. q.st # "connect" /\ ReqGood(q)
    BY <1>3, <1>5, <1>7 DEF Holding, ReqGood
  <2> QED  BY <1>1, <1>3, <1>4, <1>5, <2>1, <2>2 DEF MovesTo
<1>9. CASE q.kind # "cacheable"
  <2>1. Finalize(r, q, peer, "closed") /\ "closed" \in End
    BY <1>1, <1>2, <1>9 DEF ClientCloses, End
  <2>2. Live(q)
    BY <1>4, <1>5, <1>7 DEF Live
  <2> QED  BY <1>1, <1>3, <1>5, <2>1, <2>2, EndMoves
<1> QED  BY <1>8, <1>9

\* A request that got a peer, or none.
LEMMA JoinedLive ==
    ASSUME conf \in Confs, NEW q, Asks(q), BodyGood(q), NEW g, NEW h, NEW U, Got(q, g, h, U),
           NEW t, t = Joined(g.q)
    PROVE  /\ Live(t) /\ t.used = g.q.used /\ t.st = "connect" /\ t.end = q.end
           /\ Account(g.ps, h, U \cup {t.used})
<1>1. /\ g.q \in ReqRec /\ Kept(q, g.q) /\ ChoiceGood(t) /\ Account(g.ps, h, U \cup {g.q.used})
  BY DEF Got
<1>2. /\ q \in ReqRec /\ q.st = "connect" /\ q.tries \in Nat /\ q.tries >= 1
      /\ q.conns \in Seq(Peers) /\ Len(q.conns) + q.tries <= Allowed
  BY DEF Asks, TriesGood, ReqRec
<1>3. Len(q.conns) \in Nat /\ Allowed \in Nat
  BY <1>2, LenProperties, AllowedFacts
<1>4. PICK c : c = IF g.q.used = 0 THEN q.conns ELSE Append(q.conns, g.q.used)
  OBVIOUS
<1>5. /\ c \in Seq(Peers) /\ Len(c) \in Nat /\ Len(c) + q.tries <= Allowed + 1
      /\ Len(c) <= Allowed
  <2>1. CASE g.q.used = 0
    BY <1>2, <1>3, <1>4, <2>1
  <2>2. CASE g.q.used # 0
    <3>1. g.q.used \in Peers
      BY <1>1, <2>2 DEF ReqRec
    <3>2. Append(q.conns, g.q.used) \in Seq(Peers) /\ Len(Append(q.conns, g.q.used)) = Len(q.conns) + 1
      BY <1>2, <3>1, AppendProperties
    <3> QED  BY <1>2, <1>3, <1>4, <2>2, <3>2
  <2> QED  BY <2>1, <2>2
<1>6. t = [g.q EXCEPT !.conns = c]
  BY <1>1, <1>4 DEF Joined, Kept
<1>7. /\ t \in ReqRec /\ t.used = g.q.used /\ t.st = g.q.st /\ t.end = g.q.end /\ t.conns = c
      /\ t.kind = g.q.kind /\ t.sends = g.q.sends /\ t.tries = g.q.tries
  BY <1>1, <1>5, <1>6 DEF ReqRec
<1>8. /\ t.st = q.st /\ t.end = q.end /\ t.kind = q.kind /\ t.sends = q.sends
      /\ t.tries = q.tries
  BY <1>1, <1>7 DEF Kept
<1>9. BodyGood(t)
  BY <1>2, <1>8 DEF BodyGood
<1>10. Live(t)
  BY <1>1, <1>2, <1>5, <1>7, <1>8, <1>9 DEF Live
<1> QED  BY <1>1, <1>2, <1>7, <1>8, <1>10

\* ngx_http_upstream_connect, in each of its outcomes.
LEMMA ConnectMoves ==
    ASSUME UpInv, NEW r \in Request, Connect(r)
    PROVE  \E t : MovesTo(r, t)
<1>1. PICK o : o = rq[r]
  OBVIOUS
<1>2. PICK U : U = Others(r)
  OBVIOUS
<1>3. run = r /\ conf' = conf /\ now' = now
  BY DEF Connect
<1>4. /\ conf \in Confs /\ now \in Nat /\ HistType(hist) /\ None # r
      /\ o.st = "connect" /\ ReqGood(o) /\ (o.used = 0 => Account(peer, hist, U))
  BY <1>1, <1>2, <1>3, OneRequest
<1>5. Asks(o) /\ BodyGood(o) /\ Account(peer, hist, U)
  BY <1>4 DEF ReqGood, Asks, TriesGood, Holding
<1>6. PICK g \in Get(o, peer) :
         LET q == Joined(g.q)
         IN \/ g.q.used = 0 /\ NextPeer(r, q, g.ps, "nolive") /\ UNCHANGED hist
            \/ g.q.used # 0 /\ Finalize(r, q, g.ps, "internal") /\ UNCHANGED hist
            \/ g.q.used # 0 /\ NextPeer(r, q, g.ps, "error") /\ Fault(q)
            \/ /\ g.q.used # 0
               /\ Enters(r, [q EXCEPT !.st = "connecting"], g.ps)
               /\ run' = None /\ UNCHANGED hist
  BY <1>1 DEF Connect, Joined
<1>7. PICK q : q = Joined(g.q)
  OBVIOUS
<1>8. Got(o, g, hist, U) /\ (conf.balancer = "rr" /\ g.q.used = 0 => NoneLeft(o, peer))
  BY <1>4, <1>5, GetFacts
<1>9. /\ Live(q) /\ q.used = g.q.used /\ q.st = "connect" /\ q.end = o.end
      /\ Account(g.ps, hist, U \cup {q.used})
  BY <1>4, <1>5, <1>7, <1>8, JoinedLive
<1>10. PICK ps : ps = g.ps
  OBVIOUS
<1>11. CASE q.used = 0 /\ NextPeer(r, q, ps, "nolive") /\ hist' = hist
  <2>1. Account(ps, hist, U)
    <3>1. 0 \notin Peers
      BY <1>4, PeersFacts
    <3> QED  BY <1>9, <1>10, <1>11, <3>1 DEF Account, ProbesGood
  <2>2. "nolive" \in Failure /\ hist = IF q.used # 0 /\ "nolive" # "http_404" THEN Faulted(hist, q) ELSE hist
    BY <1>11 DEF Failure
  <2>3. PICK t : /\ Becomes(r, t, hist, U)
                 /\ (t.st = "done" /\ run' = None) \/ (t.st = "connect" /\ run' = r)
    BY <1>4, <1>9, <1>10, <1>11, <2>1, <2>2, NextPeerFacts
  <2>4. Account(peer', hist, U \cup {t.used})
    BY <2>3, AccountMore DEF Becomes
  <2>5. conf.balancer = "rr" => NoneLeft(o, peer)
    BY <1>8, <1>9, <1>11
  <2> QED  BY <1>1, <1>2, <1>3, <1>4, <1>11, <2>3, <2>4, <2>5 DEF MovesTo, Becomes
<1>12. CASE q.used # 0 /\ Finalize(r, q, ps, "internal") /\ hist' = hist
  <2>1. "internal" \in End
    BY DEF End
  <2>2. PICK t : Becomes(r, t, hist, U) /\ t.st = "done" /\ t.end = "internal" /\ run' = None
    BY <1>4, <1>9, <1>10, <1>12, <2>1, FinalizeFacts
  <2>3. Account(peer', hist, U \cup {t.used})
    BY <2>2, AccountMore DEF Becomes
  <2> QED  BY <1>2, <1>3, <1>4, <1>12, <2>2, <2>3 DEF MovesTo, Becomes
<1>13. CASE q.used # 0 /\ NextPeer(r, q, ps, "error") /\ hist' = Faulted(hist, q)
  <2>1. PICK k : k = hist'
    OBVIOUS
  <2>2. "error" \in Failure /\ k = IF q.used # 0 /\ "error" # "http_404" THEN Faulted(hist, q) ELSE hist
    BY <1>13, <2>1 DEF Failure
  <2>3. PICK t : /\ Becomes(r, t, k, U)
                 /\ (t.st = "done" /\ run' = None) \/ (t.st = "connect" /\ run' = r)
                 /\ t.end = "nolive" => "error" = "nolive" \/ q.end = "nolive"
    BY <1>4, <1>9, <1>10, <1>13, <2>2, NextPeerFacts
  <2>4. Account(peer', k, U \cup {t.used})
    BY <2>3, AccountMore DEF Becomes
  <2>5. t.end = "nolive" => o.end = "nolive"
    BY <1>9, <2>3
  <2> QED  BY <1>1, <1>2, <1>3, <1>4, <2>1, <2>3, <2>4, <2>5 DEF MovesTo, Becomes
<1>14. CASE /\ q.used # 0 /\ Enters(r, [q EXCEPT !.st = "connecting"], ps)
            /\ run' = None /\ hist' = hist
  <2>1. PICK t : t = [q EXCEPT !.st = "connecting"]
    OBVIOUS
  <2>2. rq' = [rq EXCEPT ![r] = t] /\ peer' = ps
    BY <1>14, <2>1 DEF Enters
  <2>3. /\ t \in ReqRec /\ t.st = "connecting" /\ t.sends = q.sends /\ t.used = q.used
        /\ t.end = q.end /\ t.kind = q.kind /\ t.tries = q.tries /\ t.current = q.current
        /\ t.conns = q.conns /\ t.tried = q.tried /\ t.backup = q.backup
    BY <1>9, <2>1 DEF Live, ReqRec, State
  <2>4. TriesGood(t)
    BY <1>9, <1>14, <2>3 DEF Live, TriesGood, Holding
  <2>5. BodyGood(t)
    BY <1>9, <2>3 DEF Live, BodyGood
  <2>6. ChoiceGood(t)
    <3>1. Current(t) = Current(q)
      BY <2>3 DEF Current
    <3> QED  BY <1>9, <2>3, <3>1 DEF Live, ChoiceGood
  <2> QED  BY <1>1, <1>2, <1>3, <1>4, <1>9, <1>10, <1>14, <2>2, <2>3, <2>4, <2>5, <2>6 DEF MovesTo, ReqGood
<1>15. \/ q.used = 0 /\ NextPeer(r, q, ps, "nolive") /\ hist' = hist
       \/ q.used # 0 /\ Finalize(r, q, ps, "internal") /\ hist' = hist
       \/ q.used # 0 /\ NextPeer(r, q, ps, "error") /\ hist' = Faulted(hist, q)
       \/ /\ q.used # 0 /\ Enters(r, [q EXCEPT !.st = "connecting"], ps)
          /\ run' = None /\ hist' = hist
  BY <1>6, <1>7, <1>9, <1>10 DEF Fault, Faulted
<1> QED  BY <1>11, <1>12, <1>13, <1>14, <1>15

-----------------------------------------------------------------------------
(* The theorems.                                                           *)

\* The sum of a function that is zero everywhere.
LEMMA SumZero ==
    ASSUME NEW G, IsFiniteSet(G), NEW f, \A x \in G : f[x] = 0
    PROVE  SumFunctionOnSet(f, G) = 0
<1>1. /\ IsFiniteSet(G) /\ G \in SUBSET G /\ IntOn(f, G)
      /\ \A x \in G : f[x] = IF x \in G THEN f[x] + f[x] ELSE f[x]
  BY DEF IntOn
<1>2. /\ SumFunctionOnSet(f, G) \in Int
      /\ SumFunctionOnSet(f, G) = SumFunctionOnSet(f, G) + SumFunctionOnSet(f, G)
  BY ONLY <1>1, SumAdds
<1>3. PICK n \in Int : n = SumFunctionOnSet(f, G)
  BY <1>2
<1>4. n = n + n
  BY <1>2, <1>3
<1>5. n = 0
  BY ONLY n \in Int, <1>4
<1> QED  BY <1>3, <1>5

\* The block as ngx_http_upstream_init_round_robin leaves it.
LEMMA UpInvInit == Init => UpInv
<1> SUFFICES ASSUME Init PROVE UpInv
  OBVIOUS
<1>1. conf \in Confs /\ run = None /\ now \in Nat /\ None \notin Request
  BY UpstreamAssumption DEF Init
<1>2. HistType(hist) /\ \A p \in Peers : hist[p].failed = 0 /\ hist[p].last = 0
  BY DEF Init, HistType
<1>3. /\ peer \in [Peers -> PeerRec]
      /\ \A p \in Peers : /\ peer[p].cw = 0 /\ peer[p].ew = conf.servers[p].weight
                          /\ peer[p].fails = 0 /\ peer[p].accessed = 0 /\ peer[p].checked = 0
  <2>1. \A p \in Peers : conf.servers[p].weight \in Nat
    BY <1>1, PeersFacts
  <2> QED  BY <2>1 DEF Init, PeerRec
<1>4. WeightsGood(peer)
  <2>1. ASSUME NEW b \in BOOLEAN PROVE SumFunction([p \in Group(b) |-> peer[p].cw]) = 0
    <3>1. PICK f : f = [p \in Group(b) |-> peer[p].cw]
      OBVIOUS
    <3>2. IsFiniteSet(Group(b)) /\ \A p \in Group(b) : f[p] = 0
      BY <1>1, <1>3, <3>1, GroupFacts
    <3>3. SumFunctionOnSet(f, Group(b)) = 0
      BY <3>2, SumZero
    <3> QED  BY <3>1, <3>3 DEF SumFunction
  <2>2. \A p \in Peers : peer[p].ew \in 0 .. conf.servers[p].weight
    BY <1>1, <1>3, PeersFacts
  <2> QED  BY <1>3, <2>1, <2>2 DEF WeightsGood
<1>5. BlamesGood(peer, hist)
  <2>1. \A p \in Peers : ~(peer[p].ew < conf.servers[p].weight)
    BY <1>1, <1>3, PeersFacts
  <2> QED  BY <1>2, <1>3, <2>1 DEF BlamesGood
<1>6. ProbesGood(peer, hist, Held(Request))
  BY <1>2, <1>3 DEF ProbesGood
<1>7. PICK kind \in [Request -> conf.kinds] :
         rq = [r \in Request |->
                 [st |-> "new", kind |-> kind[r], backup |-> FALSE, current |-> 0,
                  tried |-> {}, random |-> 0, tries |-> 0, start |-> 0, used |-> 0,
                  error |-> FALSE, end |-> "none", conns |-> <<>>, sends |-> 0]]
  BY DEF Init
<1>8. ASSUME NEW r \in Request
      PROVE  rq[r] \in ReqRec /\ ReqGood(rq[r]) /\ rq[r].st # "connect"
  <2>1. PICK k : k = kind[r]
    OBVIOUS
  <2>2. k \in {"plain", "unbuffered", "cacheable"}
    BY <1>1, <2>1, ConfAssumption
  <2>3. PICK q : q = rq[r]
    OBVIOUS
  <2>4. q = [st |-> "new", kind |-> k, backup |-> FALSE, current |-> 0,
             tried |-> {}, random |-> 0, tries |-> 0, start |-> 0, used |-> 0,
             error |-> FALSE, end |-> "none", conns |-> <<>>, sends |-> 0]
    BY <1>7, <2>1, <2>3
  <2>5. <<>> \in Seq(Peers) /\ {} \in SUBSET Peers /\ Len(<<>>) = 0
    OBVIOUS
  <2>6. q \in ReqRec
    BY <2>2, <2>4, <2>5 DEF ReqRec, State, End
  <2>7. TriesGood(q)
    BY <1>1, <2>4, <2>5, AllowedFacts DEF TriesGood, Holding
  <2>8. BodyGood(q)
    BY <2>4 DEF BodyGood
  <2>9. ChoiceGood(q)
    BY <2>4, EmptyRange DEF ChoiceGood
  <2> QED  BY <2>3, <2>4, <2>6, <2>7, <2>8, <2>9 DEF ReqGood
<1>9. rq \in [Request -> ReqRec]
  BY <1>7, <1>8
<1> QED  BY <1>1, <1>2, <1>4, <1>5, <1>6, <1>8, <1>9 DEF UpInv

\* Without a step of a request nothing but the time changes.
LEMMA Idle ==
    ASSUME UpInv, conf' = conf, peer' = peer, rq' = rq, run' = run, hist' = hist, now' \in Nat
    PROVE  UpInv' /\ NoLiveStep
<1>1. UpInv'
  <2>1. /\ \A q : ReqGood(q)' <=> ReqGood(q)
        /\ \A ps : WeightsGood(ps)' <=> WeightsGood(ps)
        /\ \A ps, h : BlamesGood(ps, h)' <=> BlamesGood(ps, h)
        /\ \A ps, h, U : ProbesGood(ps, h, U)' <=> ProbesGood(ps, h, U)
        /\ \A h : HistType(h)' <=> HistType(h)
        /\ ReqRec' = ReqRec
    BY SameConf
  <2>2. Held(Request)' = Held(Request)
    BY DEF Held
  <2>3. WeightsGood(peer)' /\ BlamesGood(peer, hist)' /\ ProbesGood(peer, hist, Held(Request))'
    BY <2>1, <2>2 DEF UpInv
  <2>4. HistType(hist)' /\ (rq \in [Request -> ReqRec])'
    BY <2>1 DEF UpInv
  <2>5. (\A x \in Request : ReqGood(rq[x]) /\ (rq[x].st = "connect" <=> run = x))'
    BY <2>1 DEF UpInv
  <2>6. (conf \in Confs /\ now \in Nat /\ run \in Request \cup {None})'
    BY DEF UpInv
  <2> QED  BY <2>3, <2>4, <2>5, <2>6 DEF UpInv
<1>2. NoLiveStep
  BY DEF NoLiveStep
<1> QED  BY <1>1, <1>2

\* Every step keeps the invariant and says "no live upstreams" rightly.
LEMMA UpStep ==
    ASSUME UpInv, [Next]_vars
    PROVE  UpInv' /\ NoLiveStep
<1>1. CASE Tick
  <2>1. now \in Nat /\ now' = now + 1 /\ conf' = conf /\ peer' = peer /\ rq' = rq /\ run' = run
        /\ hist' = hist
    BY <1>1 DEF Tick, UpInv
  <2>2. now' \in Nat
    BY <2>1
  <2> QED  BY <2>1, <2>2, Idle
<1>2. ASSUME NEW r \in Request, Proceeds(r) \/ ClientCloses(r)
      PROVE  \E t : MovesTo(r, t)
  <2>1. CASE Start(r)
    BY <2>1, StartMoves
  <2>2. CASE Connect(r)
    BY <2>2, ConnectMoves
  <2>3. CASE SendRequest(r)
    BY <2>3, SendRequestMoves
  <2>4. CASE Fails(r)
    BY <2>4, FailsMoves
  <2>5. CASE Answers(r)
    BY <2>5, AnswersMoves
  <2>6. CASE ResponseEnds(r)
    BY <2>6, ResponseEndsMoves
  <2>7. CASE ClientCloses(r)
    BY <2>7, ClientClosesMoves
  <2>8. CASE HeaderError(r)
    BY <2>8, HeaderErrorMoves
  <2> QED  BY <1>2, <2>1, <2>2, <2>3, <2>4, <2>5, <2>6, <2>7, <2>8 DEF Proceeds
<1>3. CASE UNCHANGED vars
  <2>1. now' = now /\ conf' = conf /\ peer' = peer /\ rq' = rq /\ run' = run /\ hist' = hist
    BY <1>3 DEF vars
  <2>2. now' \in Nat
    BY <2>1 DEF UpInv
  <2> QED  BY <2>1, <2>2, Idle
<1>4. ASSUME NEW r \in Request, Proceeds(r) \/ ClientCloses(r)
      PROVE  UpInv' /\ NoLiveStep
  BY <1>2, <1>4, Moves
<1> QED  BY <1>1, <1>3, <1>4 DEF Next

\* The inductive invariant of requests that overlap on one block of servers.
THEOREM UpInvariant == Spec => []UpInv
<1>1. UpInv /\ [Next]_vars => UpInv'
  BY UpStep
<1> QED  BY UpInvInit, <1>1, PTL DEF Spec

\* ngx_http_upstream_get_peer and free_round_robin_peer: however requests overlap, the
\* current weights of each group add up to zero and no effective weight leaves 0..weight.
THEOREM PeersCorrect == Spec => []PeersConsistent
<1>1. UpInv => PeersConsistent
  <2> SUFFICES ASSUME UpInv PROVE PeersConsistent
    OBVIOUS
  <2>1. TypeOK
    BY DEF UpInv, TypeOK, WeightsGood, PeerRec, ReqRec, HistType
  <2>2. WeightsBalance
    BY DEF UpInv, WeightsGood, WeightsBalance
  <2> QED  BY <2>1, <2>2 DEF PeersConsistent
<1> QED  BY <1>1, UpInvariant, PTL

\* Round robin charges a failure to the peer that failed, with any number of requests.
THEOREM BlamesCorrect == Spec => []RoundRobinBlames
<1>1. UpInv => RoundRobinBlames
  BY DEF UpInv, BlamesGood, RoundRobinBlames, BlamesUsedPeer
<1> QED  BY <1>1, UpInvariant, PTL

\* ngx_http_upstream_next: a request makes no more tries than it has, round robin no two
\* at the same peer, and a body that is not kept is sent once.
THEOREM TriesCorrect == Spec => []TriesBounded
<1>1. UpInv => TriesBounded
  <2> SUFFICES ASSUME UpInv, NEW r \in Request
               PROVE  /\ Len(rq[r].conns) <= Cardinality(Peers)
                      /\ conf.tries # 0 => Len(rq[r].conns) <= conf.tries
                      /\ conf.balancer = "rr" => IsInjective(rq[r].conns)
                      /\ rq[r].kind = "unbuffered" => rq[r].sends <= 1
    BY DEF TriesBounded
  <2>1. conf \in Confs /\ ReqGood(rq[r]) /\ rq[r] \in ReqRec
    BY DEF UpInv
  <2>2. Len(rq[r].conns) <= Allowed /\ Len(rq[r].conns) \in Nat
    BY <2>1, LenProperties DEF ReqGood, TriesGood, ReqRec
  <2>3. /\ Allowed \in Nat /\ Allowed <= Cardinality(Peers) /\ Cardinality(Peers) \in Nat
        /\ conf.tries # 0 => Allowed <= conf.tries
        /\ conf.tries \in Nat
    BY <2>1, AllowedFacts, PeersFacts, ConfAssumption
  <2>4. /\ conf.balancer = "rr" => IsInjective(rq[r].conns)
        /\ rq[r].kind = "unbuffered" => rq[r].sends <= 1
    BY <2>1 DEF ReqGood, ChoiceGood, BodyGood
  <2> QED  BY <2>2, <2>3, <2>4
<1> QED  BY <1>1, UpInvariant, PTL

\* NGX_BUSY of the balancer: "no live upstreams" is said only if every server is down,
\* was tried, failed within fail_timeout or is being probed by another request.
THEOREM NoLiveCorrect == Spec => NoLiveMeansNone
<1>1. UpInv /\ [Next]_vars => [NoLiveStep]_vars
  BY UpStep
<1>2. Spec => [][NoLiveStep]_vars
  BY <1>1, UpInvariant, PTL DEF Spec
<1> QED  BY <1>2 DEF NoLiveMeansNone, NoLiveStep
=============================================================================
