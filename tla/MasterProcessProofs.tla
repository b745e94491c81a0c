------------------------ MODULE MasterProcessProofs ------------------------
(***************************************************************************)
(* The master process for any number of workers, slots, signals and        *)
(* faults.  A wakeup is a composition of the parts of the loop body; the   *)
(* invariant is one of the state between two parts, and every part keeps   *)
(* it.                                                                     *)
(***************************************************************************)
EXTENDS MasterProcess, Integers, TLAPS, SequenceTheorems, FiniteSetTheorems,
        WellFoundedInduction

\* A set of natural numbers with an element has a least one.
LEMMA LeastNat ==
    ASSUME NEW T \in SUBSET Nat, T # {}
    PROVE  \E n \in T : \A k \in T : n <= k
<1> DEFINE R == {ss \in Nat \X Nat : ss[1] < ss[2]}
<1>1. IsWellFoundedOn(R, Nat)
  BY NatLessThanWellFounded DEF OpToRel
<1>2. PICK x \in T : \A y \in T : ~(<<y, x>> \in R)
  BY <1>1, WFMin, Zenon
<1>3. ASSUME NEW y \in T PROVE x <= y
  <2>1. x \in Nat /\ y \in Nat
    OBVIOUS
  <2>2. ~(<<y, x>> \in R)
    BY <1>2
  <2>3. ~(y < x)
    BY <2>1, <2>2
  <2> QED  BY <2>1, <2>3
<1> QED  BY <1>3

State == [m : Master, child : [Slot -> Child], forks : BOOLEAN, conf : BOOLEAN]

\* A slot of the table and the process in it; x: a fork failed or a child had exit code 2.
Fits(s, i, x) ==
    /\ s.child[i].st # "none" => s.m.table[i].used /\ ~s.m.table[i].exited
    /\ s.m.table[i].used => i < s.m.last
    /\ s.child[i].cycle <= s.m.cycle
    /\ s.child[i].fatal => x
    /\ s.m.table[i].used /\ ~s.m.table[i].detached => s.m.table[i].respawn \/ x

\* Outside of a reload no child is marked as just started.
Row(s, i, x) == Fits(s, i, x) /\ ~s.m.table[i].just_spawn

\* live is unset only if nobody but a new binary is left.
Counted(s) ==
    ~s.m.live /\ ~s.m.uncounted =>
      \A i \in Slot : s.m.table[i].used /\ ~s.m.table[i].exited => s.m.table[i].detached

ServingIn(s) ==
    {i \in Slot : /\ s.m.table[i].used /\ ~s.m.table[i].detached
                  /\ ~s.m.table[i].exiting}

\* Nothing excuses the master from having all its workers.
Obliged(s) ==
    /\ s.m.flags \cap {"quit", "terminate", "restart"} = {}
    /\ ~s.m.noaccepting /\ ~s.m.refused

Ample(s, x) == Obliged(s) /\ ~x => Cardinality(ServingIn(s)) >= NWorkers

\* The configurations loaded and the one asked for.
Due(s) == s.m.cycle + (IF "reconfigure" \in s.m.flags THEN 1 ELSE 0)

Sound(s, x, b) ==
    /\ s \in State
    /\ ~s.forks => x
    /\ \A i \in Slot : Row(s, i, x)
    /\ Counted(s)
    /\ Ample(s, x)
    /\ Due(s) <= b

Spoilt == faults \cap {"fatal", "fork"} # {}

Between == [m |-> m, child |-> child, forks |-> ~Spoilt, conf |-> TRUE]

MasterInv ==
    /\ TypeOK
    /\ Sound(Between, Spoilt, sent)
    /\ Due(Between) + (IF "reconfigure" \in pending THEN 1 ELSE 0) <= sent
    /\ ~m.up => ~m.live

-----------------------------------------------------------------------------
(* Spawning.                                                               *)

\* What ngx_spawn_process and the loops that call it leave alone.
SameMaster(s, t) ==
    /\ t.m.up = s.m.up /\ t.m.live = s.m.live /\ t.m.sigio = s.m.sigio
    /\ t.m.delay = s.m.delay /\ t.m.flags = s.m.flags
    /\ t.m.noaccepting = s.m.noaccepting /\ t.m.new_binary = s.m.new_binary
    /\ t.m.cycle = s.m.cycle /\ t.m.uncounted = s.m.uncounted
    /\ t.forks = s.forks /\ t.conf = s.conf

SameSlot(s, t, i) == t.m.table[i] = s.m.table[i] /\ t.child[i] = s.child[i]

\* A slot that was unused has the new entry and its process.
NewIn(s, t, i, entry) ==
    /\ ~s.m.table[i].used
    /\ t.m.table[i] = entry /\ t.child[i] = Forked(s) /\ i < t.m.last

\* t is s with some new children of the given kind.
Grown(s, t, entry) ==
    /\ t \in State /\ SameMaster(s, t)
    /\ s.m.refused => t.m.refused
    /\ s.m.last <= t.m.last
    /\ \A i \in Slot : SameSlot(s, t, i) \/ NewIn(s, t, i, entry)

\* The parts of a state.
LEMMA StateParts ==
    ASSUME NEW s \in State
    PROVE  /\ s.m \in Master /\ s.child \in [Slot -> Child]
           /\ s.forks \in BOOLEAN /\ s.conf \in BOOLEAN
           /\ s.m.table \in [Slot -> Entry] /\ s.m.last \in 0 .. MaxProcesses
           /\ s.m.cycle \in 0 .. MaxSignals
           /\ \A i \in Slot : s.m.table[i] \in Entry /\ s.child[i] \in Child
BY DEF State, Master

\* The table is finite.
LEMMA SlotFinite == IsFiniteSet(Slot)
<1>1. MaxProcesses - 1 \in Int /\ 0 \in Int
  BY MasterAssumption
<1> QED  BY <1>1, FS_Interval DEF Slot

\* A new process has the master's configuration.
LEMMA ForkedFacts ==
    ASSUME NEW s \in State
    PROVE  /\ Forked(s) \in Child
           /\ Forked(s).st = "run" /\ Forked(s).cycle = s.m.cycle /\ ~Forked(s).fatal
<1>1. s.m.cycle \in 0 .. MaxSignals
  BY StateParts
<1> QED  BY <1>1 DEF Forked, NoChild, Child

\* The slot ngx_spawn_process finds is unused.
LEMMA SlotFacts ==
    ASSUME NEW s \in State, \A i \in Slot : s.m.table[i].used => i < s.m.last
    PROVE  /\ SpawnSlot(s) \in 0 .. MaxProcesses /\ SpawnSlot(s) <= s.m.last
           /\ SpawnSlot(s) # MaxProcesses =>
                SpawnSlot(s) \in Slot /\ ~s.m.table[SpawnSlot(s)].used
<1> DEFINE holes == {i \in Slot : i < s.m.last /\ ~s.m.table[i].used}
<1>1. s.m.last \in 0 .. MaxProcesses /\ MaxProcesses \in Nat
  BY StateParts, MasterAssumption
<1>2. CASE holes = {}
  <2>1. SpawnSlot(s) = s.m.last
    BY <1>2 DEF SpawnSlot
  <2> QED  BY <1>1, <2>1 DEF Slot
<1>3. CASE holes # {}
  <2>1. holes \in SUBSET Nat
    BY <1>1 DEF Slot
  <2> HIDE DEF holes
  <2>2. \E i \in holes : \A j \in holes : i <= j
    BY <1>3, <2>1, LeastNat
  <2>3. SpawnSlot(s) = CHOOSE i \in holes : \A j \in holes : i <= j
    BY <1>3 DEF SpawnSlot, holes
  <2>4. SpawnSlot(s) \in holes
    BY <2>2, <2>3
  <2> QED  BY <1>1, <2>4 DEF holes, Slot
<1> QED  BY <1>2, <1>3

\* ngx_spawn_process adds at most one child; if it adds none the table is full or fork
\* failed.
LEMMA SpawnFacts ==
    ASSUME NEW s \in State, NEW entry \in Entry, entry.used,
           \A i \in Slot : s.m.table[i].used => i < s.m.last,
           NEW t, t = Spawn(s, entry)
    PROVE  /\ Grown(s, t, entry)
           /\ \/ /\ t.m.table = s.m.table /\ t.m.last = s.m.last /\ t.child = s.child
                 /\ t.m.refused \/ ~s.forks
              \/ \E i \in Slot :
                   /\ NewIn(s, t, i, entry)
                   /\ \A j \in Slot \ {i} : SameSlot(s, t, j)
<1> DEFINE k == SpawnSlot(s)
<1>1. /\ k \in 0 .. MaxProcesses /\ k <= s.m.last
      /\ k # MaxProcesses => k \in Slot /\ ~s.m.table[k].used
  BY SlotFacts
<1>2. Forked(s) \in Child
  BY ForkedFacts
<1>3. s.m.last \in 0 .. MaxProcesses /\ MaxProcesses \in Nat
  BY StateParts, MasterAssumption
<1> HIDE DEF k
<1>4. CASE k = MaxProcesses
  <2>1. t = [s EXCEPT !.m.refused = TRUE]
    BY <1>4 DEF Spawn, k
  <2>3. /\ t.m = [s.m EXCEPT !.refused = TRUE]
        /\ t.child = s.child /\ t.forks = s.forks /\ t.conf = s.conf
        /\ t = [m |-> t.m, child |-> t.child, forks |-> t.forks, conf |-> t.conf]
    BY <2>1 DEF State
  <2>2. t \in State
    <3>1. t.m \in Master
      BY <2>3 DEF State, Master
    <3> QED  BY <2>3, <3>1 DEF State
  <2>4. SameMaster(s, t) /\ t.m.refused /\ t.m.last = s.m.last /\ t.m.table = s.m.table
    BY <2>3 DEF SameMaster, State, Master
  <2> QED  BY <1>3, <2>2, <2>3, <2>4 DEF Grown, SameSlot
<1>5. CASE k # MaxProcesses /\ ~s.forks
  <2>1. t = s
    BY <1>5 DEF Spawn, k
  <2> QED  BY <1>3, <1>5, <2>1 DEF Grown, SameSlot, SameMaster
<1>6. CASE k # MaxProcesses /\ s.forks
  <2>1. t = [s EXCEPT !.m.table[k] = entry,
                      !.m.last = IF k = @ THEN @ + 1 ELSE @,
                      !.child[k] = Forked(s)]
    BY <1>6 DEF Spawn, k
  <2>2. /\ t.m = [s.m EXCEPT !.table[k] = entry, !.last = IF k = @ THEN @ + 1 ELSE @]
        /\ t.child = [s.child EXCEPT ![k] = Forked(s)]
        /\ t.forks = s.forks /\ t.conf = s.conf
        /\ t = [m |-> t.m, child |-> t.child, forks |-> t.forks, conf |-> t.conf]
    BY <2>1 DEF State
  <2>3. /\ t.m.table = [s.m.table EXCEPT ![k] = entry]
        /\ t.m.last = IF k = s.m.last THEN s.m.last + 1 ELSE s.m.last
        /\ t.m.refused = s.m.refused
        /\ SameMaster(s, t)
    BY <2>2 DEF SameMaster, State, Master
  <2>4. t.m.last \in 0 .. MaxProcesses /\ s.m.last <= t.m.last /\ k < t.m.last
    BY <1>1, <1>3, <1>6, <2>3
  <2>5. t.m.table \in [Slot -> Entry] /\ t.child \in [Slot -> Child]
    BY <1>1, <1>2, <1>6, <2>2, <2>3, StateParts
  <2>6. t.m \in Master
    BY <2>2, <2>4, <2>5 DEF State, Master
  <2>7. t \in State
    BY <2>2, <2>5, <2>6, StateParts DEF State
  <2>8. NewIn(s, t, k, entry)
    BY <1>1, <1>6, <2>2, <2>3, <2>4, StateParts DEF NewIn
  <2>9. \A j \in Slot \ {k} : SameSlot(s, t, j)
    BY <2>2, <2>3, StateParts DEF SameSlot
  <2> QED  BY <1>1, <1>6, <2>3, <2>4, <2>7, <2>8, <2>9 DEF Grown
<1> QED  BY <1>1, <1>4, <1>5, <1>6, StateParts

NewSlots(s, t, entry) == {i \in Slot : NewIn(s, t, i, entry)}

\* One more child after some.
LEMMA GrownMore ==
    ASSUME NEW s \in State, NEW u, NEW v, NEW entry \in Entry, entry.used,
           \A i \in Slot : s.m.table[i].used => i < s.m.last,
           Grown(s, u, entry), v = Spawn(u, entry)
    PROVE  /\ Grown(s, v, entry)
           /\ \/ v.m.refused \/ ~s.forks
              \/ \E k \in Slot : /\ k \notin NewSlots(s, u, entry)
                                 /\ NewSlots(s, u, entry) \cup {k} \subseteq NewSlots(s, v, entry)
<1>1. /\ u \in State /\ SameMaster(s, u) /\ s.m.last <= u.m.last
      /\ \A i \in Slot : SameSlot(s, u, i) \/ NewIn(s, u, i, entry)
  BY DEF Grown
<1>2. s.m.last \in Nat /\ u.m.last \in Nat
  BY <1>1, StateParts, MasterAssumption
<1>3. \A i \in Slot : i \in Nat
  BY MasterAssumption DEF Slot
<1>4. \A i \in Slot : u.m.table[i].used => i < u.m.last
  BY <1>1, <1>2, <1>3 DEF SameSlot, NewIn
<1>5. Grown(u, v, entry)
  BY <1>1, <1>4, SpawnFacts
<1>6. v \in State /\ v.m.last \in Nat /\ u.m.last <= v.m.last
  BY <1>5, StateParts, MasterAssumption DEF Grown
<1>7. Forked(u) = Forked(s)
  BY <1>1 DEF Forked, SameMaster
<1>8. ASSUME NEW i \in Slot, NewIn(u, v, i, entry)
      PROVE  NewIn(s, v, i, entry) /\ ~NewIn(s, u, i, entry)
  BY <1>1, <1>7, <1>8 DEF NewIn, SameSlot
<1>9. ASSUME NEW i \in Slot, NewIn(s, u, i, entry), SameSlot(u, v, i)
      PROVE  NewIn(s, v, i, entry)
  BY <1>2, <1>3, <1>6, <1>9 DEF NewIn, SameSlot
<1>10. ASSUME NEW i \in Slot, NewIn(s, u, i, entry) PROVE SameSlot(u, v, i)
  BY <1>5, <1>10 DEF Grown, NewIn
<1>11. Grown(s, v, entry)
  <2>1. SameMaster(s, v) /\ (s.m.refused => v.m.refused)
    BY <1>1, <1>5 DEF Grown, SameMaster
  <2>2. s.m.last <= v.m.last
    BY <1>1, <1>2, <1>6
  <2>3. ASSUME NEW i \in Slot PROVE SameSlot(s, v, i) \/ NewIn(s, v, i, entry)
    <3>1. CASE NewIn(u, v, i, entry)
      BY <1>8, <3>1
    <3>2. CASE SameSlot(u, v, i)
      BY <1>1, <1>9, <3>2 DEF SameSlot
    <3> QED  BY <1>5, <3>1, <3>2 DEF Grown
  <2> QED  BY <1>6, <2>1, <2>2, <2>3 DEF Grown
<1>12. \/ v.m.refused \/ ~s.forks
       \/ \E k \in Slot : NewIn(u, v, k, entry)
  <2>1. u.forks = s.forks
    BY <1>1 DEF SameMaster
  <2> QED  BY <1>1, <1>4, <2>1, SpawnFacts
<1>13. ASSUME NEW k \in Slot, NewIn(u, v, k, entry)
       PROVE  /\ k \notin NewSlots(s, u, entry)
              /\ NewSlots(s, u, entry) \cup {k} \subseteq NewSlots(s, v, entry)
  BY <1>8, <1>9, <1>10, <1>13 DEF NewSlots
<1> QED  BY <1>11, <1>12, <1>13

\* The function by which StartWorkers is defined satisfies its equation.
LEMMA StartDefined ==
    ASSUME NEW s, NEW just
    PROVE  \E g : /\ g[0] = s
                  /\ \A n \in 1 .. NWorkers : g[n] = Spawn(g[n - 1], Worker(just))
                  /\ StartWorkers(s, just) = g[NWorkers]
<1> DEFINE N == NWorkers
           e == Worker(just)
           Rule(g, n) == /\ g = [i \in 0 .. n |-> g[i]]
                         /\ g[0] = s
                         /\ \A i \in 1 .. n : g[i] = Spawn(g[i - 1], e)
           Bad == {n \in 0 .. N : ~\E g : Rule(g, n)}
<1>1. N \in Nat
  BY MasterAssumption
<1> HIDE DEF N, e
<1>2. Bad = {}
  <2> SUFFICES ASSUME Bad # {} PROVE FALSE
    OBVIOUS
  <2>1. PICK n \in Bad : \A k \in Bad : n <= k
    <3>1. Bad \in SUBSET Nat
      BY <1>1
    <3> HIDE DEF Bad
    <3> QED  BY <3>1, LeastNat
  <2>2. CASE n = 0
    <3> DEFINE g == [i \in 0 .. 0 |-> s]
    <3>1. Rule(g, 0)
      OBVIOUS
    <3> QED  BY <2>2, <3>1
  <2>3. CASE n # 0
    <3>1. n \in 1 .. N /\ n - 1 \in 0 .. N /\ n - 1 \notin Bad
      <4>1. n \in 0 .. N
        OBVIOUS
      <4> HIDE DEF Bad
      <4> QED  BY <1>1, <2>1, <2>3, <4>1
    <3>2. PICK f : Rule(f, n - 1)
      <4> HIDE DEF Rule
      <4> QED  BY <3>1
    <3> DEFINE last == Spawn(f[n - 1], e)
               g == [i \in 0 .. n |-> IF i = n THEN last ELSE f[i]]
    <3> HIDE DEF last
    <3>3. g = [i \in 0 .. n |-> g[i]] /\ g[0] = s
      BY <1>1, <3>1, <3>2
    <3>4. ASSUME NEW i \in 1 .. n PROVE g[i] = Spawn(g[i - 1], e)
      <4>1. CASE i = n
        <5>1. g[i] = last /\ g[i - 1] = f[n - 1]
          BY <1>1, <3>1, <4>1
        <5> QED  BY <4>1, <5>1 DEF last
      <4>2. CASE i # n
        <5>1. i \in 1 .. n - 1 /\ i - 1 \in 0 .. n /\ i - 1 # n /\ i \in 0 .. n
          BY <1>1, <3>1, <4>2
        <5>2. g[i] = f[i] /\ g[i - 1] = f[i - 1]
          BY <4>2, <5>1
        <5> QED  BY <3>2, <5>1, <5>2
      <4> QED  BY <4>1, <4>2
    <3>5. Rule(g, n)
      BY <3>3, <3>4
    <3> QED  BY <2>1, <3>5
  <2> QED  BY <2>2, <2>3
<1>3. PICK g : Rule(g, N)
  <2>1. N \in 0 .. N
    BY <1>1
  <2> HIDE DEF Rule
  <2> QED  BY <1>2, <2>1
<1> DEFINE V(h, i) == IF i = 0 THEN s ELSE Spawn(h[i - 1], e)
           Eq(h) == h = [i \in 0 .. N |-> V(h, i)]
           start == CHOOSE h : Eq(h)
<1>4. Eq(g)
  <2>1. ASSUME NEW i \in 0 .. N PROVE g[i] = V(g, i)
    <3>1. CASE i = 0
      BY <1>3, <3>1
    <3>2. CASE i # 0
      <4>1. i \in 1 .. N
        BY <1>1, <3>2
      <4> QED  BY <1>3, <3>2, <4>1
    <3> QED  BY <3>1, <3>2
  <2> HIDE DEF V
  <2> QED  BY <1>3, <2>1
<1>5. Eq(start)
  BY <1>4
<1>6. StartWorkers(s, just) = start[N]
  BY DEF StartWorkers, N, e
<1> HIDE DEF start
<1>7. \A i \in 0 .. N : start[i] = V(start, i)
  <2> HIDE DEF V
  <2> QED  BY <1>5
<1>8. start[0] = s
  BY <1>1, <1>7
<1>9. ASSUME NEW n \in 1 .. N PROVE start[n] = Spawn(start[n - 1], e)
  BY <1>1, <1>7
<1> QED  BY <1>6, <1>8, <1>9 DEF N, e

\* The entry of a worker.
LEMMA WorkerFacts ==
    ASSUME NEW just \in BOOLEAN
    PROVE  /\ Worker(just) \in Entry
           /\ Worker(just).used /\ Worker(just).respawn /\ Worker(just).just_spawn = just
           /\ ~Worker(just).exiting /\ ~Worker(just).exited /\ ~Worker(just).detached
BY DEF Worker, Unused, Entry

\* ngx_start_worker_processes starts all workers unless the table is full or fork fails.
LEMMA StartFacts ==
    ASSUME NEW s \in State, NEW just \in BOOLEAN,
           \A i \in Slot : s.m.table[i].used => i < s.m.last,
           NEW t, t = StartWorkers(s, just)
    PROVE  /\ Grown(s, t, Worker(just))
           /\ \/ t.m.refused \/ ~s.forks
              \/ Cardinality(NewSlots(s, t, Worker(just))) >= NWorkers
<1> DEFINE N == NWorkers
           e == Worker(just)
           Part(u, n) == /\ Grown(s, u, e)
                         /\ \/ u.m.refused \/ ~s.forks
                            \/ Cardinality(NewSlots(s, u, e)) >= n
<1>1. N \in Nat
  BY MasterAssumption
<1>2. e \in Entry /\ e.used
  BY WorkerFacts
<1>3. PICK g : /\ g[0] = s
               /\ \A n \in 1 .. N : g[n] = Spawn(g[n - 1], e)
               /\ t = g[N]
  BY StartDefined
<1> DEFINE Bad == {n \in 0 .. N : ~Part(g[n], n)}
<1> HIDE DEF N, e
<1>4. ASSUME NEW u PROVE /\ IsFiniteSet(NewSlots(s, u, e))
                         /\ Cardinality(NewSlots(s, u, e)) \in Nat
  <2>1. IsFiniteSet(Slot)
    BY SlotFinite
  <2>2. NewSlots(s, u, e) \subseteq Slot
    BY DEF NewSlots
  <2> QED  BY <2>1, <2>2, FS_Subset, FS_CardinalityType
<1>5. Bad = {}
  <2> SUFFICES ASSUME Bad # {} PROVE FALSE
    OBVIOUS
  <2>1. PICK n \in Bad : \A k \in Bad : n <= k
    <3>1. Bad \in SUBSET Nat
      BY <1>1
    <3> HIDE DEF Bad
    <3> QED  BY <3>1, LeastNat
  <2>2. n # 0
    <3>1. Grown(s, s, e)
      <4>1. s.m.last \in Nat
        BY StateParts, MasterAssumption
      <4> QED  BY <4>1 DEF Grown, SameMaster, SameSlot
    <3>2. Cardinality(NewSlots(s, s, e)) >= 0
      BY <1>4
    <3>3. Part(s, 0)
      BY <3>1, <3>2
    <3> QED  BY <1>3, <3>3
  <2>3. n \in 1 .. N /\ n - 1 \in 0 .. N /\ n - 1 \notin Bad
    <3>1. n \in 0 .. N
      OBVIOUS
    <3> HIDE DEF Bad
    <3> QED  BY <1>1, <2>1, <2>2, <3>1
  <2>4. Part(g[n - 1], n - 1)
    <3> HIDE DEF Part
    <3> QED  BY <2>3
  <2> DEFINE u == g[n - 1]
             v == g[n]
  <2>5. v = Spawn(u, e)
    BY <1>3, <2>3
  <2> HIDE DEF u, v
  <2>6. Grown(s, u, e)
    BY <2>4 DEF u
  <2>7. /\ Grown(s, v, e)
        /\ \/ v.m.refused \/ ~s.forks
           \/ \E k \in Slot : /\ k \notin NewSlots(s, u, e)
                              /\ NewSlots(s, u, e) \cup {k} \subseteq NewSlots(s, v, e)
    BY <1>2, <2>5, <2>6, GrownMore
  <2>8. CASE v.m.refused \/ ~s.forks
    BY <2>7, <2>8 DEF v
  <2>9. ASSUME ~v.m.refused, s.forks,
               NEW k \in Slot, k \notin NewSlots(s, u, e),
               NewSlots(s, u, e) \cup {k} \subseteq NewSlots(s, v, e)
        PROVE  FALSE
    <3>1. ~u.m.refused
      <4>1. /\ u \in State
            /\ \A i \in Slot : u.m.table[i].used => i < u.m.last
        <5>1. /\ u \in State /\ s.m.last <= u.m.last
              /\ \A i \in Slot : SameSlot(s, u, i) \/ NewIn(s, u, i, e)
          BY <2>6 DEF Grown
        <5>2. s.m.last \in Nat /\ u.m.last \in Nat /\ \A i \in Slot : i \in Nat
          BY <5>1, StateParts, MasterAssumption DEF Slot
        <5> QED  BY <5>1, <5>2 DEF SameSlot, NewIn
      <4>2. Grown(u, v, e)
        BY <1>2, <2>5, <4>1, SpawnFacts
      <4> QED  BY <2>9, <4>2 DEF Grown
    <3>2. Cardinality(NewSlots(s, u, e)) >= n - 1
      BY <2>4, <2>9, <3>1 DEF u
    <3>3. Cardinality(NewSlots(s, u, e) \cup {k}) = Cardinality(NewSlots(s, u, e)) + 1
      BY <1>4, <2>9, FS_AddElement
    <3>4. Cardinality(NewSlots(s, u, e) \cup {k}) <= Cardinality(NewSlots(s, v, e))
      BY <1>4, <2>9, FS_Subset
    <3>5. Cardinality(NewSlots(s, v, e)) >= n
      BY <1>1, <1>4, <2>3, <3>2, <3>3, <3>4
    <3>6. Part(v, n)
      BY <2>7, <3>5
    <3> QED  BY <3>6 DEF v
  <2> QED  BY <2>7, <2>8, <2>9
<1>6. Part(g[N], N)
  <2>1. N \in 0 .. N
    BY <1>1
  <2> HIDE DEF Part
  <2> QED  BY <1>5, <2>1
<1> QED  BY <1>3, <1>6 DEF N, e

-----------------------------------------------------------------------------
(* Signals to the workers.                                                 *)

Command == {"quit", "terminate", "reopen", "kill"}

Gone(s, i, sig) == Addressed(s, i, sig) /\ s.child[i].st = "none"

\* What ngx_signal_worker_processes does to a slot.
Told(s, t, sig, i) ==
    LET e == s.m.table[i]
        f == t.m.table[i]
    IN /\ f.used = e.used /\ f.exited = e.exited
       /\ f.respawn = e.respawn /\ f.detached = e.detached
       /\ ~f.just_spawn
       /\ f.exiting <=> (e.exiting \/ (Addressed(s, i, sig) /\ sig # "reopen"))
                          /\ ~Gone(s, i, sig)
       /\ t.child[i].st = "none" <=> s.child[i].st = "none"
       /\ t.child[i].cycle = s.child[i].cycle /\ t.child[i].fatal = s.child[i].fatal

\* Every worker is told, and only the flag reap may be set.
LEMMA SignalFacts ==
    ASSUME NEW s \in State, NEW sig \in Command, NEW t, t = SignalWorkers(s, sig)
    PROVE  /\ t \in State
           /\ s.m.flags \subseteq t.m.flags /\ t.m.flags \subseteq s.m.flags \cup {"reap"}
           /\ \A i \in Slot : Gone(s, i, sig) => "reap" \in t.m.flags
           /\ t.m.up = s.m.up /\ t.m.live = s.m.live /\ t.m.sigio = s.m.sigio
           /\ t.m.delay = s.m.delay /\ t.m.last = s.m.last /\ t.m.refused = s.m.refused
           /\ t.m.noaccepting = s.m.noaccepting /\ t.m.new_binary = s.m.new_binary
           /\ t.m.cycle = s.m.cycle /\ t.m.uncounted = s.m.uncounted
           /\ t.forks = s.forks /\ t.conf = s.conf
           /\ \A i \in Slot : Told(s, t, sig, i)
<1> DEFINE to == {i \in Slot : Addressed(s, i, sig)}
           gone == {i \in to : s.child[i].st = "none"}
           flags == IF gone = {} THEN s.m.flags ELSE s.m.flags \cup {"reap"}
           row(i) == LET e == s.m.table[i] IN
             [e EXCEPT !.just_spawn = FALSE,
                       !.exiting = (e.exiting \/ (i \in to /\ sig # "reopen")) /\ i \notin gone]
           table == [i \in Slot |-> row(i)]
           told(i) == LET c == s.child[i] IN
             IF i \notin to \ gone THEN c
             ELSE IF sig = "kill" THEN [c EXCEPT !.st = "zombie"]
             ELSE [c EXCEPT !.inbox = c.inbox \cup {sig}]
           ch == [i \in Slot |-> told(i)]
<1>1. t = [s EXCEPT !.m.flags = IF gone = {} THEN @ ELSE @ \cup {"reap"},
                    !.m.table = table, !.child = ch]
  BY DEF SignalWorkers
<1>2. s.m \in Master /\ s.child \in [Slot -> Child] /\ s.m.table \in [Slot -> Entry]
  BY StateParts
<1>3. ASSUME NEW i \in Slot PROVE row(i) \in Entry
  <2>1. s.m.table[i] \in Entry
    BY <1>2
  <2> HIDE DEF to, gone
  <2> QED  BY <2>1 DEF Entry
<1>4. ASSUME NEW i \in Slot
      PROVE  /\ told(i) \in Child
             /\ told(i).st = "none" <=> s.child[i].st = "none"
             /\ told(i).cycle = s.child[i].cycle /\ told(i).fatal = s.child[i].fatal
  <2>1. s.child[i] \in Child
    BY <1>2
  <2>2. i \in to \ gone => s.child[i].st # "none"
    OBVIOUS
  <2> HIDE DEF to, gone
  <2>3. CASE i \notin to \ gone
    BY <2>1, <2>3
  <2>4. CASE i \in to \ gone /\ sig = "kill"
    BY <2>1, <2>2, <2>4 DEF Child
  <2>5. CASE i \in to \ gone /\ sig # "kill"
    BY <2>1, <2>5 DEF Child, Command
  <2> QED  BY <2>3, <2>4, <2>5
<1>5. ASSUME NEW i \in Slot
      PROVE  LET e == s.m.table[i] IN
             /\ row(i).used = e.used /\ row(i).exited = e.exited
             /\ row(i).respawn = e.respawn /\ row(i).detached = e.detached
             /\ row(i).just_spawn = FALSE
             /\ row(i).exiting = ((e.exiting \/ (i \in to /\ sig # "reopen")) /\ i \notin gone)
  <2>1. s.m.table[i] \in Entry
    BY <1>2
  <2> HIDE DEF to, gone
  <2> QED  BY <2>1 DEF Entry
<1>6. flags \in SUBSET (Operator \cup {"reap", "sigalrm", "restart"})
  BY <1>2 DEF Master
<1>7. table \in [Slot -> Entry] /\ ch \in [Slot -> Child]
  <2> HIDE DEF row, told
  <2> QED  BY <1>3, <1>4
<1>8. \A i \in Slot : table[i] = row(i) /\ ch[i] = told(i)
  <2> HIDE DEF row, told
  <2> QED  OBVIOUS
<1>9. \A i \in Slot : /\ i \in to <=> Addressed(s, i, sig)
                      /\ i \in gone <=> Gone(s, i, sig)
                      /\ Gone(s, i, sig) => "reap" \in flags
  BY DEF Gone
<1>10. s.m.flags \subseteq flags /\ flags \subseteq s.m.flags \cup {"reap"}
  OBVIOUS
<1> HIDE DEF to, gone, flags, row, table, told, ch
<1>11. /\ t.m = [s.m EXCEPT !.flags = flags, !.table = table]
       /\ t.child = ch /\ t.forks = s.forks /\ t.conf = s.conf
       /\ t = [m |-> t.m, child |-> t.child, forks |-> t.forks, conf |-> t.conf]
  <2>1. t = [m |-> [s.m EXCEPT !.flags = flags, !.table = table],
             child |-> ch, forks |-> s.forks, conf |-> s.conf]
    BY <1>1 DEF State, flags
  <2> QED  BY <2>1
<1>12. t.m \in Master /\ t.m.flags = flags /\ t.m.table = table
  BY <1>2, <1>6, <1>7, <1>11 DEF Master
<1>13. t \in State
  BY <1>7, <1>11, <1>12 DEF State
<1>14. /\ t.m.up = s.m.up /\ t.m.live = s.m.live /\ t.m.sigio = s.m.sigio
       /\ t.m.delay = s.m.delay /\ t.m.last = s.m.last /\ t.m.refused = s.m.refused
       /\ t.m.noaccepting = s.m.noaccepting /\ t.m.new_binary = s.m.new_binary
       /\ t.m.cycle = s.m.cycle /\ t.m.uncounted = s.m.uncounted
  BY <1>2, <1>11 DEF Master
<1>15. ASSUME NEW i \in Slot PROVE Told(s, t, sig, i)
  <2> DEFINE e == s.m.table[i]
             f == t.m.table[i]
             c == t.child[i]
  <2>1. f = row(i) /\ c = told(i)
    BY <1>8, <1>11, <1>12
  <2>2. /\ f.used = e.used /\ f.exited = e.exited
        /\ f.respawn = e.respawn /\ f.detached = e.detached /\ f.just_spawn = FALSE
        /\ f.exiting = ((e.exiting \/ (i \in to /\ sig # "reopen")) /\ i \notin gone)
    BY <1>5, <2>1
  <2>3. /\ c.st = "none" <=> s.child[i].st = "none"
        /\ c.cycle = s.child[i].cycle /\ c.fatal = s.child[i].fatal
    BY <1>4, <2>1
  <2>4. /\ i \in to <=> Addressed(s, i, sig)
        /\ i \in gone <=> Gone(s, i, sig)
    BY <1>9
  <2> HIDE DEF e, f, c
  <2> QED  BY <2>2, <2>3, <2>4 DEF Told, e, f, c
<1> QED  BY <1>9, <1>10, <1>11, <1>12, <1>13, <1>14, <1>15

-----------------------------------------------------------------------------
(* The parts of the loop body.  Each keeps Sound; those that follow a      *)
(* reload keep what it handed over.                                        *)

\* Of the children, those with the configuration of the master serve and all others
\* were told to quit.
Handed(s) ==
    \A i \in Slot :
      s.m.table[i].used /\ ~s.m.table[i].detached /\ s.child[i].st # "none" =>
        (s.m.table[i].exiting <=> s.child[i].cycle < s.m.cycle)

\* Numbers of a state.
LEMMA Numbers ==
    ASSUME NEW s \in State
    PROVE  /\ s.m.cycle \in Nat /\ s.m.last \in Nat /\ Due(s) \in Nat
           /\ NWorkers \in Nat /\ MaxSignals \in Nat /\ MaxProcesses \in Nat
           /\ \A i \in Slot : i \in Nat /\ s.child[i].cycle \in Nat
           /\ IsFiniteSet(ServingIn(s)) /\ Cardinality(ServingIn(s)) \in Nat
<1>1. /\ s.m.cycle \in 0 .. MaxSignals /\ s.m.last \in 0 .. MaxProcesses
      /\ \A i \in Slot : s.child[i] \in Child
  BY StateParts
<1>2. \A i \in Slot : s.child[i].cycle \in 0 .. MaxSignals
  BY <1>1 DEF Child
<1>3. IsFiniteSet(ServingIn(s)) /\ Cardinality(ServingIn(s)) \in Nat
  <2>1. IsFiniteSet(Slot)
    BY SlotFinite
  <2>2. ServingIn(s) \subseteq Slot
    BY DEF ServingIn
  <2> QED  BY <2>1, <2>2, FS_Subset, FS_CardinalityType
<1> QED  BY <1>1, <1>2, <1>3, MasterAssumption DEF Slot, Due

\* Who serves in one state serves in the other.
LEMMA MoreServing ==
    ASSUME NEW s \in State, NEW t \in State, ServingIn(s) \subseteq ServingIn(t)
    PROVE  Cardinality(ServingIn(s)) <= Cardinality(ServingIn(t))
BY Numbers, FS_Subset

\* A state that differs in none of what Sound speaks of but the flags.
LEMMA OtherFlags ==
    ASSUME NEW x \in BOOLEAN, NEW b \in Nat, NEW s, Sound(s, x, b), NEW t \in State,
           t.m.table = s.m.table /\ t.m.last = s.m.last /\ t.child = s.child,
           t.m.live = s.m.live /\ t.m.uncounted = s.m.uncounted /\ t.m.cycle = s.m.cycle,
           t.m.refused = s.m.refused /\ t.forks = s.forks,
           s.m.noaccepting => t.m.noaccepting,
           "reconfigure" \in t.m.flags => "reconfigure" \in s.m.flags,
           s.m.flags \cap {"quit", "terminate", "restart"} \subseteq t.m.flags
    PROVE  Sound(t, x, b) /\ (Handed(s) => Handed(t))
<1>1. s \in State
  BY DEF Sound
<1>2. ServingIn(t) = ServingIn(s)
  BY DEF ServingIn
<1>3. Due(t) <= b
  BY <1>1, Numbers DEF Due, Sound
<1>4. Ample(t, x)
  BY <1>2 DEF Sound, Ample, Obliged
<1>5. \A i \in Slot : Row(t, i, x)
  BY DEF Row, Fits, Sound
<1> QED  BY <1>1, <1>3, <1>4, <1>5 DEF Sound, Counted, Handed

\* Clearing a flag other than those that excuse the master.
LEMMA ClearFacts ==
    ASSUME NEW s \in State, NEW flag, NEW t, t = Clear(s, flag)
    PROVE  /\ t \in State /\ t.m.flags = s.m.flags \ {flag}
           /\ t.m.table = s.m.table /\ t.m.last = s.m.last /\ t.m.refused = s.m.refused
           /\ t.child = s.child
           /\ t.m.up = s.m.up /\ t.m.live = s.m.live /\ t.m.sigio = s.m.sigio
           /\ t.m.delay = s.m.delay
           /\ t.m.noaccepting = s.m.noaccepting /\ t.m.new_binary = s.m.new_binary
           /\ t.m.cycle = s.m.cycle /\ t.m.uncounted = s.m.uncounted
           /\ t.forks = s.forks /\ t.conf = s.conf
<1>1. /\ t.m = [s.m EXCEPT !.flags = s.m.flags \ {flag}]
      /\ t.child = s.child /\ t.forks = s.forks /\ t.conf = s.conf
      /\ t = [m |-> t.m, child |-> t.child, forks |-> t.forks, conf |-> t.conf]
  BY DEF Clear, State
<1>2. t.m \in Master /\ t.m.flags = s.m.flags \ {flag}
  BY <1>1, StateParts DEF Master
<1>3. /\ t.m.up = s.m.up /\ t.m.live = s.m.live /\ t.m.sigio = s.m.sigio
      /\ t.m.delay = s.m.delay /\ t.m.table = s.m.table /\ t.m.last = s.m.last
      /\ t.m.noaccepting = s.m.noaccepting /\ t.m.new_binary = s.m.new_binary
      /\ t.m.cycle = s.m.cycle /\ t.m.uncounted = s.m.uncounted
      /\ t.m.refused = s.m.refused
  BY <1>1, StateParts DEF Master
<1> QED  BY <1>1, <1>2, <1>3, StateParts DEF State

\* A signal leaves every slot in order and marks none as just started.
LEMMA SignalRows ==
    ASSUME NEW x \in BOOLEAN, NEW s \in State, NEW sig \in Command,
           \A i \in Slot : Fits(s, i, x), Counted(s),
           NEW t, t = SignalWorkers(s, sig)
    PROVE  (\A i \in Slot : Row(t, i, x)) /\ Counted(t)
<1>1. /\ \A i \in Slot : Told(s, t, sig, i)
      /\ t.m.last = s.m.last /\ t.m.cycle = s.m.cycle
      /\ t.m.live = s.m.live /\ t.m.uncounted = s.m.uncounted
  BY SignalFacts
<1>2. ASSUME NEW i \in Slot PROVE Row(t, i, x)
  BY <1>1 DEF Row, Fits, Told
<1>3. Counted(t)
  BY <1>1 DEF Counted, Told
<1> QED  BY <1>2, <1>3

\* A signal that keeps workers from serving is sent by a master that may do without.
LEMMA SignalSound ==
    ASSUME NEW x \in BOOLEAN, NEW b \in Nat, NEW s, Sound(s, x, b), NEW sig \in Command,
           sig = "reopen" \/ ~Obliged(s),
           NEW t, t = SignalWorkers(s, sig)
    PROVE  /\ Sound(t, x, b)
           /\ sig = "reopen" /\ Handed(s) => Handed(t)
<1>1. s \in State /\ \A i \in Slot : Fits(s, i, x)
  BY DEF Sound, Row
<1>2. (\A i \in Slot : Row(t, i, x)) /\ Counted(t)
  BY <1>1, SignalRows DEF Sound
<1>3. /\ t \in State
      /\ s.m.flags \subseteq t.m.flags /\ t.m.flags \subseteq s.m.flags \cup {"reap"}
      /\ t.m.refused = s.m.refused /\ t.m.noaccepting = s.m.noaccepting
      /\ t.m.cycle = s.m.cycle /\ t.forks = s.forks
      /\ \A i \in Slot : Told(s, t, sig, i)
  BY <1>1, SignalFacts
<1>4. Due(t) <= b
  BY <1>3 DEF Due, Sound
<1>5. Ample(t, x)
  <2>1. Obliged(t) => Obliged(s)
    BY <1>3 DEF Obliged
  <2>2. CASE ~Obliged(s)
    BY <2>1, <2>2 DEF Ample
  <2>3. CASE sig = "reopen"
    <3>1. ServingIn(s) \subseteq ServingIn(t)
      BY <1>3, <2>3 DEF ServingIn, Told
    <3>2. Cardinality(ServingIn(s)) <= Cardinality(ServingIn(t))
      BY <1>1, <1>3, <3>1, MoreServing
    <3> QED  BY <1>1, <1>3, <2>1, <3>2, Numbers DEF Ample, Sound
  <2> QED  BY <2>2, <2>3
<1>6. sig = "reopen" /\ Handed(s) => Handed(t)
  BY <1>3 DEF Handed, Told, Gone
<1> QED  BY <1>2, <1>3, <1>4, <1>5, <1>6 DEF Sound

\* New children leave the slots in order, and nobody that served stops.
LEMMA GrownRows ==
    ASSUME NEW x \in BOOLEAN, NEW s \in State, \A i \in Slot : Fits(s, i, x),
           NEW entry \in Entry, entry.used, ~entry.exited, ~entry.exiting,
           entry.respawn \/ entry.detached,
           NEW t, Grown(s, t, entry)
    PROVE  /\ t \in State
           /\ \A i \in Slot : Fits(t, i, x)
           /\ \A i \in Slot : s.m.table[i].used => SameSlot(s, t, i)
           /\ Cardinality(ServingIn(s)) <= Cardinality(ServingIn(t))
           /\ ~entry.detached => NewSlots(s, t, entry) \subseteq ServingIn(t)
           /\ entry.detached /\ Counted(s) => Counted(t)
           /\ Handed(s) => Handed(t)
<1>1. /\ t \in State /\ SameMaster(s, t) /\ s.m.last <= t.m.last
      /\ \A i \in Slot : SameSlot(s, t, i) \/ NewIn(s, t, i, entry)
  BY DEF Grown
<1>2. /\ s.m.cycle \in Nat /\ s.m.last \in Nat /\ t.m.last \in Nat
      /\ \A i \in Slot : i \in Nat
      /\ t.m.cycle = s.m.cycle
  BY <1>1, Numbers DEF SameMaster
<1>3. Forked(s).st = "run" /\ Forked(s).cycle = s.m.cycle /\ ~Forked(s).fatal
  BY ForkedFacts
<1>4. ASSUME NEW i \in Slot PROVE Fits(t, i, x)
  <2>1. CASE SameSlot(s, t, i)
    BY <1>1, <1>2, <2>1 DEF Fits, SameSlot
  <2>2. CASE NewIn(s, t, i, entry)
    BY <1>2, <1>3, <2>2 DEF Fits, NewIn
  <2> QED  BY <1>1, <2>1, <2>2
<1>5. \A i \in Slot : s.m.table[i].used => SameSlot(s, t, i)
  BY <1>1 DEF NewIn
<1>6. ServingIn(s) \subseteq ServingIn(t)
  BY <1>5 DEF ServingIn, SameSlot
<1>7. ~entry.detached => NewSlots(s, t, entry) \subseteq ServingIn(t)
  BY DEF NewSlots, NewIn, ServingIn
<1>8. entry.detached /\ Counted(s) => Counted(t)
  BY <1>1 DEF Counted, SameMaster, SameSlot, NewIn
<1>9. Handed(s) => Handed(t)
  <2> SUFFICES ASSUME Handed(s), NEW i \in Slot,
                      t.m.table[i].used, ~t.m.table[i].detached, t.child[i].st # "none"
               PROVE  t.m.table[i].exiting <=> t.child[i].cycle < t.m.cycle
    BY DEF Handed
  <2>1. CASE SameSlot(s, t, i)
    BY <1>2, <2>1 DEF Handed, SameSlot
  <2>2. CASE NewIn(s, t, i, entry)
    BY <1>2, <1>3, <2>2 DEF NewIn
  <2> QED  BY <1>1, <2>1, <2>2
<1> QED  BY <1>1, <1>4, <1>5, <1>6, <1>7, <1>8, <1>9, MoreServing

\* ngx_start_worker_processes in an orderly state leaves one in which as many workers
\* serve as the configuration asks for.
LEMMA StartSound ==
    ASSUME NEW x \in BOOLEAN, NEW s \in State, \A i \in Slot : Row(s, i, x), ~s.forks => x,
           NEW t, t = StartWorkers(s, FALSE)
    PROVE  /\ t \in State /\ SameMaster(s, t)
           /\ s.m.refused => t.m.refused
           /\ \A i \in Slot : Row(t, i, x)
           /\ ~t.m.refused /\ ~x => Cardinality(ServingIn(t)) >= NWorkers
           /\ Handed(s) => Handed(t)
<1> DEFINE e == Worker(FALSE)
<1>1. \A i \in Slot : Fits(s, i, x) /\ (s.m.table[i].used => i < s.m.last)
  BY DEF Row, Fits
<1>2. /\ e \in Entry /\ e.used /\ e.respawn /\ ~e.just_spawn
      /\ ~e.exiting /\ ~e.exited /\ ~e.detached
  BY WorkerFacts
<1>3. /\ Grown(s, t, e)
      /\ t.m.refused \/ ~s.forks \/ Cardinality(NewSlots(s, t, e)) >= NWorkers
  BY <1>1, StartFacts
<1> HIDE DEF e
<1>4. /\ t \in State /\ \A i \in Slot : Fits(t, i, x)
      /\ NewSlots(s, t, e) \subseteq ServingIn(t)
      /\ Handed(s) => Handed(t)
  BY <1>1, <1>2, <1>3, GrownRows
<1>5. \A i \in Slot : Row(t, i, x)
  BY <1>2, <1>3, <1>4 DEF Row, Grown, SameSlot, NewIn
<1>6. ~t.m.refused /\ ~x => Cardinality(ServingIn(t)) >= NWorkers
  <2>1. /\ IsFiniteSet(ServingIn(t)) /\ Cardinality(ServingIn(t)) \in Nat
        /\ NWorkers \in Nat
    BY <1>4, Numbers
  <2>2. /\ Cardinality(NewSlots(s, t, e)) <= Cardinality(ServingIn(t))
        /\ Cardinality(NewSlots(s, t, e)) \in Nat
    BY <1>4, <2>1, FS_Subset, FS_CardinalityType
  <2> HAVE ~t.m.refused /\ ~x
  <2> DEFINE a == Cardinality(NewSlots(s, t, e))
             c == Cardinality(ServingIn(t))
  <2>3. a >= NWorkers
    BY <1>3, Zenon
  <2>4. a \in Nat /\ c \in Nat /\ NWorkers \in Nat /\ a <= c
    BY <2>1, <2>2
  <2> HIDE DEF a, c
  <2>5. c >= NWorkers
    BY <2>3, <2>4
  <2> QED  BY <2>5 DEF c
<1> QED  BY <1>3, <1>4, <1>5, <1>6 DEF Grown

\* sigsuspend returns: the flags of the signals that came, and the status of all children
\* that ended.
LEMMA HandledFacts ==
    ASSUME NEW x \in BOOLEAN, NEW b \in Nat, NEW s, Sound(s, x, b), TypeOK,
           Due(s) + (IF "reconfigure" \in pending THEN 1 ELSE 0) <= b,
           NEW t, t = Handled(s)
    PROVE  /\ Sound(t, x, b)
           /\ t.m.up = s.m.up /\ t.m.cycle = s.m.cycle
           /\ t.m.flags \subseteq s.m.flags \cup pending \cup {"reap"}
<1> DEFINE ended == {i \in Slot : s.child[i].st = "zombie"}
           ignored == IF s.m.new_binary = "running" THEN {"changebin"} ELSE {}
           flags == (s.m.flags \cup (pending \ ignored))
                      \cup (IF ended = {} THEN {} ELSE {"reap"})
           entry(i) == LET e == s.m.table[i] IN
             IF i \notin ended THEN e
             ELSE [e EXCEPT !.exited = TRUE, !.respawn = e.respawn /\ ~s.child[i].fatal]
           left(i) == IF i \in ended THEN NoChild ELSE s.child[i]
           table == [i \in Slot |-> entry(i)]
           ch == [i \in Slot |-> left(i)]
<1>1. t = [s EXCEPT !.m.flags = flags, !.m.table = table, !.child = ch]
  BY DEF Handled
<1>2. s \in State
  BY DEF Sound
<1>3. s.m \in Master /\ s.child \in [Slot -> Child] /\ s.m.table \in [Slot -> Entry]
  BY <1>2, StateParts
<1>4. ASSUME NEW i \in Slot
      PROVE  LET e == s.m.table[i]
                 f == entry(i)
             IN /\ f \in Entry
                /\ f.used = e.used /\ f.exiting = e.exiting /\ f.detached = e.detached
                /\ f.just_spawn = e.just_spawn
                /\ f.exited <=> e.exited \/ s.child[i].st = "zombie"
                /\ f.respawn \/ ~e.respawn \/ s.child[i].fatal
  <2>1. s.m.table[i] \in Entry /\ s.child[i].fatal \in BOOLEAN
    BY <1>3 DEF Child
  <2>2. CASE i \notin ended
    BY <2>1, <2>2 DEF Entry
  <2>3. CASE i \in ended
    BY <2>1, <2>3 DEF Entry
  <2> QED  BY <2>2, <2>3
<1>5. ASSUME NEW i \in Slot
      PROVE  /\ left(i) \in Child
             /\ left(i).st # "none" => s.child[i].st # "none" /\ s.child[i].st # "zombie"
             /\ left(i).cycle <= s.child[i].cycle
             /\ left(i).fatal => s.child[i].fatal
  <2>1. /\ s.child[i] \in Child /\ NoChild \in Child
        /\ NoChild.st = "none" /\ NoChild.cycle = 0 /\ NoChild.fatal = FALSE
    BY <1>3, MasterAssumption DEF NoChild, Child
  <2>2. s.child[i].cycle \in Nat
    BY <2>1, MasterAssumption DEF Child
  <2>3. CASE i \in ended
    BY <2>1, <2>2, <2>3
  <2>4. CASE i \notin ended
    BY <2>1, <2>2, <2>4
  <2> QED  BY <2>3, <2>4
<1>6. table \in [Slot -> Entry] /\ ch \in [Slot -> Child]
  <2> HIDE DEF entry, left
  <2> QED  BY <1>4, <1>5
<1>7. /\ flags \in SUBSET (Operator \cup {"reap", "sigalrm", "restart"})
      /\ s.m.flags \subseteq flags /\ flags \subseteq s.m.flags \cup pending \cup {"reap"}
  <2>1. pending \in SUBSET (Operator \cup {"sigalrm"})
    BY DEF TypeOK
  <2>2. s.m.flags \in SUBSET (Operator \cup {"reap", "sigalrm", "restart"})
    BY <1>3 DEF Master
  <2> HIDE DEF ended, ignored
  <2> QED  BY <2>1, <2>2
<1>8. \A i \in Slot : table[i] = entry(i) /\ ch[i] = left(i)
  <2> HIDE DEF entry, left
  <2> QED  OBVIOUS
<1> HIDE DEF ended, ignored, flags, entry, left, table, ch
<1>9. /\ t.m = [s.m EXCEPT !.flags = flags, !.table = table]
      /\ t.child = ch /\ t.forks = s.forks
      /\ t = [m |-> t.m, child |-> t.child, forks |-> s.forks, conf |-> s.conf]
  <2>1. t = [m |-> [s.m EXCEPT !.flags = flags, !.table = table],
             child |-> ch, forks |-> s.forks, conf |-> s.conf]
    BY <1>1, <1>2 DEF State
  <2> QED  BY <2>1
<1>10. t.m \in Master /\ t.m.flags = flags /\ t.m.table = table
  BY <1>3, <1>6, <1>7, <1>9 DEF Master
<1>11. t \in State
  BY <1>2, <1>6, <1>9, <1>10, StateParts DEF State
<1>12. /\ t.m.up = s.m.up /\ t.m.live = s.m.live /\ t.m.last = s.m.last
       /\ t.m.noaccepting = s.m.noaccepting /\ t.m.refused = s.m.refused
       /\ t.m.cycle = s.m.cycle /\ t.m.uncounted = s.m.uncounted
  BY <1>3, <1>9 DEF Master
<1>13. ASSUME NEW i \in Slot PROVE Row(t, i, x)
  <2>1. t.m.table[i] = entry(i) /\ t.child[i] = left(i)
    BY <1>8, <1>9, <1>10
  <2>2. Row(s, i, x)
    BY DEF Sound
  <2>3. /\ s.child[i].cycle \in Nat /\ s.m.cycle \in Nat
        /\ left(i).cycle \in Nat
    BY <1>2, <1>11, <2>1, Numbers
  <2>4. t.child[i].cycle <= t.m.cycle
    BY <1>5, <1>12, <2>1, <2>2, <2>3 DEF Row, Fits
  <2>5. t.m.table[i].used => i < t.m.last
    BY <1>4, <1>12, <2>1, <2>2 DEF Row, Fits
  <2>6. /\ t.child[i].st # "none" => t.m.table[i].used /\ ~t.m.table[i].exited
        /\ t.child[i].fatal => x
        /\ ~t.m.table[i].just_spawn
    BY <1>4, <1>5, <2>1, <2>2 DEF Row, Fits
  <2>7. t.m.table[i].used /\ ~t.m.table[i].detached => t.m.table[i].respawn \/ x
    BY <1>4, <2>1, <2>2 DEF Row, Fits
  <2> QED  BY <2>4, <2>5, <2>6, <2>7 DEF Row, Fits
<1>14. Counted(t)
  BY <1>4, <1>8, <1>10, <1>12 DEF Counted, Sound
<1>15. Ample(t, x)
  <2>1. ServingIn(t) = ServingIn(s)
    BY <1>4, <1>8, <1>10 DEF ServingIn
  <2>2. Obliged(t) => Obliged(s)
    BY <1>7, <1>10, <1>12 DEF Obliged
  <2> QED  BY <2>1, <2>2 DEF Ample, Sound
<1>16. Due(t) <= b
  <2>1. s.m.cycle \in Nat /\ Due(s) \in Nat
    BY <1>2, Numbers
  <2>2. "reconfigure" \in flags => "reconfigure" \in s.m.flags \/ "reconfigure" \in pending
    BY <1>7
  <2> QED  BY <1>10, <1>12, <2>1, <2>2 DEF Due
<1> QED  BY <1>7, <1>9, <1>10, <1>11, <1>12, <1>13, <1>14, <1>15, <1>16 DEF Sound

\* ngx_reap_children: who is not started again is forgotten, and live says whether
\* anybody is left.
LEMMA ReapChildrenFacts ==
    ASSUME NEW x \in BOOLEAN, NEW b \in Nat, NEW s, Sound(s, x, b),
           NEW t, t = ReapChildren(s)
    PROVE  /\ Sound(t, x, b)
           /\ t.m.up = s.m.up /\ t.m.cycle = s.m.cycle
           /\ t.m.flags \subseteq s.m.flags \cup {"restart"}
<1> DEFINE again == Respawned(s)
           forked == IF s.forks THEN again ELSE {}
           freed == {i \in Slot : s.m.table[i].used /\ s.m.table[i].exited} \ again
           binary == \E i \in freed : s.m.table[i].detached
           restart == binary /\ s.m.noaccepting
           entry(i) == LET e == s.m.table[i] IN
             IF i \in freed THEN Unused
             ELSE [e EXCEPT !.exited = e.exited /\ i \notin forked]
           left(i) == IF i \in forked THEN Forked(s) ELSE s.child[i]
           last == IF s.m.last > 0 /\ s.m.last - 1 \in freed THEN s.m.last - 1 ELSE s.m.last
           live == \/ forked # {}
                   \/ \E i \in Slot : LET e == s.m.table[i] IN
                        e.used /\ ~e.exited /\ (e.exiting \/ ~e.detached)
           flags == IF restart THEN s.m.flags \cup {"restart"} ELSE s.m.flags
           table == [i \in Slot |-> entry(i)]
           ch == [i \in Slot |-> left(i)]
           bin == IF binary THEN "none" ELSE s.m.new_binary
           noacc == s.m.noaccepting /\ ~restart
<1>1. t = [s EXCEPT !.m.table = table, !.m.last = last, !.m.live = live,
                    !.m.new_binary = bin, !.m.flags = flags, !.m.noaccepting = noacc,
                    !.m.uncounted = FALSE, !.child = ch]
  BY DEF ReapChildren
<1>2. s \in State
  BY DEF Sound
<1>3. s.m \in Master /\ s.child \in [Slot -> Child] /\ s.m.table \in [Slot -> Entry]
  BY <1>2, StateParts
<1>4. ASSUME NEW i \in Slot
      PROVE  LET e == s.m.table[i]
                 f == entry(i)
             IN /\ f \in Entry
                /\ i \in freed => ~f.used /\ ~f.just_spawn
                /\ i \notin freed =>
                     /\ f.used = e.used /\ f.exiting = e.exiting /\ f.detached = e.detached
                     /\ f.just_spawn = e.just_spawn /\ f.respawn = e.respawn
                     /\ f.exited <=> e.exited /\ i \notin forked
  <2>1. s.m.table[i] \in Entry
    BY <1>3
  <2>2. CASE i \notin freed
    <3> HIDE DEF freed, forked
    <3> QED  BY <2>1, <2>2 DEF Entry
  <2>3. CASE i \in freed
    <3> HIDE DEF freed, forked
    <3> QED  BY <2>3 DEF Entry, Unused
  <2> QED  BY <2>2, <2>3
<1>5. \A i \in forked : /\ i \in Slot /\ i \notin freed /\ s.m.table[i].used
                        /\ s.m.table[i].respawn
  BY DEF Respawned
<1>6. /\ Forked(s) \in Child
      /\ Forked(s).st = "run" /\ Forked(s).cycle = s.m.cycle /\ ~Forked(s).fatal
  BY <1>2, ForkedFacts
<1>7. \A i \in Slot : left(i) \in Child
  BY <1>3, <1>6
<1>8. table \in [Slot -> Entry] /\ ch \in [Slot -> Child]
  <2> HIDE DEF entry, left
  <2> QED  BY <1>4, <1>7
<1>9. /\ last \in 0 .. MaxProcesses
      /\ \A i \in Slot : i < s.m.last /\ i \notin freed => i < last
  <2>1. s.m.last \in Nat /\ s.m.last \in 0 .. MaxProcesses /\ \A i \in Slot : i \in Nat
    BY <1>2, Numbers, StateParts
  <2> HIDE DEF freed
  <2>2. CASE s.m.last > 0 /\ s.m.last - 1 \in freed
    <3>1. last = s.m.last - 1
      BY <2>2
    <3>2. ASSUME NEW i \in Slot, i < s.m.last, i \notin freed PROVE i < s.m.last - 1
      <4>1. i # s.m.last - 1
        BY <2>2, <3>2
      <4> QED  BY <2>1, <3>2, <4>1
    <3>3. s.m.last - 1 \in 0 .. MaxProcesses
      BY <2>1, <2>2, MasterAssumption
    <3> HIDE DEF last
    <3> QED  BY <3>1, <3>2, <3>3
  <2>3. CASE ~(s.m.last > 0 /\ s.m.last - 1 \in freed)
    BY <2>1, <2>3
  <2> QED  BY <2>2, <2>3
<1>10. /\ flags \in SUBSET (Operator \cup {"reap", "sigalrm", "restart"})
       /\ s.m.flags \subseteq flags /\ flags \subseteq s.m.flags \cup {"restart"}
       /\ restart => "restart" \in flags
       /\ bin \in {"none", "running", "failed"} /\ noacc \in BOOLEAN /\ live \in BOOLEAN
  <2>1. /\ s.m.flags \in SUBSET (Operator \cup {"reap", "sigalrm", "restart"})
        /\ s.m.new_binary \in {"none", "running", "failed"}
    BY <1>3 DEF Master
  <2> HIDE DEF binary, forked
  <2> QED  BY <2>1
<1>11. \A i \in Slot : table[i] = entry(i) /\ ch[i] = left(i)
  <2> HIDE DEF entry, left
  <2> QED  OBVIOUS
<1>12. \A i \in Slot : /\ i \in forked => left(i) = Forked(s)
                       /\ i \notin forked => left(i) = s.child[i]
                       /\ i \in freed => s.m.table[i].used /\ s.m.table[i].exited
  OBVIOUS
<1>13. ~live => /\ forked = {}
                /\ \A i \in Slot : s.m.table[i].used /\ ~s.m.table[i].exited =>
                                     s.m.table[i].detached
  <2> HIDE DEF forked
  <2> QED  OBVIOUS
<1>14. \A i \in freed : \/ ~s.m.table[i].respawn \/ s.m.table[i].exiting
                        \/ s.m.flags \cap {"terminate", "quit"} # {}
  BY DEF Respawned
<1>15. ~restart /\ ~noacc => ~s.m.noaccepting
  <2> HIDE DEF restart
  <2> QED  OBVIOUS
<1> HIDE DEF again, forked, freed, binary, restart, entry, left, last, live, flags, table,
             ch, bin, noacc
<1>16. /\ t.m = [s.m EXCEPT !.table = table, !.last = last, !.live = live,
                            !.new_binary = bin, !.flags = flags, !.noaccepting = noacc,
                            !.uncounted = FALSE]
       /\ t.child = ch /\ t.forks = s.forks
       /\ t = [m |-> t.m, child |-> t.child, forks |-> s.forks, conf |-> s.conf]
  BY <1>1, <1>2 DEF State
<1>17. /\ t.m \in Master /\ t.m.flags = flags /\ t.m.table = table /\ t.m.last = last
       /\ t.m.live = live /\ t.m.noaccepting = noacc
       /\ t.m.up = s.m.up /\ t.m.refused = s.m.refused /\ t.m.cycle = s.m.cycle
  <2>1. /\ s.m = [up |-> s.m.up, table |-> s.m.table, last |-> s.m.last, live |-> s.m.live,
                   sigio |-> s.m.sigio, delay |-> s.m.delay, flags |-> s.m.flags,
                   noaccepting |-> s.m.noaccepting, new_binary |-> s.m.new_binary,
                   cycle |-> s.m.cycle, uncounted |-> s.m.uncounted,
                   refused |-> s.m.refused]
        /\ s.m.up \in BOOLEAN /\ s.m.sigio \in Nat /\ s.m.delay \in 0 .. KillDelay
        /\ s.m.cycle \in 0 .. MaxSignals /\ s.m.refused \in BOOLEAN
    BY <1>3 DEF Master
  <2>2. t.m = [up |-> s.m.up, table |-> table, last |-> last, live |-> live,
               sigio |-> s.m.sigio, delay |-> s.m.delay, flags |-> flags,
               noaccepting |-> noacc, new_binary |-> bin,
               cycle |-> s.m.cycle, uncounted |-> FALSE, refused |-> s.m.refused]
    BY <1>16, <2>1
  <2>3. /\ t.m.flags = flags /\ t.m.table = table /\ t.m.last = last
        /\ t.m.live = live /\ t.m.noaccepting = noacc
        /\ t.m.up = s.m.up /\ t.m.refused = s.m.refused /\ t.m.cycle = s.m.cycle
    BY <2>2
  <2>4. t.m \in Master
    BY <1>8, <1>9, <1>10, <2>1, <2>2 DEF Master
  <2> QED  BY <2>3, <2>4
<1>18. t \in State
  BY <1>2, <1>8, <1>16, <1>17, StateParts DEF State
<1>19. ASSUME NEW i \in Slot PROVE Row(t, i, x)
  <2>1. t.m.table[i] = entry(i) /\ t.child[i] = left(i)
    BY <1>11, <1>16, <1>17
  <2>2. Row(s, i, x) /\ s.m.cycle \in Nat
    BY <1>2, Numbers DEF Sound
  <2>3. CASE i \in freed
    <3>1. s.m.table[i].exited /\ i \notin forked
      BY <1>5, <1>12, <2>3
    <3>2. left(i) = s.child[i] /\ s.child[i].st = "none"
      BY <1>12, <2>2, <3>1 DEF Row, Fits
    <3> QED  BY <1>4, <1>17, <2>1, <2>2, <2>3, <3>2 DEF Row, Fits
  <2>4. CASE i \in forked
    <3>1. i \notin freed /\ s.m.table[i].used /\ s.m.table[i].respawn
      BY <1>5, <2>4
    <3>2. i < t.m.last
      BY <1>9, <1>17, <2>2, <3>1 DEF Row, Fits
    <3>3. /\ t.m.table[i].used /\ ~t.m.table[i].exited /\ t.m.table[i].respawn
          /\ ~t.m.table[i].just_spawn
      BY <1>4, <2>1, <2>2, <2>4, <3>1 DEF Row
    <3>4. t.child[i].cycle <= t.m.cycle /\ ~t.child[i].fatal
      BY <1>6, <1>12, <1>17, <2>1, <2>2, <2>4
    <3> QED  BY <3>2, <3>3, <3>4 DEF Row, Fits
  <2>5. CASE i \notin freed /\ i \notin forked
    <3>1. t.m.table[i].used => i < t.m.last
      BY <1>4, <1>9, <1>17, <2>1, <2>2, <2>5 DEF Row, Fits
    <3>2. t.child[i] = s.child[i]
      BY <1>12, <2>1, <2>5
    <3>3. LET e == s.m.table[i]
              f == t.m.table[i]
          IN /\ f.used = e.used /\ f.detached = e.detached
             /\ f.just_spawn = e.just_spawn /\ f.respawn = e.respawn
             /\ f.exited <=> e.exited
      BY <1>4, <2>1, <2>5
    <3> QED  BY <1>17, <2>2, <3>1, <3>2, <3>3 DEF Row, Fits
  <2> QED  BY <2>3, <2>4, <2>5
<1>20. Counted(t)
  <2> SUFFICES ASSUME ~live, NEW i \in Slot,
                      t.m.table[i].used, ~t.m.table[i].exited
               PROVE  t.m.table[i].detached
    BY <1>17 DEF Counted
  <2> QED  BY <1>4, <1>11, <1>13, <1>17
<1>21. Ample(t, x)
  <2> SUFFICES ASSUME Obliged(t), ~x PROVE Cardinality(ServingIn(t)) >= NWorkers
    BY DEF Ample
  <2>1. ~restart /\ ~noacc
    BY <1>10, <1>17 DEF Obliged
  <2>2. Obliged(s)
    BY <1>10, <1>15, <1>17, <2>1 DEF Obliged
  <2>3. ASSUME NEW i \in ServingIn(s) PROVE i \in ServingIn(t)
    <3>1. /\ i \in Slot /\ s.m.table[i].used /\ ~s.m.table[i].detached
          /\ ~s.m.table[i].exiting
      BY DEF ServingIn
    <3>2. s.m.table[i].respawn
      BY <3>1 DEF Sound, Row, Fits
    <3>3. i \notin freed
      BY <1>14, <2>2, <3>1, <3>2 DEF Obliged
    <3> QED  BY <1>4, <1>11, <1>17, <3>1, <3>3 DEF ServingIn
  <2>4. Cardinality(ServingIn(s)) <= Cardinality(ServingIn(t))
    BY <1>2, <1>18, <2>3, MoreServing
  <2>5. Cardinality(ServingIn(s)) >= NWorkers
    BY <2>2 DEF Sound, Ample
  <2>6. /\ Cardinality(ServingIn(s)) \in Nat /\ Cardinality(ServingIn(t)) \in Nat
        /\ NWorkers \in Nat
    BY <1>2, <1>18, Numbers
  <2> QED  BY <2>4, <2>5, <2>6
<1>22. Due(t) <= b
  BY <1>10, <1>17 DEF Due, Sound
<1> QED  BY <1>10, <1>16, <1>17, <1>18, <1>19, <1>20, <1>21, <1>22 DEF Sound

\* The reaping part of the body.
LEMMA ReapFacts ==
    ASSUME NEW x \in BOOLEAN, NEW b \in Nat, NEW s, Sound(s, x, b), NEW t, t = Reap(s)
    PROVE  /\ Sound(t, x, b)
           /\ t.m.up = s.m.up /\ t.m.cycle = s.m.cycle
           /\ t.m.flags \subseteq s.m.flags \cup {"restart"}
<1>1. CASE "reap" \in s.m.flags
  <2> DEFINE u == Clear(s, "reap")
  <2>1. s \in State
    BY DEF Sound
  <2>2. /\ u \in State /\ u.m.flags = s.m.flags \ {"reap"}
        /\ u.m.table = s.m.table /\ u.m.last = s.m.last /\ u.m.refused = s.m.refused
        /\ u.child = s.child /\ u.m.up = s.m.up /\ u.m.live = s.m.live
        /\ u.m.noaccepting = s.m.noaccepting
        /\ u.m.cycle = s.m.cycle /\ u.m.uncounted = s.m.uncounted /\ u.forks = s.forks
    BY <2>1, ClearFacts
  <2>3. t = ReapChildren(u)
    BY <1>1 DEF Reap
  <2> HIDE DEF u
  <2>4. Sound(u, x, b)
    BY <2>1, <2>2, OtherFlags
  <2> QED  BY <2>2, <2>3, <2>4, ReapChildrenFacts
<1>2. CASE "reap" \notin s.m.flags
  BY <1>2 DEF Reap
<1> QED  BY <1>1, <1>2

\* The types of the fields of the master.
LEMMA MasterTypes ==
    ASSUME NEW s \in State
    PROVE  /\ s.m.up \in BOOLEAN /\ s.m.live \in BOOLEAN /\ s.m.noaccepting \in BOOLEAN
           /\ s.m.uncounted \in BOOLEAN /\ s.m.refused \in BOOLEAN
           /\ s.m.sigio \in Nat /\ s.m.delay \in 0 .. KillDelay
           /\ s.m.flags \in SUBSET (Operator \cup {"reap", "sigalrm", "restart"})
           /\ s.m.new_binary \in {"none", "running", "failed"}
           /\ NWorkers \in Nat /\ KillDelay \in Nat /\ KillDelay > 0
<1>1. NWorkers \in Nat /\ KillDelay \in Nat /\ KillDelay > 0
  BY MasterAssumption
<1> QED  BY <1>1 DEF State, Master

\* The alarm's counters.
Alarmed(s, g, d) == [s EXCEPT !.m = [s.m EXCEPT !.sigio = g, !.delay = d]]

\* They decide nothing that the invariant speaks of.
LEMMA WithAlarm ==
    ASSUME NEW x \in BOOLEAN, NEW b \in Nat, NEW s, Sound(s, x, b),
           NEW g \in Nat, NEW d \in 0 .. KillDelay,
           NEW t, t = Alarmed(s, g, d)
    PROVE  /\ Sound(t, x, b) /\ (Handed(s) => Handed(t))
           /\ t.m.up = s.m.up /\ t.m.cycle = s.m.cycle /\ t.m.flags = s.m.flags
           /\ t.m.live = s.m.live
<1> DEFINE mm == [s.m EXCEPT !.sigio = g, !.delay = d]
<1>1. s \in State
  BY DEF Sound
<1>2. s.m \in Master
  BY <1>1, StateParts
<1>3. /\ mm \in Master
      /\ mm.table = s.m.table /\ mm.last = s.m.last /\ mm.live = s.m.live
      /\ mm.uncounted = s.m.uncounted /\ mm.cycle = s.m.cycle
      /\ mm.refused = s.m.refused /\ mm.noaccepting = s.m.noaccepting
      /\ mm.flags = s.m.flags /\ mm.up = s.m.up
  BY <1>2 DEF Master
<1> HIDE DEF mm
<1>4. t = [m |-> mm, child |-> s.child, forks |-> s.forks, conf |-> s.conf]
  BY <1>1 DEF State, mm, Alarmed
<1>5. /\ t \in State /\ t.m = mm /\ t.child = s.child /\ t.forks = s.forks
      /\ t.m.table = s.m.table /\ t.m.last = s.m.last /\ t.m.live = s.m.live
      /\ t.m.uncounted = s.m.uncounted /\ t.m.cycle = s.m.cycle
      /\ t.m.refused = s.m.refused /\ t.m.noaccepting = s.m.noaccepting
      /\ t.m.flags = s.m.flags /\ t.m.up = s.m.up
  <2>1. t \in State /\ t.m = mm /\ t.child = s.child /\ t.forks = s.forks
    BY <1>1, <1>3, <1>4 DEF State
  <2> QED  BY <1>3, <2>1
<1>6. Sound(t, x, b) /\ (Handed(s) => Handed(t))
  BY <1>5, OtherFlags
<1> QED  BY <1>5, <1>6

\* Fast shutdown.
LEMMA TerminateFacts ==
    ASSUME NEW x \in BOOLEAN, NEW b \in Nat, NEW s, Sound(s, x, b),
           "terminate" \in s.m.flags, NEW t, t = Terminate(s)
    PROVE  Sound(t, x, b) /\ t.m.up = s.m.up /\ t.m.cycle = s.m.cycle
<1> DEFINE d == IF s.m.delay = 0 THEN 1 ELSE s.m.delay
<1>1. s \in State
  BY DEF Sound
<1>2. d \in 0 .. KillDelay /\ s.m.sigio \in Nat /\ NWorkers + 2 \in Nat
  BY <1>1, MasterTypes
<1>3. CASE s.m.sigio > 0
  <2>1. t = [[s EXCEPT !.m.delay = d] EXCEPT !.m.sigio = @ - 1]
    BY <1>3 DEF Terminate
  <2> HIDE DEF d
  <2>2. t = Alarmed(s, s.m.sigio - 1, d)
    BY <1>1, <2>1 DEF State, Master, Alarmed
  <2> DEFINE g == s.m.sigio - 1
  <2>3. g \in Nat /\ d \in 0 .. KillDelay
    BY <1>2, <1>3
  <2>4. t = Alarmed(s, g, d)
    BY <2>2
  <2> HIDE DEF g
  <2> QED  BY <2>3, <2>4, WithAlarm
<1>4. CASE ~(s.m.sigio > 0)
  <2> DEFINE u == [[s EXCEPT !.m.delay = d] EXCEPT !.m.sigio = NWorkers + 2]
             sig == IF d >= KillDelay THEN "kill" ELSE "terminate"
  <2>1. t = SignalWorkers(u, sig)
    BY <1>4 DEF Terminate
  <2>2. sig \in Command
    BY DEF Command
  <2> HIDE DEF d, sig
  <2>3. u = Alarmed(s, NWorkers + 2, d)
    BY <1>1 DEF State, Master, Alarmed
  <2> HIDE DEF u
  <2>4. /\ Sound(u, x, b) /\ u.m.up = s.m.up /\ u.m.cycle = s.m.cycle
        /\ u.m.flags = s.m.flags
    BY <1>2, <2>3, WithAlarm
  <2>5. ~Obliged(u) /\ u \in State
    BY <2>4 DEF Obliged, Sound
  <2>6. Sound(t, x, b)
    BY <2>1, <2>2, <2>4, <2>5, SignalSound
  <2>7. t.m.up = u.m.up /\ t.m.cycle = u.m.cycle
    BY <2>1, <2>2, <2>5, SignalFacts
  <2> QED  BY <2>4, <2>6, <2>7
<1> QED  BY <1>3, <1>4

\* The top of the loop.
LEMMA TopFacts ==
    ASSUME NEW x \in BOOLEAN, NEW b \in Nat, NEW s, Sound(s, x, b), NEW t, t = Top(s)
    PROVE  /\ Sound(t, x, b) /\ (Handed(s) => Handed(t))
           /\ t.m.up = s.m.up /\ t.m.cycle = s.m.cycle /\ t.m.live = s.m.live
<1>1. s \in State
  BY DEF Sound
<1>2. CASE s.m.delay > 0 /\ "sigalrm" \in s.m.flags
  <2> DEFINE u == Clear(s, "sigalrm")
             d == IF s.m.delay < KillDelay THEN s.m.delay + 1 ELSE s.m.delay
  <2>1. /\ u \in State /\ u.m.flags = s.m.flags \ {"sigalrm"}
        /\ u.m.table = s.m.table /\ u.m.last = s.m.last /\ u.m.refused = s.m.refused
        /\ u.child = s.child /\ u.m.up = s.m.up /\ u.m.live = s.m.live
        /\ u.m.noaccepting = s.m.noaccepting /\ u.m.delay = s.m.delay
        /\ u.m.cycle = s.m.cycle /\ u.m.uncounted = s.m.uncounted /\ u.forks = s.forks
    BY <1>1, ClearFacts
  <2>2. t = [u EXCEPT !.m.sigio = 0, !.m.delay = IF @ < KillDelay THEN @ + 1 ELSE @]
    BY <1>2 DEF Top
  <2> HIDE DEF u
  <2>3. t = Alarmed(u, 0, d)
    BY <2>1, <2>2 DEF State, Master, Alarmed
  <2>4. Sound(u, x, b) /\ (Handed(s) => Handed(u))
    BY <2>1, OtherFlags
  <2>5. d \in 0 .. KillDelay
    BY <1>1, MasterTypes
  <2> HIDE DEF d
  <2> QED  BY <2>1, <2>3, <2>4, <2>5, WithAlarm
<1>3. CASE ~(s.m.delay > 0 /\ "sigalrm" \in s.m.flags)
  BY <1>3 DEF Top
<1> QED  BY <1>2, <1>3

\* Two states with the same children, flags and configuration.
SameChildren(s, t) ==
    /\ t \in State
    /\ t.m.table = s.m.table /\ t.m.last = s.m.last /\ t.child = s.child
    /\ t.m.cycle = s.m.cycle /\ t.m.refused = s.m.refused /\ t.forks = s.forks
    /\ t.m.flags = s.m.flags /\ t.m.up = s.m.up

Started(u) == StartWorkers(u, FALSE)

\* Flags were cleared.
Cleared(s, u) ==
    /\ u \in State
    /\ u.m.table = s.m.table /\ u.m.last = s.m.last /\ u.child = s.child
    /\ u.m.cycle = s.m.cycle /\ u.forks = s.forks
    /\ u.m.flags \subseteq s.m.flags

\* Workers are started in an orderly state, whatever excused the master before.
LEMMA BegunSound ==
    ASSUME NEW x \in BOOLEAN, NEW b \in Nat, NEW s, Sound(s, x, b),
           NEW u, Cleared(s, u), NEW t, SameChildren(Started(u), t), Counted(t)
    PROVE  /\ Sound(t, x, b) /\ (Handed(s) => Handed(t))
           /\ t.m.up = u.m.up /\ t.m.cycle = s.m.cycle /\ t.m.flags = u.m.flags
<1> DEFINE v == Started(u)
<1>0. /\ u \in State
      /\ u.m.table = s.m.table /\ u.m.last = s.m.last /\ u.child = s.child
      /\ u.m.cycle = s.m.cycle /\ u.forks = s.forks
      /\ u.m.flags \subseteq s.m.flags
  BY DEF Cleared
<1>1. \A i \in Slot : Row(u, i, x)
  BY <1>0 DEF Sound, Row, Fits
<1>2. ~u.forks => x
  BY <1>0 DEF Sound
<1>3. /\ v \in State /\ SameMaster(u, v)
      /\ \A i \in Slot : Row(v, i, x)
      /\ ~v.m.refused /\ ~x => Cardinality(ServingIn(v)) >= NWorkers
      /\ Handed(u) => Handed(v)
  BY <1>0, <1>1, <1>2, StartSound DEF Started
<1>4. /\ v.m.cycle = u.m.cycle /\ v.forks = u.forks /\ v.m.flags = u.m.flags
      /\ v.m.up = u.m.up
  BY <1>3 DEF SameMaster
<1>6. /\ t \in State
      /\ t.m.table = v.m.table /\ t.m.last = v.m.last /\ t.child = v.child
      /\ t.m.cycle = v.m.cycle /\ t.m.refused = v.m.refused /\ t.forks = v.forks
      /\ t.m.flags = v.m.flags /\ t.m.up = v.m.up
  BY DEF SameChildren
<1> HIDE DEF v
<1>7. \A i \in Slot : Row(t, i, x)
  BY <1>3, <1>6 DEF Row, Fits
<1>8. Ample(t, x)
  <2>1. ServingIn(t) = ServingIn(v)
    BY <1>6 DEF ServingIn
  <2> QED  BY <1>3, <1>6, <2>1 DEF Ample, Obliged
<1>9. Due(t) <= b
  <2>1. s.m.cycle \in Nat /\ Due(s) <= b
    BY Numbers DEF Sound
  <2>2. t.m.cycle = s.m.cycle /\ t.m.flags = u.m.flags
    BY <1>0, <1>4, <1>6
  <2> QED  BY <1>0, <2>1, <2>2 DEF Due
<1>11. Handed(s) => Handed(t)
  BY <1>0, <1>3, <1>4, <1>6 DEF Handed
<1>12. ~t.forks => x
  BY <1>2, <1>4, <1>6
<1> QED  BY <1>0, <1>4, <1>6, <1>7, <1>8, <1>9, <1>11, <1>12 DEF Sound

\* A reload beside a new binary.
LEMMA BesideFacts ==
    ASSUME NEW x \in BOOLEAN, NEW b \in Nat, NEW s, Sound(s, x, b),
           NEW t, t = ReloadBesideBinary(s)
    PROVE  Sound(t, x, b) /\ t.m.up = s.m.up /\ t.m.cycle = s.m.cycle
<1> DEFINE u == Clear(s, "reconfigure")
           v == StartWorkers(u, FALSE)
           c == ~s.m.live
<1>1. s \in State
  BY DEF Sound
<1>2. /\ u \in State /\ u.m.flags = s.m.flags \ {"reconfigure"}
      /\ u.m.table = s.m.table /\ u.m.last = s.m.last /\ u.child = s.child
      /\ u.m.cycle = s.m.cycle /\ u.forks = s.forks /\ u.m.up = s.m.up
      /\ u.m.live = s.m.live
  BY <1>1, ClearFacts
<1>3. t = [v EXCEPT !.m.noaccepting = FALSE, !.m.uncounted = ~s.m.live]
  BY DEF ReloadBesideBinary
<1>4. /\ s.m.live \in BOOLEAN /\ c \in BOOLEAN
      /\ s.m.live \/ c
  BY <1>1, MasterTypes
<1> HIDE DEF u
<1>5. \A i \in Slot : Row(u, i, x)
  BY <1>2 DEF Sound, Row, Fits
<1>6. v \in State /\ v.m.live = s.m.live
  <2>1. ~u.forks => x
    BY <1>2 DEF Sound
  <2> QED  BY <1>2, <1>5, <2>1, StartSound DEF SameMaster
<1> HIDE DEF v
<1>7. /\ t.m = [v.m EXCEPT !.noaccepting = FALSE, !.uncounted = c]
      /\ t = [m |-> t.m, child |-> v.child, forks |-> v.forks, conf |-> v.conf]
  BY <1>3, <1>6 DEF State
<1>8. /\ t.m \in Master /\ t.m.live = v.m.live /\ t.m.uncounted = c
      /\ t.m.table = v.m.table /\ t.m.last = v.m.last
      /\ t.m.cycle = v.m.cycle /\ t.m.refused = v.m.refused
      /\ t.m.flags = v.m.flags /\ t.m.up = v.m.up
  <2>1. v.m \in Master
    BY <1>6, StateParts
  <2> HIDE DEF c
  <2> QED  BY <1>4, <1>7, <2>1 DEF Master
<1> HIDE DEF c
<1>9. t \in State /\ t.child = v.child /\ t.forks = v.forks
  BY <1>6, <1>7, <1>8 DEF State
<1>10. SameChildren(v, t) /\ Counted(t)
  BY <1>4, <1>6, <1>8, <1>9 DEF SameChildren, Counted
<1>11. Cleared(s, u) /\ SameChildren(Started(u), t)
  BY <1>2, <1>10 DEF v, Cleared, Started
<1>12. Sound(t, x, b) /\ t.m.up = u.m.up /\ t.m.cycle = s.m.cycle
  BY <1>10, <1>11, BegunSound
<1> QED  BY <1>2, <1>12

\* live is set.
LEMMA LiveFacts ==
    ASSUME NEW v \in State,
           NEW t, t = [v EXCEPT !.m.live = TRUE, !.m.uncounted = FALSE]
    PROVE  SameChildren(v, t) /\ t.m.live
<1>1. /\ t.m = [v.m EXCEPT !.live = TRUE, !.uncounted = FALSE]
      /\ t = [m |-> t.m, child |-> v.child, forks |-> v.forks, conf |-> v.conf]
  BY DEF State
<1>2. /\ t.m \in Master /\ t.m.live
      /\ t.m.table = v.m.table /\ t.m.last = v.m.last
      /\ t.m.cycle = v.m.cycle /\ t.m.refused = v.m.refused
      /\ t.m.flags = v.m.flags /\ t.m.up = v.m.up
  <2>1. v.m \in Master
    BY StateParts
  <2> QED  BY <1>1, <2>1 DEF Master
<1>3. t \in State /\ t.child = v.child /\ t.forks = v.forks
  BY <1>1, <1>2 DEF State
<1> QED  BY <1>2, <1>3 DEF SameChildren

\* The workers that the old binary takes back when the new one died.
LEMMA RestartFacts ==
    ASSUME NEW x \in BOOLEAN, NEW b \in Nat, NEW s, Sound(s, x, b),
           NEW t, t = Restart(s)
    PROVE  /\ Sound(t, x, b) /\ (Handed(s) => Handed(t))
           /\ t.m.up = s.m.up /\ t.m.cycle = s.m.cycle /\ t.m.flags \subseteq s.m.flags
<1>1. CASE "restart" \in s.m.flags
  <2> DEFINE u == Clear(s, "restart")
             v == StartWorkers(u, FALSE)
  <2>1. s \in State
    BY DEF Sound
  <2>2. /\ u \in State /\ u.m.flags = s.m.flags \ {"restart"}
        /\ u.m.table = s.m.table /\ u.m.last = s.m.last /\ u.child = s.child
        /\ u.m.cycle = s.m.cycle /\ u.forks = s.forks /\ u.m.up = s.m.up
        /\ u.m.noaccepting = s.m.noaccepting
    BY <2>1, ClearFacts
  <2>3. t = [v EXCEPT !.m.live = TRUE, !.m.uncounted = FALSE]
    BY <1>1 DEF Restart
  <2> HIDE DEF u
  <2>4. \A i \in Slot : Row(u, i, x)
    BY <2>2 DEF Sound, Row, Fits
  <2>5. v \in State
    <3>1. ~u.forks => x
      BY <2>2 DEF Sound
    <3> QED  BY <2>2, <2>4, <3>1, StartSound
  <2> HIDE DEF v
  <2>6. SameChildren(v, t) /\ Counted(t)
    BY <2>3, <2>5, LiveFacts DEF Counted
  <2>7. Cleared(s, u) /\ SameChildren(Started(u), t)
    BY <2>2, <2>6 DEF v, Cleared, Started
  <2>8. /\ Sound(t, x, b) /\ (Handed(s) => Handed(t))
        /\ t.m.up = u.m.up /\ t.m.cycle = s.m.cycle /\ t.m.flags = u.m.flags
    BY <2>6, <2>7, BegunSound
  <2> QED  BY <2>2, <2>8
<1>2. CASE "restart" \notin s.m.flags
  BY <1>2 DEF Restart
<1> QED  BY <1>1, <1>2

\* New log files.
LEMMA ReopenFacts ==
    ASSUME NEW x \in BOOLEAN, NEW b \in Nat, NEW s, Sound(s, x, b),
           NEW t, t = Reopen(s)
    PROVE  /\ Sound(t, x, b) /\ (Handed(s) => Handed(t))
           /\ t.m.up = s.m.up /\ t.m.cycle = s.m.cycle
           /\ t.m.flags \subseteq s.m.flags \cup {"reap"}
<1>1. CASE "reopen" \in s.m.flags
  <2> DEFINE u == Clear(s, "reopen")
  <2>1. s \in State
    BY DEF Sound
  <2>2. /\ u \in State /\ u.m.flags = s.m.flags \ {"reopen"}
        /\ u.m.table = s.m.table /\ u.m.last = s.m.last /\ u.m.refused = s.m.refused
        /\ u.child = s.child /\ u.m.up = s.m.up /\ u.m.live = s.m.live
        /\ u.m.noaccepting = s.m.noaccepting
        /\ u.m.cycle = s.m.cycle /\ u.m.uncounted = s.m.uncounted /\ u.forks = s.forks
    BY <2>1, ClearFacts
  <2>3. t = SignalWorkers(u, "reopen") /\ "reopen" \in Command
    BY <1>1 DEF Reopen, Command
  <2> HIDE DEF u
  <2>4. Sound(u, x, b) /\ (Handed(s) => Handed(u))
    BY <2>2, OtherFlags
  <2>5. Sound(t, x, b) /\ (Handed(u) => Handed(t))
    BY <2>3, <2>4, SignalSound
  <2>6. t.m.up = u.m.up /\ t.m.cycle = u.m.cycle /\ t.m.flags \subseteq u.m.flags \cup {"reap"}
    BY <2>2, <2>3, SignalFacts
  <2> QED  BY <2>2, <2>4, <2>5, <2>6
<1>2. CASE "reopen" \notin s.m.flags
  BY <1>2 DEF Reopen
<1> QED  BY <1>1, <1>2

\* noaccepting is set.
LEMMA NoAcceptingFacts ==
    ASSUME NEW v \in State, NEW t, t = [v EXCEPT !.m.noaccepting = TRUE]
    PROVE  /\ SameChildren(v, t) /\ t.m.noaccepting
           /\ t.m.live = v.m.live /\ t.m.uncounted = v.m.uncounted
<1>1. /\ t.m = [v.m EXCEPT !.noaccepting = TRUE]
      /\ t = [m |-> t.m, child |-> v.child, forks |-> v.forks, conf |-> v.conf]
  BY DEF State
<1>2. /\ t.m \in Master /\ t.m.noaccepting
      /\ t.m.live = v.m.live /\ t.m.uncounted = v.m.uncounted
      /\ t.m.table = v.m.table /\ t.m.last = v.m.last
      /\ t.m.cycle = v.m.cycle /\ t.m.refused = v.m.refused
      /\ t.m.flags = v.m.flags /\ t.m.up = v.m.up
  <2>1. v.m \in Master
    BY StateParts
  <2> QED  BY <1>1, <2>1 DEF Master
<1>3. t \in State /\ t.child = v.child /\ t.forks = v.forks
  BY <1>1, <1>2 DEF State
<1> QED  BY <1>2, <1>3 DEF SameChildren

\* No more accepting.
LEMMA NoAcceptFacts ==
    ASSUME NEW x \in BOOLEAN, NEW b \in Nat, NEW s, Sound(s, x, b),
           NEW t, t = NoAccept(s)
    PROVE  /\ Sound(t, x, b)
           /\ "noaccept" \notin s.m.flags => t = s
           /\ t.m.up = s.m.up /\ t.m.cycle = s.m.cycle
<1>1. CASE "noaccept" \in s.m.flags
  <2> DEFINE u == Clear(s, "noaccept")
             v == [u EXCEPT !.m.noaccepting = TRUE]
  <2>1. s \in State
    BY DEF Sound
  <2>2. /\ u \in State /\ u.m.flags = s.m.flags \ {"noaccept"}
        /\ u.m.table = s.m.table /\ u.m.last = s.m.last /\ u.m.refused = s.m.refused
        /\ u.child = s.child /\ u.m.up = s.m.up /\ u.m.live = s.m.live
        /\ u.m.cycle = s.m.cycle /\ u.m.uncounted = s.m.uncounted /\ u.forks = s.forks
    BY <2>1, ClearFacts
  <2>3. t = SignalWorkers(v, "quit") /\ "quit" \in Command
    BY <1>1 DEF NoAccept, Command
  <2> HIDE DEF u
  <2>5. /\ SameChildren(u, v) /\ v.m.noaccepting
        /\ v.m.live = u.m.live /\ v.m.uncounted = u.m.uncounted
    BY <2>2, NoAcceptingFacts
  <2> HIDE DEF v
  <2>6. Sound(v, x, b)
    BY <2>2, <2>5, OtherFlags DEF SameChildren
  <2>7. ~Obliged(v)
    BY <2>5 DEF Obliged
  <2>8. Sound(t, x, b)
    BY <2>3, <2>6, <2>7, SignalSound
  <2>9. t.m.up = v.m.up /\ t.m.cycle = v.m.cycle
    BY <2>3, <2>5, SignalFacts DEF SameChildren
  <2> QED  BY <1>1, <2>2, <2>5, <2>8, <2>9 DEF SameChildren
<1>2. CASE "noaccept" \notin s.m.flags
  BY <1>2 DEF NoAccept
<1> QED  BY <1>1, <1>2

\* The entry of a new binary.
Binary == [Unused EXCEPT !.used = TRUE, !.detached = TRUE]

\* new_binary is set.
LEMMA BinaryFacts ==
    ASSUME NEW v \in State, NEW n \in {"none", "running", "failed"},
           NEW t, t = [v EXCEPT !.m.new_binary = n]
    PROVE  /\ SameChildren(v, t) /\ t.m.noaccepting = v.m.noaccepting
           /\ t.m.live = v.m.live /\ t.m.uncounted = v.m.uncounted
<1>1. /\ t.m = [v.m EXCEPT !.new_binary = n]
      /\ t = [m |-> t.m, child |-> v.child, forks |-> v.forks, conf |-> v.conf]
  BY DEF State
<1>2. /\ t.m \in Master /\ t.m.noaccepting = v.m.noaccepting
      /\ t.m.live = v.m.live /\ t.m.uncounted = v.m.uncounted
      /\ t.m.table = v.m.table /\ t.m.last = v.m.last
      /\ t.m.cycle = v.m.cycle /\ t.m.refused = v.m.refused
      /\ t.m.flags = v.m.flags /\ t.m.up = v.m.up
  <2>1. v.m \in Master
    BY StateParts
  <2> QED  BY <1>1, <2>1 DEF Master
<1>3. t \in State /\ t.child = v.child /\ t.forks = v.forks
  BY <1>1, <1>2 DEF State
<1> QED  BY <1>2, <1>3 DEF SameChildren

\* A new binary is started beside the workers.
LEMMA SpawnBinarySound ==
    ASSUME NEW x \in BOOLEAN, NEW b \in Nat, NEW s, Sound(s, x, b),
           NEW t, t = Spawn(s, Binary)
    PROVE  Sound(t, x, b) /\ SameMaster(s, t) /\ (Handed(s) => Handed(t))
<1>1. s \in State /\ \A i \in Slot : Fits(s, i, x) /\ ~s.m.table[i].just_spawn
  BY DEF Sound, Row
<1>2. /\ Binary \in Entry /\ Binary.used /\ Binary.detached /\ ~Binary.just_spawn
      /\ ~Binary.exiting /\ ~Binary.exited
  BY DEF Binary, Unused, Entry
<1>3. Grown(s, t, Binary)
  BY <1>1, <1>2, SpawnFacts DEF Fits
<1>4. /\ t \in State /\ \A i \in Slot : Fits(t, i, x)
      /\ Cardinality(ServingIn(s)) <= Cardinality(ServingIn(t))
      /\ Counted(t)
      /\ Handed(s) => Handed(t)
  BY <1>1, <1>2, <1>3, GrownRows DEF Sound
<1>5. /\ SameMaster(s, t) /\ (s.m.refused => t.m.refused)
      /\ \A i \in Slot : SameSlot(s, t, i) \/ NewIn(s, t, i, Binary)
  BY <1>3 DEF Grown
<1>6. \A i \in Slot : Row(t, i, x)
  BY <1>1, <1>2, <1>4, <1>5 DEF Row, SameSlot, NewIn
<1>7. /\ t.m.flags = s.m.flags /\ t.m.noaccepting = s.m.noaccepting
      /\ t.m.cycle = s.m.cycle /\ t.forks = s.forks
  BY <1>5 DEF SameMaster
<1>8. Ample(t, x)
  <2> SUFFICES ASSUME Obliged(t), ~x PROVE Cardinality(ServingIn(t)) >= NWorkers
    BY DEF Ample
  <2>1. Obliged(s)
    BY <1>5, <1>7 DEF Obliged
  <2>2. Cardinality(ServingIn(s)) >= NWorkers
    BY <2>1 DEF Sound, Ample
  <2>3. /\ Cardinality(ServingIn(s)) \in Nat /\ Cardinality(ServingIn(t)) \in Nat
        /\ NWorkers \in Nat
    BY <1>1, <1>4, Numbers
  <2> QED  BY <1>4, <2>2, <2>3
<1>9. Due(t) <= b /\ (~t.forks => x)
  BY <1>7 DEF Due, Sound
<1> QED  BY <1>4, <1>5, <1>6, <1>8, <1>9 DEF Sound

\* ngx_exec_new_binary.
LEMMA ChangeBinaryFacts ==
    ASSUME NEW x \in BOOLEAN, NEW b \in Nat, NEW s, Sound(s, x, b),
           NEW t, t = ChangeBinary(s)
    PROVE  /\ Sound(t, x, b) /\ (Handed(s) => Handed(t))
           /\ t.m.up = s.m.up /\ t.m.cycle = s.m.cycle /\ t.m.flags \subseteq s.m.flags
<1>1. CASE "changebin" \in s.m.flags
  <2> DEFINE u == Clear(s, "changebin")
             v == Spawn(u, Binary)
             n == IF v.child = s.child THEN "failed" ELSE "running"
  <2>1. s \in State
    BY DEF Sound
  <2>2. /\ u \in State /\ u.m.flags = s.m.flags \ {"changebin"}
        /\ u.m.table = s.m.table /\ u.m.last = s.m.last /\ u.m.refused = s.m.refused
        /\ u.child = s.child /\ u.m.up = s.m.up /\ u.m.live = s.m.live
        /\ u.m.noaccepting = s.m.noaccepting
        /\ u.m.cycle = s.m.cycle /\ u.m.uncounted = s.m.uncounted /\ u.forks = s.forks
    BY <2>1, ClearFacts
  <2>3. t = [v EXCEPT !.m.new_binary = n]
    BY <1>1 DEF ChangeBinary, Binary
  <2>4. n \in {"none", "running", "failed"}
    OBVIOUS
  <2> HIDE DEF n, u
  <2>5. Sound(u, x, b) /\ (Handed(s) => Handed(u))
    BY <2>2, OtherFlags
  <2>6. Sound(v, x, b) /\ SameMaster(u, v) /\ (Handed(u) => Handed(v))
    BY <2>5, SpawnBinarySound
  <2> HIDE DEF v
  <2>7. v \in State
    BY <2>6 DEF Sound
  <2>8. /\ SameChildren(v, t) /\ t.m.noaccepting = v.m.noaccepting
        /\ t.m.live = v.m.live /\ t.m.uncounted = v.m.uncounted
    BY ONLY <2>3, <2>4, <2>7, BinaryFacts
  <2>9. Sound(t, x, b) /\ (Handed(v) => Handed(t))
    BY <2>6, <2>8, OtherFlags DEF SameChildren
  <2>10. t.m.up = s.m.up /\ t.m.cycle = s.m.cycle /\ t.m.flags \subseteq s.m.flags
    BY <2>2, <2>6, <2>8 DEF SameChildren, SameMaster
  <2> QED  BY <2>5, <2>6, <2>9, <2>10
<1>2. CASE "changebin" \notin s.m.flags
  BY <1>2 DEF ChangeBinary
<1> QED  BY <1>1, <1>2

\* What follows the reload in the body.
LEMMA RestFacts ==
    ASSUME NEW x \in BOOLEAN, NEW b \in Nat, NEW s, Sound(s, x, b),
           NEW t, t = Rest(s)
    PROVE  /\ Sound(t, x, b)
           /\ "noaccept" \notin s.m.flags /\ Handed(s) => Handed(t)
           /\ t.m.up = s.m.up /\ t.m.cycle = s.m.cycle
<1> DEFINE u == Restart(s)
           v == Reopen(u)
           w == ChangeBinary(v)
<1>1. t = NoAccept(w)
  BY DEF Rest
<1>2. /\ Sound(u, x, b) /\ (Handed(s) => Handed(u))
      /\ u.m.up = s.m.up /\ u.m.cycle = s.m.cycle /\ u.m.flags \subseteq s.m.flags
  BY RestartFacts
<1> HIDE DEF u
<1>3. /\ Sound(v, x, b) /\ (Handed(u) => Handed(v))
      /\ v.m.up = u.m.up /\ v.m.cycle = u.m.cycle
      /\ v.m.flags \subseteq u.m.flags \cup {"reap"}
  BY <1>2, ReopenFacts
<1> HIDE DEF v
<1>4. /\ Sound(w, x, b) /\ (Handed(v) => Handed(w))
      /\ w.m.up = v.m.up /\ w.m.cycle = v.m.cycle /\ w.m.flags \subseteq v.m.flags
  BY <1>3, ChangeBinaryFacts
<1> HIDE DEF w
<1>5. /\ Sound(t, x, b) /\ ("noaccept" \notin w.m.flags => t = w)
      /\ t.m.up = w.m.up /\ t.m.cycle = w.m.cycle
  BY <1>1, <1>4, NoAcceptFacts
<1>6. "noaccept" \notin s.m.flags => "noaccept" \notin w.m.flags
  BY <1>2, <1>3, <1>4
<1> QED  BY <1>2, <1>3, <1>4, <1>5, <1>6

\* A reload: the new workers serve, all others are told to quit.
LEMMA ReloadFacts ==
    ASSUME NEW x \in BOOLEAN, NEW b \in 0 .. MaxSignals, NEW s, Sound(s, x, b),
           "reconfigure" \in s.m.flags, NEW t, t = Reload(s)
    PROVE  /\ Sound(t, x, b) /\ Handed(t)
           /\ t.m.up = s.m.up /\ t.m.flags \subseteq s.m.flags \cup {"reap"}
<1> DEFINE c == Clear(s, "reconfigure")
           u == [c EXCEPT !.m.cycle = @ + 1]
           v == StartWorkers(u, TRUE)
           w == [v EXCEPT !.m.live = TRUE, !.m.uncounted = FALSE]
           e == Worker(TRUE)
<1>1. s \in State
  BY DEF Sound
<1>2. /\ c \in State /\ c.m.flags = s.m.flags \ {"reconfigure"}
      /\ c.m.table = s.m.table /\ c.m.last = s.m.last /\ c.m.refused = s.m.refused
      /\ c.child = s.child /\ c.m.up = s.m.up
      /\ c.m.noaccepting = s.m.noaccepting /\ c.m.cycle = s.m.cycle /\ c.forks = s.forks
  BY <1>1, ClearFacts
<1>3. t = SignalWorkers(w, "quit") /\ "quit" \in Command
  BY DEF Reload, Command
<1>4. s.m.cycle \in Nat /\ s.m.cycle + 1 <= b /\ b \in Nat /\ s.m.cycle + 1 \in 0 .. MaxSignals
  <2>1. s.m.cycle \in Nat /\ MaxSignals \in Nat
    BY <1>1, Numbers
  <2>2. s.m.cycle + 1 <= b
    BY DEF Due, Sound
  <2> QED  BY <2>1, <2>2
<1> HIDE DEF c
<1>5. /\ u \in State /\ u.m.flags = s.m.flags \ {"reconfigure"}
      /\ u.m.table = s.m.table /\ u.m.last = s.m.last /\ u.m.refused = s.m.refused
      /\ u.child = s.child /\ u.m.up = s.m.up
      /\ u.m.noaccepting = s.m.noaccepting /\ u.m.cycle = s.m.cycle + 1
      /\ u.forks = s.forks
  <2> DEFINE k == s.m.cycle + 1
             mm == [c.m EXCEPT !.cycle = k]
  <2>1. c \in State /\ c.m \in Master /\ k \in 0 .. MaxSignals
    BY <1>2, <1>4, StateParts
  <2>2. u = [c EXCEPT !.m = [c.m EXCEPT !.cycle = s.m.cycle + 1]]
    BY <1>2 DEF State
  <2> HIDE DEF k, u
  <2>3. /\ mm \in Master /\ mm.flags = c.m.flags /\ mm.table = c.m.table
        /\ mm.last = c.m.last /\ mm.refused = c.m.refused /\ mm.up = c.m.up
        /\ mm.noaccepting = c.m.noaccepting /\ mm.cycle = k
    BY <2>1 DEF Master
  <2> HIDE DEF mm
  <2>4. u = [m |-> mm, child |-> c.child, forks |-> c.forks, conf |-> c.conf]
    BY <2>1, <2>2 DEF State, mm, k
  <2>5. u \in State /\ u.m = mm /\ u.child = c.child /\ u.forks = c.forks
    BY <2>1, <2>3, <2>4 DEF State
  <2> QED  BY <1>2, <2>3, <2>5 DEF k
<1> HIDE DEF u
<1>6. \A i \in Slot : Row(s, i, x)
  BY DEF Sound
<1>7. \A i \in Slot : /\ Fits(u, i, x)
                      /\ ~u.m.table[i].just_spawn
                      /\ u.child[i].cycle < u.m.cycle
  <2>1. \A i \in Slot : s.child[i].cycle \in Nat
    BY <1>1, Numbers
  <2> QED  BY <1>4, <1>5, <1>6, <2>1 DEF Row, Fits
<1>8. /\ e \in Entry /\ e.used /\ e.respawn /\ e.just_spawn
      /\ ~e.exiting /\ ~e.exited /\ ~e.detached
  BY WorkerFacts
<1>9. /\ Grown(u, v, e)
      /\ v.m.refused \/ ~u.forks \/ Cardinality(NewSlots(u, v, e)) >= NWorkers
  BY <1>5, <1>7, StartFacts DEF Fits
<1> HIDE DEF e
<1>10. /\ v \in State /\ \A i \in Slot : Fits(v, i, x)
       /\ NewSlots(u, v, e) \subseteq ServingIn(v)
  BY <1>5, <1>7, <1>8, <1>9, GrownRows
<1> HIDE DEF v
<1>11. SameChildren(v, w) /\ w.m.live
  BY <1>10, LiveFacts
<1>12. /\ w \in State /\ w.m.table = v.m.table /\ w.m.last = v.m.last /\ w.child = v.child
       /\ w.m.cycle = v.m.cycle /\ w.m.refused = v.m.refused /\ w.forks = v.forks
       /\ w.m.flags = v.m.flags /\ w.m.up = v.m.up
  BY <1>11 DEF SameChildren
<1>13. (\A i \in Slot : Fits(w, i, x)) /\ Counted(w)
  BY <1>10, <1>11, <1>12 DEF Fits, Counted
<1> HIDE DEF w
<1>14. (\A i \in Slot : Row(t, i, x)) /\ Counted(t)
  BY <1>3, <1>12, <1>13, SignalRows
<1>15. /\ t \in State /\ t.m.flags \subseteq w.m.flags \cup {"reap"}
       /\ t.m.up = w.m.up /\ t.m.refused = w.m.refused /\ t.m.cycle = w.m.cycle
       /\ t.forks = w.forks /\ t.m.last = w.m.last
       /\ \A i \in Slot : Told(w, t, "quit", i)
  BY <1>3, <1>12, SignalFacts
<1>16. /\ v.m.flags = u.m.flags /\ v.m.up = u.m.up /\ v.m.cycle = u.m.cycle
       /\ v.forks = u.forks
       /\ \A i \in Slot : SameSlot(u, v, i) \/ NewIn(u, v, i, e)
  BY <1>9 DEF Grown, SameMaster
<1>17. Due(t) <= b
  <2>1. "reconfigure" \notin t.m.flags /\ t.m.cycle = s.m.cycle + 1
    BY <1>5, <1>12, <1>15, <1>16
  <2> QED  BY <1>4, <2>1 DEF Due
<1>18. ASSUME NEW i \in Slot, NewIn(u, v, i, e)
       PROVE  ~t.m.table[i].exiting /\ t.m.table[i].used /\ ~t.m.table[i].detached
  <2>1. w.m.table[i] = e
    BY <1>12, <1>18 DEF NewIn
  <2>2. ~Addressed(w, i, "quit")
    BY <1>8, <2>1 DEF Addressed
  <2> QED  BY <1>8, <1>15, <2>1, <2>2 DEF Told
<1>19. Handed(t)
  <2> SUFFICES ASSUME NEW i \in Slot, t.m.table[i].used, ~t.m.table[i].detached,
                      t.child[i].st # "none"
               PROVE  t.m.table[i].exiting <=> t.child[i].cycle < t.m.cycle
    BY DEF Handed
  <2>1. Told(w, t, "quit", i) /\ t.m.cycle = u.m.cycle
    BY <1>12, <1>15, <1>16
  <2>2. CASE SameSlot(u, v, i)
    <3>1. t.child[i].cycle < t.m.cycle
      BY <1>7, <1>12, <2>1, <2>2 DEF Told, SameSlot
    <3>2. w.child[i].st # "none" /\ ~Gone(w, i, "quit")
      BY <2>1 DEF Told, Gone
    <3>3. /\ w.m.table[i].used /\ ~w.m.table[i].detached /\ ~w.m.table[i].just_spawn
          /\ i < w.m.last
      BY <1>7, <1>12, <1>13, <2>1, <2>2 DEF Told, SameSlot, Fits
    <3>4. w.m.table[i].exiting \/ Addressed(w, i, "quit")
      BY <3>3 DEF Addressed
    <3> QED  BY <2>1, <3>1, <3>2, <3>4 DEF Told
  <2>3. CASE NewIn(u, v, i, e)
    <3>1. t.child[i].cycle = u.m.cycle
      BY <1>5, <1>12, <2>1, <2>3, ForkedFacts DEF Told, NewIn
    <3>2. u.m.cycle \in Nat
      BY <1>4, <1>5
    <3> QED  BY <1>18, <2>1, <2>3, <3>1, <3>2
  <2> QED  BY <1>16, <2>2, <2>3
<1>20. Ample(t, x)
  <2> SUFFICES ASSUME Obliged(t), ~x PROVE Cardinality(ServingIn(t)) >= NWorkers
    BY DEF Ample
  <2>1. ~v.m.refused /\ u.forks
    BY <1>5, <1>12, <1>15 DEF Obliged, Sound
  <2>2. NewSlots(u, v, e) \subseteq ServingIn(t)
    BY <1>18 DEF NewSlots, ServingIn
  <2> DEFINE a == Cardinality(NewSlots(u, v, e))
             k == Cardinality(ServingIn(t))
  <2>3. a >= NWorkers
    BY <1>9, <2>1, Zenon
  <2>4. NWorkers \in Nat /\ IsFiniteSet(ServingIn(t)) /\ k \in Nat
    BY <1>15, Numbers
  <2>5. a <= k /\ a \in Nat
    BY <2>2, <2>4, FS_Subset, FS_CardinalityType
  <2> HIDE DEF a, k
  <2>6. k >= NWorkers
    BY <2>3, <2>4, <2>5
  <2> QED  BY <2>6 DEF k
<1>21. ~t.forks => x
  BY <1>5, <1>12, <1>15, <1>16 DEF Sound
<1> QED  BY <1>5, <1>12, <1>14, <1>15, <1>16, <1>17, <1>19, <1>20, <1>21 DEF Sound


\* ngx_master_process_exit changes nothing the children notice.
LEMMA ExitFacts ==
    ASSUME NEW x \in BOOLEAN, NEW b \in Nat, NEW s, Sound(s, x, b),
           NEW t, t = MasterExit(s)
    PROVE  Sound(t, x, b) /\ t.m.cycle = s.m.cycle /\ t.m.live = s.m.live
<1>1. s \in State
  BY DEF Sound
<1> DEFINE mm == [s.m EXCEPT !.up = FALSE]
<1>2. t = [m |-> mm, child |-> s.child, forks |-> s.forks, conf |-> s.conf]
  BY <1>1 DEF MasterExit, State
<1>3. /\ mm \in Master
      /\ mm.table = s.m.table /\ mm.last = s.m.last
      /\ mm.live = s.m.live /\ mm.uncounted = s.m.uncounted /\ mm.cycle = s.m.cycle
      /\ mm.refused = s.m.refused /\ mm.noaccepting = s.m.noaccepting
      /\ mm.flags = s.m.flags
  <2>1. s.m \in Master
    BY <1>1, StateParts
  <2> QED  BY <2>1 DEF Master
<1> HIDE DEF mm
<1>4. t \in State /\ t.m = mm /\ t.child = s.child /\ t.forks = s.forks
  BY <1>1, <1>2, <1>3, StateParts DEF State
<1> QED  BY <1>3, <1>4, OtherFlags

\* The loop body: whatever it does, the invariant holds after it; it ends the master only
\* with live unset; and if it loads a configuration it hands over.
LEMMA BodyFacts ==
    ASSUME NEW x \in BOOLEAN, NEW b \in 0 .. MaxSignals, NEW s, Sound(s, x, b),
           NEW t, t = Body(s)
    PROVE  /\ Sound(t, x, b)
           /\ t.m.up = s.m.up \/ ~t.m.live
           /\ t.m.cycle = s.m.cycle \/ "noaccept" \in s.m.flags \/ Handed(t)
<1> DEFINE r == Reap(s)
<1>0. b \in Nat
  BY MasterAssumption
<1>1. /\ Sound(r, x, b) /\ r.m.up = s.m.up /\ r.m.cycle = s.m.cycle
      /\ r.m.flags \subseteq s.m.flags \cup {"restart"}
  BY <1>0, ReapFacts
<1>2. t = CASE Leaves(r)                    -> MasterExit(r)
            [] "terminate" \in r.m.flags    -> Terminate(r)
            [] "quit" \in r.m.flags         -> SignalWorkers(r, "quit")
            [] "reconfigure" \in r.m.flags  ->
                  IF r.m.new_binary # "none" THEN ReloadBesideBinary(r)
                  ELSE IF r.conf THEN Rest(Reload(r))
                  ELSE Clear(r, "reconfigure")
            [] OTHER                        -> Rest(r)
  BY DEF Body
<1> HIDE DEF r
<1>3. r \in State
  BY <1>1 DEF Sound
<1>4. CASE Leaves(r) /\ t = MasterExit(r)
  <2>1. Sound(t, x, b) /\ t.m.cycle = r.m.cycle /\ t.m.live = r.m.live
    BY <1>0, <1>1, <1>4, ExitFacts
  <2>2. ~r.m.live
    BY <1>4 DEF Leaves
  <2> QED  BY <1>1, <2>1, <2>2
<1>5. CASE "terminate" \in r.m.flags /\ t = Terminate(r)
  <2>1. Sound(t, x, b) /\ t.m.up = r.m.up /\ t.m.cycle = r.m.cycle
    BY <1>0, <1>1, <1>5, TerminateFacts
  <2> QED  BY <1>1, <2>1
<1>6. CASE "quit" \in r.m.flags /\ t = SignalWorkers(r, "quit")
  <2>1. ~Obliged(r) /\ "quit" \in Command
    BY <1>6 DEF Obliged, Command
  <2>2. Sound(t, x, b)
    BY <1>0, <1>1, <1>6, <2>1, SignalSound
  <2>3. t.m.up = r.m.up /\ t.m.cycle = r.m.cycle
    BY <1>3, <1>6, <2>1, SignalFacts
  <2> QED  BY <1>1, <2>2, <2>3
<1>7. CASE t = ReloadBesideBinary(r)
  <2>1. Sound(t, x, b) /\ t.m.up = r.m.up /\ t.m.cycle = r.m.cycle
    BY <1>0, <1>1, <1>7, BesideFacts
  <2> QED  BY <1>1, <2>1
<1>8. CASE "reconfigure" \in r.m.flags /\ t = Rest(Reload(r))
  <2> DEFINE u == Reload(r)
  <2>1. /\ Sound(u, x, b) /\ Handed(u)
        /\ u.m.up = r.m.up /\ u.m.flags \subseteq r.m.flags \cup {"reap"}
    BY <1>1, <1>8, ReloadFacts
  <2>2. t = Rest(u)
    BY <1>8
  <2> HIDE DEF u
  <2>3. /\ Sound(t, x, b)
        /\ "noaccept" \notin u.m.flags /\ Handed(u) => Handed(t)
        /\ t.m.up = u.m.up
    BY <1>0, <2>1, <2>2, RestFacts
  <2>4. "noaccept" \in u.m.flags => "noaccept" \in s.m.flags
    BY <1>1, <2>1
  <2> QED  BY <1>1, <2>1, <2>3, <2>4
<1>9. CASE t = Clear(r, "reconfigure")
  <2>1. /\ t \in State /\ t.m.flags = r.m.flags \ {"reconfigure"}
        /\ t.m.table = r.m.table /\ t.m.last = r.m.last /\ t.m.refused = r.m.refused
        /\ t.child = r.child /\ t.m.up = r.m.up /\ t.m.live = r.m.live
        /\ t.m.noaccepting = r.m.noaccepting
        /\ t.m.cycle = r.m.cycle /\ t.m.uncounted = r.m.uncounted /\ t.forks = r.forks
    BY <1>3, <1>9, ClearFacts
  <2>2. Sound(t, x, b)
    BY <1>0, <1>1, <2>1, OtherFlags
  <2> QED  BY <1>1, <2>1, <2>2
<1>10. CASE t = Rest(r)
  <2>1. Sound(t, x, b) /\ t.m.up = r.m.up /\ t.m.cycle = r.m.cycle
    BY <1>0, <1>1, <1>10, RestFacts
  <2> QED  BY <1>1, <2>1
<1>11. \/ Leaves(r) /\ t = MasterExit(r)
       \/ "terminate" \in r.m.flags /\ t = Terminate(r)
       \/ "quit" \in r.m.flags /\ t = SignalWorkers(r, "quit")
       \/ t = ReloadBesideBinary(r)
       \/ "reconfigure" \in r.m.flags /\ t = Rest(Reload(r))
       \/ t = Clear(r, "reconfigure")
       \/ t = Rest(r)
  BY <1>2
<1> QED  BY <1>4, <1>5, <1>6, <1>7, <1>8, <1>9, <1>10, <1>11

-----------------------------------------------------------------------------
(* The steps.                                                              *)

\* A wakeup that starts in an orderly state.
LEMMA WakeFacts ==
    ASSUME NEW x \in BOOLEAN, NEW b \in 0 .. MaxSignals, NEW s, Sound(s, x, b),
           TypeOK, Due(s) + (IF "reconfigure" \in pending THEN 1 ELSE 0) <= b,
           NEW t, t = Top(Body(Handled(s)))
    PROVE  /\ Sound(t, x, b)
           /\ t.m.up = s.m.up \/ ~t.m.live
           /\ t.m.cycle = s.m.cycle \/ "noaccept" \in pending \cup s.m.flags \/ Handed(t)
<1> DEFINE u == Handled(s)
           v == Body(u)
<1>0. b \in Nat
  BY MasterAssumption
<1>1. /\ Sound(u, x, b) /\ u.m.up = s.m.up /\ u.m.cycle = s.m.cycle
      /\ u.m.flags \subseteq s.m.flags \cup pending \cup {"reap"}
  BY <1>0, HandledFacts
<1> HIDE DEF u
<1>2. /\ Sound(v, x, b) /\ (v.m.up = u.m.up \/ ~v.m.live)
      /\ v.m.cycle = u.m.cycle \/ "noaccept" \in u.m.flags \/ Handed(v)
  BY <1>1, BodyFacts
<1>3. t = Top(v)
  BY DEF u
<1> HIDE DEF v
<1>4. /\ Sound(t, x, b) /\ (Handed(v) => Handed(t))
      /\ t.m.up = v.m.up /\ t.m.cycle = v.m.cycle /\ t.m.live = v.m.live
  BY <1>0, <1>2, <1>3, TopFacts
<1> QED  BY <1>1, <1>2, <1>4


\* The children of one state and of another, with the same master, that may have ended,
\* and where more may have gone wrong.
LEMMA KidsSound ==
    ASSUME NEW x \in BOOLEAN, NEW y \in BOOLEAN, x => y,
           NEW b \in Nat, NEW c \in Nat, b <= c,
           NEW s, Sound(s, x, b), NEW t \in State, t.m = s.m, ~t.forks => y,
           \A i \in Slot : /\ t.child[i].st # "none" => s.child[i].st # "none"
                           /\ t.child[i].cycle = s.child[i].cycle
                           /\ t.child[i].fatal => s.child[i].fatal \/ y
    PROVE  Sound(t, y, c)
<1>1. \A i \in Slot : Row(t, i, y)
  <2>1. \A i \in Slot : Row(s, i, x)
    BY DEF Sound
  <2> QED  BY <2>1 DEF Row, Fits
<1>2. Counted(t)
  BY DEF Sound, Counted
<1>3. Ample(t, y)
  <2>1. ServingIn(t) = ServingIn(s) /\ (Obliged(t) => Obliged(s))
    BY DEF ServingIn, Obliged
  <2> QED  BY <2>1 DEF Ample, Sound
<1>4. Due(t) <= c
  <2>1. Due(s) \in Nat /\ Due(s) <= b /\ Due(t) = Due(s)
    BY Numbers DEF Sound, Due
  <2> QED  BY <2>1
<1> QED  BY <1>1, <1>2, <1>3, <1>4 DEF Sound

\* The state between two wakeups.
LEMMA BetweenFacts ==
    ASSUME TypeOK
    PROVE  /\ Spoilt \in BOOLEAN /\ Between \in State
           /\ Between.m = m /\ Between.child = child /\ Between.forks = ~Spoilt
           /\ sent \in Nat /\ MaxSignals \in Nat
BY MasterAssumption DEF TypeOK, State, Between, Spoilt

\* The invariant in the next state, of its parts.
LEMMA BetweenPrime ==
    ASSUME NEW s, Sound(s, Spoilt', sent), TypeOK', sent \in Nat, sent' \in Nat,
           sent <= sent', m' = s.m, child' = s.child
    PROVE  Sound(Between', Spoilt', sent')
<1>1. /\ Spoilt' \in BOOLEAN /\ Between' \in State
      /\ Between'.m = m' /\ Between'.child = child' /\ (~Between'.forks => Spoilt')
  BY DEF TypeOK, State, Between, Spoilt
<1> QED  BY <1>1, KidsSound

\* The master wakes.
LEMMA WakeStep ==
    ASSUME MasterInv, Wake
    PROVE  /\ MasterInv'
           /\ \/ m'.cycle = m.cycle \/ "noaccept" \in pending \cup m.flags
              \/ Handed([m |-> m', child |-> child'])
<1>1. PICK fs \in SUBSET {"fork", "conf"} :
        LET s == Top(Body(Handled([m |-> m, child |-> child,
                                   forks |-> "fork" \notin fs, conf |-> "conf" \notin fs])))
        IN /\ May(fs)
           /\ m' = s.m /\ child' = s.child
           /\ faults' = faults \cup fs
  BY DEF Wake
<1> DEFINE s == [m |-> m, child |-> child,
                 forks |-> "fork" \notin fs, conf |-> "conf" \notin fs]
           t == Top(Body(Handled(s)))
<1>2. May(fs) /\ m' = t.m /\ child' = t.child /\ faults' = faults \cup fs
  BY <1>1
<1>3. /\ TypeOK /\ Sound(Between, Spoilt, sent)
      /\ Due(Between) + (IF "reconfigure" \in pending THEN 1 ELSE 0) <= sent
  BY DEF MasterInv
<1>4. s \in State /\ s.m = m /\ s.child = child
  BY <1>3 DEF TypeOK, State
<1>5. /\ Spoilt \in BOOLEAN /\ Spoilt' \in BOOLEAN /\ (Spoilt => Spoilt')
      /\ ~s.forks => Spoilt'
  BY <1>2 DEF Spoilt
<1>6. sent \in 0 .. MaxSignals /\ sent \in Nat /\ sent' = sent /\ pending' = {} /\ m.up
  BY <1>3, BetweenFacts DEF TypeOK, Wake, Woken
<1> HIDE DEF s
<1>7. Sound(s, Spoilt', sent)
  <2>1. Between.m = m /\ Between.child = child
    BY <1>3, BetweenFacts
  <2>2. s.m = Between.m /\ sent <= sent
    BY <1>4, <1>6, <2>1
  <2>3. \A i \in Slot : /\ s.child[i].st # "none" => Between.child[i].st # "none"
                        /\ s.child[i].cycle = Between.child[i].cycle
                        /\ s.child[i].fatal => Between.child[i].fatal \/ Spoilt'
    BY <1>4, <2>1
  <2> QED  BY <1>3, <1>4, <1>5, <1>6, <2>2, <2>3, KidsSound
<1>8. Due(s) = Due(Between)
  BY <1>3, <1>4, BetweenFacts DEF Due
<1>9. /\ Sound(t, Spoilt', sent)
      /\ t.m.up = s.m.up \/ ~t.m.live
      /\ t.m.cycle = s.m.cycle \/ "noaccept" \in pending \cup s.m.flags \/ Handed(t)
  BY <1>3, <1>5, <1>6, <1>7, <1>8, WakeFacts
<1> HIDE DEF t
<1>10. TypeOK'
  <2>1. m' \in Master /\ child' \in [Slot -> Child]
    BY <1>2, <1>9, StateParts DEF Sound
  <2>2. faults' \in SUBSET Fault /\ Cardinality(faults') <= MaxFaults
    BY <1>2, <1>3 DEF May, TypeOK, Fault
  <2> QED  BY <1>6, <2>1, <2>2 DEF TypeOK
<1>11. Sound(Between', Spoilt', sent')
  BY <1>2, <1>6, <1>9, <1>10, BetweenPrime
<1>12. Due(Between') + (IF "reconfigure" \in pending' THEN 1 ELSE 0) <= sent'
  <2>1. Due(Between') \in Nat /\ Due(Between') <= sent'
    BY <1>11, Numbers DEF Sound
  <2> QED  BY <1>6, <2>1
<1>13. ~m'.up => ~m'.live
  BY <1>2, <1>4, <1>6, <1>9
<1>14. MasterInv'
  BY <1>10, <1>11, <1>12, <1>13 DEF MasterInv
<1>15. Handed(t) => Handed([m |-> m', child |-> child'])
  BY <1>2 DEF Handed
<1> QED  BY <1>2, <1>4, <1>9, <1>14, <1>15

\* A step that leaves the master alone.
LEMMA IdleStep ==
    ASSUME MasterInv, TypeOK', m' = m, sent' \in Nat, sent <= sent',
           Due(Between) + (IF "reconfigure" \in pending' THEN 1 ELSE 0) <= sent',
           Spoilt => Spoilt',
           \A i \in Slot : /\ child'[i].st # "none" => child[i].st # "none"
                           /\ child'[i].cycle = child[i].cycle
                           /\ child'[i].fatal => child[i].fatal \/ Spoilt'
    PROVE  MasterInv'
<1>1. TypeOK /\ Sound(Between, Spoilt, sent) /\ (~m.up => ~m.live)
  BY DEF MasterInv
<1>2. /\ Spoilt' \in BOOLEAN /\ Between' \in State
      /\ Between'.m = m' /\ Between'.child = child' /\ (~Between'.forks => Spoilt')
  BY DEF TypeOK, State, Between, Spoilt
<1>3. Sound(Between', Spoilt', sent')
  BY <1>1, <1>2, BetweenFacts, KidsSound
<1>4. Due(Between') = Due(Between)
  BY <1>1, <1>2, BetweenFacts DEF Due
<1> QED  BY <1>1, <1>3, <1>4 DEF MasterInv

\* A signal or an alarm reaches the master.
LEMMA SignalStep ==
    ASSUME MasterInv, NEW sig \in Operator, AlarmFires \/ Signalled(sig)
    PROVE  MasterInv'
<1>1. /\ TypeOK /\ Sound(Between, Spoilt, sent)
      /\ Due(Between) + (IF "reconfigure" \in pending THEN 1 ELSE 0) <= sent
  BY DEF MasterInv
<1>2. /\ Spoilt \in BOOLEAN /\ sent \in Nat /\ sent \in 0 .. MaxSignals /\ MaxSignals \in Nat
      /\ Due(Between) \in Nat
  BY <1>1, BetweenFacts, Numbers DEF TypeOK
<1>3. CASE AlarmFires
  <2>1. /\ m' = m /\ child' = child /\ sent' = sent /\ faults' = faults
        /\ pending' = pending \cup {"sigalrm"}
    BY <1>3 DEF AlarmFires
  <2>2. TypeOK'
    BY <1>1, <2>1 DEF TypeOK
  <2>3. Due(Between) + (IF "reconfigure" \in pending' THEN 1 ELSE 0) <= sent'
    BY <1>1, <2>1
  <2> QED  BY <1>2, <2>1, <2>2, <2>3, IdleStep DEF Spoilt
<1>4. CASE Signalled(sig)
  <2>1. /\ m' = m /\ child' = child /\ sent' = sent + 1 /\ faults' = faults
        /\ pending' = pending \cup {sig} /\ sent < MaxSignals
    BY <1>4 DEF Signalled
  <2>2. sent' \in 0 .. MaxSignals /\ sent' \in Nat /\ sent <= sent'
    BY <1>2, <2>1
  <2>3. TypeOK'
    BY <1>1, <2>1, <2>2 DEF TypeOK
  <2>4. Due(Between) + (IF "reconfigure" \in pending' THEN 1 ELSE 0) <= sent'
    BY <1>1, <1>2, <2>1
  <2> QED  BY <2>1, <2>2, <2>3, <2>4, IdleStep DEF Spoilt
<1> QED  BY <1>3, <1>4

\* A child dies, hangs or obeys.
LEMMA ChildStep ==
    ASSUME MasterInv, NEW i \in Slot, Dies(i) \/ Hangs(i) \/ Obeys(i)
    PROVE  MasterInv'
<1>1. /\ TypeOK /\ Sound(Between, Spoilt, sent)
      /\ Due(Between) + (IF "reconfigure" \in pending THEN 1 ELSE 0) <= sent
  BY DEF MasterInv
<1>2. sent \in Nat /\ child \in [Slot -> Child] /\ child[i] \in Child
  BY <1>1, BetweenFacts DEF TypeOK
<1>3. /\ m' = m /\ sent' = sent /\ pending' = pending
      /\ faults \subseteq faults' /\ faults' \in SUBSET Fault
      /\ Cardinality(faults') <= MaxFaults
  BY <1>1 DEF Dies, Hangs, Obeys, TakesTerminate, TakesQuit, TakesReopen, Drained,
              May, TypeOK, Fault
<1>4. Spoilt => Spoilt'
  BY <1>3 DEF Spoilt
<1>5. PICK c \in Child : /\ child' = [child EXCEPT ![i] = c]
                         /\ c.cycle = child[i].cycle /\ child[i].st # "none"
                         /\ c.fatal => child[i].fatal \/ Spoilt'
  <2>1. CASE Dies(i)
    <3>1. PICK f \in {"dies", "fatal"} :
            /\ faults' = faults \cup {f}
            /\ child' = [child EXCEPT ![i].st = "zombie", ![i].fatal = (f = "fatal")]
      BY <2>1 DEF Dies
    <3> DEFINE c == [child[i] EXCEPT !.st = "zombie", !.fatal = (f = "fatal")]
    <3>2. c \in Child /\ c.cycle = child[i].cycle /\ c.fatal = (f = "fatal")
      BY <1>2 DEF Child
    <3>3. child' = [child EXCEPT ![i] = c]
      BY <1>2, <3>1
    <3> HIDE DEF c
    <3>4. f = "fatal" => Spoilt'
      BY <3>1 DEF Spoilt
    <3>5. child[i].st # "none"
      BY <2>1 DEF Dies, Alive
    <3> QED  BY <3>2, <3>3, <3>4, <3>5
  <2>2. CASE Hangs(i)
    <3> DEFINE c == [child[i] EXCEPT !.st = "hung"]
    <3>1. child' = [child EXCEPT ![i] = c] /\ child[i].st # "none"
      BY <1>2, <2>2 DEF Hangs, Alive
    <3>2. c \in Child /\ c.cycle = child[i].cycle /\ c.fatal = child[i].fatal
      BY <1>2 DEF Child
    <3> QED  BY <3>1, <3>2
  <2>3. CASE TakesTerminate(i) \/ Drained(i)
    <3> DEFINE c == [child[i] EXCEPT !.st = "zombie"]
    <3>1. child' = [child EXCEPT ![i] = c] /\ child[i].st # "none"
      BY <1>2, <2>3 DEF TakesTerminate, Drained, Alive
    <3>2. c \in Child /\ c.cycle = child[i].cycle /\ c.fatal = child[i].fatal
      BY <1>2 DEF Child
    <3> QED  BY <3>1, <3>2
  <2>4. CASE TakesQuit(i)
    <3> DEFINE c == [child[i] EXCEPT !.st = "drain", !.inbox = child[i].inbox \ {"quit"}]
    <3>1. child' = [child EXCEPT ![i] = c] /\ child[i].st # "none"
      BY <1>2, <2>4 DEF TakesQuit
    <3>2. c \in Child /\ c.cycle = child[i].cycle /\ c.fatal = child[i].fatal
      BY <1>2 DEF Child
    <3> QED  BY <3>1, <3>2
  <2>5. CASE TakesReopen(i)
    <3> DEFINE c == [child[i] EXCEPT !.inbox = child[i].inbox \ {"reopen"}]
    <3>1. child' = [child EXCEPT ![i] = c] /\ child[i].st # "none"
      BY <1>2, <2>5 DEF TakesReopen, Alive
    <3>2. c \in Child /\ c.cycle = child[i].cycle /\ c.fatal = child[i].fatal
      BY <1>2 DEF Child
    <3> QED  BY <3>1, <3>2
  <2> QED  BY <2>1, <2>2, <2>3, <2>4, <2>5 DEF Obeys
<1>6. child' \in [Slot -> Child]
  BY <1>2, <1>5
<1>7. TypeOK'
  BY <1>1, <1>3, <1>6 DEF TypeOK
<1>8. \A j \in Slot : /\ child'[j].st # "none" => child[j].st # "none"
                      /\ child'[j].cycle = child[j].cycle
                      /\ child'[j].fatal => child[j].fatal \/ Spoilt'
  BY <1>2, <1>5
<1> QED  BY <1>1, <1>2, <1>3, <1>4, <1>7, <1>8, IdleStep


\* The master has started its workers.
LEMMA InitFacts ==
    ASSUME Init
    PROVE  MasterInv
<1> DEFINE s == [m |-> EmptyTable, child |-> [i \in Slot |-> NoChild],
                 forks |-> TRUE, conf |-> TRUE]
           t == StartWorkers(s, FALSE)
<1>1. m = t.m /\ child = t.child /\ pending = {} /\ sent = 0 /\ faults = {}
  BY DEF Init
<1>0. Spoilt \in BOOLEAN
  BY DEF Spoilt
<1>2. Unused \in Entry /\ NoChild \in Child
  BY MasterAssumption DEF Unused, Entry, NoChild, Child
<1>3. EmptyTable \in Master
  BY <1>2, MasterAssumption DEF EmptyTable, Master
<1>4. s \in State
  BY <1>2, <1>3 DEF State
<1>5. /\ s.m.flags = {} /\ s.m.cycle = 0 /\ s.m.live /\ s.m.up /\ s.forks
  BY DEF EmptyTable
<1>6. \A i \in Slot : Row(s, i, Spoilt)
  BY DEF Row, Fits, EmptyTable, Unused, NoChild
<1> HIDE DEF s
<1>7. /\ t \in State /\ SameMaster(s, t)
      /\ \A i \in Slot : Row(t, i, Spoilt)
      /\ ~t.m.refused /\ ~Spoilt => Cardinality(ServingIn(t)) >= NWorkers
  BY <1>0, <1>4, <1>5, <1>6, StartSound
<1> HIDE DEF t
<1>8. /\ t.m.flags = {} /\ t.m.cycle = 0 /\ t.m.live /\ t.m.up /\ t.forks
  BY <1>5, <1>7 DEF SameMaster
<1>9. Sound(t, Spoilt, 0)
  <2>1. Counted(t) /\ Due(t) <= 0
    BY <1>8 DEF Counted, Due
  <2>2. Ample(t, Spoilt)
    BY <1>7 DEF Ample, Obliged
  <2>3. ~t.forks => Spoilt
    BY <1>8
  <2> QED  BY <1>7, <2>1, <2>2, <2>3 DEF Sound
<1>10. TypeOK
  <2>1. m \in Master /\ child \in [Slot -> Child]
    BY <1>1, <1>7, StateParts
  <2>2. Cardinality(faults) = 0
    BY <1>1, FS_EmptySet
  <2> QED  BY <1>1, <2>1, <2>2, MasterAssumption DEF TypeOK, Fault
<1>11. /\ Between \in State /\ Between.m = t.m /\ Between.child = t.child
       /\ Spoilt \in BOOLEAN /\ (~Between.forks => Spoilt)
  BY <1>1, <1>10, BetweenFacts
<1>12. Sound(Between, Spoilt, 0)
  BY <1>9, <1>11, KidsSound
<1>13. Due(Between) = 0
  BY <1>8, <1>11 DEF Due
<1>14. Due(Between) + (IF "reconfigure" \in pending THEN 1 ELSE 0) <= sent
  BY <1>1, <1>13
<1>15. m.up
  BY <1>1, <1>8
<1> QED  BY <1>1, <1>10, <1>12, <1>14, <1>15 DEF MasterInv

\* Every step keeps the invariant.
LEMMA NextFacts ==
    ASSUME MasterInv, [Next]_vars
    PROVE  MasterInv'
<1>1. CASE Wake
  BY <1>1, WakeStep
<1>2. CASE AlarmFires
  <2>1. "quit" \in Operator
    BY DEF Operator
  <2> QED  BY <1>2, <2>1, SignalStep
<1>3. CASE \E sig \in Operator : Signalled(sig)
  BY <1>3, SignalStep
<1>4. CASE \E i \in Slot : Dies(i) \/ Hangs(i) \/ Obeys(i)
  BY <1>4, ChildStep
<1>5. CASE UNCHANGED vars
  BY <1>5 DEF vars, MasterInv, TypeOK, Between, Spoilt
<1> QED  BY <1>1, <1>2, <1>3, <1>4, <1>5 DEF Next

-----------------------------------------------------------------------------
(* The theorems.                                                           *)

\* Between two wakeups the master's table is in order (ngx_process_cycle.c:191), for any
\* number of workers and slots, whatever signals, deaths and failing forks came.
THEOREM MasterInvariant == Spec => []MasterInv
<1>1. Init => MasterInv
  BY InitFacts
<1>2. MasterInv /\ [Next]_vars => MasterInv'
  BY NextFacts
<1> QED  BY <1>1, <1>2, PTL DEF Spec

\* Every process the master started stays in the part of ngx_processes that it looks at
\* (ngx_reap_children, ngx_process_cycle.c:691).
THEOREM ChildrenCorrect == Spec => []ChildrenTracked
<1>1. MasterInv => ChildrenTracked
  <2> SUFFICES ASSUME MasterInv PROVE ChildrenTracked
    OBVIOUS
  <2>1. TypeOK /\ \A i \in Slot : Row(Between, i, Spoilt)
    BY DEF MasterInv, Sound
  <2>2. Between.m = m /\ Between.child = child
    BY <2>1, BetweenFacts
  <2>3. TableAgrees
    BY <2>1, <2>2 DEF Row, Fits, TableAgrees
  <2> QED  BY <2>1, <2>3 DEF ChildrenTracked
<1> QED  BY <1>1, MasterInvariant, PTL

\* The master leaves no worker behind unless it reloaded beside a new binary after its
\* old workers had gone (ngx_process_cycle.c:238, :304).
THEOREM OrphansCorrect == Spec => []OrphansOnlyBesideBinary
<1>1. MasterInv => OrphansOnlyBesideBinary
  <2> SUFFICES ASSUME MasterInv, ~m.uncounted, ~m.up, NEW i \in Slot, Living(i)
               PROVE  m.table[i].detached
    BY DEF OrphansOnlyBesideBinary, NoWorkerOrphaned
  <2>1. /\ TypeOK /\ \A j \in Slot : Row(Between, j, Spoilt)
        /\ Counted(Between) /\ ~m.live
    BY DEF MasterInv, Sound
  <2>2. Between.m = m /\ Between.child = child
    BY <2>1, BetweenFacts
  <2>3. child[i].st # "none"
    BY DEF Living
  <2>4. m.table[i].used /\ ~m.table[i].exited
    BY <2>1, <2>2, <2>3 DEF Row, Fits
  <2> QED  BY <2>1, <2>2, <2>4 DEF Counted
<1> QED  BY <1>1, MasterInvariant, PTL

\* worker_processes children serve as long as nothing excuses the master: whoever dies is
\* replaced, and who is told to leave has a successor (ngx_process_cycle.c:328, :755).
THEOREM CapacityCorrect == Spec => []Capacity
<1>1. MasterInv => Capacity
  <2> SUFFICES ASSUME MasterInv,
                      m.flags \cap {"quit", "terminate", "restart"} = {}, ~m.noaccepting,
                      faults \cap {"fatal", "fork"} = {}, ~m.refused
               PROVE  Cardinality(Serving) >= NWorkers
    BY DEF Capacity
  <2>1. TypeOK /\ Ample(Between, Spoilt)
    BY DEF MasterInv, Sound
  <2>2. Between.m = m
    BY <2>1, BetweenFacts
  <2>3. Obliged(Between) /\ ~Spoilt
    BY <2>2 DEF Obliged, Spoilt
  <2>4. ServingIn(Between) = Serving
    BY <2>2 DEF ServingIn, Serving, Ours
  <2> QED  BY <2>1, <2>3, <2>4 DEF Ample
<1> QED  BY <1>1, MasterInvariant, PTL

\* A wakeup that loads a new configuration leaves its workers serving and has told all
\* others to quit (ngx_process_cycle.c:328).
THEOREM HandsOverCorrect == Spec => HandsOver
<1> DEFINE A == (m'.cycle > m.cycle /\ "noaccept" \notin pending \cup m.flags) =>
                  \A i \in Slot : (Ours(i) /\ child[i].st # "none")' =>
                     (m'.table[i].exiting <=> child'[i].cycle < m'.cycle)
<1>1. ASSUME MasterInv, [Next]_vars PROVE A
  <2> SUFFICES ASSUME m'.cycle > m.cycle, "noaccept" \notin pending \cup m.flags,
                      NEW i \in Slot, (Ours(i) /\ child[i].st # "none")'
               PROVE  m'.table[i].exiting <=> child'[i].cycle < m'.cycle
    OBVIOUS
  <2>1. m.cycle \in Nat
    <3>1. TypeOK
      BY <1>1 DEF MasterInv
    <3>2. Between \in State /\ Between.m = m
      BY <3>1, BetweenFacts
    <3> QED  BY <3>2, Numbers
  <2>2. CASE Wake
    <3>1. Handed([m |-> m', child |-> child'])
      BY <1>1, <2>1, <2>2, WakeStep
    <3> QED  BY <3>1 DEF Handed, Ours
  <2>3. CASE m' = m
    BY <2>1, <2>3
  <2> QED  BY <1>1, <2>2, <2>3 DEF Next, vars, AlarmFires, Signalled, Dies, Hangs, Obeys,
                TakesTerminate, TakesQuit, TakesReopen, Drained
<1>2. MasterInv /\ [Next]_vars => [A]_vars
  BY <1>1
<1> QED  BY <1>2, MasterInvariant, PTL DEF Spec, HandsOver
=============================================================================
