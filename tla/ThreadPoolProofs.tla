-------------------------- MODULE ThreadPoolProofs --------------------------
(***************************************************************************)
(* Proofs about ThreadPool, for any number of threads and tasks and any    *)
(* queue limit: the counters and wakeups, where the tasks are (on which    *)
(* list, with which thread), what is left when the pool was destroyed, and *)
(* that the pool does what AsyncTasks promises.                            *)
(***************************************************************************)
EXTENDS ThreadPool, Integers, FiniteSets, Functions, TLAPS, SequenceTheorems,
        FiniteSetTheorems

-----------------------------------------------------------------------------
(* Lists.  The task queues are sequences: what linking and unlinking an    *)
(* element does to the set of elements, and that it keeps every element on *)
(* the list once.                                                          *)

\* The empty list.
LEMMA EmptyRange == Range(<<>>) = {} /\ IsInjective(<<>>)
BY DEF Range, IsInjective

\* Linking an element at the end of a list.
LEMMA AppendRange ==
    ASSUME NEW S, NEW s \in Seq(S), NEW e \in S
    PROVE  /\ Range(Append(s, e)) = Range(s) \cup {e}
           /\ IsInjective(s) /\ e \notin Range(s) => IsInjective(Append(s, e))
<1> DEFINE n == Len(s)
           a == Append(s, e)
<1>1. /\ n \in Nat /\ DOMAIN s = 1 .. n /\ DOMAIN a = 1 .. n + 1
      /\ \A i \in 1 .. n : a[i] = s[i]
      /\ a[n + 1] = e
  <2>1. a \in Seq(S) /\ Len(a) = n + 1
    BY AppendProperties
  <2> QED  BY <2>1, AppendProperties, LenProperties
<1> HIDE DEF n, a
<1>2. Range(a) = Range(s) \cup {e}
  <2>1. ASSUME NEW x \in Range(a) PROVE x \in Range(s) \cup {e}
    <3>1. PICK i \in 1 .. n + 1 : x = a[i]
      BY <1>1, <2>1 DEF Range
    <3>2. CASE i \in 1 .. n
      BY <1>1, <3>1, <3>2 DEF Range
    <3>3. CASE i = n + 1
      BY <1>1, <3>1, <3>3
    <3> QED  BY <1>1, <3>2, <3>3
  <2>2. ASSUME NEW x \in Range(s) PROVE x \in Range(a)
    <3>1. PICK i \in 1 .. n : x = s[i]
      BY <1>1, <2>2 DEF Range
    <3>2. i \in 1 .. n + 1 /\ x = a[i]
      BY <1>1, <3>1
    <3> QED  BY <1>1, <3>2 DEF Range
  <2>3. e \in Range(a)
    BY <1>1 DEF Range
  <2> QED  BY <2>1, <2>2, <2>3
<1>3. ASSUME IsInjective(s), e \notin Range(s) PROVE IsInjective(a)
  <2> SUFFICES ASSUME NEW i \in 1 .. n + 1, NEW j \in 1 .. n + 1, a[i] = a[j]
               PROVE  i = j
    BY <1>1 DEF IsInjective
  <2>1. \A k \in 1 .. n : a[k] # e
    BY <1>1, <1>3 DEF Range
  <2>2. CASE i \in 1 .. n /\ j \in 1 .. n
    BY <1>1, <1>3, <2>2 DEF IsInjective
  <2>3. CASE i = n + 1 \/ j = n + 1
    BY <1>1, <2>1, <2>3
  <2> QED  BY <1>1, <2>2, <2>3
<1> QED  BY <1>2, <1>3 DEF a

\* Taking the first element off a list.
LEMMA TailRange ==
    ASSUME NEW S, NEW s \in Seq(S), s # <<>>
    PROVE  /\ Head(s) \in S /\ Head(s) = s[1]
           /\ Range(s) = Range(Tail(s)) \cup {Head(s)}
           /\ IsInjective(s) => IsInjective(Tail(s)) /\ Head(s) \notin Range(Tail(s))
<1> DEFINE n == Len(s)
           u == Tail(s)
<1>1. /\ n \in Nat \ {0} /\ DOMAIN s = 1 .. n /\ DOMAIN u = 1 .. n - 1
      /\ \A i \in 1 .. n - 1 : u[i] = s[i + 1]
      /\ Head(s) = s[1] /\ Head(s) \in S
  <2>1. u \in Seq(S) /\ Len(u) = n - 1
    BY HeadTailProperties
  <2>2. n \in Nat \ {0}
    BY EmptySeq
  <2>3. DOMAIN s = 1 .. n /\ DOMAIN u = 1 .. n - 1
    BY <2>1, <2>2, LenProperties
  <2>4. \A i \in 1 .. n - 1 : u[i] = s[i + 1]
    BY <2>1, HeadTailProperties
  <2>5. Head(s) = s[1] /\ Head(s) \in S
    BY HeadTailProperties
  <2> QED  BY <2>2, <2>3, <2>4, <2>5
<1> HIDE DEF n, u
<1>2. Range(s) = Range(u) \cup {Head(s)}
  <2>1. ASSUME NEW x \in Range(s) PROVE x \in Range(u) \cup {Head(s)}
    <3>1. PICK i \in 1 .. n : x = s[i]
      BY <1>1, <2>1 DEF Range
    <3>2. CASE i = 1
      BY <1>1, <3>1, <3>2
    <3>3. CASE i # 1
      <4>1. i - 1 \in 1 .. n - 1 /\ u[i - 1] = s[i]
        BY <1>1, <3>3
      <4> QED  BY <1>1, <3>1, <4>1 DEF Range
    <3> QED  BY <3>2, <3>3
  <2>2. ASSUME NEW x \in Range(u) PROVE x \in Range(s)
    <3>1. PICK i \in 1 .. n - 1 : x = u[i]
      BY <1>1, <2>2 DEF Range
    <3>2. i + 1 \in 1 .. n /\ x = s[i + 1]
      BY <1>1, <3>1
    <3> QED  BY <1>1, <3>2 DEF Range
  <2>3. Head(s) \in Range(s)
    BY <1>1 DEF Range
  <2> QED  BY <2>1, <2>2, <2>3
<1>3. ASSUME IsInjective(s)
      PROVE  IsInjective(u) /\ Head(s) \notin Range(u)
  <2>1. IsInjective(u)
    <3> SUFFICES ASSUME NEW i \in 1 .. n - 1, NEW j \in 1 .. n - 1, u[i] = u[j]
                 PROVE  i = j
      BY <1>1 DEF IsInjective
    <3>1. i + 1 \in 1 .. n /\ j + 1 \in 1 .. n /\ s[i + 1] = s[j + 1]
      BY <1>1
    <3>2. i + 1 = j + 1
      BY <1>1, <1>3, <3>1 DEF IsInjective
    <3> QED  BY <1>1, <3>2
  <2>2. ASSUME NEW i \in 1 .. n - 1 PROVE u[i] # Head(s)
    <3>1. i + 1 \in 1 .. n /\ 1 \in 1 .. n /\ i + 1 # 1
      BY <1>1
    <3> QED  BY <1>1, <1>3, <3>1 DEF IsInjective
  <2> QED  BY <1>1, <2>1, <2>2 DEF Range
<1> QED  BY <1>1, <1>2, <1>3 DEF u

\* All but the last element: of a list just extended, and of a list whose first
\* element was taken off.
LEMMA FrontOfAppend ==
    ASSUME NEW S, NEW s \in Seq(S), NEW e \in S
    PROVE  /\ SubSeq(Append(s, e), 1, Len(Append(s, e)) - 1) = s
           /\ Append(s, e)[Len(Append(s, e))] = e /\ Append(s, e) # <<>>
<1> DEFINE a == Append(s, e)
           f == SubSeq(a, 1, Len(s))
<1>1. /\ a \in Seq(S) /\ a # <<>> /\ Len(a) = Len(s) + 1 /\ Len(s) \in Nat
      /\ \A i \in 1 .. Len(s) : a[i] = s[i]
      /\ a[Len(s) + 1] = e
  BY AppendProperties, LenProperties
<1> HIDE DEF a
<1>2. \A i \in 1 .. Len(s) : a[i] \in S
  BY <1>1, ElementOfSeq
<1>3. f \in Seq(S) /\ Len(f) = Len(s) /\ \A i \in 1 .. Len(s) : f[i] = s[i]
  BY <1>1, <1>2, SubSeqProperties
<1> HIDE DEF f
<1>4. f = s
  BY <1>3, SeqEqual
<1>5. Len(a) - 1 = Len(s)
  BY <1>1
<1> QED  BY <1>1, <1>4, <1>5 DEF a, f

\* See above: taking off the first element of a list with a last one to spare.
LEMMA FrontOfTail ==
    ASSUME NEW S, NEW s \in Seq(S), s # <<>>, Len(s) # 1
    PROVE  /\ SubSeq(s, 1, Len(s) - 1) # <<>>
           /\ Head(SubSeq(s, 1, Len(s) - 1)) = Head(s)
           /\ Tail(SubSeq(s, 1, Len(s) - 1)) = SubSeq(Tail(s), 1, Len(Tail(s)) - 1)
           /\ Tail(s) # <<>> /\ Tail(s)[Len(Tail(s))] = s[Len(s)]
<1> DEFINE n == Len(s)
           u == Tail(s)
           f == SubSeq(s, 1, n - 1)
<1>1. /\ n \in Nat /\ n > 1 /\ \A i \in 1 .. n : s[i] \in S
  <2>1. n \in Nat /\ \A i \in 1 .. n : s[i] \in S
    BY LenProperties, ElementOfSeq
  <2>2. n \in Nat \ {0}
    BY EmptySeq
  <2>3. n # 1
    OBVIOUS
  <2> HIDE DEF n
  <2>4. n > 1
    BY <2>2, <2>3
  <2> QED  BY <2>1, <2>4
<1>2. /\ u \in Seq(S) /\ Len(u) = n - 1 /\ \A i \in 1 .. n - 1 : u[i] = s[i + 1]
  BY HeadTailProperties
<1>3. Head(s) = s[1]
  BY TailRange
<1>4. Head(f) = s[1] /\ Tail(f) = SubSeq(s, 2, n - 1)
  BY <1>1, HeadTailOfSubSeq
<1>5. f # <<>>
  <2>1. \A i \in 1 .. n - 1 : s[i] \in S
    BY <1>1
  <2>2. Len(f) = IF 1 <= n - 1 THEN n - 1 - 1 + 1 ELSE 0
    BY <1>1, <2>1, SubSeqProperties
  <2>3. Len(f) # 0
    BY <1>1, <2>2
  <2> QED  BY <2>3, EmptySeq
<1> HIDE DEF n, u, f
<1>6. SubSeq(s, 2, n - 1) = SubSeq(u, 1, n - 2)
  <2>1. \A i \in 2 .. n - 1 : s[i] \in S
    BY <1>1
  <2>2. /\ SubSeq(s, 2, n - 1) \in Seq(S)
        /\ Len(SubSeq(s, 2, n - 1)) = IF 2 <= n - 1 THEN n - 1 - 2 + 1 ELSE 0
        /\ \A i \in 1 .. n - 1 - 2 + 1 : SubSeq(s, 2, n - 1)[i] = s[2 + i - 1]
    BY <1>1, <2>1, SubSeqProperties
  <2>3. \A i \in 1 .. n - 2 : u[i] \in S
    BY <1>1, <1>2
  <2>4. /\ SubSeq(u, 1, n - 2) \in Seq(S)
        /\ Len(SubSeq(u, 1, n - 2)) = IF 1 <= n - 2 THEN n - 2 - 1 + 1 ELSE 0
        /\ \A i \in 1 .. n - 2 - 1 + 1 : SubSeq(u, 1, n - 2)[i] = u[1 + i - 1]
    BY <1>1, <2>3, SubSeqProperties
  <2>5. Len(SubSeq(s, 2, n - 1)) = n - 2 /\ Len(SubSeq(u, 1, n - 2)) = n - 2
    BY <1>1, <2>2, <2>4
  <2>6. ASSUME NEW i \in 1 .. n - 2
        PROVE  SubSeq(s, 2, n - 1)[i] = SubSeq(u, 1, n - 2)[i]
    <3>1. SubSeq(s, 2, n - 1)[i] = s[i + 1]
      BY <1>1, <2>2
    <3>2. SubSeq(u, 1, n - 2)[i] = u[i]
      BY <1>1, <2>4
    <3> QED  BY <1>1, <1>2, <3>1, <3>2
  <2> QED  BY <2>2, <2>4, <2>5, <2>6, SeqEqual
<1>7. u # <<>> /\ u[n - 1] = s[n]
  BY <1>1, <1>2
<1>8. Len(u) - 1 = n - 2
  BY <1>1, <1>2
<1> QED  BY <1>2, <1>3, <1>4, <1>5, <1>6, <1>7, <1>8 DEF n, u, f

-----------------------------------------------------------------------------
(* Type correctness.  TypeOK is not inductive: the task a thread appends to *)
(* the done list must be one, and exits must be below its bound while main  *)
(* waits for a thread to exit.                                              *)

\* A thread of ngx_thread_pool_cycle holds a task exactly while it runs one.
HoldsTask == \A t \in Thread : pc[t] = "run" <=> task[t] # None

\* ngx_thread_pool_destroy waits for an exit only while threads are left.
SpinBound == main = "spin" => exits < Cardinality(Thread)

TypeInv == TypeOK /\ HoldsTask /\ SpinBound

\* Signal and TakeOrWait move one thread; every ThreadState they assign is one.
LEMMA SignalType ==
    ASSUME pc \in [Thread -> ThreadState], Signal
    PROVE  pc' \in [Thread -> ThreadState]
BY DEF Signal, Waiters, In, ThreadState

\* What ngx_thread_task_post does to the queue keeps its type.
LEMMA EnqueueType ==
    ASSUME TypeOK, NEW k \in Task \cup {Exit}, Enqueue(k)
    PROVE  /\ queue' \in Seq(Task \cup {Exit})
           /\ waiting' \in Int
           /\ pc' \in [Thread -> ThreadState]
           /\ task' = task
<1>1. pc' \in [Thread -> ThreadState]
  BY SignalType DEF Enqueue, TypeOK
<1>2. queue' \in Seq(Task \cup {Exit})
  BY AppendProperties DEF Enqueue, TypeOK
<1> QED  BY <1>1, <1>2 DEF Enqueue, TypeOK

\* What the wait loop of ngx_thread_pool_cycle does keeps the types.
LEMMA TakeOrWaitType ==
    ASSUME TypeOK, NEW t \in Thread, TakeOrWait(t)
    PROVE  /\ queue' \in Seq(Task \cup {Exit})
           /\ pc' \in [Thread -> ThreadState]
           /\ task' \in [Thread -> Task \cup {Exit, None}]
<1>1. CASE queue = <<>>
  BY <1>1 DEF TakeOrWait, TypeOK, ThreadState
<1>2. CASE queue # <<>>
  <2>1. Head(queue) \in Task \cup {Exit} /\ Tail(queue) \in Seq(Task \cup {Exit})
    BY <1>2, HeadTailProperties DEF TypeOK
  <2> QED  BY <1>2, <2>1 DEF TakeOrWait, TypeOK, ThreadState
<1> QED  BY <1>1, <1>2

\* A thread leaves the wait loop of ngx_thread_pool_cycle with a task only.
LEMMA TakeOrWaitHolds ==
    ASSUME TypeInv, NEW t \in Thread, pc[t] # "run", TakeOrWait(t)
    PROVE  HoldsTask'
<1>1. CASE queue = <<>>
  BY <1>1 DEF TakeOrWait, TypeInv, TypeOK, HoldsTask
<1>2. CASE queue # <<>>
  <2>1. Head(queue) \in Task \cup {Exit}
    BY <1>2, HeadTailProperties DEF TypeInv, TypeOK
  <2>2. Head(queue) # None
    BY <2>1, PoolAssumption
  <2> QED  BY <1>2, <2>2 DEF TakeOrWait, TypeInv, TypeOK, HoldsTask
<1> QED  BY <1>1, <1>2

\* Waking a waiter gives no thread a task.
LEMMA EnqueueHolds ==
    ASSUME TypeInv, NEW k, Enqueue(k)
    PROVE  HoldsTask'
BY DEF Enqueue, Signal, Waiters, In, TypeInv, TypeOK, HoldsTask

\* The state that ngx_thread_pool_init leaves is well typed.
LEMMA TypeInit == Init => TypeInv
<1> SUFFICES ASSUME Init PROVE TypeInv
  OBVIOUS
<1>1. Cardinality(Thread) \in Nat
  BY PoolAssumption, FS_CardinalityType
<1>2. TypeOK
  <2>1. queue \in Seq(Task \cup {Exit}) /\ done \in Seq(Task) /\ batch \in Seq(Task)
    BY EmptySeq DEF Init
  <2>2. /\ waiting \in Int /\ efd \in Nat
        /\ index \in 0 .. IndexMax - 1 /\ exits \in 0 .. Cardinality(Thread)
    BY <1>1, PoolAssumption DEF Init
  <2>3. /\ pc \in [Thread -> ThreadState]
        /\ task \in [Thread -> Task \cup {Exit, None}]
        /\ active \in [Task -> BOOLEAN]
        /\ edge \in BOOLEAN /\ posted \in BOOLEAN
        /\ main \in MainState /\ lock \in {0, 1} /\ stranded \in SUBSET Task
    BY DEF Init, ThreadState, MainState
  <2> QED  BY <2>1, <2>2, <2>3 DEF TypeOK
<1>3. HoldsTask /\ SpinBound
  BY DEF Init, HoldsTask, SpinBound
<1> QED  BY <1>2, <1>3 DEF TypeInv

\* Every step of the main thread and of the pool threads keeps TypeInv.
LEMMA TypeNext == TypeInv /\ [Next]_vars => TypeInv'
<1> SUFFICES ASSUME TypeInv, [Next]_vars PROVE TypeInv'
  OBVIOUS
<1> USE DEF poolVars, notifyVars, exitVars
<1>0. TypeOK /\ HoldsTask /\ SpinBound /\ Cardinality(Thread) \in Nat
  BY PoolAssumption, FS_CardinalityType DEF TypeInv
<1>1. ASSUME NEW k \in Task, Post(k) PROVE TypeInv'
  <2>1. TypeOK'
    BY <1>0, <1>1, EnqueueType DEF Post, TypeOK
  <2>2. HoldsTask' /\ SpinBound'
    BY <1>0, <1>1, EnqueueHolds DEF Post, SpinBound
  <2> QED  BY <2>1, <2>2 DEF TypeInv
<1>2. ASSUME NEW k \in Task, PostSignalFails(k) PROVE TypeInv'
  BY <1>0, <1>2 DEF PostSignalFails, TypeInv, TypeOK, HoldsTask, SpinBound
<1>3. ASSUME NEW t \in Thread, Fetch(t) PROVE TypeInv'
  <2>1. TypeOK'
    BY <1>0, <1>3, TakeOrWaitType DEF Fetch, TypeOK
  <2>2. HoldsTask' /\ SpinBound'
    BY <1>0, <1>3, TakeOrWaitHolds DEF Fetch, SpinBound
  <2> QED  BY <2>1, <2>2 DEF TypeInv
<1>4. ASSUME NEW t \in Thread, Recheck(t) PROVE TypeInv'
  <2>1. TypeOK'
    BY <1>0, <1>4, TakeOrWaitType DEF Recheck, TypeOK
  <2>2. HoldsTask' /\ SpinBound'
    BY <1>0, <1>4, TakeOrWaitHolds DEF Recheck, SpinBound
  <2> QED  BY <2>1, <2>2 DEF TypeInv
<1>5. ASSUME NEW t \in Thread, Finish(t) PROVE TypeInv'
  <2>1. task[t] \in Task
    BY <1>0, <1>5 DEF Finish, TypeOK, HoldsTask
  <2>2. done' \in Seq(Task)
    BY <1>0, <1>5, <2>1, AppendProperties DEF Finish, TypeOK
  <2> QED  BY <1>0, <1>5, <2>2 DEF Finish, TypeInv, TypeOK, ThreadState, HoldsTask,
                                   SpinBound
<1>6. ASSUME NEW t \in Thread, Notify(t) PROVE TypeInv'
  BY <1>0, <1>6 DEF Notify, TypeInv, TypeOK, ThreadState, HoldsTask, SpinBound
<1>7. ASSUME NEW t \in Thread, ExitThread(t) PROVE TypeInv'
  BY <1>0, <1>7 DEF ExitThread, TypeInv, TypeOK, ThreadState, HoldsTask, SpinBound
<1>8. ASSUME NEW t \in Thread, SpuriousWakeup(t) PROVE TypeInv'
  BY <1>0, <1>8 DEF SpuriousWakeup, TypeInv, TypeOK, ThreadState, HoldsTask,
                    SpinBound
<1>9. CASE EpollWait
  BY <1>0, <1>9 DEF EpollWait, TypeInv, TypeOK, MainState, HoldsTask, SpinBound
<1>10. CASE RunPosted
  BY <1>0, <1>10 DEF RunPosted, TypeInv, TypeOK, MainState, HoldsTask, SpinBound
<1>11. CASE NotifyHandler
  BY <1>0, <1>11, PoolAssumption DEF NotifyHandler, TypeInv, TypeOK, MainState,
                                     HoldsTask, SpinBound
<1>12. CASE TakeDone
  BY <1>0, <1>12, EmptySeq DEF TakeDone, TypeInv, TypeOK, MainState, HoldsTask,
                               SpinBound
<1>13. CASE Complete
  <2>1. Head(batch) \in Task /\ Tail(batch) \in Seq(Task)
    BY <1>0, <1>13, HeadTailProperties DEF Complete, TypeOK
  <2> QED  BY <1>0, <1>13, <2>1 DEF Complete, TypeInv, TypeOK, HoldsTask, SpinBound
<1>14. CASE HandlerReturns
  BY <1>0, <1>14 DEF HandlerReturns, TypeInv, TypeOK, MainState, HoldsTask, SpinBound
<1>15. CASE BeginDestroy
  BY <1>0, <1>15 DEF BeginDestroy, TypeInv, TypeOK, MainState, HoldsTask, SpinBound
<1>16. CASE PostExit
  <2>1. CASE Enqueue(Exit) /\ main' = "spin"
    <3>1. TypeOK'
      BY <1>0, <1>16, <2>1, EnqueueType DEF PostExit, TypeOK, MainState
    <3>2. HoldsTask' /\ SpinBound'
      BY <1>0, <1>16, <2>1, EnqueueHolds DEF PostExit, SpinBound
    <3> QED  BY <3>1, <3>2 DEF TypeInv
  <2>2. CASE main' = "abandoned" /\ UNCHANGED poolVars
    BY <1>0, <1>16, <2>2 DEF PostExit, TypeInv, TypeOK, MainState, HoldsTask,
                             SpinBound
  <2> QED  BY <1>16, <2>1, <2>2 DEF PostExit
<1>17. CASE ExitSeen
  BY <1>0, <1>17 DEF ExitSeen, TypeInv, TypeOK, MainState, HoldsTask, SpinBound
<1>18. CASE EndDestroy
  BY <1>0, <1>18 DEF EndDestroy, TypeInv, TypeOK, MainState, HoldsTask, SpinBound
<1>19. CASE UNCHANGED vars
  BY <1>0, <1>19 DEF vars, TypeInv, TypeOK, HoldsTask, SpinBound
<1> QED
  BY <1>1, <1>2, <1>3, <1>4, <1>5, <1>6, <1>7, <1>8, <1>9, <1>10, <1>11, <1>12,
     <1>13, <1>14, <1>15, <1>16, <1>17, <1>18, <1>19
     DEF Next, ThreadStep, EventLoop, DestroyStep, Terminated

\* TypeInv holds in every reachable state.
THEOREM TypeInvariant == Spec => []TypeInv
BY TypeInit, TypeNext, PTL DEF Spec

\* The variables of ngx_thread_pool.c and of the notification keep their types:
\* in particular only real tasks reach the done list, the notify index stays
\* below its wrap, and no more threads are destroyed than there are.
THEOREM TypeCorrect == Spec => []TypeOK
<1>1. TypeInv => TypeOK
  BY DEF TypeInv
<1> QED  BY <1>1, TypeInvariant, PTL

-----------------------------------------------------------------------------
(* The counter tp->waiting and the wakeups.                                *)

\* How a step of one thread changes the number of threads in some states.
LEMMA CountThreads ==
    ASSUME TypeOK, NEW S, NEW t \in Thread, NEW s, pc' = [pc EXCEPT ![t] = s]
    PROVE  /\ IsFiniteSet(In(S)) /\ Cardinality(In(S)) \in Nat
           /\ Cardinality(In(S)') = Cardinality(In(S))
                                      + (IF s \in S THEN 1 ELSE 0)
                                      - (IF pc[t] \in S THEN 1 ELSE 0)
<1>1. IsFiniteSet(In(S)) /\ Cardinality(In(S)) \in Nat
  <2>1. In(S) \in SUBSET Thread
    BY DEF In
  <2> QED  BY <2>1, PoolAssumption, FS_Subset, FS_CardinalityType
<1>2. In(S)' = IF s \in S THEN In(S) \cup {t} ELSE In(S) \ {t}
  BY DEF In, TypeOK
<1>3. t \in In(S) <=> pc[t] \in S
  BY DEF In
<1>4. /\ Cardinality(In(S) \cup {t}) =
           IF t \in In(S) THEN Cardinality(In(S)) ELSE Cardinality(In(S)) + 1
      /\ Cardinality(In(S) \ {t}) =
           IF t \in In(S) THEN Cardinality(In(S)) - 1 ELSE Cardinality(In(S))
  BY <1>1, FS_AddElement, FS_RemoveElement
<1>5. CASE s \in S
  <2>1. Cardinality(In(S)') = Cardinality(In(S) \cup {t})
    BY <1>2, <1>5
  <2> QED  BY <1>1, <1>3, <1>4, <1>5, <2>1
<1>6. CASE s \notin S
  <2>1. Cardinality(In(S)') = Cardinality(In(S) \ {t})
    BY <1>2, <1>6
  <2> QED  BY <1>1, <1>3, <1>4, <1>6, <2>1
<1> QED  BY <1>1, <1>5, <1>6

\* The same for the threads that announced themselves and hold no task.
LEMMA CountIdle ==
    ASSUME TypeOK, NEW t \in Thread, NEW s, pc' = [pc EXCEPT ![t] = s]
    PROVE  /\ Cardinality(Idle) \in Nat
           /\ Cardinality(Idle') = Cardinality(Idle)
                                    + (IF s \in {"wait", "woken"} THEN 1 ELSE 0)
                                    - (IF pc[t] \in {"wait", "woken"} THEN 1 ELSE 0)
<1>1. /\ Cardinality(In({"wait", "woken"})) \in Nat
      /\ Cardinality(In({"wait", "woken"})') = Cardinality(In({"wait", "woken"}))
            + (IF s \in {"wait", "woken"} THEN 1 ELSE 0)
            - (IF pc[t] \in {"wait", "woken"} THEN 1 ELSE 0)
  BY CountThreads
<1>2. Idle = In({"wait", "woken"}) /\ Idle' = In({"wait", "woken"})'
  BY DEF Idle
<1> QED  BY <1>1, <1>2

\* The same for the threads on their way out of pthread_cond_wait.
LEMMA CountWoken ==
    ASSUME TypeOK, NEW t \in Thread, NEW s, pc' = [pc EXCEPT ![t] = s]
    PROVE  /\ Cardinality(Woken) \in Nat
           /\ Cardinality(Woken') = Cardinality(Woken)
                                    + (IF s \in {"woken"} THEN 1 ELSE 0)
                                    - (IF pc[t] \in {"woken"} THEN 1 ELSE 0)
<1>1. /\ Cardinality(In({"woken"})) \in Nat
      /\ Cardinality(In({"woken"})') = Cardinality(In({"woken"}))
            + (IF s \in {"woken"} THEN 1 ELSE 0)
            - (IF pc[t] \in {"woken"} THEN 1 ELSE 0)
  BY CountThreads
<1>2. Woken = In({"woken"}) /\ Woken' = In({"woken"})'
  BY DEF Woken
<1> QED  BY <1>1, <1>2

\* Threads that did not move are counted as before.
LEMMA CountUnmoved ==
    ASSUME NEW S, pc' = pc
    PROVE  In(S)' = In(S)
BY DEF In

\* The steps that neither lock tp->mtx with success nor move a thread.
LEMMA PoolUntouched ==
    ASSUME \/ \E k \in Task : PostSignalFails(k)
           \/ EventLoop \/ BeginDestroy \/ ExitSeen \/ EndDestroy \/ Terminated
           \/ UNCHANGED vars
    PROVE  UNCHANGED poolVars
BY DEF PostSignalFails, EventLoop, EpollWait, RunPosted, NotifyHandler, TakeDone,
       Complete, HandlerReturns, BeginDestroy, ExitSeen, EndDestroy, Terminated,
       vars, poolVars

AccountingInv == TypeInv /\ WaitingAccounting

\* The post adds one to the queue and to waiting; a signalled thread stays idle.
LEMMA EnqueueAccounting ==
    ASSUME AccountingInv, NEW k \in Task \cup {Exit}, Enqueue(k)
    PROVE  WaitingAccounting'
<1>0. TypeOK /\ WaitingAccounting
  BY DEF AccountingInv, TypeInv
<1>1. Len(queue') = Len(queue) + 1 /\ Len(queue) \in Nat
  BY <1>0, AppendProperties, LenProperties DEF Enqueue, TypeOK
<1>2. Idle' = Idle
  BY <1>0 DEF Enqueue, Signal, Waiters, Idle, In, TypeOK
<1>3. waiting' <= MaxQueue
  BY <1>0, PoolAssumption DEF Enqueue, HasRoom, TypeOK
<1>4. Cardinality(Idle) \in Nat
  BY PoolAssumption, FS_Subset, FS_CardinalityType DEF Idle, In
<1> QED  BY <1>0, <1>1, <1>2, <1>3, <1>4 DEF Enqueue, WaitingAccounting, TypeOK

\* A thread becomes idle where waiting is decremented, and leaves with a task.
LEMMA TakeOrWaitCounts ==
    ASSUME TypeOK, NEW t \in Thread, TakeOrWait(t)
    PROVE  /\ Cardinality(Idle) \in Nat /\ Len(queue) \in Nat
           /\ Len(queue') - Cardinality(Idle') =
                Len(queue) - Cardinality(Idle)
                  - (IF pc[t] \in {"wait", "woken"} THEN 0 ELSE 1)
<1>0. Len(queue) \in Nat
  BY LenProperties DEF TypeOK
<1>1. CASE queue = <<>>
  <2>1. pc' = [pc EXCEPT ![t] = "wait"] /\ queue' = queue
    BY <1>1 DEF TakeOrWait
  <2>2. /\ Cardinality(Idle) \in Nat
        /\ Cardinality(Idle') = Cardinality(Idle)
              + (IF "wait" \in {"wait", "woken"} THEN 1 ELSE 0)
              - (IF pc[t] \in {"wait", "woken"} THEN 1 ELSE 0)
    BY <2>1, CountIdle
  <2> QED  BY <1>0, <2>1, <2>2
<1>2. CASE queue # <<>>
  <2>1. pc' = [pc EXCEPT ![t] = "run"]
    BY <1>2 DEF TakeOrWait
  <2>2. Len(queue') = Len(queue) - 1
    BY <1>2, HeadTailProperties DEF TakeOrWait, TypeOK
  <2>3. /\ Cardinality(Idle) \in Nat
        /\ Cardinality(Idle') = Cardinality(Idle)
              + (IF "run" \in {"wait", "woken"} THEN 1 ELSE 0)
              - (IF pc[t] \in {"wait", "woken"} THEN 1 ELSE 0)
    BY <2>1, CountIdle
  <2> QED  BY <1>0, <2>2, <2>3
<1> QED  BY <1>1, <1>2

\* Every step keeps the accounting of tp->waiting.
LEMMA AccountingNext == AccountingInv /\ [Next]_vars => WaitingAccounting'
<1> SUFFICES ASSUME AccountingInv, [Next]_vars PROVE WaitingAccounting'
  OBVIOUS
<1> USE DEF poolVars, notifyVars, exitVars
<1>0. TypeOK /\ WaitingAccounting
  BY DEF AccountingInv, TypeInv
<1>1. ASSUME NEW k \in Task, Post(k) PROVE WaitingAccounting'
  BY <1>1, EnqueueAccounting DEF Post
<1>2. ASSUME NEW t \in Thread, Fetch(t) PROVE WaitingAccounting'
  BY <1>0, <1>2, TakeOrWaitCounts, PoolAssumption DEF Fetch, WaitingAccounting, TypeOK
<1>3. ASSUME NEW t \in Thread, Recheck(t) PROVE WaitingAccounting'
  BY <1>0, <1>3, TakeOrWaitCounts DEF Recheck, WaitingAccounting, TypeOK
<1>4. ASSUME NEW t \in Thread,
             \/ Finish(t) \/ Notify(t) \/ ExitThread(t) \/ SpuriousWakeup(t)
      PROVE  WaitingAccounting'
  <2>1. UNCHANGED <<queue, waiting>>
    BY <1>4 DEF Finish, Notify, ExitThread, SpuriousWakeup
  <2>2. Idle' = Idle
    BY <1>0, <1>4 DEF Finish, Notify, ExitThread, SpuriousWakeup, Idle, In, TypeOK
  <2> QED  BY <1>0, <2>1, <2>2 DEF WaitingAccounting
<1>5. CASE PostExit
  <2>1. CASE Enqueue(Exit)
    BY <2>1, EnqueueAccounting
  <2>2. CASE UNCHANGED poolVars
    BY <1>0, <2>2, CountUnmoved DEF WaitingAccounting, Idle
  <2> QED  BY <1>5, <2>1, <2>2 DEF PostExit
<1>6. CASE UNCHANGED poolVars
  BY <1>0, <1>6, CountUnmoved DEF WaitingAccounting, Idle
<1>7. ASSUME \/ \E k \in Task : PostSignalFails(k)
             \/ EventLoop \/ BeginDestroy \/ ExitSeen \/ EndDestroy \/ Terminated
             \/ UNCHANGED vars
      PROVE  UNCHANGED poolVars
  BY <1>7, PoolUntouched
<1> QED
  BY <1>1, <1>2, <1>3, <1>4, <1>5, <1>6, <1>7 DEF Next, ThreadStep, DestroyStep

\* "the number may become negative": for any number of threads and any queue
\* limit, tp->waiting is the length of the queue less the idle threads, and the
\* overflow test of ngx_thread_task_post keeps it within max_queue.
THEOREM WaitingCorrect == Spec => []WaitingAccounting
<1>1. Init => AccountingInv
  <2> SUFFICES ASSUME Init PROVE WaitingAccounting
    BY TypeInit DEF AccountingInv
  <2>1. Idle = {}
    BY DEF Init, Idle, In
  <2>2. Len(queue) = 0
    BY EmptySeq DEF Init
  <2> QED  BY <2>1, <2>2, FS_EmptySet, PoolAssumption DEF Init, WaitingAccounting
<1>2. AccountingInv /\ [Next]_vars => AccountingInv'
  BY AccountingNext, TypeNext DEF AccountingInv
<1>3. AccountingInv => WaitingAccounting
  BY DEF AccountingInv
<1> QED  BY <1>1, <1>2, <1>3, PTL DEF Spec

WakeupInv == TypeInv /\ NoLostWakeup

\* The post wakes a waiter, if there is one, for the task it queues.
LEMMA EnqueueWakes ==
    ASSUME WakeupInv, NEW k \in Task \cup {Exit}, Enqueue(k)
    PROVE  NoLostWakeup'
<1>0. TypeOK /\ NoLostWakeup
  BY DEF WakeupInv, TypeInv
<1>1. Len(queue') = Len(queue) + 1 /\ Len(queue) \in Nat
  BY <1>0, AppendProperties, LenProperties DEF Enqueue, TypeOK
<1>2. CASE Waiters = {}
  <2>1. Waiters' = {}
    BY <1>2 DEF Enqueue, Signal, Waiters, In
  <2> QED  BY <2>1 DEF NoLostWakeup
<1>3. CASE Waiters # {}
  <2>1. PICK t \in Waiters : pc' = [pc EXCEPT ![t] = "woken"]
    BY <1>3 DEF Enqueue, Signal
  <2>2. t \in Thread /\ pc[t] = "wait"
    BY DEF Waiters, In
  <2>3. /\ Cardinality(Woken) \in Nat
        /\ Cardinality(Woken') = Cardinality(Woken)
              + (IF "woken" \in {"woken"} THEN 1 ELSE 0)
              - (IF pc[t] \in {"woken"} THEN 1 ELSE 0)
    BY <1>0, <2>1, <2>2, CountWoken
  <2> QED  BY <1>0, <1>1, <1>3, <2>2, <2>3 DEF NoLostWakeup
<1> QED  BY <1>2, <1>3

\* A thread goes to sleep on an empty queue only, and a woken one that leaves
\* takes a task along.
LEMMA TakeOrWaitWakes ==
    ASSUME WakeupInv, NEW t \in Thread, pc[t] \in {"top", "woken"}, TakeOrWait(t)
    PROVE  NoLostWakeup'
<1>0. TypeOK /\ NoLostWakeup /\ Len(queue) \in Nat
  BY LenProperties DEF WakeupInv, TypeInv, TypeOK
<1>1. CASE queue = <<>>
  <2>1. pc' = [pc EXCEPT ![t] = "wait"] /\ Len(queue') = 0
    BY <1>1, EmptySeq DEF TakeOrWait
  <2>2. Cardinality(Woken') \in Nat
    BY <2>1, PoolAssumption, FS_Subset, FS_CardinalityType DEF Woken, In
  <2> QED  BY <2>1, <2>2 DEF NoLostWakeup
<1>2. CASE queue # <<>>
  <2>1. pc' = [pc EXCEPT ![t] = "run"] /\ Len(queue') = Len(queue) - 1
    BY <1>2, HeadTailProperties DEF TakeOrWait, TypeInv, TypeOK, WakeupInv
  <2>2. Waiters' = Waiters
    BY <1>0, <2>1 DEF Waiters, In, TypeOK
  <2>3. /\ Cardinality(Woken) \in Nat
        /\ Cardinality(Woken') = Cardinality(Woken)
              + (IF "run" \in {"woken"} THEN 1 ELSE 0)
              - (IF pc[t] \in {"woken"} THEN 1 ELSE 0)
    BY <1>0, <2>1, CountWoken
  <2> QED  BY <1>0, <2>1, <2>2, <2>3 DEF NoLostWakeup
<1> QED  BY <1>1, <1>2

\* No step loses a wakeup.
LEMMA WakeupNext == WakeupInv /\ [Next]_vars => NoLostWakeup'
<1> SUFFICES ASSUME WakeupInv, [Next]_vars PROVE NoLostWakeup'
  OBVIOUS
<1> USE DEF poolVars, notifyVars, exitVars
<1>0. TypeOK /\ NoLostWakeup /\ Len(queue) \in Nat
  BY LenProperties DEF WakeupInv, TypeInv, TypeOK
<1>1. ASSUME NEW k \in Task, Post(k) PROVE NoLostWakeup'
  BY <1>1, EnqueueWakes DEF Post
<1>2. ASSUME NEW t \in Thread, Fetch(t) \/ Recheck(t) PROVE NoLostWakeup'
  BY <1>2, TakeOrWaitWakes DEF Fetch, Recheck
<1>3. ASSUME NEW t \in Thread, SpuriousWakeup(t) PROVE NoLostWakeup'
  <2>1. /\ Cardinality(Woken) \in Nat
        /\ Cardinality(Woken') = Cardinality(Woken)
              + (IF "woken" \in {"woken"} THEN 1 ELSE 0)
              - (IF pc[t] \in {"woken"} THEN 1 ELSE 0)
    BY <1>0, <1>3, CountWoken DEF SpuriousWakeup
  <2>2. pc[t] = "wait" /\ Waiters # {} /\ queue' = queue
    BY <1>3 DEF SpuriousWakeup, Waiters, In
  <2> QED  BY <1>0, <2>1, <2>2 DEF NoLostWakeup
<1>4. ASSUME NEW t \in Thread, Finish(t) \/ Notify(t) \/ ExitThread(t)
      PROVE  NoLostWakeup'
  <2>1. Waiters' = Waiters /\ Woken' = Woken /\ queue' = queue
    BY <1>0, <1>4 DEF Finish, Notify, ExitThread, Waiters, Woken, In, TypeOK
  <2> QED  BY <1>0, <2>1 DEF NoLostWakeup
<1>5. CASE PostExit
  <2>1. CASE Enqueue(Exit)
    BY <2>1, EnqueueWakes
  <2>2. CASE UNCHANGED poolVars
    BY <1>0, <2>2, CountUnmoved DEF NoLostWakeup, Waiters, Woken
  <2> QED  BY <1>5, <2>1, <2>2 DEF PostExit
<1>6. CASE UNCHANGED poolVars
  BY <1>0, <1>6, CountUnmoved DEF NoLostWakeup, Waiters, Woken
<1>7. ASSUME \/ \E k \in Task : PostSignalFails(k)
             \/ EventLoop \/ BeginDestroy \/ ExitSeen \/ EndDestroy \/ Terminated
             \/ UNCHANGED vars
      PROVE  UNCHANGED poolVars
  BY <1>7, PoolUntouched
<1> QED
  BY <1>1, <1>2, <1>3, <1>4, <1>5, <1>6, <1>7 DEF Next, ThreadStep, DestroyStep

\* Signalling once per post and before linking the task is enough: in no state
\* does a pool thread sleep while a queued task has no woken thread coming.
THEOREM WakeupsSuffice == Spec => []NoLostWakeup
<1>1. Init => WakeupInv
  <2> SUFFICES ASSUME Init PROVE NoLostWakeup
    BY TypeInit DEF WakeupInv
  <2>1. Waiters = {}
    BY DEF Init, Waiters, In
  <2> QED  BY <2>1 DEF NoLostWakeup
<1>2. WakeupInv /\ [Next]_vars => WakeupInv'
  BY WakeupNext, TypeNext DEF WakeupInv
<1>3. WakeupInv => NoLostWakeup
  BY DEF WakeupInv
<1> QED  BY <1>1, <1>2, <1>3, PTL DEF Spec

-----------------------------------------------------------------------------
(* The notification of the event loop.                                     *)

\* Between the event's delivery and the end of notify_handler's first half the
\* eventfd is readable: only notify_handler itself reads it.
Readable ==
    /\ posted => main = "loop" /\ efd > 0
    /\ main = "handler" => efd > 0
    /\ main # "blocked"

NotifyInv == TypeInv /\ Readable /\ DoneNotified

\* The steps outside the notification path.
LEMMA NotifyUntouched ==
    ASSUME NotifyInv, UNCHANGED <<done, notifyVars>>,
           main' = main \/ main' \notin {"loop", "handler", "blocked", "drain", "complete"},
           posted => main' = main,
           \A t \in Thread : pc[t] = "notify" => pc'[t] = "notify"
    PROVE  Readable' /\ DoneNotified'
<1>1. Readable'
  BY DEF NotifyInv, Readable, notifyVars
<1>2. DoneNotified'
  <2> SUFFICES ASSUME Serving', done' # <<>>
               PROVE  \/ \E t \in Thread : pc'[t] = "notify"
                      \/ edge' /\ efd' > 0
                      \/ posted'
                      \/ main' \in {"handler", "drain"}
    BY DEF DoneNotified
  <2>1. main' = main /\ Serving /\ done # <<>>
    BY DEF Serving
  <2> QED  BY <2>1 DEF NotifyInv, DoneNotified, notifyVars
<1> QED  BY <1>1, <1>2

\* TakeOrWait and Signal move no thread away from its call of ngx_notify.
LEMMA EnqueueKeepsNotify ==
    ASSUME TypeOK, NEW k, Enqueue(k), NEW t \in Thread, pc[t] = "notify"
    PROVE  pc'[t] = "notify"
BY DEF Enqueue, Signal, Waiters, In, TypeOK

\* No step makes the event loop block in read() or leaves a finished task behind
\* without a notification.
LEMMA NotifyNext == NotifyInv /\ [Next]_vars => Readable' /\ DoneNotified'
<1> SUFFICES ASSUME NotifyInv, [Next]_vars PROVE Readable' /\ DoneNotified'
  OBVIOUS
<1> USE DEF poolVars, notifyVars, exitVars
<1>0. TypeOK /\ Readable /\ DoneNotified
  BY DEF NotifyInv, TypeInv
<1>1. ASSUME NEW k \in Task, Post(k) PROVE Readable' /\ DoneNotified'
  BY <1>0, <1>1, EnqueueKeepsNotify, NotifyUntouched DEF Post
<1>2. ASSUME NEW k \in Task, PostSignalFails(k) PROVE Readable' /\ DoneNotified'
  BY <1>0, <1>2, NotifyUntouched DEF PostSignalFails
<1>3. ASSUME NEW t \in Thread,
             Fetch(t) \/ Recheck(t) \/ SpuriousWakeup(t) \/ ExitThread(t)
      PROVE  Readable' /\ DoneNotified'
  <2>1. \A u \in Thread : pc[u] = "notify" => pc'[u] = "notify"
    BY <1>0, <1>3 DEF Fetch, Recheck, TakeOrWait, SpuriousWakeup, ExitThread, TypeOK
  <2>2. UNCHANGED <<done, notifyVars, main>>
    BY <1>3 DEF Fetch, Recheck, SpuriousWakeup, ExitThread
  <2> QED  BY <2>1, <2>2, NotifyUntouched
<1>4. ASSUME NEW t \in Thread, Finish(t) PROVE Readable' /\ DoneNotified'
  <2>1. pc'[t] = "notify"
    BY <1>0, <1>4 DEF Finish, TypeOK
  <2> QED  BY <1>0, <1>4, <2>1 DEF Finish, Readable, DoneNotified
<1>5. ASSUME NEW t \in Thread, Notify(t) PROVE Readable' /\ DoneNotified'
  <2>1. efd' > 0 /\ edge'
    BY <1>0, <1>5 DEF Notify, TypeOK
  <2> QED  BY <1>0, <1>5, <2>1 DEF Notify, Readable, DoneNotified
<1>6. CASE EpollWait
  <2>1. Readable'
    BY <1>0, <1>6 DEF EpollWait, Readable, TypeOK
  <2>2. DoneNotified'
    BY <1>0, <1>6 DEF EpollWait, DoneNotified, Serving, TypeOK
  <2> QED  BY <2>1, <2>2
<1>7. CASE RunPosted
  BY <1>0, <1>7 DEF RunPosted, Readable, DoneNotified, Serving
<1>8. CASE NotifyHandler
  BY <1>0, <1>8 DEF NotifyHandler, Readable, DoneNotified, Serving
<1>9. CASE TakeDone
  BY <1>0, <1>9 DEF TakeDone, Readable, DoneNotified
<1>10. CASE Complete
  BY <1>0, <1>10, NotifyUntouched DEF Complete
<1>11. CASE HandlerReturns
  BY <1>0, <1>11 DEF HandlerReturns, Readable, DoneNotified, Serving
<1>12. CASE BeginDestroy \/ ExitSeen \/ EndDestroy
  BY <1>0, <1>12 DEF BeginDestroy, ExitSeen, EndDestroy, Readable, DoneNotified,
                     Serving
<1>13. CASE PostExit
  BY <1>0, <1>13 DEF PostExit, Readable, DoneNotified, Serving
<1>14. CASE UNCHANGED vars
  BY <1>0, <1>14, NotifyUntouched DEF vars
<1> QED
  BY <1>1, <1>2, <1>3, <1>4, <1>5, <1>6, <1>7, <1>8, <1>9, <1>10, <1>11, <1>12,
     <1>13, <1>14 DEF Next, ThreadStep, EventLoop, DestroyStep, Terminated

\* NotifyInv holds in every reachable state.
THEOREM NotifyInvariant == Spec => []NotifyInv
<1>1. Init => NotifyInv
  BY TypeInit DEF NotifyInv, Init, Readable, DoneNotified
<1>2. NotifyInv /\ [Next]_vars => NotifyInv'
  BY NotifyNext, TypeNext DEF NotifyInv
<1> QED  BY <1>1, <1>2, PTL DEF Spec

\* Although many writes make one edge and the eventfd is read only when the index
\* wraps, a task on the done list always has a notification or a run of the
\* handler ahead of it.
THEOREM NotificationsSuffice == Spec => []DoneNotified
<1>1. NotifyInv => DoneNotified
  BY DEF NotifyInv
<1> QED  BY <1>1, NotifyInvariant, PTL

\* notify_handler's read() of the blocking eventfd never blocks the event loop.
THEOREM HandlerNeverBlocks == Spec => []ReadNeverBlocks
<1>1. NotifyInv => ReadNeverBlocks
  BY DEF NotifyInv, Readable, ReadNeverBlocks
<1> QED  BY <1>1, NotifyInvariant, PTL

-----------------------------------------------------------------------------
(* One task, one place.  TasksAccounted needs three more facts: the single *)
(* Exit task is reused only after its thread cleared the flag, the list of *)
(* ngx_thread_pool_handler is empty when the next one is taken, and a task *)
(* whose signal failed cannot be posted again.                             *)

\* The Exit task is under way only while ngx_thread_pool_destroy spins on its flag.
ExitAwaited ==
    Exit \in Range(queue) \/ (\E t \in Thread : task[t] = Exit)
        => main = "spin" /\ lock = 1

\* ngx_thread_pool_handler returns when its list is empty.
BatchServed == batch # <<>> => main = "complete"

\* The error return of ngx_thread_task_post after a failed signal keeps active.
StrandedActive == \A k \in stranded : active[k]

Placed == ExitAwaited /\ BatchServed /\ StrandedActive /\ TasksAccounted
PlaceInv == TypeInv /\ Placed

\* A task that is posted is nowhere: active would be set.
LEMMA InactiveIsNowhere ==
    ASSUME PlaceInv, NEW k \in Task, ~active[k]
    PROVE  ~Somewhere(k)
BY DEF PlaceInv, Placed, TasksAccounted, NoTaskDuplicated

\* Linking a task or the Exit task that is nowhere.
LEMMA EnqueuePlaces ==
    ASSUME TypeOK, NEW k \in Task \cup {Exit}, Enqueue(k)
    PROVE  /\ Range(queue') = Range(queue) \cup {k}
           /\ IsInjective(queue) /\ k \notin Range(queue) => IsInjective(queue')
           /\ task' = task
BY AppendRange DEF Enqueue, TypeOK

\* Post: the only new place of k is the queue.
LEMMA PostPlaced ==
    ASSUME PlaceInv, NEW k \in Task, Post(k)
    PROVE  Placed'
<1>0. /\ TypeOK /\ ExitAwaited /\ BatchServed /\ StrandedActive
      /\ NoTaskLost /\ NoTaskDuplicated
      /\ Exit \notin Task /\ None \notin Task
  BY PoolAssumption DEF PlaceInv, Placed, TypeInv, TasksAccounted
<1>1. /\ Range(queue') = Range(queue) \cup {k} /\ task' = task
      /\ IsInjective(queue) /\ k \notin Range(queue) => IsInjective(queue')
  BY <1>0, EnqueuePlaces DEF Post
<1>2. ~Somewhere(k)
  BY InactiveIsNowhere DEF Post
<1>3. /\ active' = [active EXCEPT ![k] = TRUE]
      /\ UNCHANGED <<done, batch, main, lock, stranded>>
  BY DEF Post, exitVars
<1>4. ExitAwaited' /\ BatchServed' /\ StrandedActive'
  BY <1>0, <1>1, <1>3 DEF ExitAwaited, BatchServed, StrandedActive, TypeOK
<1>5. \A j \in Task : Somewhere(j)' <=> Somewhere(j) \/ j = k
  BY <1>1, <1>3 DEF Somewhere
<1>6. NoTaskLost'
  BY <1>0, <1>3, <1>5 DEF NoTaskLost, TypeOK
<1>7. NoTaskDuplicated'
  <2>1. k \notin stranded
    BY <1>0 DEF Post, StrandedActive
  <2>2. \A j \in Task : Somewhere(j)' => active'[j] /\ j \notin stranded'
    BY <1>0, <1>3, <1>5, <2>1 DEF NoTaskDuplicated, TypeOK
  <2> QED  BY <1>0, <1>1, <1>2, <1>3, <2>2 DEF NoTaskDuplicated, Somewhere
<1> QED  BY <1>4, <1>6, <1>7 DEF Placed, TasksAccounted

\* A post that fails half way puts the task nowhere, for good.
LEMMA PostFailsPlaced ==
    ASSUME PlaceInv, NEW k \in Task, PostSignalFails(k)
    PROVE  Placed'
<1>0. /\ TypeOK /\ ExitAwaited /\ BatchServed /\ StrandedActive
      /\ NoTaskLost /\ NoTaskDuplicated
  BY DEF PlaceInv, Placed, TypeInv, TasksAccounted
<1>1. ~Somewhere(k)
  BY InactiveIsNowhere DEF PostSignalFails
<1>2. /\ active' = [active EXCEPT ![k] = TRUE] /\ stranded' = stranded \cup {k}
      /\ UNCHANGED <<queue, task, done, batch, main, lock>>
  BY DEF PostSignalFails, poolVars, exitVars
<1>3. ExitAwaited' /\ BatchServed' /\ StrandedActive'
  BY <1>0, <1>2 DEF ExitAwaited, BatchServed, StrandedActive, TypeOK
<1>4. \A j \in Task : Somewhere(j)' <=> Somewhere(j)
  BY <1>2 DEF Somewhere
<1>5. NoTaskLost'
  BY <1>0, <1>2, <1>4 DEF NoTaskLost, TypeOK
<1>6. NoTaskDuplicated'
  <2>1. \A j \in Task : Somewhere(j)' => active'[j] /\ j \notin stranded'
    BY <1>0, <1>1, <1>2, <1>4 DEF NoTaskDuplicated, TypeOK
  <2> QED  BY <1>0, <1>2, <2>1 DEF NoTaskDuplicated
<1> QED  BY <1>3, <1>5, <1>6 DEF Placed, TasksAccounted

\* A thread that enters its wait moves no task; one that takes the head of the queue
\* takes it from the queue.
LEMMA TakePlaced ==
    ASSUME PlaceInv, NEW t \in Thread, pc[t] \in {"top", "woken"}, TakeOrWait(t),
           UNCHANGED <<active, done, batch, main, lock, stranded>>
    PROVE  Placed'
<1>0. /\ TypeOK /\ ExitAwaited /\ BatchServed /\ StrandedActive
      /\ NoTaskLost /\ NoTaskDuplicated /\ task[t] = None
  BY DEF PlaceInv, Placed, TypeInv, TasksAccounted, HoldsTask
<1>1. CASE queue = <<>>
  <2>1. UNCHANGED <<queue, task>>
    BY <1>1 DEF TakeOrWait
  <2> QED  BY <1>0, <2>1 DEF Placed, ExitAwaited, BatchServed, StrandedActive,
                TasksAccounted, NoTaskLost, NoTaskDuplicated, Somewhere
<1>2. CASE queue # <<>>
  <2> DEFINE h == Head(queue)
  <2>1. /\ task' = [task EXCEPT ![t] = h] /\ h \in Task \cup {Exit} /\ h # None
        /\ Range(queue) = Range(queue') \cup {h}
        /\ IsInjective(queue') /\ h \notin Range(queue')
    <3>1. task' = [task EXCEPT ![t] = h] /\ queue' = Tail(queue)
      BY <1>2 DEF TakeOrWait
    <3>2. h \in Task \cup {Exit} /\ h # None
      BY <1>0, <1>2, TailRange, PoolAssumption DEF TypeOK
    <3> QED  BY <1>0, <1>2, <3>1, <3>2, TailRange DEF TypeOK, NoTaskDuplicated
  <2> HIDE DEF h
  <2>2. \A x : (\E u \in Thread : task'[u] = x) /\ x # h => \E u \in Thread : task[u] = x
    BY <1>0, <2>1 DEF TypeOK
  <2>3. ExitAwaited' /\ BatchServed' /\ StrandedActive'
    BY <1>0, <2>1, <2>2 DEF ExitAwaited, BatchServed, StrandedActive
  <2>4. task'[t] = h /\ \A u \in Thread : u # t => task'[u] = task[u]
    BY <1>0, <2>1 DEF TypeOK
  <2>5. \A j \in Task : Somewhere(j)' <=> Somewhere(j)
    <3> SUFFICES ASSUME NEW j \in Task PROVE Somewhere(j)' <=> Somewhere(j)
      OBVIOUS
    <3>1. j # None
      BY PoolAssumption
    <3>2. (\E u \in Thread : task'[u] = j) <=> j = h \/ \E u \in Thread : task[u] = j
      BY <1>0, <2>4, <3>1
    <3> QED  BY <2>1, <3>2 DEF Somewhere
  <2>6. NoTaskLost'
    BY <1>0, <2>5 DEF NoTaskLost
  <2>7. NoTaskDuplicated'
    <3>1. ASSUME NEW u \in Thread, task'[u] # None
          PROVE  /\ task'[u] \notin Range(queue') \cup Range(done') \cup Range(batch')
                 /\ \A v \in Thread : task'[v] = task'[u] => v = u
      <4>1. h \notin Range(done) \cup Range(batch) /\ \A v \in Thread : task[v] # h
        BY <1>0, <2>1 DEF NoTaskDuplicated
      <4>2. CASE u = t
        BY <1>0, <2>1, <2>4, <4>1, <4>2 DEF NoTaskDuplicated
      <4>3. CASE u # t
        BY <1>0, <2>1, <2>4, <3>1, <4>1, <4>3 DEF NoTaskDuplicated
      <4> QED  BY <4>2, <4>3
    <3>2. \A j \in Task : Somewhere(j)' => active'[j] /\ j \notin stranded'
      BY <1>0, <2>5 DEF NoTaskDuplicated
    <3>3. /\ Range(queue') \cap Range(done') = {}
          /\ Range(queue') \cap Range(batch') = {}
          /\ Range(done') \cap Range(batch') = {}
          /\ IsInjective(queue') /\ IsInjective(done') /\ IsInjective(batch')
      BY <1>0, <2>1 DEF NoTaskDuplicated
    <3> QED  BY <3>1, <3>2, <3>3 DEF NoTaskDuplicated
  <2> QED  BY <2>3, <2>6, <2>7 DEF Placed, TasksAccounted
<1> QED  BY <1>1, <1>2

\* A finished task goes from its thread to the done list.
LEMMA FinishPlaced ==
    ASSUME PlaceInv, NEW t \in Thread, Finish(t)
    PROVE  Placed'
<1> DEFINE k == task[t]
<1>0. /\ TypeOK /\ ExitAwaited /\ BatchServed /\ StrandedActive
      /\ NoTaskLost /\ NoTaskDuplicated /\ k \in Task /\ k # None /\ k # Exit
  BY PoolAssumption
     DEF PlaceInv, Placed, TypeInv, TasksAccounted, HoldsTask, Finish, TypeOK
<1>1. /\ k \notin Range(queue) \cup Range(done) \cup Range(batch)
      /\ \A u \in Thread : task[u] = k => u = t
  BY <1>0 DEF NoTaskDuplicated
<1>2. Range(done') = Range(done) \cup {k} /\ IsInjective(done')
  BY <1>0, <1>1, AppendRange DEF Finish, TypeOK, NoTaskDuplicated
<1>3. /\ task'[t] = None /\ \A u \in Thread : u # t => task'[u] = task[u]
      /\ UNCHANGED <<queue, active, main, batch, lock, stranded>>
  BY <1>0 DEF Finish, TypeOK, exitVars
<1> HIDE DEF k
<1>4. ExitAwaited' /\ BatchServed' /\ StrandedActive'
  BY <1>0, <1>3, PoolAssumption DEF ExitAwaited, BatchServed, StrandedActive
<1>5. \A j \in Task : Somewhere(j)' <=> Somewhere(j)
  <2> SUFFICES ASSUME NEW j \in Task PROVE Somewhere(j)' <=> Somewhere(j)
    OBVIOUS
  <2>1. j # None
    BY PoolAssumption
  <2>2. (\E u \in Thread : task[u] = j) <=> j = k \/ \E u \in Thread : task'[u] = j
    BY <1>1, <1>3, <2>1 DEF k
  <2> QED  BY <1>2, <1>3, <2>2 DEF Somewhere
<1>6. NoTaskLost'
  BY <1>0, <1>3, <1>5 DEF NoTaskLost
<1>7. NoTaskDuplicated'
  <2>1. ASSUME NEW u \in Thread, task'[u] # None
        PROVE  /\ task'[u] \notin Range(queue') \cup Range(done') \cup Range(batch')
               /\ \A v \in Thread : task'[v] = task'[u] => v = u
    BY <1>0, <1>1, <1>2, <1>3, <2>1 DEF NoTaskDuplicated
  <2>2. \A j \in Task : Somewhere(j)' => active'[j] /\ j \notin stranded'
    BY <1>0, <1>3, <1>5 DEF NoTaskDuplicated
  <2>3. /\ Range(queue') \cap Range(done') = {}
        /\ Range(queue') \cap Range(batch') = {}
        /\ Range(done') \cap Range(batch') = {}
        /\ IsInjective(queue') /\ IsInjective(done') /\ IsInjective(batch')
    BY <1>0, <1>1, <1>2, <1>3 DEF NoTaskDuplicated
  <2> QED  BY <2>1, <2>2, <2>3 DEF NoTaskDuplicated
<1> QED  BY <1>4, <1>6, <1>7 DEF Placed, TasksAccounted

\* The exit handler drops the Exit task and clears the flag.
LEMMA ExitPlaced ==
    ASSUME PlaceInv, NEW t \in Thread, ExitThread(t)
    PROVE  Placed' /\ (\A u \in Thread : task'[u] # Exit) /\ Exit \notin Range(queue')
<1>0. /\ TypeOK /\ ExitAwaited /\ BatchServed /\ StrandedActive
      /\ NoTaskLost /\ NoTaskDuplicated /\ Exit # None /\ Exit \notin Task
  BY PoolAssumption DEF PlaceInv, Placed, TypeInv, TasksAccounted
<1>1. /\ task[t] = Exit /\ task'[t] = None
      /\ \A u \in Thread : u # t => task'[u] = task[u]
      /\ UNCHANGED <<queue, active, done, main, batch, stranded>>
  BY <1>0 DEF ExitThread, TypeOK
<1>2. Exit \notin Range(queue) /\ \A u \in Thread : task'[u] # Exit
  BY <1>0, <1>1 DEF NoTaskDuplicated
<1>3. ExitAwaited' /\ BatchServed' /\ StrandedActive'
  BY <1>0, <1>1, <1>2 DEF ExitAwaited, BatchServed, StrandedActive
<1>4. \A j \in Task : Somewhere(j)' <=> Somewhere(j)
  <2> SUFFICES ASSUME NEW j \in Task PROVE Somewhere(j)' <=> Somewhere(j)
    OBVIOUS
  <2>1. j # None /\ j # Exit
    BY PoolAssumption
  <2> QED  BY <1>1, <2>1 DEF Somewhere
<1>5. NoTaskLost' /\ NoTaskDuplicated'
  BY <1>0, <1>1, <1>4 DEF NoTaskLost, NoTaskDuplicated
<1> QED  BY <1>1, <1>2, <1>3, <1>5 DEF Placed, TasksAccounted

\* ngx_thread_pool_handler detaches the whole done list.
LEMMA TakeDonePlaced ==
    ASSUME PlaceInv, TakeDone
    PROVE  Placed'
<1>0. /\ ExitAwaited /\ BatchServed /\ StrandedActive /\ NoTaskLost /\ NoTaskDuplicated
  BY DEF PlaceInv, Placed, TasksAccounted
<1>1. batch = <<>> /\ Range(batch) = {}
  BY <1>0, EmptyRange DEF TakeDone, BatchServed
<1>2. /\ Range(batch') = Range(done) /\ Range(done') = {}
      /\ IsInjective(done') /\ (IsInjective(batch') <=> IsInjective(done))
      /\ main = "drain" /\ main' = "complete"
      /\ UNCHANGED <<queue, task, active, lock, stranded>>
  BY EmptyRange DEF TakeDone, poolVars, exitVars
<1>3. ExitAwaited' /\ BatchServed' /\ StrandedActive'
  BY <1>0, <1>2 DEF ExitAwaited, BatchServed, StrandedActive
<1>4. \A j \in Task : Somewhere(j)' <=> Somewhere(j)
  BY <1>1, <1>2 DEF Somewhere
<1>5. NoTaskLost' /\ NoTaskDuplicated'
  BY <1>0, <1>1, <1>2, <1>4 DEF NoTaskLost, NoTaskDuplicated
<1> QED  BY <1>3, <1>5 DEF Placed, TasksAccounted

\* The completed task is inactive and nowhere.
LEMMA CompletePlaced ==
    ASSUME PlaceInv, Complete
    PROVE  Placed'
<1>0. /\ TypeOK /\ ExitAwaited /\ BatchServed /\ StrandedActive
      /\ NoTaskLost /\ NoTaskDuplicated
  BY DEF PlaceInv, Placed, TypeInv, TasksAccounted
<1>1. PICK k \in Task :
           /\ k = Head(batch) /\ Range(batch) = Range(batch') \cup {k}
           /\ IsInjective(batch') /\ k \notin Range(batch')
  BY <1>0, TailRange DEF Complete, TypeOK, NoTaskDuplicated
<1>2. /\ active' = [active EXCEPT ![k] = FALSE] /\ main = "complete"
      /\ UNCHANGED <<queue, task, done, main, lock, stranded>>
  BY <1>1 DEF Complete, poolVars, exitVars
<1>3. k \notin stranded /\ ~Somewhere(k)'
  BY <1>0, <1>1, <1>2, PoolAssumption DEF NoTaskDuplicated, Somewhere
<1>4. ExitAwaited' /\ BatchServed' /\ StrandedActive'
  BY <1>0, <1>2, <1>3 DEF ExitAwaited, BatchServed, StrandedActive, TypeOK
<1>5. \A j \in Task : Somewhere(j)' <=> Somewhere(j) /\ j # k
  BY <1>1, <1>2, <1>3 DEF Somewhere
<1>6. NoTaskLost'
  BY <1>0, <1>2, <1>5 DEF NoTaskLost, TypeOK
<1>7. NoTaskDuplicated'
  <2>1. \A j \in Task : Somewhere(j)' => active'[j] /\ j \notin stranded'
    BY <1>0, <1>2, <1>5 DEF NoTaskDuplicated, TypeOK
  <2> QED  BY <1>0, <1>1, <1>2, <2>1 DEF NoTaskDuplicated
<1> QED  BY <1>4, <1>6, <1>7 DEF Placed, TasksAccounted

\* The Exit task joins the queue when the one before is gone.
LEMMA PostExitPlaced ==
    ASSUME PlaceInv, PostExit
    PROVE  Placed'
<1>0. /\ TypeOK /\ ExitAwaited /\ BatchServed /\ StrandedActive
      /\ NoTaskLost /\ NoTaskDuplicated
  BY DEF PlaceInv, Placed, TypeInv, TasksAccounted
<1>1. /\ main = "destroy" /\ lock' = 1
      /\ UNCHANGED <<active, done, batch, stranded>>
      /\ Exit \notin Range(queue) /\ \A t \in Thread : task[t] # Exit
  BY <1>0 DEF PostExit, ExitAwaited
<1>2. BatchServed' /\ StrandedActive'
  BY <1>0, <1>1 DEF BatchServed, StrandedActive
<1>3. CASE Enqueue(Exit) /\ main' = "spin"
  <2>1. Range(queue') = Range(queue) \cup {Exit} /\ IsInjective(queue') /\ task' = task
    BY <1>0, <1>1, <1>3, EnqueuePlaces DEF NoTaskDuplicated
  <2>2. \A j \in Task : Somewhere(j)' <=> Somewhere(j)
    BY <1>1, <2>1, PoolAssumption DEF Somewhere
  <2>3. Exit \notin Range(done) \cup Range(batch)
    BY <1>0, RangeOfSeq, PoolAssumption DEF TypeOK
  <2>4. NoTaskLost' /\ NoTaskDuplicated'
    BY <1>0, <1>1, <2>1, <2>2, <2>3 DEF NoTaskLost, NoTaskDuplicated
  <2> QED  BY <1>1, <1>2, <1>3, <2>4 DEF Placed, TasksAccounted, ExitAwaited
<1>4. CASE UNCHANGED poolVars
  BY <1>0, <1>1, <1>2, <1>4 DEF poolVars, Placed, TasksAccounted, ExitAwaited,
                                NoTaskLost, NoTaskDuplicated, Somewhere
<1> QED  BY <1>3, <1>4 DEF PostExit

\* The steps that move no task.
LEMMA OthersPlaced ==
    ASSUME PlaceInv, UNCHANGED <<queue, task, active, done, batch, stranded>>,
           \/ UNCHANGED <<main, lock>>
           \/ main # "spin" /\ (main = "complete" => batch = <<>>)
           \/ main = "spin" /\ lock = 0
    PROVE  Placed'
<1>1. ExitAwaited'
  BY DEF PlaceInv, Placed, ExitAwaited
<1>2. BatchServed' /\ StrandedActive'
  BY DEF PlaceInv, Placed, BatchServed, StrandedActive
<1>3. TasksAccounted'
  BY DEF PlaceInv, Placed, TasksAccounted, NoTaskLost, NoTaskDuplicated, Somewhere
<1> QED  BY <1>1, <1>2, <1>3 DEF Placed

\* Every step leaves every task in one place.
LEMMA PlaceNext == PlaceInv /\ [Next]_vars => PlaceInv'
<1> SUFFICES ASSUME PlaceInv, [Next]_vars PROVE Placed'
  BY TypeNext DEF PlaceInv
<1> USE DEF poolVars, notifyVars, exitVars
<1>1. ASSUME NEW k \in Task, Post(k) \/ PostSignalFails(k) PROVE Placed'
  BY <1>1, PostPlaced, PostFailsPlaced
<1>2. ASSUME NEW t \in Thread, Fetch(t) \/ Recheck(t) PROVE Placed'
  BY <1>2, TakePlaced DEF Fetch, Recheck
<1>3. ASSUME NEW t \in Thread, Finish(t) \/ ExitThread(t) PROVE Placed'
  BY <1>3, FinishPlaced, ExitPlaced
<1>4. ASSUME NEW t \in Thread, Notify(t) \/ SpuriousWakeup(t) PROVE Placed'
  BY <1>4, OthersPlaced DEF Notify, SpuriousWakeup
<1>5. CASE TakeDone \/ Complete \/ PostExit
  BY <1>5, TakeDonePlaced, CompletePlaced, PostExitPlaced
<1>6. CASE EpollWait \/ RunPosted \/ NotifyHandler \/ HandlerReturns
  BY <1>6, OthersPlaced DEF EpollWait, RunPosted, NotifyHandler, HandlerReturns
<1>7. CASE BeginDestroy \/ ExitSeen \/ EndDestroy \/ Terminated \/ UNCHANGED vars
  BY <1>7, OthersPlaced DEF BeginDestroy, ExitSeen, EndDestroy, Terminated, vars
<1> QED
  BY <1>1, <1>2, <1>3, <1>4, <1>5, <1>6, <1>7
     DEF Next, ThreadStep, EventLoop, DestroyStep

\* ngx_thread_pool_init leaves every list empty.
LEMMA PlaceInit == Init => PlaceInv
<1> SUFFICES ASSUME Init PROVE Placed
  BY TypeInit DEF PlaceInv
<1>1. /\ Range(queue) = {} /\ Range(done) = {} /\ Range(batch) = {}
      /\ IsInjective(queue) /\ IsInjective(done) /\ IsInjective(batch)
      /\ \A t \in Thread : task[t] = None
      /\ \A k \in Task : ~active[k]
      /\ stranded = {} /\ batch = <<>>
  BY EmptyRange DEF Init
<1> QED  BY <1>1, PoolAssumption DEF Placed, ExitAwaited, BatchServed, StrandedActive,
            TasksAccounted, NoTaskLost, NoTaskDuplicated, Somewhere

\* PlaceInv holds in every reachable state.
THEOREM PlaceInvariant == Spec => []PlaceInv
BY PlaceInit, PlaceNext, PTL DEF Spec

\* Every task ngx_thread_task_post accepted is in exactly one place, queued, with one
\* thread, on the done list or about to be completed, and an inactive one is nowhere.
THEOREM TasksInPlace == Spec => []TasksAccounted
<1>1. PlaceInv => TasksAccounted
  BY DEF PlaceInv, Placed
<1> QED  BY <1>1, PlaceInvariant, PTL

-----------------------------------------------------------------------------
(* ngx_thread_pool_destroy.  The Exit tasks pass through the queue behind  *)
(* every task that was accepted, one at a time, and each ends one thread.  *)

\* Nothing is posted behind an Exit task.
ExitLast == \A i \in DOMAIN queue : queue[i] = Exit => i = Len(queue)

\* Once a thread took an Exit task, no other task is queued.
OnlyExits ==
    exits > 0 \/ (main = "spin" /\ lock = 0) \/ (\E t \in Thread : task[t] = Exit)
        => Range(queue) \subseteq {Exit}

\* n counts the threads that exited, but for one whose flag was not yet seen.
ExitCount ==
    Cardinality(In({"exited"})) = exits + (IF main = "spin" /\ lock = 0 THEN 1 ELSE 0)

\* Exits are counted during the destruction only, and all of them at its end.
ExitsCounted ==
    /\ exits > 0 => ~Serving
    /\ main = "destroyed" => exits = Cardinality(Thread)

Destroying == ExitLast /\ OnlyExits /\ ExitCount /\ ExitsCounted
DestroyInv == PlaceInv /\ Destroying

\* The last element of an extended queue is the new one.
LEMMA EnqueueExitLast ==
    ASSUME TypeOK, NEW k \in Task \cup {Exit}, Enqueue(k), Exit \notin Range(queue)
    PROVE  ExitLast'
<1>1. /\ queue \in Seq(Task \cup {Exit}) /\ queue' = Append(queue, k)
  BY DEF TypeOK, Enqueue
<1>2. /\ Len(queue) \in Nat /\ Len(queue') = Len(queue) + 1
      /\ DOMAIN queue = 1 .. Len(queue) /\ DOMAIN queue' = 1 .. Len(queue')
      /\ \A i \in 1 .. Len(queue) : queue'[i] = queue[i]
  BY <1>1, AppendProperties, LenProperties
<1>3. \A i \in 1 .. Len(queue) : queue[i] # Exit
  BY <1>2 DEF Range
<1> QED  BY <1>2, <1>3 DEF ExitLast

\* What a thread in its wait loop does to the queue and to the threads that exited.
LEMMA TakeDestroying ==
    ASSUME DestroyInv, NEW t \in Thread, pc[t] \in {"top", "woken"}, TakeOrWait(t),
           UNCHANGED <<main, lock, exits>>
    PROVE  Destroying'
<1>0. TypeOK /\ ExitLast /\ OnlyExits /\ ExitCount /\ ExitsCounted
  BY DEF DestroyInv, PlaceInv, TypeInv, Destroying
<1>1. ExitCount' /\ ExitsCounted'
  <2>1. In({"exited"})' = In({"exited"})
    BY <1>0 DEF TakeOrWait, In, TypeOK
  <2> QED  BY <1>0, <2>1 DEF ExitCount, ExitsCounted, Serving
<1>2. CASE queue = <<>>
  <2>1. UNCHANGED <<queue, task>>
    BY <1>2 DEF TakeOrWait
  <2> QED  BY <1>0, <1>1, <2>1 DEF Destroying, ExitLast, OnlyExits
<1>3. CASE queue # <<>>
  <2>1. /\ queue' = Tail(queue) /\ task' = [task EXCEPT ![t] = Head(queue)]
        /\ queue \in Seq(Task \cup {Exit})
    BY <1>0, <1>3 DEF TakeOrWait, TypeOK
  <2>2. /\ Len(queue) \in Nat \ {0} /\ Len(queue') = Len(queue) - 1
        /\ DOMAIN queue = 1 .. Len(queue) /\ DOMAIN queue' = 1 .. Len(queue')
        /\ \A i \in 1 .. Len(queue') : queue'[i] = queue[i + 1]
    <3>1. queue' \in Seq(Task \cup {Exit})
      BY <1>3, <2>1, HeadTailProperties
    <3> QED  BY <1>3, <2>1, <3>1, EmptySeq, HeadTailProperties, LenProperties
  <2>3. Range(queue) = Range(queue') \cup {Head(queue)} /\ Head(queue) = queue[1]
    BY <1>3, <2>1, TailRange
  <2>4. ExitLast'
    <3> SUFFICES ASSUME NEW i \in 1 .. Len(queue'), queue'[i] = Exit
                 PROVE  i = Len(queue')
      BY <2>2 DEF ExitLast
    <3>1. i + 1 \in DOMAIN queue /\ queue[i + 1] = Exit
      BY <2>2
    <3>2. i + 1 = Len(queue)
      BY <1>0, <3>1 DEF ExitLast
    <3> QED  BY <2>2, <3>2
  <2>5. OnlyExits'
    <3>1. CASE Head(queue) = Exit
      <4>1. Len(queue) = 1
        BY <1>0, <2>2, <2>3, <3>1 DEF ExitLast
      <4>2. Range(queue') = {}
        BY <2>2, <4>1 DEF Range
      <4> QED  BY <4>2 DEF OnlyExits
    <3>2. CASE Head(queue) # Exit
      <4>1. ~(exits > 0 \/ (main = "spin" /\ lock = 0) \/ \E u \in Thread : task[u] = Exit)
        BY <1>0, <2>3, <3>2 DEF OnlyExits
      <4>2. \A u \in Thread : task'[u] # Exit
        BY <1>0, <2>1, <3>2, <4>1 DEF TypeOK
      <4> QED  BY <4>1, <4>2 DEF OnlyExits
    <3> QED  BY <3>1, <3>2
  <2> QED  BY <1>1, <2>4, <2>5 DEF Destroying
<1> QED  BY <1>2, <1>3

\* The exit handler ends one more thread and clears the flag.
LEMMA ExitDestroying ==
    ASSUME DestroyInv, NEW t \in Thread, ExitThread(t)
    PROVE  Destroying'
<1>0. /\ TypeOK /\ ExitLast /\ OnlyExits /\ ExitCount /\ ExitsCounted /\ ExitAwaited
      /\ exits \in Nat
  BY PoolAssumption, FS_CardinalityType
     DEF DestroyInv, PlaceInv, Placed, TypeInv, Destroying, TypeOK
<1>1. /\ task[t] = Exit /\ pc[t] = "run" /\ pc' = [pc EXCEPT ![t] = "exited"]
      /\ lock' = 0 /\ UNCHANGED <<queue, main, exits>>
  BY DEF ExitThread
<1>2. main = "spin" /\ lock = 1
  BY <1>0, <1>1 DEF ExitAwaited
<1>3. /\ Cardinality(In({"exited"})) \in Nat
      /\ Cardinality(In({"exited"})') = Cardinality(In({"exited"}))
            + (IF "exited" \in {"exited"} THEN 1 ELSE 0)
            - (IF pc[t] \in {"exited"} THEN 1 ELSE 0)
  BY <1>0, <1>1, CountThreads
<1>4. ExitCount'
  BY <1>0, <1>1, <1>2, <1>3 DEF ExitCount
<1>5. OnlyExits' /\ ExitLast' /\ ExitsCounted'
  BY <1>0, <1>1 DEF OnlyExits, ExitLast, ExitsCounted, Serving
<1> QED  BY <1>4, <1>5 DEF Destroying

\* Posting, by a handler or by ngx_thread_pool_destroy.
LEMMA PostDestroying ==
    ASSUME DestroyInv, (\E k \in Task : Post(k)) \/ PostExit
    PROVE  Destroying'
<1>0. /\ TypeOK /\ ExitLast /\ OnlyExits /\ ExitCount /\ ExitsCounted /\ ExitAwaited
      /\ exits \in Nat /\ exits' = exits
  BY PoolAssumption, FS_CardinalityType
     DEF DestroyInv, PlaceInv, Placed, TypeInv, Destroying, TypeOK, Post, PostExit, exitVars
<1>1. Exit \notin Range(queue) /\ (\A t \in Thread : task[t] # Exit) /\ main # "spin"
  BY <1>0 DEF ExitAwaited, Post, PostExit
<1>2. ASSUME NEW k \in Task, Post(k) PROVE Destroying'
  <2>1. /\ Enqueue(k) /\ UNCHANGED <<main, lock>> /\ Serving
    BY <1>2 DEF Post, exitVars, Serving
  <2>2. ExitLast'
    BY <1>0, <1>1, <2>1, EnqueueExitLast
  <2>3. OnlyExits' /\ ExitsCounted'
    BY <1>0, <1>1, <2>1 DEF OnlyExits, ExitsCounted, Serving, Enqueue
  <2>4. In({"exited"})' = In({"exited"})
    BY <1>0, <2>1 DEF Enqueue, Signal, Waiters, In, TypeOK
  <2>5. ExitCount'
    BY <1>0, <2>1, <2>4 DEF ExitCount
  <2> QED  BY <2>2, <2>3, <2>5 DEF Destroying
<1>3. CASE PostExit /\ Enqueue(Exit) /\ main' = "spin"
  <2>1. lock' = 1 /\ task' = task /\ main = "destroy"
    BY <1>3 DEF PostExit, Enqueue
  <2>2. ExitLast'
    BY <1>0, <1>1, <1>3, EnqueueExitLast
  <2>3. Range(queue') = Range(queue) \cup {Exit}
    BY <1>0, <1>3, EnqueuePlaces
  <2>4. OnlyExits' /\ ExitsCounted'
    BY <1>0, <1>1, <1>3, <2>1, <2>3 DEF OnlyExits, ExitsCounted, Serving
  <2>5. In({"exited"})' = In({"exited"})
    BY <1>0, <1>3 DEF Enqueue, Signal, Waiters, In, TypeOK
  <2>6. ExitCount'
    BY <1>0, <1>1, <2>1, <2>5 DEF ExitCount
  <2> QED  BY <2>2, <2>4, <2>6 DEF Destroying
<1>4. CASE PostExit /\ UNCHANGED poolVars /\ main' = "abandoned"
  <2>1. lock' = 1 /\ main = "destroy" /\ UNCHANGED <<queue, task, pc>>
    BY <1>4 DEF PostExit, poolVars
  <2>2. In({"exited"})' = In({"exited"})
    BY <2>1 DEF In
  <2> QED  BY <1>0, <1>1, <1>4, <2>1, <2>2 DEF Destroying, ExitLast, OnlyExits, ExitsCounted,
                ExitCount, Serving
<1> QED  BY <1>2, <1>3, <1>4 DEF PostExit

\* The steps of main that count exits, and those that move neither the queue nor an
\* exited thread.
LEMMA OthersDestroying ==
    ASSUME DestroyInv, UNCHANGED queue, In({"exited"})' = In({"exited"}),
           \A t \in Thread : task'[t] = Exit => task[t] = Exit,
           \/ UNCHANGED <<main, lock, exits>>
           \/ /\ main \notin {"spin", "destroyed"} /\ main' \notin {"spin", "destroyed"}
              /\ exits > 0 => ~Serving'
              /\ exits' = exits
           \/ ExitSeen \/ EndDestroy
    PROVE  Destroying'
<1>0. /\ ExitLast /\ OnlyExits /\ ExitCount /\ ExitsCounted /\ exits \in Nat
      /\ \A t \in Thread : task'[t] = Exit => task[t] = Exit
      /\ TypeOK /\ ExitAwaited
  BY PoolAssumption, FS_CardinalityType
     DEF DestroyInv, PlaceInv, Placed, TypeInv, Destroying, TypeOK
<1>1. ExitLast'
  BY <1>0 DEF ExitLast
<1>2. CASE UNCHANGED <<main, lock, exits>>
  BY <1>0, <1>1, <1>2 DEF Destroying, OnlyExits, ExitCount, ExitsCounted, Serving
<1>3. CASE /\ main \notin {"spin", "destroyed"} /\ main' \notin {"spin", "destroyed"}
           /\ exits > 0 => ~Serving'
           /\ exits' = exits
  BY <1>0, <1>1, <1>3 DEF Destroying, OnlyExits, ExitCount, ExitsCounted
<1>4. CASE ExitSeen
  BY <1>0, <1>1, <1>4 DEF ExitSeen, Destroying, OnlyExits, ExitCount, ExitsCounted, Serving
<1>5. CASE EndDestroy
  BY <1>0, <1>1, <1>5 DEF EndDestroy, Destroying, OnlyExits, ExitCount, ExitsCounted,
                          Serving, exitVars
<1> QED  BY <1>2, <1>3, <1>4, <1>5

\* Every step of the destruction, and every other one, keeps its accounts.
LEMMA DestroyNext == DestroyInv /\ [Next]_vars => DestroyInv'
<1> SUFFICES ASSUME DestroyInv, [Next]_vars PROVE Destroying'
  BY PlaceNext DEF DestroyInv
<1> USE DEF poolVars, notifyVars, exitVars
<1>0. /\ TypeOK /\ HoldsTask /\ ExitAwaited /\ ExitsCounted /\ exits \in Nat
      /\ Exit # None
  BY PoolAssumption, FS_CardinalityType
     DEF DestroyInv, PlaceInv, Placed, TypeInv, Destroying, TypeOK
<1>1. ASSUME NEW k \in Task, Post(k) PROVE Destroying'
  BY <1>1, PostDestroying
<1>2. ASSUME NEW k \in Task, PostSignalFails(k) PROVE Destroying'
  BY <1>2, OthersDestroying DEF PostSignalFails, In
<1>3. ASSUME NEW t \in Thread, Fetch(t) \/ Recheck(t) PROVE Destroying'
  BY <1>3, TakeDestroying DEF Fetch, Recheck
<1>4. ASSUME NEW t \in Thread, Finish(t) \/ Notify(t) \/ SpuriousWakeup(t)
      PROVE  Destroying'
  <2>1. In({"exited"})' = In({"exited"})
    BY <1>0, <1>4 DEF Finish, Notify, SpuriousWakeup, In, TypeOK
  <2>2. \A u \in Thread : task'[u] = Exit => task[u] = Exit
    BY <1>0, <1>4 DEF Finish, Notify, SpuriousWakeup, TypeOK
  <2>3. UNCHANGED <<queue, main, lock, exits>>
    BY <1>4 DEF Finish, Notify, SpuriousWakeup
  <2> QED  BY <2>1, <2>2, <2>3, OthersDestroying
<1>5. ASSUME NEW t \in Thread, ExitThread(t) PROVE Destroying'
  BY <1>5, ExitDestroying
<1>6. CASE EventLoop \/ BeginDestroy
  <2>1. /\ Serving /\ exits = 0
        /\ main \notin {"spin", "destroyed"} /\ main' \notin {"spin", "destroyed"}
    BY <1>0, <1>6 DEF EventLoop, EpollWait, RunPosted, NotifyHandler, TakeDone,
          Complete, HandlerReturns, BeginDestroy, Serving, ExitsCounted
  <2>2. UNCHANGED <<queue, task, pc, exits>>
    BY <1>6, <2>1 DEF EventLoop, EpollWait, RunPosted, NotifyHandler, TakeDone,
          Complete, HandlerReturns, BeginDestroy
  <2>3. In({"exited"})' = In({"exited"})
    BY <2>2 DEF In
  <2> QED  BY <2>1, <2>2, <2>3, OthersDestroying
<1>7. CASE PostExit
  BY <1>7, PostDestroying
<1>8. CASE ExitSeen \/ EndDestroy
  BY <1>8, OthersDestroying DEF ExitSeen, EndDestroy, In
<1>9. CASE Terminated \/ UNCHANGED vars
  BY <1>9, OthersDestroying DEF Terminated, vars, In
<1> QED
  BY <1>1, <1>2, <1>3, <1>4, <1>5, <1>6, <1>7, <1>8, <1>9
     DEF Next, ThreadStep, DestroyStep

\* DestroyInv holds in every reachable state.
THEOREM DestroyInvariant == Spec => []DestroyInv
<1>1. Init => DestroyInv
  <2> SUFFICES ASSUME Init PROVE Destroying
    BY PlaceInit DEF DestroyInv
  <2>1. In({"exited"}) = {}
    BY DEF Init, In
  <2>2. ExitCount
    <3>1. Cardinality(In({"exited"})) = 0
      BY <2>1, FS_EmptySet
    <3>2. exits = 0 /\ main # "spin"
      BY DEF Init
    <3> QED  BY <3>1, <3>2 DEF ExitCount
  <2>3. ExitLast /\ OnlyExits /\ ExitsCounted
    BY PoolAssumption, EmptyRange DEF Init, ExitLast, OnlyExits, ExitsCounted
  <2> QED  BY <2>2, <2>3 DEF Destroying
<1> QED  BY <1>1, DestroyNext, PTL DEF Spec

\* When ngx_thread_pool_destroy destroys the mutex every thread has exited and no
\* accepted task is left in the queue.
THEOREM DestructionComplete == Spec => []DestroyedQuiescent
<1>1. DestroyInv => DestroyedQuiescent
  <2> SUFFICES ASSUME DestroyInv, main = "destroyed"
               PROVE  queue = <<>> /\ \A t \in Thread : pc[t] = "exited"
    BY DEF DestroyedQuiescent
  <2>0. /\ TypeOK /\ ExitAwaited /\ OnlyExits /\ ExitCount
        /\ exits = Cardinality(Thread)
    BY DEF DestroyInv, PlaceInv, Placed, TypeInv, Destroying, ExitsCounted
  <2>1. Cardinality(Thread) \in Nat \ {0}
    BY PoolAssumption, FS_CardinalityType, FS_EmptySet
  <2>2. Range(queue) = {}
    BY <2>0, <2>1 DEF OnlyExits, ExitAwaited
  <2>3. queue = <<>>
    <3>1. queue \in Seq(Task \cup {Exit})
      BY <2>0 DEF TypeOK
    <3>2. ASSUME queue # <<>> PROVE FALSE
      <4>1. Range(queue) = Range(Tail(queue)) \cup {Head(queue)}
        BY <3>1, <3>2, TailRange
      <4> QED  BY <2>2, <4>1
    <3> QED  BY <3>2
  <2>4. In({"exited"}) \in SUBSET Thread /\ Cardinality(In({"exited"})) = Cardinality(Thread)
    BY <2>0, <2>1 DEF In, ExitCount
  <2>5. In({"exited"}) = Thread
    BY <2>4, PoolAssumption, FS_Subset
  <2> QED  BY <2>3, <2>5 DEF In
<1> QED  BY <1>1, DestroyInvariant, PTL

-----------------------------------------------------------------------------
(* The pool implements AsyncTasks: each step is a step of it or changes    *)
(* nothing it sees.  DestroyInv says which.                                *)

\* The queue without its Exit task is the queue when none is in it.
LEMMA PendingIsQueue ==
    ASSUME TypeOK, Exit \notin Range(queue)
    PROVE  PendingTasks = queue
<1>1. CASE queue = <<>>
  BY <1>1 DEF PendingTasks
<1>2. CASE queue # <<>>
  <2>1. queue \in Seq(Task \cup {Exit}) /\ Len(queue) \in Nat \ {0}
        /\ DOMAIN queue = 1 .. Len(queue)
    BY <1>2, EmptySeq, LenProperties DEF TypeOK
  <2>2. queue[Len(queue)] \in Range(queue)
    BY <2>1 DEF Range
  <2> QED  BY <2>2 DEF PendingTasks
<1> QED  BY <1>1, <1>2

\* A step that leaves the lists and the threads' tasks alone is invisible.
LEMMA SameLists ==
    ASSUME UNCHANGED <<queue, task, done, batch, stranded>>
    PROVE  UNCHANGED Async!vars
BY DEF Async!vars, PendingTasks, RunningTasks

\* ngx_thread_task_post of a task submits it.
LEMMA PostSubmits ==
    ASSUME DestroyInv, NEW k \in Task, Post(k)
    PROVE  Async!Submit(k)
<1>0. /\ TypeOK /\ ExitAwaited /\ StrandedActive /\ Exit \notin Task /\ ~Somewhere(k)
  BY PoolAssumption, InactiveIsNowhere
     DEF DestroyInv, PlaceInv, Placed, TypeInv, Post
<1>1. Exit \notin Range(queue)
  BY <1>0 DEF ExitAwaited, Post
<1>2. PendingTasks = queue
  BY <1>0, <1>1, PendingIsQueue
<1>3. queue \in Seq(Task \cup {Exit}) /\ queue' = Append(queue, k)
  BY <1>0 DEF TypeOK, Post, Enqueue
<1>4. PendingTasks' = Append(PendingTasks, k)
  <2>1. queue'[Len(queue')] = k /\ k # Exit
    BY <1>0, <1>3, FrontOfAppend
  <2> QED  BY <1>2, <1>3, <2>1 DEF PendingTasks
<1>5. k \notin Async!Taken
  <2>1. k \notin {PendingTasks[i] : i \in DOMAIN PendingTasks}
    BY <1>0, <1>2 DEF Somewhere, Range
  <2>2. k \notin RunningTasks
    BY <1>0 DEF Somewhere, RunningTasks
  <2>3. k \notin stranded
    BY <1>0 DEF StrandedActive, Post
  <2> QED  BY <1>0, <2>1, <2>2, <2>3 DEF Async!Taken, Somewhere
<1>6. /\ RunningTasks' = RunningTasks /\ stranded' = stranded
      /\ (Range(done) \cup Range(batch))' = Range(done) \cup Range(batch)
  BY DEF Post, Enqueue, RunningTasks
<1> QED  BY <1>4, <1>5, <1>6 DEF Async!Submit

\* A post whose signal failed loses the task.
LEMMA PostLoses ==
    ASSUME DestroyInv, NEW k \in Task, PostSignalFails(k)
    PROVE  Async!Lose(k)
<1>0. /\ TypeOK /\ ExitAwaited /\ StrandedActive /\ ~Somewhere(k)
  BY InactiveIsNowhere
     DEF DestroyInv, PlaceInv, Placed, TypeInv, PostSignalFails
<1>1. PendingTasks = queue
  <2>1. Exit \notin Range(queue)
    BY <1>0 DEF ExitAwaited, PostSignalFails
  <2> QED  BY <1>0, <2>1, PendingIsQueue
<1>2. k \notin Async!Taken
  <2>1. k \notin {PendingTasks[i] : i \in DOMAIN PendingTasks}
    BY <1>0, <1>1 DEF Somewhere, Range
  <2>2. k \notin RunningTasks
    BY <1>0 DEF Somewhere, RunningTasks
  <2>3. k \notin stranded
    BY <1>0 DEF StrandedActive, PostSignalFails
  <2> QED  BY <1>0, <2>1, <2>2, <2>3 DEF Async!Taken, Somewhere
<1>3. /\ UNCHANGED <<queue, task, done, batch>> /\ stranded' = stranded \cup {k}
  BY DEF PostSignalFails, poolVars
<1> QED  BY <1>2, <1>3 DEF Async!Lose, PendingTasks, RunningTasks

\* A thread that holds no task leaves room for one more running task.
LEMMA WorkerFree ==
    ASSUME TypeOK, NEW t \in Thread, task[t] = None
    PROVE  Cardinality(RunningTasks) < Cardinality(Thread)
<1> DEFINE U == {u \in Thread : task[u] \notin {Exit, None}}
           f == [u \in U |-> task[u]]
<1>1. f \in Surjection(U, RunningTasks)
  BY DEF Surjection, RunningTasks
<1>2. IsFiniteSet(Thread \ {t}) /\ Cardinality(Thread \ {t}) = Cardinality(Thread) - 1
      /\ Cardinality(Thread) \in Nat
  BY PoolAssumption, FS_RemoveElement, FS_CardinalityType
<1>3. U \subseteq Thread \ {t}
  OBVIOUS
<1>4. IsFiniteSet(U) /\ Cardinality(U) <= Cardinality(Thread) - 1
  BY <1>2, <1>3, FS_Subset
<1>5. Cardinality(RunningTasks) <= Cardinality(U) /\ IsFiniteSet(RunningTasks)
  BY <1>1, <1>4, FS_Surjection
<1>6. Cardinality(U) \in Nat /\ Cardinality(RunningTasks) \in Nat
  BY <1>4, <1>5, FS_CardinalityType
<1> QED  BY <1>2, <1>4, <1>5, <1>6

\* A thread that takes the head of the queue starts the oldest pending task, or is
\* the one to exit.
LEMMA TakeStarts ==
    ASSUME DestroyInv, NEW t \in Thread, pc[t] \in {"top", "woken"}, TakeOrWait(t),
           UNCHANGED <<done, batch, stranded>>
    PROVE  Async!Start \/ UNCHANGED Async!vars
<1>0. /\ TypeOK /\ ExitLast /\ task[t] = None
      /\ Exit \notin Task /\ None \notin Task /\ Exit # None
  BY PoolAssumption DEF DestroyInv, PlaceInv, Placed, TypeInv, HoldsTask, Destroying
<1>1. CASE queue = <<>>
  BY <1>1, SameLists DEF TakeOrWait
<1>2. CASE queue # <<>> /\ Head(queue) # Exit
  <2>1. PICK k : k = Head(queue)
    OBVIOUS
  <2>2. /\ queue \in Seq(Task \cup {Exit}) /\ task \in [Thread -> Task \cup {Exit, None}]
        /\ task' = [task EXCEPT ![t] = k] /\ queue' = Tail(queue)
    BY <1>0, <1>2, <2>1 DEF TypeOK, TakeOrWait
  <2>3. k \in Task
    BY <1>2, <2>1, <2>2, HeadTailProperties
  <2>4. RunningTasks' = RunningTasks \cup {k}
    BY <1>0, <2>2, <2>3 DEF RunningTasks
  <2>5. /\ PendingTasks # <<>> /\ Head(PendingTasks) = k
        /\ PendingTasks' = Tail(PendingTasks)
    <3>1. CASE queue[Len(queue)] = Exit
      <4>1. Len(queue) # 1
        BY <1>2, <2>2, <3>1, TailRange
      <4>2. PendingTasks = SubSeq(queue, 1, Len(queue) - 1)
        BY <1>2, <3>1 DEF PendingTasks
      <4>3. PendingTasks' = SubSeq(queue', 1, Len(queue') - 1)
        BY <1>2, <2>2, <3>1, <4>1, FrontOfTail DEF PendingTasks
      <4> QED  BY <1>2, <2>1, <2>2, <4>1, <4>2, <4>3, FrontOfTail
    <3>2. CASE queue[Len(queue)] # Exit
      <4>1. PendingTasks = queue
        BY <3>2 DEF PendingTasks
      <4>2. PendingTasks' = queue'
        <5>1. CASE Len(queue) = 1
          <6>1. Len(queue') = 0 /\ queue' \in Seq(Task \cup {Exit})
            BY <1>2, <2>2, <5>1, HeadTailProperties
          <6>2. queue' = <<>>
            BY <6>1, EmptySeq
          <6> QED  BY <6>2 DEF PendingTasks
        <5>2. CASE Len(queue) # 1
          <6>1. queue'[Len(queue')] = queue[Len(queue)]
            BY <1>2, <2>2, <5>2, FrontOfTail
          <6> QED  BY <3>2, <6>1 DEF PendingTasks
        <5> QED  BY <5>1, <5>2
      <4> QED  BY <1>2, <2>1, <2>2, <4>1, <4>2
    <3> QED  BY <3>1, <3>2
  <2>6. Cardinality(RunningTasks) < Cardinality(Thread)
    BY <1>0, WorkerFree
  <2>7. Async!Cardinality(RunningTasks) = Cardinality(RunningTasks)
    BY DEF Async!Cardinality, Cardinality
  <2> QED  BY <2>4, <2>5, <2>6, <2>7 DEF Async!Start
<1>3. CASE queue # <<>> /\ Head(queue) = Exit
  <2>1. /\ queue \in Seq(Task \cup {Exit}) /\ task \in [Thread -> Task \cup {Exit, None}]
        /\ task' = [task EXCEPT ![t] = Exit] /\ queue' = Tail(queue)
    BY <1>0, <1>3 DEF TypeOK, TakeOrWait
  <2>2. Len(queue) \in Nat \ {0} /\ DOMAIN queue = 1 .. Len(queue) /\ queue[1] = Exit
    BY <1>3, <2>1, EmptySeq, LenProperties, TailRange
  <2>3. Len(queue) = 1
    BY <1>0, <2>2 DEF ExitLast
  <2>4. PendingTasks = <<>>
    BY <1>3, <2>2, <2>3, SubSeqEmpty DEF PendingTasks
  <2>5. queue' = <<>>
    <3>1. Len(queue') = 0 /\ queue' \in Seq(Task \cup {Exit})
      BY <1>3, <2>1, <2>3, HeadTailProperties
    <3> QED  BY <3>1, EmptySeq
  <2>6. PendingTasks' = <<>>
    BY <2>5 DEF PendingTasks
  <2>7. RunningTasks' = RunningTasks
    BY <1>0, <2>1 DEF RunningTasks
  <2> QED  BY <2>4, <2>6, <2>7 DEF Async!vars
<1> QED  BY <1>1, <1>2, <1>3

\* A handler that returned has finished its task.
LEMMA FinishFinishes ==
    ASSUME DestroyInv, NEW t \in Thread, Finish(t)
    PROVE  \E k \in Task : Async!Finish(k)
<1>0. /\ TypeOK /\ HoldsTask /\ NoTaskDuplicated /\ Exit \notin Task /\ None \notin Task
  BY PoolAssumption
     DEF DestroyInv, PlaceInv, Placed, TypeInv, TasksAccounted
<1>1. PICK k : k = task[t]
  OBVIOUS
<1>2. /\ k \in Task /\ done' = Append(done, k) /\ task' = [task EXCEPT ![t] = None]
      /\ done \in Seq(Task) /\ task \in [Thread -> Task \cup {Exit, None}]
      /\ UNCHANGED <<queue, batch, stranded>>
  BY <1>0, <1>1 DEF TypeOK, HoldsTask, Finish
<1>3. Range(done') = Range(done) \cup {k}
  BY <1>2, AppendRange
<1>4. \A u \in Thread : task[u] = k => u = t
  BY <1>0, <1>1, <1>2 DEF NoTaskDuplicated
<1>5. k \in RunningTasks /\ RunningTasks' = RunningTasks \ {k}
  BY <1>0, <1>1, <1>2, <1>4 DEF RunningTasks
<1>6. PendingTasks' = PendingTasks
  BY <1>2 DEF PendingTasks
<1>7. Async!Finish(k)
  BY <1>2, <1>3, <1>5, <1>6 DEF Async!Finish
<1> QED  BY <1>2, <1>7

\* Clearing active and calling the completion callback delivers the task.
LEMMA CompleteDelivers ==
    ASSUME DestroyInv, Complete
    PROVE  \E k \in Task : Async!Deliver(k)
<1>0. /\ TypeOK /\ NoTaskDuplicated
  BY DEF DestroyInv, PlaceInv, Placed, TypeInv, TasksAccounted
<1>1. PICK k : k = Head(batch)
  OBVIOUS
<1>2. /\ batch # <<>> /\ batch \in Seq(Task) /\ batch' = Tail(batch)
      /\ UNCHANGED <<queue, task, done, stranded>>
  BY <1>0 DEF TypeOK, Complete, poolVars
<1>3. /\ k \in Task /\ Range(batch) = Range(batch') \cup {k} /\ k \notin Range(batch')
  BY <1>0, <1>1, <1>2, TailRange DEF NoTaskDuplicated
<1>4. k \notin Range(done)
  BY <1>0, <1>3 DEF NoTaskDuplicated
<1>5. Async!Deliver(k)
  BY <1>2, <1>3, <1>4 DEF Async!Deliver, PendingTasks, RunningTasks
<1> QED  BY <1>3, <1>5

\* Posting the Exit task and taking the done list are invisible.
LEMMA ExitAndTakeInvisible ==
    ASSUME DestroyInv, PostExit \/ TakeDone
    PROVE  UNCHANGED Async!vars
<1>0. /\ TypeOK /\ ExitAwaited /\ BatchServed
  BY DEF DestroyInv, PlaceInv, Placed, TypeInv
<1>1. CASE TakeDone
  <2>1. batch = <<>> /\ batch' = done /\ done' = <<>> /\ UNCHANGED <<queue, task, stranded>>
    BY <1>0, <1>1 DEF TakeDone, BatchServed, poolVars
  <2>2. (Range(done) \cup Range(batch))' = Range(done) \cup Range(batch)
    BY <2>1, EmptyRange
  <2> QED  BY <2>1, <2>2 DEF Async!vars, PendingTasks, RunningTasks
<1>2. CASE PostExit /\ UNCHANGED queue
  BY <1>2, SameLists DEF PostExit, Enqueue, poolVars
<1>3. CASE PostExit /\ Enqueue(Exit)
  <2>1. /\ queue \in Seq(Task \cup {Exit}) /\ queue' = Append(queue, Exit)
        /\ UNCHANGED <<task, done, batch, stranded>> /\ Exit \notin Range(queue)
    BY <1>0, <1>3 DEF TypeOK, PostExit, Enqueue, ExitAwaited
  <2>2. PendingTasks = queue
    BY <1>0, <2>1, PendingIsQueue
  <2>3. PendingTasks' = queue
    BY <2>1, FrontOfAppend DEF PendingTasks
  <2> QED  BY <2>1, <2>2, <2>3 DEF Async!vars, RunningTasks
<1> QED  BY <1>1, <1>2, <1>3 DEF PostExit, poolVars

\* Every step of the pool is a step of AsyncTasks or leaves its variables alone.
LEMMA AsyncStep == DestroyInv /\ [Next]_vars => [Async!Next]_Async!vars
<1> SUFFICES ASSUME DestroyInv, [Next]_vars PROVE Async!Next \/ UNCHANGED Async!vars
  OBVIOUS
<1> USE DEF poolVars, notifyVars, exitVars
<1>1. ASSUME NEW k \in Task, Post(k) PROVE Async!Next
  BY <1>1, PostSubmits DEF Async!Next
<1>2. ASSUME NEW k \in Task, PostSignalFails(k) PROVE Async!Next
  BY <1>2, PostLoses DEF Async!Next
<1>3. ASSUME NEW t \in Thread, Fetch(t) \/ Recheck(t)
      PROVE  Async!Next \/ UNCHANGED Async!vars
  BY <1>3, TakeStarts DEF Fetch, Recheck, Async!Next
<1>4. ASSUME NEW t \in Thread, Finish(t) PROVE Async!Next
  BY <1>4, FinishFinishes DEF Async!Next
<1>5. ASSUME NEW t \in Thread, Notify(t) \/ SpuriousWakeup(t)
      PROVE  UNCHANGED Async!vars
  BY <1>5, SameLists DEF Notify, SpuriousWakeup
<1>6. ASSUME NEW t \in Thread, ExitThread(t) PROVE UNCHANGED Async!vars
  <2>1. /\ task[t] = Exit /\ task' = [task EXCEPT ![t] = None]
        /\ UNCHANGED <<queue, done, batch, stranded>>
    BY <1>6 DEF ExitThread
  <2>2. task \in [Thread -> Task \cup {Exit, None}]
    BY DEF DestroyInv, PlaceInv, TypeInv, TypeOK
  <2>3. RunningTasks' = RunningTasks
    BY <2>1, <2>2 DEF RunningTasks
  <2> QED  BY <2>1, <2>3 DEF Async!vars, PendingTasks
<1>7. CASE Complete
  BY <1>7, CompleteDelivers DEF Async!Next
<1>8. CASE TakeDone \/ PostExit
  BY <1>8, ExitAndTakeInvisible
<1>9. CASE EpollWait \/ RunPosted \/ NotifyHandler \/ HandlerReturns \/ BeginDestroy
  BY <1>9, SameLists
     DEF EpollWait, RunPosted, NotifyHandler, HandlerReturns, BeginDestroy
<1>10. CASE ExitSeen \/ EndDestroy \/ Terminated \/ UNCHANGED vars
  BY <1>10, SameLists DEF ExitSeen, EndDestroy, Terminated, vars
<1> QED
  BY <1>1, <1>2, <1>3, <1>4, <1>5, <1>6, <1>7, <1>8, <1>9, <1>10
     DEF Next, ThreadStep, EventLoop, DestroyStep

\* NgxThreadPool::post keeps the promise AsyncTasks states: accepted tasks start in
\* posting order on at most as many workers as there are threads, run once, and are
\* delivered once, after which they may be posted again.
THEOREM PoolImplementsAsyncTasks == Spec => ImplementsAsyncTasks
<1>1. Init => Async!Init
  <2> SUFFICES ASSUME Init PROVE Async!Init
    OBVIOUS
  <2>1. PendingTasks = <<>> /\ Range(done) \cup Range(batch) = {} /\ stranded = {}
    BY EmptyRange DEF Init, PendingTasks
  <2>2. RunningTasks = {}
    BY DEF Init, RunningTasks
  <2> QED  BY <2>1, <2>2 DEF Async!Init
<1> QED
  BY <1>1, AsyncStep, DestroyInvariant, PTL DEF Spec, ImplementsAsyncTasks, Async!Spec
=============================================================================
