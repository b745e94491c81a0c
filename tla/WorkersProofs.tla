--------------------------- MODULE WorkersProofs ---------------------------
(***************************************************************************)
(* Proofs about Shmtx and Workers, for any number of workers, other        *)
(* processes, listening sockets, clients, faults and deaths.               *)
(***************************************************************************)
EXTENDS Workers, TLAPS, FiniteSetTheorems

-----------------------------------------------------------------------------
(* Type correctness and mutual exclusion.  MutualExclusion is inductive    *)
(* together with the types: its second half says that a pid comes back     *)
(* only after the lock word lost it.                                       *)

ExclusionInv == ShmtxTypeOK /\ MutualExclusion

\* The zone as the master created it.
LEMMA ExclusionInit == ShmtxInit => ExclusionInv
<1> SUFFICES ASSUME ShmtxInit PROVE ExclusionInv
  OBVIOUS
<1>1. ShmtxTypeOK
  <2>1. wait \in Int /\ sem \in Nat /\ crashes \in 0 .. MaxCrashes
    BY ShmtxAssumption DEF ShmtxInit
  <2>2. lock \in Procs \cup {Free} /\ pc \in [Procs -> PC] /\ reaper \in Reaper
    BY DEF ShmtxInit, PC, Reaper
  <2>3. leaked \in Nat /\ lost \in Nat /\ unwoken \in BOOLEAN
    BY DEF ShmtxInit
  <2> QED  BY <2>1, <2>2, <2>3 DEF ShmtxTypeOK
<1>2. MutualExclusion
  BY ShmtxAssumption DEF ShmtxInit, MutualExclusion, Owning
<1> QED  BY <1>1, <1>2 DEF ExclusionInv

\* Every step of a process in ngx_shmtx_lock keeps the types and the exclusion.
LEMMA LockingExclusion ==
    ASSUME ExclusionInv, NEW p \in Procs, Enter(p) \/ Locking(p)
    PROVE  ExclusionInv'
<1> USE DEF ExclusionInv, ShmtxTypeOK, MutualExclusion, PC, Owning, Go, history
<1> USE ShmtxAssumption
<1>1. CASE Enter(p)
  BY <1>1 DEF Enter
<1>2. CASE Try(p)
  BY <1>2 DEF Try, Acquire
<1>3. CASE GiveUp(p)
  BY <1>3 DEF GiveUp
<1>4. CASE Announce(p)
  BY <1>4 DEF Announce
<1>5. CASE Retry(p)
  BY <1>5 DEF Retry, Acquire
<1>6. CASE Withdraw(p)
  BY <1>6 DEF Withdraw
<1>7. CASE RetryFails(p)
  BY <1>7 DEF RetryFails
<1>8. CASE Awake(p)
  BY <1>8 DEF Awake
<1> QED
  BY <1>1, <1>2, <1>3, <1>4, <1>5, <1>6, <1>7, <1>8 DEF Locking

\* So does every step in ngx_shmtx_unlock, a failing sem_wait, a death, and what the
\* master does.
LEMMA UnlockingExclusion ==
    ASSUME ExclusionInv,
           (\E p \in Procs : Unlocking(p) \/ SemWaitFails(p) \/ Crash(p)) \/ Master
    PROVE  ExclusionInv'
<1> USE DEF ExclusionInv, ShmtxTypeOK, MutualExclusion, PC, Owning, Go, history,
            Reaper
<1> USE ShmtxAssumption
<1>1. ASSUME NEW p \in Procs, Unlock(p) PROVE ExclusionInv'
  BY <1>1 DEF Unlock
<1>2. ASSUME NEW p \in Procs, Wakeup(p) PROVE ExclusionInv'
  BY <1>2 DEF Wakeup
<1>3. ASSUME NEW p \in Procs, Post(p) PROVE ExclusionInv'
  BY <1>3 DEF Post
<1>4. ASSUME NEW p \in Procs, Crash(p) PROVE ExclusionInv'
  BY <1>4 DEF Crash
<1>5. ASSUME NEW p \in Procs, ForceUnlock(p) PROVE ExclusionInv'
  BY <1>5 DEF ForceUnlock
<1>6. ASSUME NEW p \in Procs, Respawn(p) PROVE ExclusionInv'
  BY <1>6 DEF Respawn
<1>7. CASE ReaperWakeup
  BY <1>7 DEF ReaperWakeup
<1>8. CASE ReaperPost
  BY <1>8 DEF ReaperPost
<1>9. ASSUME NEW p \in Procs, SemWaitFails(p) PROVE ExclusionInv'
  BY <1>9 DEF SemWaitFails
<1> QED
  BY <1>1, <1>2, <1>3, <1>4, <1>5, <1>6, <1>7, <1>8, <1>9 DEF Unlocking, Master

\* The types and the exclusion survive every step.
LEMMA ExclusionNext == ExclusionInv /\ [ShmtxNext]_shmtxVars => ExclusionInv'
<1> SUFFICES ASSUME ExclusionInv, [ShmtxNext]_shmtxVars PROVE ExclusionInv'
  OBVIOUS
<1>1. CASE ShmtxNext
  BY <1>1, LockingExclusion, UnlockingExclusion DEF ShmtxNext
<1>2. CASE UNCHANGED shmtxVars
  BY <1>2 DEF shmtxVars, ExclusionInv, ShmtxTypeOK, MutualExclusion
<1> QED  BY <1>1, <1>2

\* ExclusionInv holds in every reachable state.
THEOREM ExclusionInvariant == ShmtxSpec => []ExclusionInv
BY ExclusionInit, ExclusionNext, PTL DEF ShmtxSpec

-----------------------------------------------------------------------------
(* The tokens.                                                             *)

\* How a step of one process changes the number of processes in some states.
LEMMA CountMoves ==
    ASSUME ShmtxTypeOK, NEW S, NEW p \in Procs, NEW s, pc' = [pc EXCEPT ![p] = s]
    PROVE  /\ Count(S) \in Nat
           /\ Count(S)' = Count(S) + (IF s \in S THEN 1 ELSE 0)
                                   - (IF pc[p] \in S THEN 1 ELSE 0)
<1> DEFINE There == {q \in Procs : pc[q] \in S}
<1>1. IsFiniteSet(There) /\ Cardinality(There) \in Nat
  BY ShmtxAssumption, FS_Subset, FS_CardinalityType
<1>2. There' = IF s \in S THEN There \cup {p} ELSE There \ {p}
  BY DEF ShmtxTypeOK
<1>3. p \in There <=> pc[p] \in S
  OBVIOUS
<1>4. /\ Cardinality(There \cup {p}) =
           IF p \in There THEN Cardinality(There) ELSE Cardinality(There) + 1
      /\ Cardinality(There \ {p}) =
           IF p \in There THEN Cardinality(There) - 1 ELSE Cardinality(There)
  BY <1>1, FS_AddElement, FS_RemoveElement
<1>5. Count(S) = Cardinality(There) /\ Count(S)' = Cardinality(There')
  BY DEF Count
<1> HIDE DEF There
<1>6. CASE s \in S
  <2>1. Cardinality(There') = Cardinality(There \cup {p})
    BY <1>2, <1>6
  <2> QED  BY <1>1, <1>3, <1>4, <1>5, <1>6, <2>1
<1>7. CASE s \notin S
  <2>1. Cardinality(There') = Cardinality(There \ {p})
    BY <1>2, <1>7
  <2> QED  BY <1>1, <1>3, <1>4, <1>5, <1>7, <2>1
<1> QED  BY <1>6, <1>7

\* Processes that did not move are counted as before.
LEMMA CountUnmoved ==
    ASSUME NEW S, pc' = pc
    PROVE  Count(S)' = Count(S)
BY DEF Count

\* The tokens on their way less the announcements, as far as the processes'
\* control states tell, and what a process in state s contributes.
Balance == Count({"post"}) - Count(Announced)
Weight(s) == (IF s = "post" THEN 1 ELSE 0) - (IF s \in Announced THEN 1 ELSE 0)

\* TokenAccounting in terms of the balance.
Balanced ==
    wait + sem + Balance + (IF reaper = "post" THEN 1 ELSE 0) = leaked - lost

\* The two say the same, before and after a step.
LEMMA AccountingBalance ==
    ASSUME ShmtxTypeOK, ShmtxTypeOK'
    PROVE  /\ Balance \in Int /\ Balance' \in Int
           /\ TokenAccounting <=> Balanced
           /\ TokenAccounting' <=> Balanced'
<1>1. /\ Count({"post"}) \in Nat /\ Count(Announced) \in Nat
      /\ Count({"post"})' \in Nat /\ Count(Announced)' \in Nat
  BY ShmtxAssumption, FS_Subset, FS_CardinalityType DEF Count
<1>2. Balance \in Int /\ (TokenAccounting <=> Balanced)
  BY <1>1 DEF Balance, Balanced, TokenAccounting, Tokens, ShmtxTypeOK
<1>3. Balance' \in Int /\ (TokenAccounting' <=> Balanced')
  BY <1>1 DEF Balance, Balanced, TokenAccounting, Tokens, ShmtxTypeOK
<1> QED  BY <1>2, <1>3

\* How the balance changes when p goes from state a to state b.
LEMMA BalanceMoves ==
    ASSUME ShmtxTypeOK, NEW p \in Procs, NEW a, NEW b, Go(p, a, b)
    PROVE  Balance' = Balance + Weight(b) - Weight(a)
<1>1. /\ Count({"post"}) \in Nat
      /\ Count({"post"})' = Count({"post"}) + (IF b \in {"post"} THEN 1 ELSE 0)
                                           - (IF pc[p] \in {"post"} THEN 1 ELSE 0)
  BY CountMoves DEF Go
<1>2. /\ Count(Announced) \in Nat
      /\ Count(Announced)' = Count(Announced) + (IF b \in Announced THEN 1 ELSE 0)
                                              - (IF pc[p] \in Announced THEN 1 ELSE 0)
  BY CountMoves DEF Go
<1>3. pc[p] = a
  BY DEF Go
<1> QED  BY <1>1, <1>2, <1>3 DEF Balance, Weight

TokenInv == ExclusionInv /\ TokenAccounting

\* Every announcement is answered once: the steps of the processes.
LEMMA ProcessTokens ==
    ASSUME TokenInv, ExclusionInv', NEW p \in Procs,
           Enter(p) \/ Locking(p) \/ Unlocking(p) \/ SemWaitFails(p) \/ Crash(p)
    PROVE  TokenAccounting'
<1>0. /\ ShmtxTypeOK /\ ShmtxTypeOK'
      /\ Balance \in Int /\ Balance' \in Int
      /\ Balanced
  BY AccountingBalance DEF TokenInv, ExclusionInv
<1>1. SUFFICES Balanced'
  BY <1>0, AccountingBalance
<1> USE <1>0 DEF ShmtxTypeOK, Balanced, Weight, Announced, history
<1>2. CASE Enter(p)
  <2>1. Balance' = Balance + Weight("try") - Weight("out")
    BY <1>2, BalanceMoves DEF Enter
  <2> QED  BY <1>2, <2>1 DEF Enter
<1>3. CASE Try(p)
  <2>1. \E a \in {"try", "woken"} : Balance' = Balance + Weight("cs") - Weight(a)
    BY <1>3, BalanceMoves DEF Try, Acquire
  <2> QED  BY <1>3, <2>1 DEF Try, Acquire
<1>4. CASE GiveUp(p)
  <2>1. \E a \in {"try", "woken"} : Balance' = Balance + Weight("inc") - Weight(a)
    BY <1>4, BalanceMoves DEF GiveUp
  <2> QED  BY <1>4, <2>1 DEF GiveUp
<1>5. CASE Announce(p)
  <2>1. Balance' = Balance + Weight("retry") - Weight("inc")
    BY <1>5, BalanceMoves DEF Announce
  <2> QED  BY <1>5, <2>1 DEF Announce
<1>6. CASE Retry(p)
  <2>1. Balance' = Balance + Weight("dec") - Weight("retry")
    BY <1>6, BalanceMoves DEF Retry, Acquire
  <2> QED  BY <1>6, <2>1 DEF Retry, Acquire
<1>7. CASE Withdraw(p)
  <2>1. Balance' = Balance + Weight("cs") - Weight("dec")
    BY <1>7, BalanceMoves DEF Withdraw
  <2> QED  BY <1>7, <2>1 DEF Withdraw
<1>8. CASE RetryFails(p)
  <2>1. Balance' = Balance + Weight("sleep") - Weight("retry")
    BY <1>8, BalanceMoves DEF RetryFails
  <2> QED  BY <1>8, <2>1 DEF RetryFails
<1>9. CASE Awake(p)
  <2>1. Balance' = Balance + Weight("woken") - Weight("sleep")
    BY <1>9, BalanceMoves DEF Awake
  <2> QED  BY <1>9, <2>1 DEF Awake
<1>10. CASE Unlock(p)
  <2>1. \E b \in {"wakeup", "out"} : Balance' = Balance + Weight(b) - Weight("cs")
    BY <1>10, BalanceMoves DEF Unlock
  <2> QED  BY <1>10, <2>1 DEF Unlock
<1>11. CASE Wakeup(p)
  <2>1. CASE Go(p, "wakeup", "post") /\ wait' = wait - 1
    <3>1. Balance' = Balance + Weight("post") - Weight("wakeup")
      BY <2>1, BalanceMoves
    <3> QED  BY <1>11, <2>1, <3>1 DEF Wakeup
  <2>2. CASE Go(p, "wakeup", "out") /\ UNCHANGED wait
    <3>1. Balance' = Balance + Weight("out") - Weight("wakeup")
      BY <2>2, BalanceMoves
    <3> QED  BY <1>11, <2>2, <3>1 DEF Wakeup
  <2> QED  BY <1>11, <2>1, <2>2 DEF Wakeup
<1>12. CASE Post(p)
  <2>1. Balance' = Balance + Weight("out") - Weight("post")
    BY <1>12, BalanceMoves DEF Post
  <2> QED  BY <1>12, <2>1 DEF Post
<1>13. CASE Crash(p)
  <2>1. Balance' = Balance + Weight("dead") - Weight(pc[p])
    BY <1>13, BalanceMoves DEF Crash, Go
  <2> QED  BY <1>13, <2>1 DEF Crash
<1>14. CASE SemWaitFails(p)
  <2>1. Balance' = Balance + Weight("woken") - Weight("sleep")
    BY <1>14, BalanceMoves DEF SemWaitFails
  <2> QED  BY <1>14, <2>1 DEF SemWaitFails
<1> QED
  BY <1>2, <1>3, <1>4, <1>5, <1>6, <1>7, <1>8, <1>9, <1>10, <1>11, <1>12, <1>13, <1>14
     DEF Locking, Unlocking

\* The master's steps in the name of a dead process, and no step at all.
LEMMA MasterTokens ==
    ASSUME TokenInv, ExclusionInv', Master \/ UNCHANGED shmtxVars
    PROVE  TokenAccounting'
<1>0. /\ ShmtxTypeOK /\ ShmtxTypeOK'
      /\ Balance \in Int /\ Balance' \in Int
      /\ Balanced
  BY AccountingBalance DEF TokenInv, ExclusionInv
<1>1. SUFFICES Balanced'
  BY <1>0, AccountingBalance
<1> USE <1>0 DEF ShmtxTypeOK, Balanced, Weight, Announced, history
<1>2. ASSUME NEW p \in Procs, ForceUnlock(p)
      PROVE  Balanced'
  <2>1. Balance' = Balance + Weight("gone") - Weight("dead")
    BY <1>2, BalanceMoves DEF ForceUnlock
  <2> QED  BY <1>2, <2>1 DEF ForceUnlock
<1>3. ASSUME NEW p \in Procs, Respawn(p)
      PROVE  Balanced'
  <2>1. Balance' = Balance + Weight("out") - Weight("gone")
    BY <1>3, BalanceMoves DEF Respawn
  <2> QED  BY <1>3, <2>1 DEF Respawn
<1>4. ASSUME pc' = pc PROVE Balance' = Balance
  BY <1>4, CountUnmoved DEF Balance
<1>5. CASE ReaperWakeup
  <2>1. Balance' = Balance
    BY <1>4, <1>5 DEF ReaperWakeup
  <2>2. CASE wait' = wait - 1 /\ reaper' = "post"
    BY <1>5, <2>1, <2>2 DEF ReaperWakeup
  <2>3. CASE wait' = wait /\ reaper' = "idle"
    BY <1>5, <2>1, <2>3 DEF ReaperWakeup
  <2> QED  BY <1>5, <2>2, <2>3 DEF ReaperWakeup
<1>6. CASE ReaperPost
  BY <1>4, <1>6 DEF ReaperPost
<1>7. CASE UNCHANGED shmtxVars
  BY <1>4, <1>7 DEF shmtxVars
<1> QED  BY <1>2, <1>3, <1>5, <1>6, <1>7 DEF Master

\* The zone starts with no announcement and no token.
LEMMA TokenInit == ShmtxInit => TokenInv
<1> SUFFICES ASSUME ShmtxInit PROVE TokenAccounting
  BY ExclusionInit DEF TokenInv
<1>1. {p \in Procs : pc[p] \in {"post"}} = {} /\ {p \in Procs : pc[p] \in Announced} = {}
  BY DEF ShmtxInit, Announced
<1>2. Count({"post"}) = 0 /\ Count(Announced) = 0
  BY <1>1, FS_EmptySet DEF Count
<1> QED  BY <1>2 DEF ShmtxInit, TokenAccounting, Tokens

\* Every step keeps the tokens and the announcements in balance.
LEMMA TokenNext == TokenInv /\ [ShmtxNext]_shmtxVars => TokenInv'
BY ExclusionNext, ProcessTokens, MasterTokens DEF TokenInv, ShmtxNext

\* TokenInv holds in every reachable state.
THEOREM TokenInvariant == ShmtxSpec => []TokenInv
BY TokenInit, TokenNext, PTL DEF ShmtxSpec

-----------------------------------------------------------------------------
(* Stranded sleepers.  NoStrandedSleeper is about quiet states only; what  *)
(* every state satisfies is that the duty to wake a sleeper is somebody's. *)

Sleeping == \E p \in Procs : pc[p] = "sleep"

\* Somebody will give up, take or pass on a token: a process or the master in
\* ngx_shmtx_wakeup, or a process that sem_wait let go.
OnDuty ==
    \/ \E p \in Procs : pc[p] \in {"wakeup", "post", "woken"}
    \/ reaper \in {"wakeup", "post"}
    \/ sem > 0

\* While a process sleeps and the lock is free somebody is on duty, unless a
\* process died while it was.
DutyKept == lock = Free /\ Sleeping => OnDuty \/ lost > 0 \/ unwoken

DutyInv == TokenInv /\ DutyKept

\* ngx_shmtx_wakeup returns without a post only if every sleeper's token is in
\* the semaphore or about to be posted by another.
LEMMA NoTokenLeft ==
    ASSUME TokenInv, wait <= 0, Sleeping, lost = 0
    PROVE  sem > 0 \/ reaper = "post" \/ \E p \in Procs : pc[p] = "post"
<1> SUFFICES ASSUME sem = 0, reaper # "post", \A p \in Procs : pc[p] # "post"
             PROVE  FALSE
  BY DEF TokenInv, ExclusionInv, ShmtxTypeOK
<1>1. {p \in Procs : pc[p] \in {"post"}} = {}
  OBVIOUS
<1>2. Count({"post"}) = 0
  BY <1>1, FS_EmptySet DEF Count
<1>3. {p \in Procs : pc[p] \in Announced} # {}
  BY DEF Sleeping, Announced
<1>4. IsFiniteSet({p \in Procs : pc[p] \in Announced})
  BY ShmtxAssumption, FS_Subset
<1>5. Count(Announced) \in Nat \ {0}
  BY <1>3, <1>4, FS_EmptySet, FS_CardinalityType DEF Count
<1> QED
  BY <1>2, <1>5 DEF TokenInv, ExclusionInv, ShmtxTypeOK, TokenAccounting, Tokens

\* The duty is passed on by every step of a process ...
LEMMA ProcessDuty ==
    ASSUME DutyInv, NEW p \in Procs,
           Enter(p) \/ Locking(p) \/ Unlocking(p) \/ SemWaitFails(p) \/ Crash(p)
    PROVE  DutyKept'
<1>0. TokenInv /\ ExclusionInv /\ ShmtxTypeOK /\ DutyKept
  BY DEF DutyInv, TokenInv, ExclusionInv
<1> USE <1>0, ShmtxAssumption
        DEF ShmtxTypeOK, DutyKept, OnDuty, Sleeping, Go, history
<1>1. CASE Enter(p)
  BY <1>1 DEF Enter
<1>2. CASE Try(p) \/ Retry(p)
  BY <1>2 DEF Try, Retry, Acquire
<1>3. CASE GiveUp(p)
  BY <1>3 DEF GiveUp
<1>4. CASE Announce(p)
  BY <1>4 DEF Announce
<1>5. CASE Withdraw(p)
  <2>1. lock = p
    BY <1>5 DEF Withdraw, ExclusionInv, MutualExclusion, Owning
  <2> QED  BY <1>5, <2>1 DEF Withdraw
<1>6. CASE RetryFails(p)
  BY <1>6 DEF RetryFails
<1>7. CASE Awake(p) \/ SemWaitFails(p)
  <2>1. pc'[p] = "woken"
    BY <1>7 DEF Awake, SemWaitFails
  <2> QED  BY <2>1
<1>8. CASE Unlock(p)
  <2>1. lock = p
    BY <1>8 DEF Unlock, ExclusionInv, MutualExclusion, Owning
  <2>2. pc'[p] = "wakeup"
    BY <1>8, <2>1 DEF Unlock
  <2> QED  BY <2>2
<1>9. CASE Wakeup(p)
  <2>1. CASE wait > 0
    <3>1. pc'[p] = "post"
      BY <1>9, <2>1 DEF Wakeup
    <3> QED  BY <3>1
  <2>2. CASE wait <= 0
    <3>1. /\ Sleeping' => Sleeping
          /\ \A q \in Procs : pc[q] = "post" => pc'[q] = "post"
          /\ UNCHANGED <<lock, sem, reaper, lost, unwoken>>
      BY <1>9, <2>2 DEF Wakeup
    <3> QED  BY <2>2, <3>1, NoTokenLeft
  <2> QED  BY <2>1, <2>2
<1>10. CASE Post(p)
  BY <1>10 DEF Post
<1>11. CASE Crash(p)
  <2>1. CASE pc[p] \in {"wakeup", "woken"} \/ unwoken
    BY <1>11, <2>1 DEF Crash
  <2>2. CASE pc[p] = "post" \/ lost > 0
    BY <1>11, <2>2 DEF Crash
  <2>3. CASE pc[p] \notin {"wakeup", "woken", "post"} /\ ~(lost > 0) /\ ~unwoken
    <3>1. /\ Sleeping' => Sleeping
          /\ \A q \in Procs : pc[q] \in {"wakeup", "post", "woken"} => pc'[q] = pc[q]
          /\ UNCHANGED <<lock, reaper, sem>>
      BY <1>11, <2>3 DEF Crash
    <3> QED  BY <2>3, <3>1
  <2> QED  BY <2>1, <2>2, <2>3
<1> QED
  BY <1>1, <1>2, <1>3, <1>4, <1>5, <1>6, <1>7, <1>8, <1>9, <1>10, <1>11
     DEF Locking, Unlocking

\* ... and by the master.
LEMMA MasterDuty ==
    ASSUME DutyInv, Master \/ UNCHANGED shmtxVars
    PROVE  DutyKept'
<1>0. TokenInv /\ ShmtxTypeOK /\ DutyKept
  BY DEF DutyInv, TokenInv, ExclusionInv
<1> USE <1>0 DEF ShmtxTypeOK, DutyKept, OnDuty, Sleeping, Go, history
<1>1. ASSUME NEW p \in Procs, ForceUnlock(p) \/ Respawn(p) PROVE DutyKept'
  BY <1>1 DEF ForceUnlock, Respawn
<1>2. CASE ReaperWakeup
  <2>1. CASE wait > 0
    BY <1>2, <2>1 DEF ReaperWakeup
  <2>2. CASE wait <= 0
    <3>1. UNCHANGED <<lock, pc, sem, lost, unwoken>> /\ reaper # "post"
      BY <1>2 DEF ReaperWakeup
    <3> QED  BY <2>2, <3>1, NoTokenLeft
  <2> QED  BY <2>1, <2>2
<1>3. CASE ReaperPost
  BY <1>3 DEF ReaperPost
<1>4. CASE UNCHANGED shmtxVars
  BY <1>4 DEF shmtxVars
<1> QED  BY <1>1, <1>2, <1>3, <1>4 DEF Master

\* DutyInv holds in every reachable state.
THEOREM DutyInvariant == ShmtxSpec => []DutyInv
<1>1. ShmtxInit => DutyInv
  BY TokenInit DEF DutyInv, ShmtxInit, DutyKept, Sleeping
<1>2. DutyInv /\ [ShmtxNext]_shmtxVars => DutyInv'
  BY TokenNext, ProcessDuty, MasterDuty DEF DutyInv, ShmtxNext
<1> QED  BY <1>1, <1>2, PTL DEF ShmtxSpec

\* The lock is free when the processes are outside, asleep or gone, so in a quiet
\* state nobody is on duty but the semaphore.
LEMMA QuietIsFree ==
    ASSUME DutyInv
    PROVE  NoStrandedSleeper
<1> SUFFICES ASSUME Quiet, sem = 0, Sleeping PROVE lost > 0 \/ unwoken
  BY DEF NoStrandedSleeper, Sleeping
<1>1. lock = Free
  BY DEF DutyInv, TokenInv, ExclusionInv, MutualExclusion, ShmtxTypeOK, Quiet, Owning
<1>2. ~OnDuty
  BY DEF OnDuty, Quiet
<1> QED  BY <1>1, <1>2 DEF DutyInv, DutyKept

-----------------------------------------------------------------------------
(* The zone's mutex: what the workers' loops, the master and the other     *)
(* processes do to it together are steps of Shmtx.                         *)

\* Every step of the worker processes and the master is a step of Shmtx or leaves
\* the zone's mutex alone.
LEMMA StepsOfShmtx == [Next]_vars => [ShmtxNext]_shmtxVars
<1> SUFFICES ASSUME [Next]_vars PROVE [ShmtxNext]_shmtxVars
  OBVIOUS
<1>1. ASSUME NEW w \in Worker, LoopStep(w) PROVE [ShmtxNext]_shmtxVars
  BY <1>1 DEF LoopStep
<1>2. ASSUME NEW p \in Procs, UseZone(p) \/ InZone(p) \/ WaitFails(p) \/ Dies(p)
      PROVE  [ShmtxNext]_shmtxVars
  BY <1>2 DEF UseZone, InZone, WaitFails, Dies, ShmtxNext
<1>3. ASSUME NEW l \in Listening, ClientConnects(l) PROVE [ShmtxNext]_shmtxVars
  BY <1>3 DEF ClientConnects
<1>4. CASE MasterStep
  BY <1>4 DEF MasterStep, ReaperWakes, Reap, Restart, ShmtxNext, Master
<1>5. CASE UNCHANGED vars
  BY <1>5 DEF vars
<1> QED  BY <1>1, <1>2, <1>3, <1>4, <1>5 DEF Next

\* The worker processes use the mutex of the zone as Shmtx says.
THEOREM ImplementsShmtx == Spec => ShmtxSpec
<1>1. Init => ShmtxInit
  BY DEF Init
<1> QED  BY <1>1, StepsOfShmtx, PTL DEF Spec, ShmtxSpec

\* With any number of processes, dying at any instruction of ngx_shmtx_lock and
\* ngx_shmtx_unlock, two are never inside together, and the word of the lock names
\* the one that is, or one that died inside.
THEOREM ZoneExclusive == Spec => []MutualExclusion
<1>1. ExclusionInv => MutualExclusion
  BY DEF ExclusionInv
<1> QED  BY <1>1, ImplementsShmtx, ExclusionInvariant, PTL

\* Announcements in *mtx->wait and answers in the semaphore balance, whatever the
\* order of the races between announcing, withdrawing, waking and dying.
THEOREM ZoneTokens == Spec => []TokenAccounting
<1>1. TokenInv => TokenAccounting
  BY DEF TokenInv
<1> QED  BY <1>1, ImplementsShmtx, TokenInvariant, PTL

\* A process sleeps for ever on a free lock only if one died with the duty to wake
\* it.
THEOREM ZoneSleepers == Spec => []NoStrandedSleeper
<1>1. DutyInv => NoStrandedSleeper
  BY QuietIsFree
<1> QED  BY <1>1, ImplementsShmtx, DutyInvariant, PTL

-----------------------------------------------------------------------------
(* The accept mutex.  AcceptDiscipline is not inductive: a worker releases *)
(* the mutex because ngx_accept_mutex_held says it has it, and what it     *)
(* handles without it was decided where it entered epoll_wait.             *)

\* What holds of every worker w: it owns the mutex only where it may, and then
\* knows that it does; its accept events are handled, or dropped with the process,
\* before the loop goes on; already in epoll_wait it owns the mutex, or has one of
\* the excuses of AcceptsUnderMutex, if it listens; it remembers that it listens.
Disciplined(w) ==
    /\ acceptLock = w => pc[w] = "dead" \/ at[w] \in {"events", "accept"}
    /\ acceptLock = w => held[w]
    /\ batch[w] # {} => at[w] = "accept"
    /\ at[w] = "events" \/ batch[w] # {} =>
           acceptLock = w \/ skipped[w] \/ partial[w] \/ enabled[w] = {}
    /\ enabled[w] # {} => held[w] \/ partial[w]

AcceptInv == TypeOK /\ \A w \in Worker : Disciplined(w)

\* AcceptInv without the zone's part of the types, which ShmtxProofs takes care of.
AcceptTypeOK ==
    /\ acceptLock \in Worker \cup {Free}
    /\ at \in [Worker -> At]
    /\ held \in [Worker -> BOOLEAN]
    /\ disabled \in [Worker -> -MaxFree .. Reserve]
    /\ enabled \in [Worker -> SUBSET Listening]
    /\ batch \in [Worker -> SUBSET Listening]
    /\ free \in [Worker -> 0 .. MaxFree]
    /\ backlog \in [Listening -> 0 .. MaxClients]
    /\ faults \in 0 .. MaxFaults
    /\ skipped \in [Worker -> BOOLEAN] /\ partial \in [Worker -> BOOLEAN]

\* TypeOK in its two parts.
LEMMA TypeParts == TypeOK <=> ShmtxTypeOK /\ AcceptTypeOK
BY DEF TypeOK, AcceptTypeOK

\* What the assumptions on the constants say of single ones.
LEMMA Numbers ==
    /\ Reserve \in Nat \ {0} /\ MaxFree \in Nat /\ MaxClients \in Nat
    /\ MaxFaults \in Nat /\ NListening \in Nat
    /\ Free \notin Worker /\ Worker \subseteq Procs
BY WorkersAssumption, ShmtxAssumption

\* A worker's own steps keep the types of its variables.
LEMMA LoopTypes ==
    ASSUME TypeOK, NEW w \in Worker, LoopStep(w)
    PROVE  AcceptTypeOK'
<1>0. AcceptTypeOK /\ crashes \in Nat
  BY TypeParts, ShmtxAssumption DEF ShmtxTypeOK
<1> USE <1>0, Numbers DEF AcceptTypeOK, At, Moves, Listening
<1>1. ASSUME SkipMutex(w) PROVE AcceptTypeOK'
  <2>1. UNCHANGED <<acceptLock, held, enabled, batch, free, backlog, faults, partial>>
    BY <1>1 DEF SkipMutex
  <2>2. at' \in [Worker -> At] /\ skipped' \in [Worker -> BOOLEAN]
    BY <1>1 DEF SkipMutex
  <2>3. disabled' \in [Worker -> -MaxFree .. Reserve]
    <3>1. disabled[w] - 1 \in -MaxFree .. Reserve
      BY <1>1 DEF SkipMutex
    <3> QED  BY <1>1, <3>1 DEF SkipMutex
  <2> QED  BY <2>1, <2>2, <2>3
<1>2. ASSUME MutexTaken(w) \/ MutexBusy(w) PROVE AcceptTypeOK'
  <2>1. UNCHANGED <<disabled, batch, free, backlog, faults, partial>>
    BY <1>2 DEF MutexTaken, MutexBusy, TryingMutex
  <2>2. acceptLock' \in Worker \cup {Free} /\ at' \in [Worker -> At]
    BY <1>2 DEF MutexTaken, MutexBusy
  <2>3. enabled' \in [Worker -> SUBSET Listening]
    BY <1>2 DEF MutexTaken, MutexBusy
  <2>4. held' \in [Worker -> BOOLEAN] /\ skipped' \in [Worker -> BOOLEAN]
    BY <1>2 DEF MutexTaken, MutexBusy, TryingMutex
  <2> QED  BY <2>1, <2>2, <2>3, <2>4
<1>3. ASSUME EnableFails(w) \/ DisableFails(w) PROVE AcceptTypeOK'
  <2>1. UNCHANGED <<acceptLock, held, disabled, batch, free, backlog>>
    BY <1>3 DEF EnableFails, DisableFails, TryingMutex
  <2>2. at' \in [Worker -> At]
    BY <1>3 DEF EnableFails, DisableFails
  <2>7. faults' \in 0 .. MaxFaults
    <3>1. Fault
      BY <1>3 DEF EnableFails, DisableFails
    <3> QED  BY <3>1 DEF Fault
  <2>3. PICK k \in 0 .. NListening - 1 :
            /\ \/ enabled' = [enabled EXCEPT ![w] = @ \cup 1 .. k]
               \/ enabled' = [enabled EXCEPT ![w] = @ \ (1 .. k)]
            /\ partial' = [partial EXCEPT ![w] = @ \/ k > 0]
    BY <1>3 DEF EnableFails, DisableFails
  <2>4. enabled' \in [Worker -> SUBSET Listening]
    <3>1. 1 .. k \subseteq Listening /\ enabled[w] \subseteq Listening
      OBVIOUS
    <3> HIDE DEF Listening
    <3>2. CASE enabled' = [enabled EXCEPT ![w] = @ \cup 1 .. k]
      BY <3>1, <3>2
    <3>3. CASE enabled' = [enabled EXCEPT ![w] = @ \ (1 .. k)]
      BY <3>1, <3>3
    <3> QED  BY <2>3, <3>2, <3>3
  <2>5. partial' \in [Worker -> BOOLEAN]
    BY <2>3
  <2>6. skipped' \in [Worker -> BOOLEAN]
    BY <1>3 DEF EnableFails, DisableFails, TryingMutex
  <2> QED  BY <2>1, <2>2, <2>4, <2>5, <2>6, <2>7
<1>4. ASSUME EventsReported(w) PROVE AcceptTypeOK'
  BY <1>4 DEF EventsReported
<1>5. ASSUME NEW l \in Listening, Accepts(w, l) PROVE AcceptTypeOK'
  <2>1. UNCHANGED <<acceptLock, at, held, enabled, faults, skipped, partial>>
    BY <1>5 DEF Accepts, Handles
  <2>2. batch' \in [Worker -> SUBSET Listening]
    BY <1>5 DEF Accepts, Handles
  <2>3. disabled' \in [Worker -> -MaxFree .. Reserve]
    <3>1. disabled' = [disabled EXCEPT ![w] = Reserve - free[w]]
      BY <1>5 DEF Accepts
    <3>2. Reserve - free[w] \in -MaxFree .. Reserve
      <4>1. free[w] \in 0 .. MaxFree /\ Reserve \in Nat /\ MaxFree \in Nat
        OBVIOUS
      <4> QED  BY <4>1
    <3> QED  BY <3>1, <3>2
  <2>4. free' \in [Worker -> 0 .. MaxFree]
    <3>1. free' = [free EXCEPT ![w] = IF @ > 0 THEN @ - 1 ELSE 0]
      BY <1>5 DEF Accepts
    <3>2. (IF free[w] > 0 THEN free[w] - 1 ELSE 0) \in 0 .. MaxFree
      <4>1. free[w] \in 0 .. MaxFree /\ MaxFree \in Nat
        OBVIOUS
      <4> QED  BY <4>1
    <3> QED  BY <3>1, <3>2
  <2>5. backlog' \in [Listening -> 0 .. MaxClients]
    <3>1. backlog' = [backlog EXCEPT ![l] = @ - 1] /\ backlog[l] > 0
      BY <1>5 DEF Accepts
    <3>2. backlog[l] - 1 \in 0 .. MaxClients
      <4>1. backlog[l] \in 0 .. MaxClients /\ MaxClients \in Nat
        OBVIOUS
      <4> QED  BY <3>1, <4>1
    <3> HIDE DEF Listening
    <3> QED  BY <3>1, <3>2
  <2> QED  BY <2>1, <2>2, <2>3, <2>4, <2>5
<1>6. ASSUME NEW l \in Listening, AcceptsNothing(w, l) PROVE AcceptTypeOK'
  BY <1>6 DEF AcceptsNothing, Handles
<1>7. ASSUME NEW l \in Listening, OutOfFiles(w, l) PROVE AcceptTypeOK'
  <2>1. UNCHANGED <<at, free, backlog, skipped, partial>>
    BY <1>7 DEF OutOfFiles, Handles
  <2>2. /\ batch' \in [Worker -> SUBSET Listening]
        /\ enabled' \in [Worker -> SUBSET Listening]
    BY <1>7 DEF OutOfFiles, Handles
  <2>3. disabled' \in [Worker -> -MaxFree .. Reserve] /\ faults' \in 0 .. MaxFaults
    BY <1>7 DEF OutOfFiles, Fault
  <2>4. acceptLock' \in Worker \cup {Free} /\ held' \in [Worker -> BOOLEAN]
    BY <1>7 DEF OutOfFiles, ReleaseAccept
  <2> QED  BY <2>1, <2>2, <2>3, <2>4
<1>8. ASSUME NEW l \in Listening, OutOfFilesListening(w, l) PROVE AcceptTypeOK'
  <2>1. UNCHANGED <<acceptLock, at, held, disabled, free, backlog, skipped>>
    BY <1>8 DEF OutOfFilesListening, Handles
  <2>2. batch' \in [Worker -> SUBSET Listening] /\ faults' \in 0 .. MaxFaults
    BY <1>8 DEF OutOfFilesListening, Handles, Fault
  <2>3. PICK k \in 0 .. NListening - 1 :
            /\ enabled' = [enabled EXCEPT ![w] = @ \ (1 .. k)]
            /\ partial' = [partial EXCEPT ![w] = @ \/ k > 0]
    BY <1>8 DEF OutOfFilesListening
  <2>4. enabled' \in [Worker -> SUBSET Listening]
    BY <2>3
  <2>5. partial' \in [Worker -> BOOLEAN]
    BY <2>3
  <2> QED  BY <2>1, <2>2, <2>4, <2>5
<1>9. ASSUME UnlockAccept(w) PROVE AcceptTypeOK'
  <2>1. UNCHANGED <<held, disabled, enabled, batch, free, backlog, faults, partial>>
    BY <1>9 DEF UnlockAccept
  <2>2. acceptLock' \in Worker \cup {Free} /\ at' \in [Worker -> At]
    BY <1>9 DEF UnlockAccept, ReleaseAccept
  <2>3. skipped' \in [Worker -> BOOLEAN]
    BY <1>9 DEF UnlockAccept
  <2> QED  BY <2>1, <2>2, <2>3
<1>10. ASSUME CloseConnection(w) PROVE AcceptTypeOK'
  <2>1. UNCHANGED <<acceptLock, held, disabled, enabled, batch, backlog, faults,
                    skipped, partial>>
    BY <1>10 DEF CloseConnection
  <2>2. at' \in [Worker -> At]
    BY <1>10 DEF CloseConnection
  <2>3. free' \in [Worker -> 0 .. MaxFree]
    BY <1>10 DEF CloseConnection
  <2> QED  BY <2>1, <2>2, <2>3
<1>11. ASSUME IterationEnds(w) PROVE AcceptTypeOK'
  BY <1>11 DEF IterationEnds
<1> QED
  BY <1>1, <1>2, <1>3, <1>4, <1>5, <1>6, <1>7, <1>8, <1>9, <1>10, <1>11
     DEF LoopStep, Loop

\* So do the steps of the zone's users, of clients and of the master.
LEMMA OtherTypes ==
    ASSUME TypeOK,
           \/ \E p \in Procs : UseZone(p) \/ InZone(p) \/ WaitFails(p) \/ Dies(p)
           \/ \E l \in Listening : ClientConnects(l)
           \/ MasterStep
           \/ UNCHANGED vars
    PROVE  AcceptTypeOK'
<1>0. AcceptTypeOK
  BY TypeParts
<1> USE <1>0, Numbers DEF AcceptTypeOK, At
<1>1. ASSUME NEW p \in Procs, UseZone(p) PROVE AcceptTypeOK'
  BY <1>1 DEF UseZone, Moves
<1>2. ASSUME UNCHANGED acceptVars PROVE AcceptTypeOK'
  BY <1>2 DEF acceptVars
<1>3. ASSUME NEW l \in Listening, ClientConnects(l) PROVE AcceptTypeOK'
  <2>1. UNCHANGED <<acceptLock, at, held, disabled, enabled, batch, free, faults,
                    skipped, partial>>
    BY <1>3 DEF ClientConnects
  <2>2. backlog' \in [Listening -> 0 .. MaxClients]
    BY <1>3 DEF ClientConnects
  <2> QED  BY <2>1, <2>2
<1>4. ASSUME NEW p \in Procs, Reap(p) PROVE AcceptTypeOK'
  <2>1. CASE p \in Worker
    <3>1. /\ UNCHANGED <<backlog, faults>>
          /\ at' \in [Worker -> At]
          /\ acceptLock' \in Worker \cup {Free}
      BY <1>4, <2>1 DEF Reap, ReleaseAccept
    <3>2. /\ enabled' \in [Worker -> SUBSET Listening]
          /\ batch' \in [Worker -> SUBSET Listening]
      BY <1>4, <2>1 DEF Reap
    <3>3. /\ disabled' \in [Worker -> -MaxFree .. Reserve]
          /\ free' \in [Worker -> 0 .. MaxFree]
      BY <1>4, <2>1 DEF Reap
    <3>4. /\ held' \in [Worker -> BOOLEAN] /\ skipped' \in [Worker -> BOOLEAN]
          /\ partial' \in [Worker -> BOOLEAN]
      BY <1>4, <2>1 DEF Reap
    <3> QED  BY <3>1, <3>2, <3>3, <3>4
  <2>2. CASE p \notin Worker
    BY <1>2, <1>4, <2>2 DEF Reap
  <2> QED  BY <2>1, <2>2
<1> QED
  BY <1>1, <1>2, <1>3, <1>4 DEF InZone, WaitFails, Dies, MasterStep, ReaperWakes, Restart, vars

\* The types are kept by every step.
LEMMA WorkersTypes == TypeOK /\ MutualExclusion /\ [Next]_vars => TypeOK'
<1> SUFFICES ASSUME TypeOK, MutualExclusion, [Next]_vars PROVE TypeOK'
  OBVIOUS
<1>1. ShmtxTypeOK'
  BY StepsOfShmtx, ExclusionNext, TypeParts DEF ExclusionInv
<1>2. AcceptTypeOK'
  BY LoopTypes, OtherTypes DEF Next
<1> QED  BY <1>1, <1>2 DEF TypeOK, AcceptTypeOK

\* What is not of v's own making does not disturb it.
Untouched(v) ==
    /\ acceptLock' = v <=> acceptLock = v
    /\ pc[v] = "dead" => pc'[v] = "dead"
    /\ at'[v] = at[v] /\ held'[v] = held[v] /\ enabled'[v] = enabled[v]
    /\ batch'[v] = batch[v] /\ skipped'[v] = skipped[v] /\ partial'[v] = partial[v]

\* A worker whose part of the state stays as it is stays disciplined.
LEMMA UntouchedDisciplined ==
    ASSUME NEW v \in Worker, Disciplined(v), Untouched(v)
    PROVE  Disciplined(v)'
BY DEF Disciplined, Untouched

\* A worker's loop leaves the other workers alone: it takes the accept mutex only
\* when it is free and releases only its own.
LEMMA LoopLeavesOthers ==
    ASSUME TypeOK, NEW w \in Worker, LoopStep(w), NEW v \in Worker, v # w
    PROVE  Untouched(v)
<1>0. AcceptTypeOK /\ pc' = pc
  BY TypeParts DEF LoopStep, shmtxVars
<1> USE <1>0, Numbers DEF AcceptTypeOK, Untouched, Moves
<1>1. ASSUME SkipMutex(w) PROVE Untouched(v)
  BY <1>1 DEF SkipMutex
<1>2. ASSUME MutexTaken(w) PROVE Untouched(v)
  BY <1>2 DEF MutexTaken, TryingMutex
<1>3. ASSUME MutexBusy(w) PROVE Untouched(v)
  BY <1>3 DEF MutexBusy, TryingMutex
<1>4. ASSUME EnableFails(w) \/ DisableFails(w) PROVE Untouched(v)
  BY <1>4 DEF EnableFails, DisableFails, TryingMutex
<1>5. ASSUME EventsReported(w) PROVE Untouched(v)
  BY <1>5 DEF EventsReported
<1>6. ASSUME NEW l \in Listening, Accepts(w, l) \/ AcceptsNothing(w, l)
      PROVE  Untouched(v)
  BY <1>6 DEF Accepts, AcceptsNothing, Handles
<1>7. ASSUME NEW l \in Listening, OutOfFiles(w, l) PROVE Untouched(v)
  BY <1>7 DEF OutOfFiles, Handles, ReleaseAccept
<1>8. ASSUME NEW l \in Listening, OutOfFilesListening(w, l) PROVE Untouched(v)
  BY <1>8 DEF OutOfFilesListening, Handles
<1>9. ASSUME UnlockAccept(w) PROVE Untouched(v)
  BY <1>9 DEF UnlockAccept, ReleaseAccept
<1>10. ASSUME CloseConnection(w) \/ IterationEnds(w) PROVE Untouched(v)
  BY <1>10 DEF CloseConnection, IterationEnds
<1> QED
  BY <1>1, <1>2, <1>3, <1>4, <1>5, <1>6, <1>7, <1>8, <1>9, <1>10 DEF LoopStep, Loop

\* A worker's loop keeps its own discipline, also where epoll_ctl or accept fails.
LEMMA LoopDisciplined ==
    ASSUME TypeOK, NEW w \in Worker, Disciplined(w), LoopStep(w)
    PROVE  Disciplined(w)'
<1>0. AcceptTypeOK /\ pc' = pc
  BY TypeParts DEF LoopStep, shmtxVars
<1> USE <1>0, Numbers DEF AcceptTypeOK, Disciplined, Moves, Running
<1>1. ASSUME SkipMutex(w) PROVE Disciplined(w)'
  BY <1>1 DEF SkipMutex
<1>2. ASSUME MutexTaken(w) PROVE Disciplined(w)'
  BY <1>2 DEF MutexTaken, TryingMutex
<1>3. ASSUME MutexBusy(w) PROVE Disciplined(w)'
  BY <1>3 DEF MutexBusy, TryingMutex
<1>4. ASSUME EnableFails(w) \/ DisableFails(w) PROVE Disciplined(w)'
  <2>1. /\ at[w] = "top" /\ at'[w] = "top" /\ pc[w] # "dead"
        /\ UNCHANGED <<acceptLock, held, batch>>
    BY <1>4 DEF EnableFails, DisableFails, TryingMutex
  <2>2. PICK k \in 0 .. NListening - 1 :
            /\ \/ enabled' = [enabled EXCEPT ![w] = @ \cup 1 .. k]
               \/ enabled' = [enabled EXCEPT ![w] = @ \ (1 .. k)]
            /\ partial' = [partial EXCEPT ![w] = @ \/ k > 0]
    BY <1>4 DEF EnableFails, DisableFails
  <2>3. partial[w] => partial'[w]
    BY <2>2
  <2>4. CASE k > 0
    <3>1. partial'[w]
      BY <2>2, <2>4
    <3> QED  BY <2>1, <3>1
  <2>5. CASE k = 0
    <3>1. 1 .. k = {}
      BY <2>5
    <3>2. enabled'[w] = enabled[w]
      BY <2>2, <3>1
    <3> QED  BY <2>1, <2>3, <3>2
  <2> QED  BY <2>4, <2>5
<1>5. ASSUME EventsReported(w) PROVE Disciplined(w)'
  BY <1>5 DEF EventsReported
<1>6. ASSUME NEW l \in Listening, Accepts(w, l) \/ AcceptsNothing(w, l)
      PROVE  Disciplined(w)'
  BY <1>6 DEF Accepts, AcceptsNothing, Handles
<1>7. ASSUME NEW l \in Listening, OutOfFiles(w, l) PROVE Disciplined(w)'
  BY <1>7 DEF OutOfFiles, Handles, ReleaseAccept
<1>8. ASSUME NEW l \in Listening, OutOfFilesListening(w, l) PROVE Disciplined(w)'
  BY <1>8 DEF OutOfFilesListening, Handles
<1>9. ASSUME UnlockAccept(w) PROVE Disciplined(w)'
  BY <1>9 DEF UnlockAccept, ReleaseAccept
<1>10. ASSUME CloseConnection(w) \/ IterationEnds(w) PROVE Disciplined(w)'
  BY <1>10 DEF CloseConnection, IterationEnds
<1> QED
  BY <1>1, <1>2, <1>3, <1>4, <1>5, <1>6, <1>7, <1>8, <1>9, <1>10 DEF LoopStep, Loop

\* The master's clean-up after a dead worker resets its state and frees the mutex
\* if it was the worker's.
LEMMA ReapDisciplined ==
    ASSUME AcceptInv, NEW p \in Procs, Reap(p), NEW v \in Worker
    PROVE  Disciplined(v)'
<1>0. AcceptTypeOK /\ ShmtxTypeOK /\ Disciplined(v)
  BY TypeParts DEF AcceptInv
<1>1. CASE v = p
  BY <1>0, <1>1, Numbers DEF Reap, ReleaseAccept, AcceptTypeOK, Disciplined
<1>2. CASE v # p
  <2>1. pc'[v] = pc[v]
    BY <1>0, <1>2, Numbers DEF Reap, ForceUnlock, Go, ShmtxTypeOK
  <2>2. Untouched(v)
    BY <1>0, <1>2, <2>1, Numbers
       DEF Reap, ReleaseAccept, AcceptTypeOK, Untouched, acceptVars
  <2> QED  BY <1>0, <2>2, UntouchedDisciplined
<1> QED  BY <1>1, <1>2

\* Using the zone, failing sem_wait, dying, being restarted, and clients that connect.
LEMMA OthersDisciplined ==
    ASSUME AcceptInv, NEW v \in Worker,
           \/ \E p \in Procs : UseZone(p) \/ InZone(p) \/ WaitFails(p) \/ Dies(p) \/ Restart(p)
           \/ \E l \in Listening : ClientConnects(l)
           \/ ReaperWakes
           \/ UNCHANGED vars
    PROVE  Disciplined(v)'
<1>0. AcceptTypeOK /\ ShmtxTypeOK /\ Disciplined(v)
  BY TypeParts DEF AcceptInv
<1> USE <1>0, Numbers DEF AcceptTypeOK, ShmtxTypeOK, Go
<1>1. ASSUME NEW p \in Procs, UseZone(p) PROVE Disciplined(v)'
  BY <1>1 DEF UseZone, Enter, Moves, Running, Disciplined
<1>2. ASSUME UNCHANGED acceptVars, pc[v] = "dead" => pc'[v] = "dead"
      PROVE  Disciplined(v)'
  BY <1>2, UntouchedDisciplined DEF Untouched, acceptVars
<1>3. ASSUME NEW p \in Procs, InZone(p) PROVE Disciplined(v)'
  <2>1. pc[v] = "dead" => pc'[v] = "dead"
    BY <1>3 DEF InZone, Locking, Try, Acquire, GiveUp, Announce, Retry, Withdraw,
                RetryFails, Awake, Unlocking, Unlock, Wakeup, Post
  <2> QED  BY <1>2, <1>3, <2>1 DEF InZone
<1>4. ASSUME NEW p \in Procs, WaitFails(p) \/ Dies(p) \/ Restart(p) PROVE Disciplined(v)'
  <2>1. pc[v] = "dead" => pc'[v] = "dead"
    BY <1>4 DEF WaitFails, SemWaitFails, Dies, Crash, Restart, Respawn
  <2> QED  BY <1>2, <1>4, <2>1 DEF WaitFails, Dies, Restart
<1>5. ASSUME NEW l \in Listening, ClientConnects(l) PROVE Disciplined(v)'
  BY <1>5, UntouchedDisciplined DEF ClientConnects, Untouched, shmtxVars
<1>6. ASSUME ReaperWakes PROVE Disciplined(v)'
  BY <1>2, <1>6 DEF ReaperWakes, ReaperWakeup, ReaperPost
<1>7. ASSUME UNCHANGED vars PROVE Disciplined(v)'
  BY <1>2, <1>7 DEF vars, shmtxVars
<1> QED  BY <1>1, <1>3, <1>4, <1>5, <1>6, <1>7

\* No step of anybody breaks the discipline of a worker.
LEMMA AcceptNext == AcceptInv /\ MutualExclusion /\ [Next]_vars => AcceptInv'
<1> SUFFICES ASSUME AcceptInv, MutualExclusion, [Next]_vars PROVE AcceptInv'
  OBVIOUS
<1>1. TypeOK'
  BY WorkersTypes DEF AcceptInv
<1>2. ASSUME NEW v \in Worker PROVE Disciplined(v)'
  <2>0. TypeOK /\ Disciplined(v)
    BY DEF AcceptInv
  <2>1. ASSUME NEW w \in Worker, LoopStep(w) PROVE Disciplined(v)'
    BY <2>0, <2>1, LoopDisciplined, LoopLeavesOthers, UntouchedDisciplined
  <2>2. ASSUME NEW p \in Procs, Reap(p) PROVE Disciplined(v)'
    BY <2>2, ReapDisciplined
  <2> QED  BY <2>1, <2>2, OthersDisciplined DEF Next, MasterStep
<1> QED  BY <1>1, <1>2 DEF AcceptInv

\* The workers start outside epoll_wait and without listening.
LEMMA AcceptInit == Init => AcceptInv
<1> SUFFICES ASSUME Init PROVE AcceptInv
  OBVIOUS
<1> USE Numbers
<1>1. ShmtxTypeOK
  BY ExclusionInit DEF Init, ExclusionInv
<1>2. /\ disabled \in [Worker -> -MaxFree .. Reserve]
      /\ free \in [Worker -> 0 .. MaxFree]
      /\ backlog \in [Listening -> 0 .. MaxClients]
      /\ faults \in 0 .. MaxFaults
  BY DEF Init
<1>3. /\ acceptLock \in Worker \cup {Free}
      /\ at \in [Worker -> At]
      /\ enabled \in [Worker -> SUBSET Listening]
      /\ batch \in [Worker -> SUBSET Listening]
  BY DEF Init, At
<1>4. /\ held \in [Worker -> BOOLEAN]
      /\ skipped \in [Worker -> BOOLEAN] /\ partial \in [Worker -> BOOLEAN]
  BY DEF Init
<1>5. ASSUME NEW w \in Worker PROVE Disciplined(w)
  BY DEF Init, Disciplined
<1> QED  BY <1>1, <1>2, <1>3, <1>4, <1>5 DEF AcceptInv, TypeOK

\* However many workers compete, fail to register sockets, run out of descriptors
\* or die: the accept mutex is held only from the attempt to the end of accepting,
\* nobody accepts without it or an excuse, and nobody forgets that it listens.
THEOREM AcceptCorrect == Spec => []AcceptDiscipline
<1>1. AcceptInv => AcceptDiscipline
  BY DEF AcceptInv, Disciplined, AcceptDiscipline, AcceptMutexReleased,
         AcceptsUnderMutex, ListenersRemembered
<1>2. Spec => []MutualExclusion
  BY ZoneExclusive
<1>3. Spec => []AcceptInv
  BY AcceptInit, AcceptNext, <1>2, PTL DEF Spec
<1> QED  BY <1>1, <1>3, PTL
=============================================================================
