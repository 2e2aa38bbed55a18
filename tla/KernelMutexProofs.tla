-------------------------- MODULE KernelMutexProofs --------------------------
(***************************************************************************)
(* For any number of threads, readers and condition variables: m->state    *)
(* counts the holders, the queue agrees with what its threads do, a chosen *)
(* thread gets its wake-up, no wake-up is lost, and the mutex implements   *)
(* RwLock.                                                                 *)
(***************************************************************************)
EXTENDS KernelMutex, FiniteSetTheorems, TLAPS

------------------------------------------------------------------------------
(* The queue                                                                 *)

Members(q)  == {q[i] : i \in 1 .. Len(q)}
Distinct(q) == \A i, j \in 1 .. Len(q) : q[i] = q[j] => i = j

\* What wq_wait_init_condvar does to the queue.
LEMMA AppendQueue ==
  ASSUME NEW q \in Seq(Threads), NEW t \in Threads
  PROVE  /\ Append(q, t) \in Seq(Threads)
         /\ Members(Append(q, t)) = Members(q) \cup {t}
         /\ Distinct(q) /\ t \notin Members(q) => Distinct(Append(q, t))
<1>1. /\ Append(q, t) \in Seq(Threads)
      /\ Len(Append(q, t)) = Len(q) + 1
      /\ Len(q) \in Nat
      /\ \A i \in 1 .. Len(q) : Append(q, t)[i] = q[i]
      /\ Append(q, t)[Len(q) + 1] = t
  OBVIOUS
<1>2. Members(Append(q, t)) = Members(q) \cup {t}
  BY <1>1 DEF Members
<1>3. ASSUME Distinct(q), t \notin Members(q) PROVE Distinct(Append(q, t))
  BY <1>1, <1>3 DEF Distinct, Members
<1> QED BY <1>1, <1>2, <1>3

\* What SLIST_REMOVE does to a queue that holds the thread once.
LEMMA WithoutQueue ==
  ASSUME NEW q \in Seq(Threads), NEW t \in Members(q), Distinct(q)
  PROVE  /\ Without(q, t) \in Seq(Threads)
         /\ Members(Without(q, t)) = Members(q) \ {t}
         /\ Distinct(Without(q, t))
<1> DEFINE k == CHOOSE i \in 1 .. Len(q) : q[i] = t
           w == [i \in 1 .. (Len(q) - 1) |-> IF i < k THEN q[i] ELSE q[i + 1]]
<1>1. k \in 1 .. Len(q) /\ q[k] = t /\ Len(q) \in Nat \ {0}
  BY DEF Members
<1>2. Without(q, t) = w
  BY DEF Without
<1> HIDE DEF k
<1>3. \A i \in 1 .. (Len(q) - 1) : w[i] \in Threads
  BY <1>1
<1>4. w \in Seq(Threads) /\ Len(w) = Len(q) - 1
  BY <1>1, <1>3
<1>5. \A i \in 1 .. (Len(q) - 1) : w[i] = IF i < k THEN q[i] ELSE q[i + 1]
  OBVIOUS
<1> HIDE DEF w
<1>6. Distinct(w)
  BY <1>1, <1>4, <1>5 DEF Distinct
<1>7. Members(w) \subseteq Members(q) \ {t}
  BY <1>1, <1>4, <1>5 DEF Distinct, Members
<1>8. ASSUME NEW u \in Members(q) \ {t} PROVE u \in Members(w)
  <2>1. PICK i \in 1 .. Len(q) : q[i] = u
    BY DEF Members
  <2>2. CASE i < k
    <3>1. i \in 1 .. Len(w) /\ w[i] = u
      BY <1>1, <1>4, <1>5, <2>1, <2>2
    <3> QED BY <3>1 DEF Members
  <2>3. CASE ~(i < k)
    <3>1. i - 1 \in 1 .. Len(w) /\ w[i - 1] = u
      BY <1>1, <1>4, <1>5, <2>1, <2>3
    <3> QED BY <3>1 DEF Members
  <2> QED BY <2>2, <2>3
<1> QED BY <1>2, <1>4, <1>6, <1>7, <1>8

------------------------------------------------------------------------------
(* The invariant                                                             *)

\* A chosen thread has its wake-up, or the thread that chose it is about to send it: like
\* ChosenIsWoken, but of a thread that is not asleep yet too.
Woken ==
  \A t \in Threads :
    elem[t].done => token[t] \/ \E u \in Threads : pc[u] = "rpc" /\ waking[u] = t

\* wq_wake_next sends a wake-up to a thread it has chosen.
KnowsWhom == \A u \in Threads : pc[u] = "rpc" => waking[u] \in Threads

IInv == TypeOK /\ StateCountsHolders /\ QueueIsConsistent /\ Woken /\ KnowsWhom /\ NoLostWakeup

\* Queued and QueueIsConsistent in terms of the operators above.
LEMMA QueuedIsMembers ==
  /\ Queued = Members(wq)
  /\ QueueIsConsistent <=>
       /\ Distinct(wq)
       /\ \A t \in Threads : pc[t] = "wait" => t \in Queued
       /\ \A t \in Threads : pc[t] \in {"idle", "lock", "rlock", "held", "rheld"} => t \notin Queued
BY DEF Queued, Members, Distinct, QueueIsConsistent

\* The same after a step.
LEMMA QueuedIsMembersNext ==
  /\ Queued' = Members(wq')
  /\ QueueIsConsistent' <=>
       /\ Distinct(wq')
       /\ \A t \in Threads : pc'[t] = "wait" => t \in Queued'
       /\ \A t \in Threads : pc'[t] \in {"idle", "lock", "rlock", "held", "rheld"} => t \notin Queued'
BY DEF Queued, Members, Distinct, QueueIsConsistent

\* The mutex is free, nobody is queued.
LEMMA InitInvariant == Init => IInv
<1> SUFFICES ASSUME Init PROVE IInv
  OBVIOUS
<1>1. TypeOK
  BY DEF Init, TypeOK, PCs, Elems, NoElem
<1>2. Writing = {} /\ Reading = {} /\ Queued = {}
  BY DEF Init, Writing, Reading, Queued
<1>3. StateCountsHolders /\ QueueIsConsistent
  BY <1>2 DEF Init, StateCountsHolders, QueueIsConsistent
<1>4. Woken /\ KnowsWhom /\ NoLostWakeup
  BY <1>2 DEF Init, Woken, KnowsWhom, NoLostWakeup, Stranded, NoElem
<1> QED BY <1>1, <1>3, <1>4 DEF IInv

------------------------------------------------------------------------------
(* What a step does to the holders.                                          *)

Holding == {"held", "rheld"}

TakeWrite(t) ==
  /\ state = 0 /\ state' = -1
  /\ pc[t] \notin Holding
  /\ pc' = [pc EXCEPT ![t] = "held"]

TakeRead(t) ==
  /\ state # -1 /\ state' = state + 1
  /\ pc[t] \notin Holding
  /\ pc' = [pc EXCEPT ![t] = "rheld"]

Give(t) ==
  /\ pc[t] \in Holding
  /\ state' = IF state > 1 THEN state - 1 ELSE 0
  /\ \E l \in {"idle", "wait", "scan"} : pc' = [pc EXCEPT ![t] = l]

Quiet ==
  /\ state' = state
  /\ \A t \in Threads : pc'[t] = pc[t] \/ (pc[t] \notin Holding /\ pc'[t] \notin Holding)

\* Who holds the mutex, by its state.
LEMMA HolderState ==
  ASSUME TypeOK, StateCountsHolders
  PROVE  /\ \A t \in Threads : pc[t] = "held" => state = -1
         /\ \A t \in Threads : pc[t] = "rheld" => state > 0
         /\ state = 0 => \A t \in Threads : pc[t] \notin Holding
         /\ state # -1 => \A t \in Threads : pc[t] # "held"
         /\ state # 0 /\ state # -1 => state > 0
BY DEF TypeOK, StateCountsHolders, Writing, Reading, Holding

\* Every step takes the mutex, gives it back, or leaves the holders alone.
LEMMA StepKinds ==
  ASSUME TypeOK, StateCountsHolders, Next
  PROVE  Quiet \/ \E t \in Threads : TakeWrite(t) \/ TakeRead(t) \/ Give(t)
<1> USE DEF Goto, Holding
<1> PICK t \in Threads :
      \/ CallLock(t) \/ CallReadLock(t) \/ LockTry(t) \/ ReadLockTry(t)
      \/ Trylock(t) \/ ReadTrylock(t) \/ Unlock(t) \/ ReadUnlock(t)
      \/ \E c \in Condvars : CondvarWait(t, c) \/ CondvarSignal(t, c) \/ CondvarBroadcast(t, c)
      \/ WakeScan(t) \/ WakeRpc(t) \/ WokenUp(t) \/ EarlyReturn(t)
  BY DEF Next
<1>0. pc \in [Threads -> PCs]
  BY DEF TypeOK
<1>1. CASE CallLock(t) \/ CallReadLock(t)
  BY <1>0, <1>1 DEF CallLock, CallReadLock, Quiet
<1>2. CASE LockTry(t)
  BY <1>0, <1>2 DEF LockTry, Quiet, TakeWrite
<1>3. CASE ReadLockTry(t)
  BY <1>0, <1>3 DEF ReadLockTry, Quiet, TakeRead
<1>4. CASE Trylock(t)
  BY <1>0, <1>4 DEF Trylock, TakeWrite
<1>5. CASE ReadTrylock(t)
  BY <1>0, <1>5 DEF ReadTrylock, TakeRead
<1>6. CASE Unlock(t)
  <2>1. state = -1
    BY <1>6, HolderState DEF Unlock
  <2>2. state' = IF state > 1 THEN state - 1 ELSE 0
    BY <1>6, <2>1 DEF Unlock
  <2>3. pc' = [pc EXCEPT ![t] = "scan"] /\ pc[t] \in Holding
    BY <1>6 DEF Unlock, StartWake
  <2>4. Give(t)
    BY <2>2, <2>3 DEF Give
  <2> QED BY <2>4
<1>7. CASE ReadUnlock(t)
  <2>1. state \in Int /\ state > 0
    BY <1>7, HolderState DEF ReadUnlock, TypeOK
  <2> QED BY <1>0, <1>7, <2>1 DEF ReadUnlock, StartWake, Give
<1>8. CASE \E c \in Condvars : CondvarWait(t, c)
  BY <1>0, <1>8 DEF CondvarWait, Holds, StartWake, Give
<1>9. CASE \E c \in Condvars : CondvarSignal(t, c) \/ CondvarBroadcast(t, c)
  BY <1>0, <1>9 DEF CondvarSignal, CondvarBroadcast, Quiet
<1>10. CASE WakeScan(t)
  BY <1>0, <1>10 DEF WakeScan, AfterWake, Quiet
<1>11. CASE WakeRpc(t)
  BY <1>0, <1>11 DEF WakeRpc, AfterWake, Quiet
<1>12. CASE WokenUp(t)
  BY <1>0, <1>12 DEF WokenUp, LeaveQueue, Quiet
<1>13. CASE EarlyReturn(t)
  BY <1>0, <1>13 DEF EarlyReturn, LeaveQueue, Quiet
<1> QED BY <1>1, <1>2, <1>3, <1>4, <1>5, <1>6, <1>7, <1>8, <1>9, <1>10, <1>11, <1>12, <1>13

\* m->state still counts the holders after a step: the mutex is taken for writing only when
\* it is free and for reading only when there is no writer, and is given back by a holder.
LEMMA HoldersCounted ==
  ASSUME TypeOK, TypeOK', StateCountsHolders, Next
  PROVE  StateCountsHolders'
<1> USE DEF Holding
<1>0. /\ pc \in [Threads -> PCs] /\ state \in Int
      /\ IsFiniteSet(Threads) /\ IsFiniteSet(Writing) /\ IsFiniteSet(Reading)
  BY KernelMutexAssumption, FS_Subset DEF TypeOK, Writing, Reading
<1>1. CASE Quiet
  <2>1. Writing' = Writing /\ Reading' = Reading
    BY <1>1 DEF Quiet, Writing, Reading
  <2> QED BY <1>1, <2>1 DEF Quiet, StateCountsHolders
<1>2. ASSUME NEW t \in Threads, TakeWrite(t) PROVE StateCountsHolders'
  <2>1. Writing = {} /\ Reading = {}
    BY <1>2, <1>0 DEF TakeWrite, StateCountsHolders
  <2>2. Writing' = {t} /\ Reading' = {}
    BY <1>0, <1>2, <2>1 DEF TakeWrite, Writing, Reading
  <2>3. Cardinality({t}) = 1
    BY FS_Singleton
  <2> QED BY <1>2, <2>2, <2>3 DEF TakeWrite, StateCountsHolders
<1>3. ASSUME NEW t \in Threads, TakeRead(t) PROVE StateCountsHolders'
  <2>1. Writing = {} /\ Cardinality(Reading) = state /\ state >= 0
    BY <1>0, <1>3, FS_EmptySet DEF TakeRead, StateCountsHolders
  <2>2. Writing' = {} /\ Reading' = Reading \cup {t} /\ t \notin Reading
    BY <1>0, <1>3, <2>1 DEF TakeRead, Writing, Reading
  <2>3. Cardinality(Reading \cup {t}) = state + 1
    BY <1>0, <2>1, <2>2, FS_AddElement
  <2>4. state' = state + 1 /\ state' > 0
    BY <1>0, <1>3, <2>1 DEF TakeRead
  <2> QED BY <2>2, <2>3, <2>4 DEF StateCountsHolders
<1>4. ASSUME NEW t \in Threads, Give(t), pc[t] = "held" PROVE StateCountsHolders'
  <2>1. t \in Writing
    BY <1>4 DEF Writing
  <2>2. state = -1 /\ Cardinality(Writing) = 1 /\ Reading = {}
    BY <1>0, <2>1 DEF StateCountsHolders
  <2>3. state' = 0
    BY <1>4, <2>2 DEF Give
  <2>4. Writing' = Writing \ {t} /\ Reading' = {}
    BY <1>0, <1>4, <2>2 DEF Give, Writing, Reading
  <2>5. IsFiniteSet(Writing \ {t}) /\ Cardinality(Writing \ {t}) = 0
    BY <1>0, <2>1, <2>2, FS_RemoveElement
  <2>6. Writing \ {t} = {}
    BY <2>5, FS_EmptySet
  <2> QED BY <2>3, <2>4, <2>6 DEF StateCountsHolders
<1>5. ASSUME NEW t \in Threads, Give(t), pc[t] = "rheld" PROVE StateCountsHolders'
  <2>1. t \in Reading
    BY <1>5 DEF Reading
  <2>2. state > 0 /\ Cardinality(Reading) = state /\ Writing = {}
    BY <1>0, <2>1 DEF StateCountsHolders
  <2>3. state' = state - 1
    BY <1>0, <1>5, <2>2 DEF Give
  <2>4. Reading' = Reading \ {t} /\ Writing' = {}
    BY <1>0, <1>5, <2>2 DEF Give, Writing, Reading
  <2>5. IsFiniteSet(Reading \ {t}) /\ Cardinality(Reading \ {t}) = state - 1
    BY <1>0, <2>1, <2>2, FS_RemoveElement
  <2>6. CASE state = 1
    <3>1. Reading \ {t} = {}
      BY <2>5, <2>6, FS_EmptySet
    <3> QED BY <2>3, <2>4, <2>6, <3>1 DEF StateCountsHolders
  <2>7. CASE state # 1
    <3>1. state' > 0
      BY <1>0, <2>2, <2>3, <2>7
    <3> QED BY <2>3, <2>4, <2>5, <3>1 DEF StateCountsHolders
  <2> QED BY <2>6, <2>7
<1>6. ASSUME NEW t \in Threads, Give(t) PROVE pc[t] = "held" \/ pc[t] = "rheld"
  BY <1>6 DEF Give
<1> QED BY StepKinds, <1>1, <1>2, <1>3, <1>4, <1>5, <1>6

------------------------------------------------------------------------------
(* Types and the queue, action by action.                                    *)

\* A step that queues the thread at the end.
LEMMA QueuedAtEnd ==
  ASSUME TypeOK, QueueIsConsistent, NEW t \in Threads, NEW r \in BOOLEAN,
         NEW c \in Condvars \cup {None}, NEW l \in {"wait", "scan"},
         pc[t] \in {"idle", "lock", "rlock", "held", "rheld"},
         WaitInit(t, r, c), pc' = [pc EXCEPT ![t] = l]
  PROVE  /\ wq' \in Seq(Threads) /\ elem' \in [Threads -> Elems] /\ pc' \in [Threads -> PCs]
         /\ QueueIsConsistent'
         /\ \A u \in Threads : elem'[u].done => elem[u].done
<1>1. wq \in Seq(Threads) /\ wq' = Append(wq, t) /\ pc \in [Threads -> PCs] /\ elem \in [Threads -> Elems]
  BY DEF TypeOK, WaitInit
<1>2. t \notin Queued
  BY DEF QueueIsConsistent
<1>3. Distinct(wq) /\ Queued = Members(wq)
  BY QueuedIsMembers
<1>4. wq' \in Seq(Threads) /\ Distinct(wq') /\ Queued' = Queued \cup {t}
  BY <1>1, <1>2, <1>3, AppendQueue, QueuedIsMembersNext
<1>5. \A u \in Threads : pc'[u] = IF u = t THEN l ELSE pc[u]
  BY <1>1
<1>6. QueueIsConsistent'
  BY <1>4, <1>5, QueuedIsMembers, QueuedIsMembersNext
<1>7. elem' \in [Threads -> Elems] /\ \A u \in Threads : elem'[u].done => elem[u].done
  BY <1>1 DEF WaitInit, Elems
<1>8. pc' \in [Threads -> PCs]
  BY <1>1 DEF PCs
<1> QED BY <1>4, <1>6, <1>7, <1>8

\* A step that takes the thread out of the queue.
LEMMA QueueLeft ==
  ASSUME TypeOK, QueueIsConsistent, NEW t \in Threads, pc[t] = "wait", LeaveQueue(t)
  PROVE  /\ wq' \in Seq(Threads) /\ elem' \in [Threads -> Elems] /\ pc' \in [Threads -> PCs]
         /\ QueueIsConsistent'
         /\ pc'[t] \in {"lock", "rlock"}
         /\ \A u \in Threads \ {t} : pc'[u] = pc[u] /\ elem'[u] = elem[u]
         /\ ~elem'[t].done
<1>1. wq \in Seq(Threads) /\ wq' = Without(wq, t) /\ pc \in [Threads -> PCs] /\ elem \in [Threads -> Elems]
  BY DEF TypeOK, LeaveQueue
<1>2. t \in Members(wq) /\ Distinct(wq) /\ Queued = Members(wq)
  BY QueuedIsMembers
<1>3. wq' \in Seq(Threads) /\ Distinct(wq') /\ Queued' = Queued \ {t}
  BY <1>1, <1>2, WithoutQueue, QueuedIsMembersNext
<1>4. /\ pc' \in [Threads -> PCs]
      /\ pc'[t] \in {"lock", "rlock"}
      /\ \A u \in Threads \ {t} : pc'[u] = pc[u]
  BY <1>1 DEF LeaveQueue, Goto, PCs
<1>5. QueueIsConsistent'
  BY <1>3, <1>4, QueuedIsMembers, QueuedIsMembersNext
<1>6. /\ elem' \in [Threads -> Elems]
      /\ ~elem'[t].done
      /\ \A u \in Threads \ {t} : elem'[u] = elem[u]
  BY <1>1 DEF LeaveQueue, NoElem, Elems
<1> QED BY <1>3, <1>4, <1>5, <1>6

\* A step that moves a thread and leaves the queue as it is.
LEMMA QueueKept ==
  ASSUME TypeOK, QueueIsConsistent, NEW t \in Threads, NEW l \in PCs,
         wq' = wq, pc' = [pc EXCEPT ![t] = l],
         l = "wait" => t \in Queued,
         l \in {"idle", "lock", "rlock", "held", "rheld"} => t \notin Queued
  PROVE  pc' \in [Threads -> PCs] /\ QueueIsConsistent'
<1>1. pc \in [Threads -> PCs] /\ Queued' = Queued
  BY DEF TypeOK, Queued
<1>2. pc' \in [Threads -> PCs] /\ \A u \in Threads : pc'[u] = IF u = t THEN l ELSE pc[u]
  BY <1>1
<1>3. Distinct(wq')
  BY QueuedIsMembers
<1> QED BY <1>1, <1>2, <1>3, QueuedIsMembers, QueuedIsMembersNext

\* A step that chooses nobody, and neither sends nor takes a wake-up.
LEMMA WakeUpsKept ==
  ASSUME Woken, KnowsWhom, token' = token, waking' = waking,
         \A u \in Threads : elem'[u].done => elem[u].done,
         \A u \in Threads : pc'[u] = "rpc" <=> pc[u] = "rpc"
  PROVE  Woken' /\ KnowsWhom'
BY DEF Woken, KnowsWhom

\* A thread that is in the loop of mutex_lock or mutex_read_lock, was chosen, or begins a
\* scan takes care of those that wait.
LEMMA ResponsibleSuffices ==
  ASSUME NEW u \in Threads,
         \/ pc'[u] \in {"lock", "rlock"}
         \/ u \in Queued' /\ elem'[u].done
         \/ pc'[u] = "scan" /\ wakeType'[u] = "any"
  PROVE  NoLostWakeup'
BY DEF NoLostWakeup, Responsible

\* mutex_lock and mutex_read_lock are called.
LEMMA CallKeeps ==
  ASSUME IInv, NEW t \in Threads, CallLock(t) \/ CallReadLock(t)
  PROVE  TypeOK' /\ QueueIsConsistent' /\ Woken' /\ KnowsWhom' /\ NoLostWakeup'
<1>1. PICK l \in {"lock", "rlock"} :
         /\ pc[t] = "idle" /\ pc' = [pc EXCEPT ![t] = l]
         /\ UNCHANGED <<state, wq, elem, wakeType, waking, token>>
  BY DEF CallLock, CallReadLock, Goto
<1>2. TypeOK /\ QueueIsConsistent /\ Woken /\ KnowsWhom /\ pc \in [Threads -> PCs]
  BY DEF IInv, TypeOK
<1>3. t \notin Queued /\ l \in PCs
  BY <1>1, <1>2 DEF QueueIsConsistent, PCs
<1>4. pc' \in [Threads -> PCs] /\ QueueIsConsistent'
  BY <1>1, <1>2, <1>3, QueueKept
<1>5. TypeOK'
  BY <1>1, <1>2, <1>4 DEF TypeOK
<1>6. \A u \in Threads : pc'[u] = "rpc" <=> pc[u] = "rpc"
  BY <1>1, <1>2
<1>7. Woken' /\ KnowsWhom'
  BY <1>1, <1>2, <1>6, WakeUpsKept
<1>8. pc'[t] \in {"lock", "rlock"}
  BY <1>1, <1>2
<1>9. NoLostWakeup'
  BY <1>8, ResponsibleSuffices
<1> QED BY <1>4, <1>5, <1>7, <1>9

\* The mutex is taken, in the loop or by one of the trylocks.
LEMMA TakeKeeps ==
  ASSUME IInv, NEW t \in Threads, TakeWrite(t) \/ TakeRead(t),
         pc[t] \in {"idle", "lock", "rlock"},
         UNCHANGED <<wq, elem, wakeType, waking, token>>
  PROVE  TypeOK' /\ QueueIsConsistent' /\ Woken' /\ KnowsWhom' /\ NoLostWakeup'
<1>1. PICK l \in {"held", "rheld"} : pc' = [pc EXCEPT ![t] = l]
  BY DEF TakeWrite, TakeRead
<1>2. TypeOK /\ QueueIsConsistent /\ Woken /\ KnowsWhom /\ pc \in [Threads -> PCs]
  BY DEF IInv, TypeOK
<1>3. t \notin Queued /\ l \in PCs
  BY <1>1, <1>2 DEF QueueIsConsistent, PCs
<1>4. pc' \in [Threads -> PCs] /\ QueueIsConsistent'
  BY <1>1, <1>2, <1>3, QueueKept
<1>5. state' \in Nat \cup {-1} /\ state' # 0
  BY <1>2 DEF TypeOK, TakeWrite, TakeRead
<1>6. TypeOK'
  BY <1>2, <1>4, <1>5 DEF TypeOK
<1>7. \A u \in Threads : pc'[u] = "rpc" <=> pc[u] = "rpc"
  BY <1>1, <1>2
<1>8. Woken' /\ KnowsWhom'
  BY <1>2, <1>7, WakeUpsKept
<1>9. NoLostWakeup'
  BY <1>5 DEF NoLostWakeup
<1> QED BY <1>4, <1>6, <1>8, <1>9

\* The mutex is not free and the thread queues.
LEMMA QueueKeeps ==
  ASSUME IInv, NEW t \in Threads, NEW r \in BOOLEAN,
         pc[t] \in {"lock", "rlock"}, state # 0, WaitInit(t, r, None), Goto(t, "wait"),
         UNCHANGED <<state, wakeType, waking, token>>
  PROVE  TypeOK' /\ QueueIsConsistent' /\ Woken' /\ KnowsWhom' /\ NoLostWakeup'
<1>1. pc' = [pc EXCEPT ![t] = "wait"]
  BY DEF Goto
<1>2. TypeOK /\ QueueIsConsistent /\ Woken /\ KnowsWhom /\ pc \in [Threads -> PCs]
  BY DEF IInv, TypeOK
<1>3. /\ wq' \in Seq(Threads) /\ elem' \in [Threads -> Elems] /\ pc' \in [Threads -> PCs]
      /\ QueueIsConsistent'
      /\ \A u \in Threads : elem'[u].done => elem[u].done
  BY <1>1, <1>2, QueuedAtEnd
<1>4. TypeOK'
  BY <1>2, <1>3 DEF TypeOK
<1>5. \A u \in Threads : pc'[u] = "rpc" <=> pc[u] = "rpc"
  BY <1>1, <1>2
<1>6. Woken' /\ KnowsWhom'
  BY <1>2, <1>3, <1>5, WakeUpsKept
<1>7. NoLostWakeup'
  BY DEF NoLostWakeup
<1> QED BY <1>3, <1>4, <1>6, <1>7

\* __mutex_unlock and __mutex_read_unlock: who frees the mutex begins a scan.
LEMMA UnlockKeeps ==
  ASSUME IInv, NEW t \in Threads, Unlock(t) \/ ReadUnlock(t)
  PROVE  TypeOK' /\ QueueIsConsistent' /\ Woken' /\ KnowsWhom' /\ NoLostWakeup'
<1>1. /\ TypeOK /\ StateCountsHolders /\ QueueIsConsistent /\ Woken /\ KnowsWhom
      /\ pc \in [Threads -> PCs] /\ wakeType \in [Threads -> {"any", "read", "write"}]
  BY DEF IInv, TypeOK
<1>2. pc[t] \in {"held", "rheld"} /\ UNCHANGED <<wq, elem, waking, token>>
  BY DEF Unlock, ReadUnlock
<1>3. /\ state' \in Nat \cup {-1}
      /\ \/ state' # 0 /\ pc' = [pc EXCEPT ![t] = "idle"] /\ wakeType' = wakeType
         \/ pc' = [pc EXCEPT ![t] = "scan"] /\ wakeType' = [wakeType EXCEPT ![t] = "any"]
  <2>1. CASE Unlock(t)
    BY <2>1 DEF Unlock, StartWake, Goto, SetWakeType
  <2>2. CASE ReadUnlock(t)
    <3>1. state \in Nat /\ state > 0
      BY <1>1, <2>2, HolderState DEF ReadUnlock, TypeOK
    <3> QED BY <2>2, <3>1 DEF ReadUnlock, StartWake, Goto, SetWakeType
  <2> QED BY <2>1, <2>2
<1>4. PICK l \in {"idle", "scan"} : pc' = [pc EXCEPT ![t] = l]
  BY <1>3
<1>5. t \notin Queued /\ l \in PCs
  BY <1>1, <1>2 DEF QueueIsConsistent, PCs
<1>6. pc' \in [Threads -> PCs] /\ QueueIsConsistent'
  BY <1>1, <1>2, <1>4, <1>5, QueueKept
<1>7. wakeType' \in [Threads -> {"any", "read", "write"}]
  BY <1>1, <1>3
<1>8. TypeOK'
  BY <1>1, <1>2, <1>3, <1>6, <1>7 DEF TypeOK
<1>9. \A u \in Threads : pc'[u] = "rpc" <=> pc[u] = "rpc"
  BY <1>1, <1>2, <1>4
<1>10. Woken' /\ KnowsWhom'
  BY <1>1, <1>2, <1>9, WakeUpsKept
<1>11. CASE state' # 0
  BY <1>6, <1>8, <1>10, <1>11 DEF NoLostWakeup
<1>12. CASE state' = 0
  <2>1. pc'[t] = "scan" /\ wakeType'[t] = "any"
    BY <1>1, <1>3, <1>12
  <2>2. NoLostWakeup'
    BY <2>1, ResponsibleSuffices
  <2> QED BY <1>6, <1>8, <1>10, <2>2
<1> QED BY <1>11, <1>12

\* __condvar_wait queues the thread and gives the mutex back.
LEMMA CondvarWaitKeeps ==
  ASSUME IInv, NEW t \in Threads, NEW c \in Condvars, CondvarWait(t, c)
  PROVE  TypeOK' /\ QueueIsConsistent' /\ Woken' /\ KnowsWhom' /\ NoLostWakeup'
<1>1. /\ TypeOK /\ QueueIsConsistent /\ Woken /\ KnowsWhom
      /\ pc \in [Threads -> PCs] /\ wakeType \in [Threads -> {"any", "read", "write"}]
      /\ state \in Int
  BY DEF IInv, TypeOK
<1>2. pc[t] \in {"held", "rheld"} /\ WaitInit(t, state > 0, c) /\ UNCHANGED <<waking, token>>
  BY DEF CondvarWait, Holds
<1>3. /\ state' \in Nat
      /\ \/ state' # 0 /\ pc' = [pc EXCEPT ![t] = "wait"] /\ wakeType' = wakeType
         \/ pc' = [pc EXCEPT ![t] = "scan"] /\ wakeType' = [wakeType EXCEPT ![t] = "any"]
  BY <1>1 DEF CondvarWait, StartWake, Goto, SetWakeType
<1>4. PICK l \in {"wait", "scan"} : pc' = [pc EXCEPT ![t] = l]
  BY <1>3
<1>5. (state > 0) \in BOOLEAN
  OBVIOUS
<1>6. /\ wq' \in Seq(Threads) /\ elem' \in [Threads -> Elems] /\ pc' \in [Threads -> PCs]
      /\ QueueIsConsistent'
      /\ \A u \in Threads : elem'[u].done => elem[u].done
  BY <1>1, <1>2, <1>4, <1>5, QueuedAtEnd
<1>7. wakeType' \in [Threads -> {"any", "read", "write"}]
  BY <1>1, <1>3
<1>8. TypeOK'
  BY <1>1, <1>2, <1>3, <1>6, <1>7 DEF TypeOK
<1>9. \A u \in Threads : pc'[u] = "rpc" <=> pc[u] = "rpc"
  BY <1>1, <1>2, <1>4
<1>10. Woken' /\ KnowsWhom'
  BY <1>1, <1>2, <1>6, <1>9, WakeUpsKept
<1>11. CASE state' # 0
  BY <1>6, <1>8, <1>10, <1>11 DEF NoLostWakeup
<1>12. CASE state' = 0
  <2>1. pc'[t] = "scan" /\ wakeType'[t] = "any"
    BY <1>1, <1>3, <1>12
  <2>2. NoLostWakeup'
    BY <2>1, ResponsibleSuffices
  <2> QED BY <1>6, <1>8, <1>10, <2>2
<1> QED BY <1>11, <1>12

\* condvar_signal and condvar_broadcast promote waiters while the caller holds the mutex.
LEMMA PromoteKeeps ==
  ASSUME IInv, NEW t \in Threads, NEW c \in Condvars, CondvarSignal(t, c) \/ CondvarBroadcast(t, c)
  PROVE  TypeOK' /\ QueueIsConsistent' /\ Woken' /\ KnowsWhom' /\ NoLostWakeup'
<1>1. /\ TypeOK /\ StateCountsHolders /\ QueueIsConsistent /\ Woken /\ KnowsWhom
      /\ elem \in [Threads -> Elems]
  BY DEF IInv, TypeOK
<1>2. pc[t] \in Holding /\ UNCHANGED <<state, wq, pc, wakeType, waking, token>>
  BY DEF CondvarSignal, CondvarBroadcast, Holds, Holding
<1>3. \E S : elem' = [u \in Threads |-> IF u \in S THEN [elem[u] EXCEPT !.cv = None] ELSE elem[u]]
  BY DEF CondvarSignal, CondvarBroadcast, Promote
<1>4. elem' \in [Threads -> Elems] /\ \A u \in Threads : elem'[u].done => elem[u].done
  BY <1>1, <1>3 DEF Elems
<1>5. TypeOK'
  BY <1>1, <1>2, <1>4 DEF TypeOK
<1>6. QueueIsConsistent'
  BY <1>1, <1>2 DEF QueueIsConsistent, Queued
<1>7. Woken' /\ KnowsWhom'
  BY <1>1, <1>2, <1>4, WakeUpsKept
<1>8. state' # 0
  BY <1>1, <1>2, HolderState
<1> QED BY <1>5, <1>6, <1>7, <1>8 DEF NoLostWakeup

\* wq_wake_next chooses a thread.
LEMMA ChooseKeeps ==
  ASSUME IInv, NEW t \in Threads, pc[t] = "scan", NEW u \in Queued,
         SetWakeType(t, IF elem[u].read THEN "read" ELSE "write"),
         elem' = [elem EXCEPT ![u].done = TRUE], waking' = [waking EXCEPT ![t] = u],
         Goto(t, "rpc"), UNCHANGED <<state, wq, token>>
  PROVE  TypeOK' /\ QueueIsConsistent' /\ Woken' /\ KnowsWhom' /\ NoLostWakeup'
<1>1. /\ TypeOK /\ QueueIsConsistent /\ Woken /\ KnowsWhom
      /\ pc \in [Threads -> PCs] /\ wakeType \in [Threads -> {"any", "read", "write"}]
      /\ elem \in [Threads -> Elems] /\ waking \in [Threads -> Threads \cup {None}]
      /\ wq \in Seq(Threads)
  BY DEF IInv, TypeOK
<1>2. u \in Threads /\ Queued' = Queued
  BY <1>1 DEF Queued
<1>3. pc' = [pc EXCEPT ![t] = "rpc"] /\ "rpc" \in PCs
  BY DEF Goto, PCs
<1>4. pc' \in [Threads -> PCs] /\ QueueIsConsistent'
  BY <1>1, <1>3, QueueKept
<1>5. elem' \in [Threads -> Elems] /\ elem'[u].done /\ \A x \in Threads \ {u} : elem'[x] = elem[x]
  BY <1>1, <1>2 DEF Elems
<1>6. waking' \in [Threads -> Threads \cup {None}] /\ waking'[t] = u
         /\ \A x \in Threads \ {t} : waking'[x] = waking[x]
  BY <1>1, <1>2
<1>7. wakeType' \in [Threads -> {"any", "read", "write"}]
  BY <1>1 DEF SetWakeType
<1>8. TypeOK'
  BY <1>1, <1>4, <1>5, <1>6, <1>7 DEF TypeOK
<1>9. pc'[t] = "rpc" /\ \A x \in Threads \ {t} : pc'[x] = pc[x]
  BY <1>1, <1>3
<1>10. Woken'
  <2> SUFFICES ASSUME NEW x \in Threads, elem'[x].done
               PROVE  token'[x] \/ \E v \in Threads : pc'[v] = "rpc" /\ waking'[v] = x
    BY DEF Woken
  <2>1. CASE x = u
    BY <1>6, <1>9, <2>1
  <2>2. CASE x # u
    <3>1. token[x] \/ \E v \in Threads : pc[v] = "rpc" /\ waking[v] = x
      BY <1>1, <1>5, <2>2 DEF Woken
    <3>2. ASSUME NEW v \in Threads, pc[v] = "rpc", waking[v] = x
          PROVE  pc'[v] = "rpc" /\ waking'[v] = x
      BY <1>6, <1>9, <3>2
    <3> QED BY <3>1, <3>2
  <2> QED BY <2>1, <2>2
<1>11. KnowsWhom'
  BY <1>1, <1>2, <1>6, <1>9 DEF KnowsWhom
<1>12. NoLostWakeup'
  BY <1>2, <1>5, ResponsibleSuffices
<1> QED BY <1>4, <1>8, <1>10, <1>11, <1>12

\* wq_wake_next finds nobody: those who wait are waited on by somebody else.
LEMMA ScanEndsKeeps ==
  ASSUME IInv, NEW t \in Threads, pc[t] = "scan",
         \A u \in Queued : ~Wakeable(u, wakeType[t]),
         Goto(t, AfterWake(t)), SetWakeType(t, "any"), UNCHANGED <<elem, waking, state, wq, token>>
  PROVE  TypeOK' /\ QueueIsConsistent' /\ Woken' /\ KnowsWhom' /\ NoLostWakeup'
<1>1. /\ TypeOK /\ QueueIsConsistent /\ Woken /\ KnowsWhom /\ NoLostWakeup
      /\ pc \in [Threads -> PCs] /\ wakeType \in [Threads -> {"any", "read", "write"}]
  BY DEF IInv, TypeOK
<1>2. PICK l \in {"idle", "wait"} :
         pc' = [pc EXCEPT ![t] = l] /\ (l = "wait" <=> t \in Queued)
  BY DEF Goto, AfterWake
<1>3. pc' \in [Threads -> PCs] /\ QueueIsConsistent'
  BY <1>1, <1>2, QueueKept DEF PCs
<1>4. wakeType' \in [Threads -> {"any", "read", "write"}]
  BY <1>1 DEF SetWakeType
<1>5. TypeOK'
  BY <1>1, <1>3, <1>4 DEF TypeOK
<1>6. \A u \in Threads : pc'[u] = "rpc" <=> pc[u] = "rpc"
  BY <1>1, <1>2
<1>7. Woken' /\ KnowsWhom'
  BY <1>1, <1>6, WakeUpsKept
<1>8. Queued' = Queued
  BY DEF Queued
<1>9. CASE wakeType[t] = "any"
  <2>1. \A u \in Threads : ~Stranded(u)'
    BY <1>8, <1>9 DEF Stranded, Wakeable
  <2>2. NoLostWakeup'
    BY <2>1 DEF NoLostWakeup
  <2> QED BY <1>3, <1>5, <1>7, <2>2
<1>10. CASE wakeType[t] # "any"
  <2>1. \A u \in Threads : Stranded(u)' <=> Stranded(u)
    BY <1>8 DEF Stranded
  <2>2. ASSUME NEW u \in Threads, Responsible(u) PROVE NoLostWakeup'
    <3>1. \/ pc'[u] \in {"lock", "rlock"}
          \/ u \in Queued' /\ elem'[u].done
          \/ pc'[u] = "scan" /\ wakeType'[u] = "any"
      BY <1>1, <1>2, <1>8, <1>10, <2>2 DEF Responsible, SetWakeType
    <3> QED BY <3>1, ResponsibleSuffices
  <2>3. NoLostWakeup'
    BY <1>1, <2>1, <2>2 DEF NoLostWakeup
  <2> QED BY <1>3, <1>5, <1>7, <2>3
<1> QED BY <1>9, <1>10

\* The wake-up is sent to the thread that was chosen.
LEMMA WakeRpcKeeps ==
  ASSUME IInv, NEW t \in Threads, WakeRpc(t)
  PROVE  TypeOK' /\ QueueIsConsistent' /\ Woken' /\ KnowsWhom' /\ NoLostWakeup'
<1>1. /\ TypeOK /\ QueueIsConsistent /\ Woken /\ KnowsWhom /\ NoLostWakeup
      /\ pc \in [Threads -> PCs] /\ wakeType \in [Threads -> {"any", "read", "write"}]
      /\ token \in [Threads -> BOOLEAN] /\ waking \in [Threads -> Threads \cup {None}]
  BY DEF IInv, TypeOK
<1>2. /\ pc[t] = "rpc"
      /\ token' = [token EXCEPT ![waking[t]] = TRUE]
      /\ waking' = [waking EXCEPT ![t] = None]
      /\ UNCHANGED <<state, wq, elem>>
  BY DEF WakeRpc
<1>3. PICK l \in {"scan", "idle", "wait"} :
         /\ pc' = [pc EXCEPT ![t] = l]
         /\ l = "wait" => t \in Queued
         /\ l = "idle" => t \notin Queued
  BY DEF WakeRpc, Goto, AfterWake
<1>4. pc' \in [Threads -> PCs] /\ QueueIsConsistent'
  BY <1>1, <1>2, <1>3, QueueKept DEF PCs
<1>5. /\ wakeType' \in [Threads -> {"any", "read", "write"}]
      /\ \A x \in Threads \ {t} : wakeType'[x] = wakeType[x]
  BY <1>1 DEF WakeRpc, SetWakeType
<1>6. waking[t] \in Threads
  BY <1>1, <1>2 DEF KnowsWhom
<1>7. /\ token' \in [Threads -> BOOLEAN]
      /\ token'[waking[t]] = TRUE
      /\ \A x \in Threads : token[x] => token'[x]
  BY <1>1, <1>2, <1>6
<1>8. waking' \in [Threads -> Threads \cup {None}] /\ \A x \in Threads \ {t} : waking'[x] = waking[x]
  BY <1>1, <1>2
<1>9. TypeOK'
  BY <1>1, <1>2, <1>4, <1>5, <1>7, <1>8 DEF TypeOK
<1>10. pc'[t] # "rpc" /\ \A x \in Threads \ {t} : pc'[x] = pc[x]
  BY <1>1, <1>3
<1>11. Woken'
  <2> SUFFICES ASSUME NEW x \in Threads, elem'[x].done
               PROVE  token'[x] \/ \E v \in Threads : pc'[v] = "rpc" /\ waking'[v] = x
    BY DEF Woken
  <2>1. token[x] \/ \E v \in Threads : pc[v] = "rpc" /\ waking[v] = x
    BY <1>1, <1>2 DEF Woken
  <2>2. CASE token[x]
    BY <1>7, <2>2
  <2>3. ASSUME NEW v \in Threads, pc[v] = "rpc", waking[v] = x
        PROVE  token'[x] \/ \E y \in Threads : pc'[y] = "rpc" /\ waking'[y] = x
    <3>1. CASE v = t
      BY <1>7, <2>3, <3>1
    <3>2. CASE v # t
      BY <1>8, <1>10, <2>3, <3>2
    <3> QED BY <3>1, <3>2
  <2> QED BY <2>1, <2>2, <2>3
<1>12. KnowsWhom'
  BY <1>1, <1>8, <1>10 DEF KnowsWhom
<1>13. Queued' = Queued
  BY <1>2 DEF Queued
<1>14. \A u \in Threads : Stranded(u)' <=> Stranded(u)
  BY <1>2, <1>13 DEF Stranded
<1>15. ASSUME NEW u \in Threads, Responsible(u) PROVE NoLostWakeup'
  <2>1. \/ pc'[u] \in {"lock", "rlock"}
        \/ u \in Queued' /\ elem'[u].done
        \/ pc'[u] = "scan" /\ wakeType'[u] = "any"
    BY <1>2, <1>5, <1>10, <1>13, <1>15 DEF Responsible
  <2> QED BY <2>1, ResponsibleSuffices
<1>16. NoLostWakeup'
  BY <1>1, <1>2, <1>14, <1>15 DEF NoLostWakeup
<1> QED BY <1>4, <1>9, <1>11, <1>12, <1>16

\* A sleep returns: the thread leaves the queue when it was chosen, and sleeps again when
\* the wake-up was an old one.
LEMMA SleepEndsKeeps ==
  ASSUME IInv, NEW t \in Threads, WokenUp(t) \/ EarlyReturn(t)
  PROVE  TypeOK' /\ QueueIsConsistent' /\ Woken' /\ KnowsWhom' /\ NoLostWakeup'
<1>1. /\ TypeOK /\ QueueIsConsistent /\ Woken /\ KnowsWhom /\ NoLostWakeup
      /\ token \in [Threads -> BOOLEAN]
  BY DEF IInv, TypeOK
<1>2. /\ pc[t] = "wait" /\ UNCHANGED <<state, wakeType, waking>>
      /\ token' \in [Threads -> BOOLEAN]
      /\ \A x \in Threads \ {t} : token'[x] = token[x]
  BY <1>1 DEF WokenUp, EarlyReturn
<1>3. CASE elem[t].done
  <2>1. LeaveQueue(t)
    BY <1>3 DEF WokenUp, EarlyReturn
  <2>2. /\ wq' \in Seq(Threads) /\ elem' \in [Threads -> Elems] /\ pc' \in [Threads -> PCs]
        /\ QueueIsConsistent'
        /\ pc'[t] \in {"lock", "rlock"}
        /\ \A u \in Threads \ {t} : pc'[u] = pc[u] /\ elem'[u] = elem[u]
        /\ ~elem'[t].done
    BY <1>1, <1>2, <2>1, QueueLeft
  <2>3. TypeOK'
    BY <1>1, <1>2, <2>2 DEF TypeOK
  <2>4. Woken'
    <3> SUFFICES ASSUME NEW x \in Threads, elem'[x].done
                 PROVE  token'[x] \/ \E v \in Threads : pc'[v] = "rpc" /\ waking'[v] = x
      BY DEF Woken
    <3>1. x # t /\ elem[x].done
      BY <2>2
    <3>2. token[x] \/ \E v \in Threads : pc[v] = "rpc" /\ waking[v] = x
      BY <1>1, <3>1 DEF Woken
    <3>3. \A v \in Threads : pc[v] = "rpc" => pc'[v] = "rpc" /\ waking'[v] = waking[v]
      BY <1>2, <2>2
    <3> QED BY <1>2, <3>1, <3>2, <3>3
  <2>5. KnowsWhom'
    BY <1>1, <1>2, <2>2 DEF KnowsWhom
  <2>6. NoLostWakeup'
    BY <2>2, ResponsibleSuffices
  <2> QED BY <2>2, <2>3, <2>4, <2>5, <2>6
<1>4. CASE ~elem[t].done
  <2>1. UNCHANGED <<wq, elem, pc>>
    BY <1>4 DEF WokenUp, EarlyReturn
  <2>2. TypeOK' /\ QueueIsConsistent' /\ KnowsWhom'
    BY <1>1, <1>2, <2>1 DEF TypeOK, QueueIsConsistent, Queued, KnowsWhom
  <2>3. Woken'
    BY <1>1, <1>2, <1>4, <2>1 DEF Woken
  <2>4. NoLostWakeup'
    BY <1>1, <1>2, <2>1 DEF NoLostWakeup, Stranded, Responsible, Queued
  <2> QED BY <2>2, <2>3, <2>4
<1> QED BY <1>3, <1>4

------------------------------------------------------------------------------
(* The theorems                                                              *)

\* Every step of every thread keeps the invariant.
LEMMA StepKeeps == IInv /\ [Next]_vars => IInv'
<1> SUFFICES ASSUME IInv, [Next]_vars PROVE IInv'
  OBVIOUS
<1>0. TypeOK /\ StateCountsHolders /\ pc \in [Threads -> PCs] /\ state \in Int
  BY DEF IInv, TypeOK
<1>1. CASE UNCHANGED vars
  BY <1>1 DEF vars, IInv, TypeOK, StateCountsHolders, Writing, Reading, QueueIsConsistent, Queued,
              Woken, KnowsWhom, NoLostWakeup, Stranded, Responsible
<1>2. ASSUME NEW t \in Threads,
             \/ CallLock(t) \/ CallReadLock(t) \/ LockTry(t) \/ ReadLockTry(t)
             \/ Trylock(t) \/ ReadTrylock(t) \/ Unlock(t) \/ ReadUnlock(t)
             \/ \E c \in Condvars : CondvarWait(t, c) \/ CondvarSignal(t, c) \/ CondvarBroadcast(t, c)
             \/ WakeScan(t) \/ WakeRpc(t) \/ WokenUp(t) \/ EarlyReturn(t)
      PROVE  TypeOK' /\ QueueIsConsistent' /\ Woken' /\ KnowsWhom' /\ NoLostWakeup'
  <2>1. CASE CallLock(t) \/ CallReadLock(t)
    BY <2>1, CallKeeps
  <2>2. CASE LockTry(t) /\ state = 0
    <3>1. TakeWrite(t) /\ pc[t] = "lock" /\ UNCHANGED <<wq, elem, wakeType, waking, token>>
      BY <2>2 DEF LockTry, TakeWrite, Goto, Holding
    <3> QED BY <3>1, TakeKeeps
  <2>3. CASE LockTry(t) /\ state # 0
    <3>1. /\ pc[t] = "lock" /\ WaitInit(t, FALSE, None) /\ Goto(t, "wait")
          /\ UNCHANGED <<state, wakeType, waking, token>>
      BY <2>3 DEF LockTry
    <3> QED BY <2>3, <3>1, QueueKeeps
  <2>4. CASE ReadLockTry(t) /\ state # -1
    <3>1. TakeRead(t) /\ pc[t] = "rlock" /\ UNCHANGED <<wq, elem, wakeType, waking, token>>
      BY <2>4 DEF ReadLockTry, TakeRead, Goto, Holding
    <3> QED BY <3>1, TakeKeeps
  <2>5. CASE ReadLockTry(t) /\ state = -1
    <3>1. /\ pc[t] = "rlock" /\ WaitInit(t, TRUE, None) /\ Goto(t, "wait")
          /\ UNCHANGED <<state, wakeType, waking, token>>
      BY <2>5 DEF ReadLockTry
    <3>2. state # 0
      BY <2>5
    <3> QED BY <3>1, <3>2, QueueKeeps
  <2>6. CASE Trylock(t) \/ ReadTrylock(t)
    <3>1. /\ TakeWrite(t) \/ TakeRead(t)
          /\ pc[t] = "idle" /\ UNCHANGED <<wq, elem, wakeType, waking, token>>
      BY <2>6 DEF Trylock, ReadTrylock, TakeWrite, TakeRead, Goto, Holding
    <3> QED BY <3>1, TakeKeeps
  <2>7. CASE Unlock(t) \/ ReadUnlock(t)
    BY <2>7, UnlockKeeps
  <2>8. CASE \E c \in Condvars : CondvarWait(t, c)
    BY <2>8, CondvarWaitKeeps
  <2>9. CASE \E c \in Condvars : CondvarSignal(t, c) \/ CondvarBroadcast(t, c)
    BY <2>9, PromoteKeeps
  <2>10. CASE WakeScan(t)
    <3>1. CASE \A u \in Queued : ~Wakeable(u, wakeType[t])
      <4>1. /\ pc[t] = "scan" /\ Goto(t, AfterWake(t)) /\ SetWakeType(t, "any")
            /\ UNCHANGED <<elem, waking, state, wq, token>>
        BY <2>10, <3>1 DEF WakeScan, Queued
      <4> QED BY <3>1, <4>1, ScanEndsKeeps
    <3>2. CASE ~\A u \in Queued : ~Wakeable(u, wakeType[t])
      <4>1. PICK u \in Queued :
               /\ pc[t] = "scan"
               /\ SetWakeType(t, IF elem[u].read THEN "read" ELSE "write")
               /\ elem' = [elem EXCEPT ![u].done = TRUE] /\ waking' = [waking EXCEPT ![t] = u]
               /\ Goto(t, "rpc") /\ UNCHANGED <<state, wq, token>>
        BY <2>10, <3>2 DEF WakeScan, Queued
      <4> QED BY <4>1, ChooseKeeps
    <3> QED BY <3>1, <3>2
  <2>11. CASE WakeRpc(t)
    BY <2>11, WakeRpcKeeps
  <2>12. CASE WokenUp(t) \/ EarlyReturn(t)
    BY <2>12, SleepEndsKeeps
  <2> QED BY <1>2, <2>1, <2>2, <2>3, <2>4, <2>5, <2>6, <2>7, <2>8, <2>9, <2>10, <2>11, <2>12
<1>3. CASE Next
  <2>1. TypeOK' /\ QueueIsConsistent' /\ Woken' /\ KnowsWhom' /\ NoLostWakeup'
    BY <1>2, <1>3 DEF Next
  <2>2. StateCountsHolders'
    BY <1>0, <1>3, <2>1, HoldersCounted
  <2> QED BY <2>1, <2>2 DEF IInv
<1> QED BY <1>1, <1>3

\* The mutex, its queue and the wake-ups under way agree, for any number of threads: what
\* __mutex_lock, __mutex_unlock, __condvar_wait and wq_wake_next do under two spin locks in
\* turn leaves no thread counted wrongly, queued twice, or chosen and never told.
THEOREM MutexIsConsistent == Spec => []MutexInvariant
<1>1. IInv => MutexInvariant
  BY DEF IInv, MutexInvariant, Woken, ChosenIsWoken
<1> QED BY <1>1, InitInvariant, StepKeeps, PTL DEF Spec

\* Between the release of the spin lock of the mutex and the scan of the queue, and between
\* queueing and sleeping, no wake-up gets lost.
THEOREM WakeupsAreNotLost == Spec => []NoLostWakeup
<1>1. IInv => NoLostWakeup
  BY DEF IInv
<1> QED BY <1>1, InitInvariant, StepKeeps, PTL DEF Spec

Mode == [t \in Threads |-> CASE pc[t] = "held"  -> "write"
                             [] pc[t] = "rheld" -> "read"
                             [] OTHER           -> "none"]

\* A step of the mutex is a step of the readers-writer lock or none.
LEMMA StepImplements == IInv /\ [Next]_vars => [Lock!Next]_Mode
<1> SUFFICES ASSUME IInv, [Next]_vars PROVE [Lock!Next]_Mode
  OBVIOUS
<1> USE DEF Holding
<1>0. TypeOK /\ StateCountsHolders /\ pc \in [Threads -> PCs]
  BY DEF IInv, TypeOK
<1>1. CASE UNCHANGED vars
  BY <1>1 DEF vars, Mode
<1>2. CASE Quiet
  BY <1>2 DEF Quiet, Mode
<1>3. ASSUME NEW t \in Threads, TakeWrite(t) PROVE Lock!Next
  <2>1. \A u \in Threads : Mode[u] = "none"
    BY <1>0, <1>3, HolderState DEF TakeWrite, Mode
  <2>2. Mode' = [Mode EXCEPT ![t] = "write"]
    BY <1>0, <1>3 DEF TakeWrite, Mode
  <2> QED BY <2>1, <2>2 DEF Mode, Lock!Next, Lock!AcquireWrite, Lock!Free
<1>4. ASSUME NEW t \in Threads, TakeRead(t) PROVE Lock!Next
  <2>1. Mode[t] = "none" /\ \A u \in Threads : Mode[u] # "write"
    BY <1>0, <1>4, HolderState DEF TakeRead, Mode
  <2>2. Mode' = [Mode EXCEPT ![t] = "read"]
    BY <1>0, <1>4 DEF TakeRead, Mode
  <2> QED BY <2>1, <2>2 DEF Mode, Lock!Next, Lock!AcquireRead, Lock!Free
<1>5. ASSUME NEW t \in Threads, Give(t) PROVE Lock!Next
  <2>1. Mode[t] # "none"
    BY <1>0, <1>5 DEF Give, Mode
  <2>2. Mode' = [Mode EXCEPT ![t] = "none"]
    BY <1>0, <1>5 DEF Give, Mode
  <2> QED BY <2>1, <2>2 DEF Mode, Lock!Next, Lock!Release, Lock!Free
<1> QED BY <1>0, <1>1, <1>2, <1>3, <1>4, <1>5, StepKinds

\* The mutex of OP-TEE implements the readers-writer lock of RwLock, for any number of
\* threads: one writer or any number of readers, through every lock, unlock, trylock and
\* wait for a condition.
THEOREM MutexImplementsRwLock == Spec => ImplementsRwLock
<1>1. Init => Lock!Init
  BY DEF Init, Lock!Init
<1>2. IInv /\ [Next]_vars => [Lock!Next]_Mode
  BY StepImplements
<1> QED BY <1>1, <1>2, InitInvariant, StepKeeps, PTL DEF Spec, ImplementsRwLock, Lock!Spec, Mode
==============================================================================
