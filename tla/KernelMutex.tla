----------------------------- MODULE KernelMutex -----------------------------
(***************************************************************************)
(* One mutex of OP-TEE with its wait queue and the condition variables     *)
(* used with it: core/kernel/mutex.c and core/kernel/wait_queue.c.  Every  *)
(* lock of the trusted OS, tee_ta_mutex of the session manager among them, *)
(* is one of these.                                                        *)
(*                                                                         *)
(* A section of the code under a spin lock is one step.  What happens      *)
(* between two of them is not: a thread that found the mutex taken is in   *)
(* the queue before it sleeps, a thread that unlocked it has not yet woken *)
(* anyone, a thread that was woken has to compete for the mutex again.     *)
(* The normal world puts threads to sleep and wakes them: a wake-up that   *)
(* comes before the sleep is kept (token), and a sleep may return early.   *)
(***************************************************************************)
EXTENDS Integers, Sequences, FiniteSets

CONSTANTS Threads,     \* the threads of OP-TEE
          Readers,     \* the threads that take the mutex for reading too
          Condvars,    \* the condition variables used with the mutex
          None

ASSUME KernelMutexAssumption ==
  /\ IsFiniteSet(Threads)
  /\ Readers \subseteq Threads
  /\ None \notin Condvars \cup Threads

VARIABLES
  state,      \* m->state: -1 write locked, 0 unlocked, n read locked by n
  wq,         \* m->wq: the threads whose wait_queue_elem is in the queue
  elem,       \* the wait_queue_elem of each thread: done, wait_read, cv
  pc,         \* where each thread is
  wakeType,   \* wake_type_assigned and wake_read of wq_wake_next
  waking,     \* the handle wq_wake_next is about to wake
  token       \* the normal world owes this thread a wake-up

vars == <<state, wq, elem, pc, wakeType, waking, token>>

\* mutex_lock and mutex_read_lock loop in "lock" and "rlock"; "wait" is the sleep in
\* wq_wait_final; "scan" and "rpc" are the two halves of a turn of wq_wake_next.
PCs == {"idle", "lock", "rlock", "held", "rheld", "wait", "scan", "rpc"}

Elems == [done : BOOLEAN, read : BOOLEAN, cv : Condvars \cup {None}]
NoElem == [done |-> FALSE, read |-> FALSE, cv |-> None]

Queued == {wq[i] : i \in 1 .. Len(wq)}

Init ==
  /\ state = 0
  /\ wq = << >>
  /\ elem = [t \in Threads |-> NoElem]
  /\ pc = [t \in Threads |-> "idle"]
  /\ wakeType = [t \in Threads |-> "any"]
  /\ waking = [t \in Threads |-> None]
  /\ token = [t \in Threads |-> FALSE]

Goto(t, label) == pc' = [pc EXCEPT ![t] = label]

\* Mutant: the element goes to the head of the queue.
WaitInitFirst(t, wait_read, c) ==
  /\ wq' = <<t>> \o wq
  /\ elem' = [elem EXCEPT ![t] = [done |-> FALSE, read |-> wait_read, cv |-> c]]

\* wq_wait_init_condvar: the element is initialised and goes to the end of the queue.
WaitInit(t, wait_read, c) ==
  /\ wq' = Append(wq, t)
  /\ elem' = [elem EXCEPT ![t] = [done |-> FALSE, read |-> wait_read, cv |-> c]]

\* SLIST_REMOVE.
Without(q, t) ==
  LET k == CHOOSE i \in 1 .. Len(q) : q[i] = t
  IN  [i \in 1 .. (Len(q) - 1) |-> IF i < k THEN q[i] ELSE q[i + 1]]

\* wq_wake_next begins with wake_type_assigned = false, and forgets the type at its end.
SetWakeType(t, type) == wakeType' = [wakeType EXCEPT ![t] = type]

\* The unlock paths end in wq_wake_next when the mutex became free.
StartWake(t) == Goto(t, "scan") /\ SetWakeType(t, "any")

------------------------------------------------------------------------------
(* Taking and giving back                                                    *)

CallLock(t) ==
  /\ pc[t] = "idle"
  /\ Goto(t, "lock")
  /\ UNCHANGED <<state, wq, elem, wakeType, waking, token>>

CallReadLock(t) ==
  /\ t \in Readers
  /\ pc[t] = "idle"
  /\ Goto(t, "rlock")
  /\ UNCHANGED <<state, wq, elem, wakeType, waking, token>>

\* A turn of the loop of __mutex_lock.
LockTry(t) ==
  /\ pc[t] = "lock"
  /\ \/ /\ state = 0
        /\ state' = -1
        /\ Goto(t, "held")
        /\ UNCHANGED <<wq, elem>>
     \/ /\ state # 0
        /\ WaitInit(t, FALSE, None)
        /\ Goto(t, "wait")
        /\ UNCHANGED state
  /\ UNCHANGED <<wakeType, waking, token>>

\* Mutant: a reader does not look whether the mutex is write locked.
ReadLockAlways(t) ==
  /\ pc[t] = "rlock"
  /\ state' = state + 1
  /\ Goto(t, "rheld")
  /\ UNCHANGED <<wq, elem, wakeType, waking, token>>

\* A turn of the loop of __mutex_read_lock.
ReadLockTry(t) ==
  /\ pc[t] = "rlock"
  /\ \/ /\ state # -1
        /\ state' = state + 1
        /\ Goto(t, "rheld")
        /\ UNCHANGED <<wq, elem>>
     \/ /\ state = -1
        /\ WaitInit(t, TRUE, None)
        /\ Goto(t, "wait")
        /\ UNCHANGED state
  /\ UNCHANGED <<wakeType, waking, token>>

\* Mutant: readers do not count.
TrylockAmongReaders(t) ==
  /\ pc[t] = "idle"
  /\ state # -1
  /\ state' = -1
  /\ Goto(t, "held")
  /\ UNCHANGED <<wq, elem, wakeType, waking, token>>

\* __mutex_trylock; when it fails nothing changes.
Trylock(t) ==
  /\ pc[t] = "idle"
  /\ state = 0
  /\ state' = -1
  /\ Goto(t, "held")
  /\ UNCHANGED <<wq, elem, wakeType, waking, token>>

ReadTrylock(t) ==
  /\ t \in Readers
  /\ pc[t] = "idle"
  /\ state # -1
  /\ state' = state + 1
  /\ Goto(t, "rheld")
  /\ UNCHANGED <<wq, elem, wakeType, waking, token>>

\* __mutex_unlock up to the release of the spin lock; the wake-up follows.
Unlock(t) ==
  /\ pc[t] = "held"
  /\ state' = 0
  /\ StartWake(t)
  /\ UNCHANGED <<wq, elem, waking, token>>

ReadUnlock(t) ==
  /\ pc[t] = "rheld"
  /\ state' = state - 1
  /\ IF state = 1 THEN StartWake(t)
                  ELSE Goto(t, "idle") /\ UNCHANGED wakeType
  /\ UNCHANGED <<wq, elem, waking, token>>

------------------------------------------------------------------------------
(* Condition variables.  cv->m is set before the first waiter is queued and  *)
(* is not modelled: without it there is nobody to promote.                   *)

Holds(t) == pc[t] \in {"held", "rheld"}

\* Mutant: nobody is woken when the mutex is given back to wait for a condition.
CondvarWaitQuietly(t, c) ==
  /\ Holds(t)
  /\ WaitInit(t, state > 0, c)
  /\ state' = IF state > 1 THEN state - 1 ELSE 0
  /\ Goto(t, "wait")
  /\ UNCHANGED <<wakeType, waking, token>>

\* __condvar_wait up to the release of the spin lock of the mutex.
CondvarWait(t, c) ==
  /\ Holds(t)
  /\ WaitInit(t, state > 0, c)
  /\ state' = IF state > 1 THEN state - 1 ELSE 0
  /\ IF state > 1 THEN Goto(t, "wait") /\ UNCHANGED wakeType
                  ELSE StartWake(t)
  /\ UNCHANGED <<waking, token>>

\* wq_promote_condvar turns waiters of the condvar into waiters of the mutex.
Promote(S) ==
  elem' = [u \in Threads |-> IF u \in S THEN [elem[u] EXCEPT !.cv = None] ELSE elem[u]]

\* condvar_signal promotes the first one.  Every caller holds the mutex.
CondvarSignal(t, c) ==
  /\ Holds(t)
  /\ \E i \in 1 .. Len(wq) :
       /\ elem[wq[i]].cv = c
       /\ \A j \in 1 .. (i - 1) : elem[wq[j]].cv # c
       /\ Promote({wq[i]})
  /\ UNCHANGED <<state, wq, pc, wakeType, waking, token>>

CondvarBroadcast(t, c) ==
  /\ Holds(t)
  /\ Promote({u \in Queued : elem[u].cv = c})
  /\ UNCHANGED <<state, wq, pc, wakeType, waking, token>>

------------------------------------------------------------------------------
(* Waking                                                                    *)

\* The elements wq_wake_next does not skip.
Wakeable(u, type) ==
  /\ elem[u].cv = None
  /\ ~elem[u].done
  /\ type = "read" => elem[u].read

\* What the thread does once wq_wake_next returned: in condvar_wait it goes to sleep.
AfterWake(t) == IF t \in Queued THEN "wait" ELSE "idle"

\* One pass of the queue: the first element that may be woken is marked.
WakeScan(t) ==
  /\ pc[t] = "scan"
  /\ \/ \E i \in 1 .. Len(wq) :
          LET u == wq[i] IN
          /\ Wakeable(u, wakeType[t])
          /\ \A j \in 1 .. (i - 1) : ~Wakeable(wq[j], wakeType[t])
          /\ SetWakeType(t, IF elem[u].read THEN "read" ELSE "write")
          /\ elem' = [elem EXCEPT ![u].done = TRUE]
          /\ waking' = [waking EXCEPT ![t] = u]
          /\ Goto(t, "rpc")
     \/ /\ \A u \in Queued : ~Wakeable(u, wakeType[t])
        /\ Goto(t, AfterWake(t))
        /\ SetWakeType(t, "any")
        /\ UNCHANGED <<elem, waking>>
  /\ UNCHANGED <<state, wq, token>>

\* The wake-up in the normal world; after a reader the queue is scanned for more.
WakeRpc(t) ==
  /\ pc[t] = "rpc"
  /\ token' = [token EXCEPT ![waking[t]] = TRUE]
  /\ waking' = [waking EXCEPT ![t] = None]
  /\ IF wakeType[t] = "read" THEN Goto(t, "scan") /\ UNCHANGED wakeType
                             ELSE Goto(t, AfterWake(t)) /\ SetWakeType(t, "any")
  /\ UNCHANGED <<state, wq, elem>>

\* wq_wait_final leaves its loop and the mutex is tried again.
LeaveQueue(t) ==
  /\ wq' = Without(wq, t)
  /\ elem' = [elem EXCEPT ![t] = NoElem]
  /\ Goto(t, IF elem[t].read THEN "rlock" ELSE "lock")

\* The sleep returns because of a wake-up, which may be one of an earlier sleep.
WokenUp(t) ==
  /\ pc[t] = "wait"
  /\ token[t]
  /\ token' = [token EXCEPT ![t] = FALSE]
  /\ IF elem[t].done THEN LeaveQueue(t) ELSE UNCHANGED <<wq, elem, pc>>
  /\ UNCHANGED <<state, wakeType, waking>>

\* The sleep returns for another reason; wq_wait_final looks at done all the same.
EarlyReturn(t) ==
  /\ pc[t] = "wait"
  /\ elem[t].done
  /\ LeaveQueue(t)
  /\ UNCHANGED <<state, wakeType, waking, token>>

------------------------------------------------------------------------------

Next ==
  \E t \in Threads :
    \/ CallLock(t) \/ CallReadLock(t) \/ LockTry(t) \/ ReadLockTry(t)
    \/ Trylock(t) \/ ReadTrylock(t) \/ Unlock(t) \/ ReadUnlock(t)
    \/ \E c \in Condvars : CondvarWait(t, c) \/ CondvarSignal(t, c) \/ CondvarBroadcast(t, c)
    \/ WakeScan(t) \/ WakeRpc(t) \/ WokenUp(t) \/ EarlyReturn(t)

Spec == Init /\ [][Next]_vars

\* Each thread that can run does, a wake-up reaches its thread, and no thread keeps the
\* mutex for ever.
Fairness ==
  \A t \in Threads :
    /\ WF_vars(LockTry(t)) /\ WF_vars(ReadLockTry(t))
    /\ WF_vars(Unlock(t)) /\ WF_vars(ReadUnlock(t))
    /\ WF_vars(WakeScan(t)) /\ WF_vars(WakeRpc(t)) /\ WF_vars(WokenUp(t))

FairSpec == Spec /\ Fairness

------------------------------------------------------------------------------
(* Properties                                                                *)

\* The types of the variables.
TypeOK ==
  /\ state \in Nat \cup {-1}
  /\ wq \in Seq(Threads)
  /\ elem \in [Threads -> Elems]
  /\ pc \in [Threads -> PCs]
  /\ wakeType \in [Threads -> {"any", "read", "write"}]
  /\ waking \in [Threads -> Threads \cup {None}]
  /\ token \in [Threads -> BOOLEAN]

Writing == {t \in Threads : pc[t] = "held"}
Reading == {t \in Threads : pc[t] = "rheld"}

\* m->state is -1 for one writer and otherwise the number of readers, in every
\* interleaving of locks, unlocks and waits on condition variables.
StateCountsHolders ==
  \/ state = 0 /\ Writing = {} /\ Reading = {}
  \/ state = -1 /\ Cardinality(Writing) = 1 /\ Reading = {}
  \/ state > 0 /\ Writing = {} /\ Cardinality(Reading) = state

\* Waits for the mutex and nobody has chosen it yet.
Stranded(t) == t \in Queued /\ elem[t].cv = None /\ ~elem[t].done

\* Will look at the queue, or take the mutex and look at the queue when giving it back.
Responsible(t) ==
  \/ pc[t] \in {"lock", "rlock"}
  \/ t \in Queued /\ elem[t].done
  \/ pc[t] = "scan" /\ wakeType[t] = "any"

\* The wake-up is never missed: as long as a thread waits for the mutex, the mutex is
\* held or some thread is on its way to take it or to scan the queue.
NoLostWakeup ==
  (\E t \in Threads : Stranded(t)) => state # 0 \/ \E u \in Threads : Responsible(u)

\* A sleeping thread that was chosen gets its wake-up: it is with the normal world or
\* about to be sent.
ChosenIsWoken ==
  \A t \in Threads :
    pc[t] = "wait" /\ elem[t].done => token[t] \/ \E u \in Threads : pc[u] = "rpc" /\ waking[u] = t

\* The queue holds each thread that sleeps in wq_wait_final once, and no thread that
\* holds the mutex or competes for it.
QueueIsConsistent ==
  /\ \A i, j \in 1 .. Len(wq) : wq[i] = wq[j] => i = j
  /\ \A t \in Threads : pc[t] = "wait" => t \in Queued
  /\ \A t \in Threads : pc[t] \in {"idle", "lock", "rlock", "held", "rheld"} => t \notin Queued

\* The mutex, its queue and the wake-ups under way agree.
MutexInvariant == TypeOK /\ StateCountsHolders /\ QueueIsConsistent /\ ChosenIsWoken

\* A mutex that becomes free again and again, which overlapping readers can prevent, chooses
\* each thread that waits for it sooner or later, however often others come first:
\* wq_wake_next takes the head and who loses the race goes to the tail.
EveryWaiterIsChosen ==
  []<>(state = 0) => \A t \in Threads : Stranded(t) ~> ~Stranded(t)

\* The mutex is the readers-writer lock it promises to be.
Lock == INSTANCE RwLock WITH
  mode <- [t \in Threads |-> CASE pc[t] = "held"  -> "write"
                               [] pc[t] = "rheld" -> "read"
                               [] OTHER           -> "none"]
ImplementsRwLock == Lock!Spec
==============================================================================
