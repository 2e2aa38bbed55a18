---------------------------- MODULE TaSessionsProofs ----------------------------
(***************************************************************************)
(* For any threads, sessions and contexts and the kinds of TA that the     *)
(* session manager handles: whatever opens, invokes, cancels and closes    *)
(* run at the same time, no assertion fails, sessions and contexts are     *)
(* counted as they are used, an instance is entered by one thread at a     *)
(* time, calls that end leave nothing behind, and the threads never all    *)
(* wait for one another.                                                   *)
(***************************************************************************)
EXTENDS TaSessions, FiniteSetTheorems, SequenceTheorems, TLAPS

\* A TA that may panic has one session in an instance and is not kept alive.  An instance
\* that is shared or stays when it panicked is what tee_ta_manager.c does not handle.
KindsHandled == \A k \in Kinds : k.single /\ k.panics => ~k.multi /\ ~k.keep

------------------------------------------------------------------------------
(* The invariant, part by part                                               *)

OpenPlaces   == {"find", "load", "loading", "give_up", "initialized", "set_busy", "ta",
                 "clear_busy", "put", "opened", "reopen"}
InvokePlaces == {"lock", "locked", "set_busy", "ta", "clear_busy", "invoked", "destroy",
                 "destroying", "put"}
ClosePlaces  == {"lock", "locked", "set_busy", "ta", "unlink", "drain", "clear_busy", "release",
                 "destroying"}
Places == {"idle"} \cup OpenPlaces \cup InvokePlaces \cup ClosePlaces

Thread == [pc : Places, op : {"none", "open", "invoke", "cancel", "close"},
           s : Sessions \cup {None}, c : Contexts \cup {None},
           ok : BOOLEAN, busy : BOOLEAN, origin : BOOLEAN]

\* Where a call can be.
InCall(r) ==
  /\ r.s \in Sessions
  /\ \/ r.op = "open" /\ r.pc \in OpenPlaces
     \/ r.op = "invoke" /\ r.pc \in InvokePlaces
     \/ r.op = "close" /\ r.pc \in ClosePlaces
     \/ r.op = "cancel" /\ r.pc = "put"

Typed ==
  /\ kind \in Kinds
  /\ TypeOK
  /\ th \in [Threads -> Thread]
  /\ \A t \in Threads : th[t] = Idle \/ InCall(th[t])
  /\ DOMAIN waiting = Threads

\* The thread that opens or closes a session, and the one that has its lock.
Owns(t, s) ==
  /\ th[t].s = s
  /\ \/ th[t].op = "open"
     \/ th[t].op = "close" /\ th[t].pc \in {"lock", "locked", "set_busy", "ta", "unlink", "drain"}
Holds(t, s) ==
  /\ th[t].s = s
  /\ \/ th[t].op = "invoke" /\ th[t].pc # "lock"
     \/ th[t].op = "close" /\ th[t].pc \in {"locked", "set_busy", "ta", "unlink", "drain"}
Drains(t, s) == th[t].s = s /\ th[t].op = "close" /\ th[t].pc = "drain"
Opens(t, s) == th[t].s = s /\ th[t].op = "open"

Referrers(s) == {t \in Threads : Refers(t, s)}

\* A session is in the list as long as somebody uses it; it is a client's, or one thread
\* opens or closes it, and nobody uses it before it is open.
SessOk(s) ==
  /\ ~sess[s].listed => sess[s] = NoSession
  /\ \A t \in Threads : Refers(t, s) \/ Owns(t, s) => sess[s].listed
  /\ sess[s].listed => sess[s].ref_count = Cardinality(Referrers(s))
  /\ \A t \in Threads : sess[s].lock_thread = t <=> Holds(t, s)
  /\ sess[s].unlink <=> \E t \in Threads : Drains(t, s)
  /\ s \in handles => sess[s].listed /\ \A t \in Threads : ~Owns(t, s)
  /\ \A t, u \in Threads : Owns(t, s) /\ Owns(u, s) => t = u
  /\ sess[s].listed => s \in handles \/ \E t \in Threads : Owns(t, s)
  /\ \A t, u \in Threads : Opens(t, s) /\ u # t => ~Refers(u, s)

\* References to a context: of the sessions in the list, and of threads that have freed
\* their session and still have to release its context.
SRefs(c) == {x \in Sessions : sess[x].listed /\ sess[x].ctx = c}
Releases(t, c) == th[t].op = "close" /\ th[t].pc \in {"clear_busy", "release"} /\ th[t].c = c
TRefs(c) == {t \in Threads : Releases(t, c)}

\* The thread that has the context busy, and the one that destroys it.
Inside(t) ==
  \/ th[t].pc \in {"ta", "clear_busy"}
  \/ th[t].op = "close" /\ th[t].busy /\ th[t].pc \in {"unlink", "drain"}
InsideOf(t, c) == Inside(t) /\ th[t].c = c
Destroys(t, c) == th[t].pc = "destroying" /\ th[t].c = c

InList(c) == \E i \in 1 .. Len(tee_ctxes) : tee_ctxes[i] = c

\* A context is counted, busy for one thread, and in the list until one thread destroys it.
CtxOk(c) ==
  /\ ~ctx[c].alive => ctx[c] = NoContext
  /\ ctx[c].ref_count = Cardinality(SRefs(c)) + Cardinality(TRefs(c))
  /\ ~(MultiSession /\ SingleInstance) => ctx[c].ref_count <= 1
  /\ ctx[c].panicked => MayPanic
  /\ ctx[c].busy => \E t \in Threads : InsideOf(t, c)
  /\ \A t, u \in Threads : InsideOf(t, c) /\ InsideOf(u, c) => t = u
  /\ \A t, u \in Threads : Destroys(t, c) /\ Destroys(u, c) => t = u
  /\ InList(c) => ctx[c].alive /\ ((KeepAlive /\ SingleInstance) \/ ctx[c].ref_count > 0)
  /\ ctx[c].alive => InList(c) \/ \E t \in Threads : Destroys(t, c)

\* Where a thread works with the context of its session.
Working(t) ==
  \/ th[t].pc \in {"loading", "set_busy", "ta", "invoked", "destroy"}
  \/ th[t].pc = "clear_busy" /\ th[t].op # "close"
  \/ th[t].pc = "put" /\ th[t].op = "open"
  \/ th[t].pc = "destroying" /\ th[t].op = "invoke"

\* What a thread knows of the context of its session, and of the context it works with.
ThOk(t) ==
  /\ Working(t) => th[t].c # None /\ th[t].c = sess[th[t].s].ctx
  /\ th[t].pc \in {"unlink", "drain"} => th[t].c = sess[th[t].s].ctx /\ (th[t].busy => th[t].c # None)
  /\ th[t].op = "close" /\ th[t].pc \in {"clear_busy", "release", "destroying"} => th[t].c # None
  /\ th[t].pc \in {"find", "load", "give_up"} => sess[th[t].s].ctx = None
  /\ th[t].pc = "initialized" => sess[th[t].s].ctx # None /\ ~ctx[sess[th[t].s].ctx].panicked
  /\ th[t].pc = "loading" => /\ ctx[th[t].c].initializing /\ ctx[th[t].c].ref_count = 1
                             /\ ~ctx[th[t].c].panicked
  /\ th[t].pc = "destroy" => ctx[th[t].c].panicked
  /\ Inside(t) => ctx[th[t].c].busy /\ (SingleInstance => single = t)
  /\ th[t].op = "close" /\ th[t].pc \in {"lock", "locked", "set_busy"} => ~th[t].busy
  /\ th[t].pc = "ta" => th[t].busy
  /\ th[t].pc = "destroying" =>
       /\ ctx[th[t].c].alive /\ ~InList(th[t].c)
       /\ ctx[th[t].c].ref_count = IF th[t].op = "invoke" THEN 1 ELSE 0
  /\ \A c \in Contexts : waiting[t] = <<"busy", c>> => th[t].pc = "set_busy" /\ th[t].c = c

\* The single-instance lock, and the list.
SingleOk == single # None => SingleInstance /\ Inside(single)
ListOk ==
  /\ tee_ctxes \in Seq(Contexts)
  /\ \A i, j \in 1 .. Len(tee_ctxes) : tee_ctxes[i] = tee_ctxes[j] => i = j

Safe ==
  /\ \A s \in Sessions : SessOk(s)
  /\ \A c \in Contexts : CtxOk(c)
  /\ \A t \in Threads : ThOk(t)
  /\ SingleOk
  /\ ListOk

TInv == Typed /\ Safe /\ NoAssertionFails

------------------------------------------------------------------------------
(* What the invariant says of a state                                        *)

\* The fields of the records.
LEMMA Fields ==
  ASSUME Typed
  PROVE  /\ \A t \in Threads :
              /\ th[t].pc \in Places /\ th[t].op \in {"none", "open", "invoke", "cancel", "close"}
              /\ th[t].s \in Sessions \cup {None} /\ th[t].c \in Contexts \cup {None}
              /\ th[t].ok \in BOOLEAN /\ th[t].busy \in BOOLEAN /\ th[t].origin \in BOOLEAN
         /\ \A s \in Sessions :
              /\ sess[s].listed \in BOOLEAN /\ sess[s].ctx \in Contexts \cup {None}
              /\ sess[s].ref_count \in Nat /\ sess[s].lock_thread \in Threads \cup {None}
              /\ sess[s].unlink \in BOOLEAN
         /\ \A c \in Contexts :
              /\ ctx[c].alive \in BOOLEAN /\ ctx[c].initializing \in BOOLEAN
              /\ ctx[c].ref_count \in Nat /\ ctx[c].busy \in BOOLEAN /\ ctx[c].panicked \in BOOLEAN
  BY DEF Typed, TypeOK, Thread

\* The sets that are counted are finite.
LEMMA FiniteSets ==
  /\ \A s : IsFiniteSet(Referrers(s)) /\ Cardinality(Referrers(s)) \in Nat
  /\ \A c : IsFiniteSet(SRefs(c)) /\ Cardinality(SRefs(c)) \in Nat
  /\ \A c : IsFiniteSet(TRefs(c)) /\ Cardinality(TRefs(c)) \in Nat
<1>1. IsFiniteSet(Threads) /\ IsFiniteSet(Sessions)
  BY TaSessionsAssumption
<1>2. ASSUME NEW s PROVE IsFiniteSet(Referrers(s)) /\ Cardinality(Referrers(s)) \in Nat
  <2>1. Referrers(s) \in SUBSET Threads
    BY DEF Referrers
  <2> QED BY <1>1, <2>1, FS_Subset, FS_CardinalityType
<1>3. ASSUME NEW c PROVE IsFiniteSet(SRefs(c)) /\ Cardinality(SRefs(c)) \in Nat
  <2>1. SRefs(c) \in SUBSET Sessions
    BY DEF SRefs
  <2> QED BY <1>1, <2>1, FS_Subset, FS_CardinalityType
<1>4. ASSUME NEW c PROVE IsFiniteSet(TRefs(c)) /\ Cardinality(TRefs(c)) \in Nat
  <2>1. TRefs(c) \in SUBSET Threads
    BY DEF TRefs
  <2> QED BY <1>1, <2>1, FS_Subset, FS_CardinalityType
<1> QED BY <1>2, <1>3, <1>4

\* A set with an element has a positive number of them, and one with a number of one has no two.
LEMMA Elements ==
  ASSUME NEW S, IsFiniteSet(S), NEW x \in S
  PROVE  Cardinality(S) >= 1 /\ (Cardinality(S) = 1 => S = {x})
<1>1. Cardinality(S) \in Nat /\ (Cardinality(S) = 0 <=> S = {})
  BY FS_CardinalityType, FS_EmptySet
<1>2. Cardinality(S) = 1 => \E y : S = {y}
  BY FS_Singleton
<1> QED BY <1>1, <1>2

\* Whoever opens a session or has its lock is alone with it.
AtWork(t, s) == Opens(t, s) \/ Holds(t, s)
\* One thread at a time works with a session.
LEMMA WorkerAlone ==
  ASSUME Typed, NEW s \in Sessions, SessOk(s), NEW t \in Threads, NEW u \in Threads,
         AtWork(t, s), AtWork(u, s)
  PROVE  t = u
<1>1. \A v \in Threads : Holds(v, s) => Refers(v, s)
  BY DEF Holds, Refers
<1>2. \A v \in Threads : Opens(v, s) => Owns(v, s)
  BY DEF Opens, Owns
<1>3. \A v, w \in Threads : Holds(v, s) /\ Holds(w, s) => v = w
  BY DEF SessOk
<1>4. \A v, w \in Threads : Opens(v, s) /\ Holds(w, s) => v = w
  BY <1>1 DEF SessOk
<1>5. \A v, w \in Threads : Opens(v, s) /\ Opens(w, s) => v = w
  BY <1>2 DEF SessOk
<1> QED BY <1>3, <1>4, <1>5 DEF AtWork

\* Where a thread is at work.
LEMMA WorkPlaces ==
  ASSUME Typed, NEW t \in Threads, th[t] # Idle
  PROVE  /\ th[t].s \in Sessions
         /\ Working(t) => AtWork(t, th[t].s)
         /\ th[t].pc \in {"unlink", "drain"} => AtWork(t, th[t].s)
         /\ th[t].op = "open" => AtWork(t, th[t].s)
         /\ AtWork(t, th[t].s) => Refers(t, th[t].s) \/ Owns(t, th[t].s)
<1>1. InCall(th[t])
  BY DEF Typed
<1> QED BY <1>1 DEF InCall, Working, AtWork, Opens, Holds, Owns, Refers, OpenPlaces, InvokePlaces, ClosePlaces

\* A user of a context: through its session, or to release it.
User(t, c) ==
  \/ Working(t) /\ th[t].c = c
  \/ th[t].pc \in {"unlink", "drain"} /\ th[t].c = c
  \/ th[t].pc = "initialized" /\ sess[th[t].s].ctx = c
  \/ Releases(t, c)

\* Who uses a context holds a reference to it, its own or that of its session.
LEMMA UserRefers ==
  ASSUME Typed, NEW t \in Threads, NEW c \in Contexts, ThOk(t), User(t, c),
         \A s \in Sessions : SessOk(s)
  PROVE  \/ t \in TRefs(c)
         \/ th[t].s \in SRefs(c) /\ AtWork(t, th[t].s)
<1>1. CASE Releases(t, c)
  BY <1>1 DEF TRefs
<1>2. CASE ~Releases(t, c)
  <2>1. th[t] # Idle
    BY <1>2 DEF User, Working, Idle
  <2>2. InCall(th[t])
    BY <2>1 DEF Typed
  <2>3. th[t].s \in Sessions /\ AtWork(t, th[t].s)
    <3>1. th[t].pc = "initialized" => th[t].op = "open"
      BY <2>2 DEF InCall, OpenPlaces, InvokePlaces, ClosePlaces
    <3> QED BY <1>2, <2>1, <3>1, WorkPlaces DEF User
  <2>4. sess[th[t].s].listed
    BY <2>1, <2>3, WorkPlaces DEF SessOk
  <2>5. sess[th[t].s].ctx = c
    BY <1>2 DEF User, ThOk
  <2> QED BY <2>3, <2>4, <2>5 DEF SRefs
<1> QED BY <1>1, <1>2

\* A context with a user is alive and has a reference; with one reference it has one user.
LEMMA UserCounts ==
  ASSUME Typed, Safe, NEW t \in Threads, NEW c \in Contexts, User(t, c)
  PROVE  /\ ctx[c].ref_count >= 1 /\ ctx[c].alive
         /\ \A u \in Threads : ctx[c].ref_count <= 1 /\ User(u, c) => t = u
         /\ ctx[c].ref_count <= 1 /\ th[t].s \in SRefs(c) => SRefs(c) = {th[t].s} /\ TRefs(c) = {}
         /\ ctx[c].ref_count <= 1 /\ t \in TRefs(c) => SRefs(c) = {} /\ TRefs(c) = {t}
<1>1. \/ t \in TRefs(c)
      \/ th[t].s \in SRefs(c) /\ AtWork(t, th[t].s)
  BY UserRefers DEF Safe
<1> DEFINE S == SRefs(c)
           T == TRefs(c)
           n == ctx[c].ref_count
<1>2. /\ IsFiniteSet(S) /\ Cardinality(S) \in Nat /\ IsFiniteSet(T) /\ Cardinality(T) \in Nat
      /\ n = Cardinality(S) + Cardinality(T)
  BY FiniteSets DEF Safe, CtxOk
<1>3. /\ \A x \in S : Cardinality(S) >= 1 /\ (Cardinality(S) = 1 => S = {x})
      /\ \A x \in T : Cardinality(T) >= 1 /\ (Cardinality(T) = 1 => T = {x})
  BY <1>2, Elements
<1>4. (Cardinality(S) = 0 => S = {}) /\ (Cardinality(T) = 0 => T = {})
  BY <1>2, FS_EmptySet
<1> HIDE DEF S, T, n
<1>5. \A x \in S : n >= 1 /\ (n <= 1 => Cardinality(S) = 1 /\ Cardinality(T) = 0)
  BY <1>2, <1>3
<1>6. \A x \in T : n >= 1 /\ (n <= 1 => Cardinality(T) = 1 /\ Cardinality(S) = 0)
  BY <1>2, <1>3
<1>7. n >= 1
  BY <1>1, <1>5, <1>6 DEF S, T
<1>8. ctx[c].alive
  <2>1. ~ctx[c].alive => n = 0
    BY DEF Safe, CtxOk, NoContext, n
  <2> QED BY <1>7, <2>1
<1>9. n <= 1 /\ th[t].s \in S => S = {th[t].s} /\ T = {}
  BY <1>3, <1>4, <1>5
<1>10. n <= 1 /\ t \in T => S = {} /\ T = {t}
  BY <1>3, <1>4, <1>6
<1>11. ASSUME NEW u \in Threads, n <= 1, User(u, c) PROVE t = u
  <2>1. \/ u \in TRefs(c)
        \/ th[u].s \in SRefs(c) /\ AtWork(u, th[u].s)
    BY <1>11, UserRefers DEF Safe
  <2>2. CASE t \in T
    BY <1>10, <1>11, <2>1, <2>2 DEF S, T
  <2>3. CASE th[t].s \in S /\ AtWork(t, th[t].s)
    <3>1. S = {th[t].s} /\ T = {}
      BY <1>9, <1>11, <2>3
    <3>2. th[u].s = th[t].s /\ AtWork(u, th[t].s)
      BY <2>1, <3>1 DEF S, T
    <3>3. th[t].s \in Sessions
      BY <2>3 DEF S, SRefs
    <3> QED BY <2>3, <3>2, <3>3, WorkerAlone DEF Safe
  <2> QED BY <1>1, <2>2, <2>3 DEF S, T
<1> QED BY <1>7, <1>8, <1>9, <1>10, <1>11 DEF S, T, n

------------------------------------------------------------------------------
(* What a step leaves alone                                                  *)

\* The other threads stay where they are; some may be woken.
Others(t) == \A u \in Threads : u # t => th'[u] = th[u]
Woken(u) == waiting'[u] = waiting[u] \/ waiting'[u] = None

\* A thread keeps its part in a session, and in a context.
SameRole(u, s) ==
  /\ Refers(u, s)' <=> Refers(u, s)
  /\ Owns(u, s)' <=> Owns(u, s)
  /\ Holds(u, s)' <=> Holds(u, s)
  /\ Drains(u, s)' <=> Drains(u, s)
  /\ Opens(u, s)' <=> Opens(u, s)
SameUse(u, c) ==
  /\ Releases(u, c)' <=> Releases(u, c)
  /\ InsideOf(u, c)' <=> InsideOf(u, c)
  /\ Destroys(u, c)' <=> Destroys(u, c)

\* A session keeps everything but its context.
SameSession(s) ==
  /\ sess'[s].listed = sess[s].listed /\ sess'[s].ref_count = sess[s].ref_count
  /\ sess'[s].lock_thread = sess[s].lock_thread /\ sess'[s].unlink = sess[s].unlink
  /\ ~sess[s].listed => sess'[s] = sess[s]

\* condvar_signal and condvar_broadcast wake and do nothing else.
LEMMA SignalWakes ==
  ASSUME Typed, NEW cvs, Signal(cvs)
  PROVE  DOMAIN waiting' = Threads /\ \A u \in Threads : Woken(u)
  BY DEF Signal, Woken, Typed

\* So does condvar_broadcast.
LEMMA BroadcastWakes ==
  ASSUME Typed, NEW cv, Broadcast(cv)
  PROVE  DOMAIN waiting' = Threads /\ \A u \in Threads : Woken(u)
  BY DEF Broadcast, Woken, Typed

\* No signal, nobody woken.
LEMMA NoneWoken ==
  ASSUME Typed, UNCHANGED waiting
  PROVE  DOMAIN waiting' = Threads /\ \A u \in Threads : Woken(u)
  BY DEF Woken, Typed

\* A thread that does not move keeps its parts.
LEMMA StayingSame ==
  ASSUME NEW u, th'[u] = th[u]
  PROVE  /\ \A s : SameRole(u, s)
         /\ \A c : SameUse(u, c)
         /\ Inside(u)' <=> Inside(u)
  BY DEF SameRole, SameUse, Refers, Owns, Holds, Drains, Opens, Releases, InsideOf, Inside, Destroys

\* A thread has no part in the sessions of others.
LEMMA OtherSession ==
  ASSUME NEW u, NEW s, th[u].s # s, th'[u].s # s
  PROVE  SameRole(u, s)
  BY DEF SameRole, Refers, Owns, Holds, Drains, Opens

\* A thread has no part in contexts it does not name.
LEMMA OtherContext ==
  ASSUME NEW u, NEW c, th[u].c # c, th'[u].c # c
  PROVE  SameUse(u, c)
  BY DEF SameUse, Releases, InsideOf, Destroys

\* A session that everybody uses as before is as before.
LEMMA SessionFrame ==
  ASSUME NEW s \in Sessions, SessOk(s), \A u \in Threads : SameRole(u, s), SameSession(s),
         s \in handles' <=> s \in handles
  PROVE  SessOk(s)'
<1>1. Referrers(s)' = Referrers(s)
  BY DEF Referrers, SameRole
<1>2. /\ ~sess'[s].listed => sess'[s] = NoSession
      /\ sess'[s].listed => sess'[s].ref_count = Cardinality(Referrers(s)')
  BY <1>1 DEF SessOk, SameSession
<1>3. \A t \in Threads : /\ Refers(t, s)' \/ Owns(t, s)' => sess'[s].listed
                         /\ sess'[s].lock_thread = t <=> Holds(t, s)'
  BY DEF SessOk, SameSession, SameRole
<1>4. sess'[s].unlink <=> \E t \in Threads : Drains(t, s)'
  BY DEF SessOk, SameSession, SameRole
<1>5. /\ s \in handles' => sess'[s].listed /\ \A t \in Threads : ~Owns(t, s)'
      /\ sess'[s].listed => s \in handles' \/ \E t \in Threads : Owns(t, s)'
  BY DEF SessOk, SameSession, SameRole
<1>6. \A t, u \in Threads : /\ Owns(t, s)' /\ Owns(u, s)' => t = u
                            /\ Opens(t, s)' /\ u # t => ~Refers(u, s)'
  BY DEF SessOk, SameRole
<1> QED BY <1>2, <1>3, <1>4, <1>5, <1>6 DEF SessOk

\* A context that everybody uses as before is as before.
LEMMA ContextFrame ==
  ASSUME NEW c \in Contexts, CtxOk(c), \A u \in Threads : SameUse(u, c), ctx'[c] = ctx[c],
         InList(c)' <=> InList(c), kind' = kind,
         SRefs(c)' = SRefs(c)
  PROVE  CtxOk(c)'
<1>1. TRefs(c)' = TRefs(c)
  BY DEF TRefs, SameUse
<1>2. /\ ~ctx'[c].alive => ctx'[c] = NoContext
      /\ ctx'[c].ref_count = Cardinality(SRefs(c)') + Cardinality(TRefs(c)')
      /\ ~(MultiSession /\ SingleInstance)' => ctx'[c].ref_count <= 1
      /\ ctx'[c].panicked => MayPanic'
      /\ InList(c)' => ctx'[c].alive /\ ((KeepAlive /\ SingleInstance)' \/ ctx'[c].ref_count > 0)
  BY <1>1 DEF CtxOk, MultiSession, SingleInstance, MayPanic, KeepAlive
<1>3. /\ ctx'[c].busy => \E t \in Threads : InsideOf(t, c)'
      /\ \A t, u \in Threads : InsideOf(t, c)' /\ InsideOf(u, c)' => t = u
      /\ \A t, u \in Threads : Destroys(t, c)' /\ Destroys(u, c)' => t = u
      /\ ctx'[c].alive => InList(c)' \/ \E t \in Threads : Destroys(t, c)'
  BY DEF CtxOk, SameUse
<1> QED BY <1>2, <1>3 DEF CtxOk

\* The sessions that refer to a context.
LEMMA SameSRefs ==
  ASSUME NEW c, \A s \in Sessions : sess'[s].listed = sess[s].listed /\ sess'[s].ctx = sess[s].ctx
  PROVE  SRefs(c)' = SRefs(c)
  BY DEF SRefs

\* What another thread knows of its context stays true.
SameView(u) ==
  /\ AtWork(u, th[u].s) => sess'[th[u].s].ctx = sess[th[u].s].ctx
  /\ th[u].pc = "initialized" => ctx'[sess[th[u].s].ctx].panicked = ctx[sess[th[u].s].ctx].panicked
  /\ th[u].pc = "loading" => /\ ctx'[th[u].c].initializing = ctx[th[u].c].initializing
                             /\ ctx'[th[u].c].ref_count = ctx[th[u].c].ref_count
                             /\ ctx'[th[u].c].panicked = ctx[th[u].c].panicked
  /\ th[u].pc = "destroy" => ctx'[th[u].c].panicked = ctx[th[u].c].panicked
  /\ Inside(u) => ctx'[th[u].c].busy = ctx[th[u].c].busy /\ (SingleInstance => single' = single)
  /\ th[u].pc = "destroying" => /\ ctx'[th[u].c].alive = ctx[th[u].c].alive
                                /\ ctx'[th[u].c].ref_count = ctx[th[u].c].ref_count
                                /\ InList(th[u].c)' => InList(th[u].c)

\* A thread that does not move, with a view that stays true.
LEMMA ThreadFrame ==
  ASSUME Typed, NEW u \in Threads, ThOk(u), th'[u] = th[u], kind' = kind, Woken(u), SameView(u)
  PROVE  ThOk(u)'
<1>1. CASE th[u] = Idle
  <2>1. /\ th'[u].pc = "idle" /\ th'[u].op = "none" /\ th[u].pc = "idle"
    BY <1>1 DEF Idle
  <2>2. ~Working(u)' /\ ~Inside(u)'
    BY <2>1 DEF Working, Inside
  <2>3. \A c \in Contexts : waiting'[u] # <<"busy", c>>
    BY <2>1, TaSessionsAssumption DEF Woken, ThOk
  <2> QED BY <2>1, <2>2, <2>3 DEF ThOk
<1>2. CASE th[u] # Idle
  <2>1. InCall(th[u])
    BY <1>2 DEF Typed
  <2>2. /\ Working(u) => AtWork(u, th[u].s)
        /\ th[u].pc \in {"unlink", "drain", "find", "load", "give_up", "initialized"} => AtWork(u, th[u].s)
    <3>1. th[u].pc \in {"find", "load", "give_up", "initialized"} => th[u].op = "open"
      BY <2>1 DEF InCall, OpenPlaces, InvokePlaces, ClosePlaces
    <3> QED BY <1>2, <3>1, WorkPlaces
  <2>3. (Working(u)' <=> Working(u)) /\ (Inside(u)' <=> Inside(u))
    BY DEF Working, Inside
  <2>4. /\ Working(u)' => th'[u].c # None /\ th'[u].c = sess'[th'[u].s].ctx
        /\ th'[u].pc \in {"unlink", "drain"} =>
             th'[u].c = sess'[th'[u].s].ctx /\ (th'[u].busy => th'[u].c # None)
        /\ th'[u].op = "close" /\ th'[u].pc \in {"clear_busy", "release", "destroying"} => th'[u].c # None
        /\ th'[u].pc \in {"find", "load", "give_up"} => sess'[th'[u].s].ctx = None
        /\ th'[u].op = "close" /\ th'[u].pc \in {"lock", "locked", "set_busy"} => ~th'[u].busy
        /\ th'[u].pc = "ta" => th'[u].busy
    BY <2>2, <2>3 DEF ThOk, SameView
  <2>5. /\ th'[u].pc = "initialized" => sess'[th'[u].s].ctx # None /\ ~ctx'[sess'[th'[u].s].ctx].panicked
        /\ th'[u].pc = "loading" => /\ ctx'[th'[u].c].initializing /\ ctx'[th'[u].c].ref_count = 1
                                    /\ ~ctx'[th'[u].c].panicked
        /\ th'[u].pc = "destroy" => ctx'[th'[u].c].panicked
        /\ Inside(u)' => ctx'[th'[u].c].busy /\ (SingleInstance' => single' = u)
    BY <2>2, <2>3 DEF ThOk, SameView, SingleInstance
  <2>6. th'[u].pc = "destroying" =>
             /\ ctx'[th'[u].c].alive /\ ~InList(th[u].c)'
             /\ ctx'[th'[u].c].ref_count = IF th'[u].op = "invoke" THEN 1 ELSE 0
    BY DEF ThOk, SameView, InList
  <2>7. \A c \in Contexts : waiting'[u] = <<"busy", c>> => th'[u].pc = "set_busy" /\ th'[u].c = c
    BY TaSessionsAssumption DEF Woken, ThOk
  <2> QED BY <2>4, <2>5, <2>6, <2>7 DEF ThOk
<1> QED BY <1>1, <1>2

\* A step that only moves a thread, keeping its part in its session and in contexts.
LEMMA PlaceMoves ==
  ASSUME Typed, Safe, NEW t \in Threads, Others(t), \A u \in Threads : u # t => Woken(u),
         UNCHANGED <<kind, sess, ctx, tee_ctxes, single, handles>>,
         \A s \in Sessions : SameRole(t, s), \A c \in Contexts : SameUse(t, c),
         Inside(t)' <=> Inside(t), ThOk(t)'
  PROVE  Safe'
<1>1. ASSUME NEW u \in Threads, u # t
      PROVE  (\A s \in Sessions : SameRole(u, s)) /\ (\A c \in Contexts : SameUse(u, c)) /\ (Inside(u)' <=> Inside(u))
  BY <1>1, StayingSame DEF Others
<1>2. ASSUME NEW s \in Sessions PROVE SessOk(s)'
  BY <1>1, SessionFrame DEF Safe, SameSession
<1>3. ASSUME NEW c \in Contexts PROVE CtxOk(c)'
  <2>1. SRefs(c)' = SRefs(c) /\ (InList(c)' <=> InList(c))
    BY DEF SRefs, InList
  <2> QED BY <1>1, <2>1, ContextFrame DEF Safe
<1>4. ASSUME NEW u \in Threads, u # t PROVE ThOk(u)'
  <2>1. th'[u] = th[u] /\ Woken(u) /\ SameView(u)
    BY <1>4 DEF Others, SameView, InList
  <2> QED BY <2>1, ThreadFrame DEF Safe
<1>5. SingleOk'
  <2>1. \A u \in Threads : Inside(u)' <=> Inside(u)
    BY <1>1
  <2>2. single # None => single \in Threads
    BY DEF Typed, TypeOK
  <2> QED BY <2>1, <2>2 DEF Safe, SingleOk, SingleInstance, Inside
<1>6. ListOk'
  BY DEF Safe, ListOk
<1> QED BY <1>2, <1>3, <1>4, <1>5, <1>6 DEF Safe

\* A context that a session in the list has is alive, and counted.
LEMMA SessionContext ==
  ASSUME Typed, Safe, NEW s \in Sessions, sess[s].listed, NEW c \in Contexts, sess[s].ctx = c
  PROVE  ctx[c].alive /\ ctx[c].ref_count >= 1
<1>1. s \in SRefs(c)
  BY DEF SRefs
<1>2. Cardinality(SRefs(c)) >= 1 /\ Cardinality(SRefs(c)) \in Nat /\ Cardinality(TRefs(c)) \in Nat
  BY <1>1, FiniteSets, Elements
<1>3. ctx[c].ref_count = Cardinality(SRefs(c)) + Cardinality(TRefs(c))
  BY DEF Safe, CtxOk
<1>4. ctx[c].ref_count >= 1
  BY <1>2, <1>3
<1>5. ~ctx[c].alive => ctx[c].ref_count = 0
  BY DEF Safe, CtxOk, NoContext
<1> QED BY <1>4, <1>5

\* The session of a call, while the thread has a part in it.
LEMMA CallSession ==
  ASSUME Typed, Safe, NEW t \in Threads, th[t] # Idle
  PROVE  /\ InCall(th[t]) /\ th[t].s \in Sessions
         /\ AtWork(t, th[t].s) => sess[th[t].s].listed
  BY WorkPlaces DEF Typed, Safe, SessOk, InCall

------------------------------------------------------------------------------
(* Steps that move a thread                                                  *)

\* What an assignment to a thread does.
Kept(t) == th'[t].op = th[t].op /\ th'[t].s = th[t].s
\* The thread goes to another place,
LEMMA GotoEffect ==
  ASSUME Typed, NEW t \in Threads, NEW p \in Places, th' = [th EXCEPT ![t].pc = p]
  PROVE  /\ Others(t) /\ th' \in [Threads -> Thread] /\ Kept(t)
         /\ th'[t].pc = p /\ th'[t].c = th[t].c /\ th'[t].busy = th[t].busy
<1>1. th \in [Threads -> Thread]
  BY DEF Typed
<1> QED BY <1>1 DEF Others, Kept, Thread

\* with another context,
LEMMA ContextEffect ==
  ASSUME Typed, NEW t \in Threads, NEW p \in Places, NEW c \in Contexts \cup {None},
         th' = [th EXCEPT ![t].c = c, ![t].pc = p]
  PROVE  /\ Others(t) /\ th' \in [Threads -> Thread] /\ Kept(t)
         /\ th'[t].pc = p /\ th'[t].c = c /\ th'[t].busy = th[t].busy
<1>1. th \in [Threads -> Thread]
  BY DEF Typed
<1> QED BY <1>1, ZenonT(30) DEF Others, Kept, Thread

\* with a result,
LEMMA ResultEffect ==
  ASSUME Typed, NEW t \in Threads, NEW p \in Places, NEW ok \in BOOLEAN,
         th' = [th EXCEPT ![t].ok = ok, ![t].pc = p]
  PROVE  /\ Others(t) /\ th' \in [Threads -> Thread] /\ Kept(t)
         /\ th'[t].pc = p /\ th'[t].c = th[t].c /\ th'[t].busy = th[t].busy
<1>1. th \in [Threads -> Thread] /\ th[t] \in Thread
  BY DEF Typed
<1>2. th'[t] = [th[t] EXCEPT !.ok = ok, !.pc = p] /\ Others(t)
  BY <1>1 DEF Others
<1>3. th'[t] \in Thread
  BY <1>1, <1>2 DEF Thread
<1>4. th' \in [Threads -> Thread]
  BY <1>1, <1>2, <1>3 DEF Others
<1>5. Kept(t) /\ th'[t].pc = p /\ th'[t].c = th[t].c /\ th'[t].busy = th[t].busy
  BY <1>1, <1>2 DEF Thread, Kept
<1> QED BY <1>2, <1>4, <1>5

\* into a call,
LEMMA StartEffect ==
  ASSUME Typed, NEW t \in Threads, NEW r \in Thread, th' = [th EXCEPT ![t] = r]
  PROVE  Others(t) /\ th' \in [Threads -> Thread] /\ th'[t] = r
<1>1. th \in [Threads -> Thread]
  BY DEF Typed
<1> QED BY <1>1 DEF Others

\* or out of it.
LEMMA ReturnEffect ==
  ASSUME Typed, NEW t \in Threads, Return(t)
  PROVE  /\ Others(t) /\ th' \in [Threads -> Thread] /\ th'[t] = Idle
         /\ th'[t].pc = "idle" /\ th'[t].op = "none" /\ th'[t].s = None /\ th'[t].c = None
         /\ ~th'[t].busy
<1>1. Idle \in Thread
  BY DEF Idle, Thread, Places
<1>2. Others(t) /\ th' \in [Threads -> Thread] /\ th'[t] = Idle
  BY <1>1, StartEffect DEF Return
<1> QED BY <1>2 DEF Idle

\* Types stay when the thread that moved is typed.
LEMMA TypedMove ==
  ASSUME Typed, NEW t \in Threads, Others(t), th' \in [Threads -> Thread],
         th'[t] = Idle \/ InCall(th'[t]), TypeOK', kind' = kind, DOMAIN waiting' = Threads
  PROVE  Typed'
  BY DEF Typed, Others

\* A step that moves a thread and changes nothing else.
LEMMA MoveKeeps ==
  ASSUME Typed, Safe, NEW t \in Threads, Others(t), th' \in [Threads -> Thread], InCall(th'[t]),
         UNCHANGED <<kind, sess, ctx, tee_ctxes, single, waiting, handles>>,
         \A s \in Sessions : SameRole(t, s), \A c \in Contexts : SameUse(t, c),
         Inside(t)' <=> Inside(t), ThOk(t)'
  PROVE  Typed' /\ Safe'
<1>1. TypeOK' /\ DOMAIN waiting' = Threads
  BY DEF Typed, TypeOK
<1> QED BY <1>1, TypedMove, PlaceMoves, NoneWoken

\* A thread waits where it is.
LEMMA WaitKeeps ==
  ASSUME TInv, NEW t \in Threads, NEW cv, Wait(t, cv), th[t] # Idle,
         \A c \in Contexts : cv = <<"busy", c>> => th[t].pc = "set_busy" /\ th[t].c = c,
         UNCHANGED <<kind, sess, ctx, tee_ctxes, single, handles, th, faults>>
  PROVE  TInv'
<1> USE DEF TInv
<1>1. Typed'
  BY DEF Typed, TypeOK, Wait, InCall
<1>2. waiting'[t] = cv /\ \A u \in Threads : u # t => Woken(u)
  BY DEF Typed, Wait, Woken
<1>3. Others(t) /\ (\A s \in Sessions : SameRole(t, s)) /\ (\A c \in Contexts : SameUse(t, c)) /\ (Inside(t)' <=> Inside(t))
  BY StayingSame DEF Others
<1>4. ThOk(t)'
  BY <1>2 DEF Safe, ThOk, Working, Inside, InList, SingleInstance
<1>5. Safe'
  BY <1>2, <1>3, <1>4, PlaceMoves
<1> QED BY <1>1, <1>5 DEF NoAssertionFails

\* The entry point of the TA returns.
LEMMA TaReturnsKeeps ==
  ASSUME TInv, NEW t \in Threads, TaReturns(t), kind' = kind
  PROVE  TInv'
<1> USE DEF TInv
<1>1. PICK ok \in BOOLEAN :
        th' = [th EXCEPT ![t].ok = @ /\ ok,
                         ![t].pc = IF th[t].op = "close" THEN "unlink" ELSE "clear_busy"]
  BY DEF TaReturns
<1>2. /\ th[t].pc = "ta" /\ th[t] # Idle
      /\ UNCHANGED <<kind, sess, ctx, tee_ctxes, single, waiting, handles>>
  BY DEF TaReturns, At, Idle
<1>3. /\ InCall(th[t]) /\ th[t].op \in {"open", "invoke", "close"}
      /\ th[t].c \in Contexts /\ th[t].busy /\ th[t].c = sess[th[t].s].ctx
  <2>1. InCall(th[t]) /\ th[t].op \in {"open", "invoke", "close"}
    BY <1>2, CallSession DEF InCall, OpenPlaces, InvokePlaces, ClosePlaces
  <2> QED BY <1>2, <2>1, Fields DEF Safe, ThOk, Working
<1>4. /\ Others(t) /\ th'[t].pc = (IF th[t].op = "close" THEN "unlink" ELSE "clear_busy")
      /\ th'[t].op = th[t].op /\ th'[t].s = th[t].s /\ th'[t].c = th[t].c /\ th'[t].busy = th[t].busy
      /\ th' \in [Threads -> Thread]
  <2> DEFINE p == IF th[t].op = "close" THEN "unlink" ELSE "clear_busy"
             k == th[t].ok /\ ok
  <2>1. p \in Places /\ k \in BOOLEAN
    BY DEF Places, OpenPlaces, ClosePlaces
  <2>2. th' = [th EXCEPT ![t].ok = k, ![t].pc = p]
    BY <1>1
  <2> HIDE DEF p, k
  <2>3. Others(t) /\ th' \in [Threads -> Thread] /\ Kept(t) /\ th'[t].pc = p /\ th'[t].c = th[t].c /\ th'[t].busy = th[t].busy
    BY <2>1, <2>2, ResultEffect
  <2> QED BY <2>3 DEF p, Kept
<1>5. InCall(th'[t])
  BY <1>2, <1>3, <1>4 DEF InCall, OpenPlaces, InvokePlaces, ClosePlaces
<1>6. \A s \in Sessions : SameRole(t, s)
  BY <1>2, <1>3, <1>4 DEF SameRole, Refers, Owns, Holds, Drains, Opens
<1>7. Inside(t)' /\ Inside(t) /\ \A c \in Contexts : SameUse(t, c)
  BY <1>2, <1>3, <1>4 DEF SameUse, Releases, InsideOf, Inside, Destroys
<1>8. ThOk(t)'
  BY <1>2, <1>3, <1>4, <1>7 DEF Safe, ThOk, Working, Inside, SingleInstance
<1>9. Typed' /\ Safe'
  BY <1>2, <1>4, <1>5, <1>6, <1>7, <1>8, MoveKeeps
<1>10. NoAssertionFails'
  <2>1. User(t, th[t].c)
    BY <1>2 DEF User, Working
  <2>2. Alive(th[t].c)
    BY <1>3, <2>1, UserCounts, TaSessionsAssumption DEF Alive
  <2> QED BY <2>2 DEF TaReturns, Check, Unless, NoAssertionFails
<1> QED BY <1>9, <1>10

\* The session that is opened has its TA.
LEMMA EnterOpenKeeps ==
  ASSUME TInv, NEW t \in Threads, EnterOpen(t), kind' = kind
  PROVE  TInv'
<1> USE DEF TInv
<1> DEFINE c == sess[th[t].s].ctx
<1>2. /\ th[t].pc = "initialized" /\ th[t] # Idle
      /\ UNCHANGED <<kind, sess, ctx, tee_ctxes, single, waiting, handles>>
  BY DEF EnterOpen, At, Idle
<1>3. /\ InCall(th[t]) /\ th[t].op = "open" /\ th[t].s \in Sessions
      /\ c \in Contexts /\ ~ctx[c].panicked
  <2>1. InCall(th[t]) /\ th[t].op = "open" /\ th[t].s \in Sessions
    BY <1>2, CallSession DEF InCall, OpenPlaces, InvokePlaces, ClosePlaces
  <2> QED BY <1>2, <2>1, Fields DEF Safe, ThOk
<1>1. /\ th' = [th EXCEPT ![t].c = c, ![t].ok = TRUE, ![t].pc = "set_busy"]
      /\ faults' = faults \cup Unless(c = None \/ Alive(c), "dangling")
  BY <1>3, TaSessionsAssumption DEF EnterOpen, Check
<1>4. /\ Others(t) /\ Kept(t) /\ th'[t].pc = "set_busy" /\ th'[t].c = c
      /\ th' \in [Threads -> Thread]
  <2>1. th \in [Threads -> Thread] /\ "set_busy" \in Places /\ th[t] \in Thread /\ c \in Contexts
    BY <1>3 DEF Typed, Places, OpenPlaces
  <2> HIDE DEF c
  <2>2. th'[t] = [th[t] EXCEPT !.c = c, !.ok = TRUE, !.pc = "set_busy"] /\ Others(t)
    BY <2>1, <1>1 DEF Others
  <2>3. th'[t] \in Thread /\ Kept(t) /\ th'[t].pc = "set_busy" /\ th'[t].c = c
    BY <2>1, <2>2 DEF Thread, Kept
  <2>4. th' \in [Threads -> Thread]
    BY <1>1, <2>1, <2>2, <2>3 DEF Others
  <2> QED BY <2>2, <2>3, <2>4
<1>5. InCall(th'[t])
  BY <1>3, <1>4 DEF InCall, OpenPlaces, Kept
<1>6. \A s \in Sessions : SameRole(t, s)
  BY <1>2, <1>3, <1>4 DEF SameRole, Refers, Owns, Holds, Drains, Opens, Kept
<1>7. ~Inside(t)' /\ ~Inside(t) /\ \A d \in Contexts : SameUse(t, d)
  BY <1>2, <1>3, <1>4 DEF SameUse, Releases, InsideOf, Inside, Destroys, Kept
<1>8. ThOk(t)'
  BY <1>2, <1>3, <1>4, <1>7, TaSessionsAssumption DEF Safe, ThOk, Working, Kept
<1>9. Typed' /\ Safe'
  BY <1>2, <1>4, <1>5, <1>6, <1>7, <1>8, MoveKeeps
<1>10. NoAssertionFails'
  <2>1. User(t, c)
    BY <1>2 DEF User
  <2>2. Alive(c)
    BY <1>3, <2>1, UserCounts, TaSessionsAssumption DEF Alive
  <2> QED BY <1>1, <2>2 DEF Unless, NoAssertionFails
<1> QED BY <1>9, <1>10

\* A session that could not be opened will be closed.
LEMMA NotOpenedKeeps ==
  ASSUME TInv, NEW t \in Threads, Opened(t), ~th[t].ok, kind' = kind
  PROVE  TInv'
<1> USE DEF TInv
<1>1. th' = [th EXCEPT ![t].pc = "reopen"]
  BY DEF Opened, Goto
<1>2. /\ th[t].pc = "opened" /\ th[t] # Idle
      /\ UNCHANGED <<kind, sess, ctx, tee_ctxes, single, waiting, handles, faults>>
  BY DEF Opened, At, Idle
<1>3. InCall(th[t]) /\ th[t].op = "open"
  BY <1>2, CallSession DEF InCall, OpenPlaces, InvokePlaces, ClosePlaces
<1>4. /\ Others(t) /\ Kept(t) /\ th'[t].pc = "reopen" /\ th'[t].c = th[t].c
      /\ th' \in [Threads -> Thread]
  <2>1. "reopen" \in Places
    BY DEF Places, OpenPlaces
  <2> QED BY <1>1, <2>1, GotoEffect
<1>5. InCall(th'[t])
  BY <1>3, <1>4 DEF InCall, OpenPlaces, Kept
<1>6. \A s \in Sessions : SameRole(t, s)
  BY <1>2, <1>3, <1>4 DEF SameRole, Refers, Owns, Holds, Drains, Opens, Kept
<1>7. ~Inside(t)' /\ ~Inside(t) /\ \A d \in Contexts : SameUse(t, d)
  BY <1>2, <1>3, <1>4 DEF SameUse, Releases, InsideOf, Inside, Destroys, Kept
<1>8. ThOk(t)'
  BY <1>2, <1>3, <1>4, <1>7 DEF Safe, ThOk, Working, Kept
<1>9. Typed' /\ Safe'
  BY <1>2, <1>4, <1>5, <1>6, <1>7, <1>8, MoveKeeps
<1> QED BY <1>2, <1>9 DEF NoAssertionFails

\* An invocation has the lock of its session.
LEMMA InvokeKeeps ==
  ASSUME TInv, NEW t \in Threads, Invoke(t), kind' = kind
  PROVE  TInv'
<1> USE DEF TInv
<1> DEFINE c == sess[th[t].s].ctx
           p == IF c = None THEN "put" ELSE IF ctx[c].panicked THEN "destroy" ELSE "set_busy"
<1>1. /\ th' = [th EXCEPT ![t].c = c, ![t].pc = p]
      /\ faults' = faults \cup Unless(c = None \/ Alive(c), "dangling")
  BY DEF Invoke, Check
<1>2. /\ th[t].pc = "locked" /\ th[t].op = "invoke" /\ th[t] # Idle
      /\ UNCHANGED <<kind, sess, ctx, tee_ctxes, single, waiting, handles>>
  BY DEF Invoke, At, Idle
<1>3. InCall(th[t]) /\ th[t].s \in Sessions /\ c \in Contexts \cup {None} /\ sess[th[t].s].listed
  <2>1. InCall(th[t]) /\ th[t].s \in Sessions
    BY <1>2, CallSession
  <2>2. AtWork(t, th[t].s)
    BY <1>2 DEF AtWork, Holds
  <2> QED BY <1>2, <2>1, <2>2, CallSession, Fields
<1>p. p \in {"put", "destroy", "set_busy"} /\ (p # "put" => c # None) /\ (p = "destroy" => ctx[c].panicked)
  BY DEF p
<1> HIDE DEF p
<1>4. /\ Others(t) /\ Kept(t) /\ th'[t].pc = p /\ th'[t].c = c /\ th' \in [Threads -> Thread]
  <2>1. p \in Places
    BY <1>p DEF Places, InvokePlaces
  <2> HIDE DEF c
  <2> QED BY <1>1, <1>3, <2>1, ContextEffect, ZenonT(30)
<1>5. InCall(th'[t])
  BY <1>2, <1>3, <1>4, <1>p DEF InCall, InvokePlaces, Kept
<1>6. \A s \in Sessions : SameRole(t, s)
  BY <1>2, <1>4, <1>p DEF SameRole, Refers, Owns, Holds, Drains, Opens, Kept
<1>7. ~Inside(t)' /\ ~Inside(t) /\ \A d \in Contexts : SameUse(t, d)
  BY <1>2, <1>4, <1>p DEF SameUse, Releases, InsideOf, Inside, Destroys, Kept
<1>8. ThOk(t)'
  BY <1>2, <1>4, <1>7, <1>p DEF Safe, ThOk, Working, Kept
<1>9. Typed' /\ Safe'
  BY <1>2, <1>4, <1>5, <1>6, <1>7, <1>8, MoveKeeps
<1>10. NoAssertionFails'
  <2>1. c = None \/ Alive(c)
    BY <1>3, SessionContext DEF Alive
  <2> QED BY <1>1, <2>1 DEF Unless, NoAssertionFails
<1> QED BY <1>9, <1>10

\* An invocation returned from the TA.
LEMMA InvokedKeeps ==
  ASSUME TInv, NEW t \in Threads, Invoked(t), kind' = kind
  PROVE  TInv'
<1> USE DEF TInv
<1> DEFINE p == IF ctx[th[t].c].panicked THEN "destroy" ELSE "put"
<1>1. th' = [th EXCEPT ![t].pc = p]
  BY DEF Invoked, Goto
<1>2. /\ th[t].pc = "invoked" /\ th[t] # Idle
      /\ UNCHANGED <<kind, sess, ctx, tee_ctxes, single, waiting, handles>>
  BY DEF Invoked, At, Idle
<1>3. InCall(th[t]) /\ th[t].op = "invoke" /\ th[t].c \in Contexts /\ th[t].c = sess[th[t].s].ctx
  <2>1. InCall(th[t]) /\ th[t].op = "invoke"
    BY <1>2, CallSession DEF InCall, OpenPlaces, InvokePlaces, ClosePlaces
  <2> QED BY <1>2, <2>1, Fields DEF Safe, ThOk, Working
<1>p. p \in {"put", "destroy"} /\ (p = "destroy" => ctx[th[t].c].panicked)
  BY DEF p
<1> HIDE DEF p
<1>4. /\ Others(t) /\ Kept(t) /\ th'[t].pc = p /\ th'[t].c = th[t].c /\ th' \in [Threads -> Thread]
  <2>1. p \in Places
    BY <1>p DEF Places, InvokePlaces
  <2> QED BY <1>1, <2>1, GotoEffect
<1>5. InCall(th'[t])
  BY <1>3, <1>4, <1>p DEF InCall, InvokePlaces, Kept
<1>6. \A s \in Sessions : SameRole(t, s)
  BY <1>2, <1>3, <1>4, <1>p DEF SameRole, Refers, Owns, Holds, Drains, Opens, Kept
<1>7. ~Inside(t)' /\ ~Inside(t) /\ \A d \in Contexts : SameUse(t, d)
  BY <1>2, <1>3, <1>4, <1>p DEF SameUse, Releases, InsideOf, Inside, Destroys, Kept
<1>8. ThOk(t)'
  BY <1>2, <1>3, <1>4, <1>7, <1>p DEF Safe, ThOk, Working, Kept
<1>9. Typed' /\ Safe'
  BY <1>2, <1>4, <1>5, <1>6, <1>7, <1>8, MoveKeeps
<1>10. NoAssertionFails'
  <2>1. User(t, th[t].c)
    BY <1>2 DEF User, Working
  <2>2. Alive(th[t].c)
    BY <1>3, <2>1, UserCounts, TaSessionsAssumption DEF Alive
  <2> QED BY <2>2 DEF Invoked, Check, Unless, NoAssertionFails
<1> QED BY <1>9, <1>10

\* A close has the lock of its session.
LEMMA CloseKeeps ==
  ASSUME TInv, NEW t \in Threads, Close(t), kind' = kind
  PROVE  TInv'
<1> USE DEF TInv
<1> DEFINE c == sess[th[t].s].ctx
           p == IF c = None \/ ctx[c].panicked THEN "unlink" ELSE "set_busy"
<1>1. /\ th' = [th EXCEPT ![t].c = c, ![t].pc = p]
      /\ faults' = faults \cup Unless(c = None \/ Alive(c), "dangling")
  BY DEF Close, Check
<1>2. /\ th[t].pc = "locked" /\ th[t].op = "close" /\ th[t] # Idle
      /\ UNCHANGED <<kind, sess, ctx, tee_ctxes, single, waiting, handles>>
  BY DEF Close, At, Idle
<1>3. InCall(th[t]) /\ th[t].s \in Sessions /\ c \in Contexts \cup {None} /\ sess[th[t].s].listed
      /\ ~th[t].busy
  <2>1. InCall(th[t]) /\ th[t].s \in Sessions
    BY <1>2, CallSession
  <2>2. AtWork(t, th[t].s)
    BY <1>2 DEF AtWork, Holds
  <2>3. ~th[t].busy
    BY <1>2 DEF Safe, ThOk
  <2> QED BY <1>2, <2>1, <2>2, <2>3, CallSession, Fields
<1>p. p \in {"unlink", "set_busy"} /\ (p = "set_busy" => c # None)
  BY DEF p
<1> HIDE DEF p
<1>4. /\ Others(t) /\ Kept(t) /\ th'[t].pc = p /\ th'[t].c = c /\ th' \in [Threads -> Thread]
      /\ ~th'[t].busy
  <2>1. p \in Places
    BY <1>p DEF Places, ClosePlaces
  <2> HIDE DEF c
  <2>0. c \in Contexts \cup {None}
    BY <1>3
  <2>2. Others(t) /\ th' \in [Threads -> Thread] /\ Kept(t) /\ th'[t].pc = p /\ th'[t].c = c /\ th'[t].busy = th[t].busy
    BY <1>1, <2>0, <2>1, ContextEffect
  <2> QED BY <1>3, <2>2
<1>5. InCall(th'[t])
  BY <1>2, <1>3, <1>4, <1>p DEF InCall, ClosePlaces, Kept
<1>6. \A s \in Sessions : SameRole(t, s)
  BY <1>2, <1>4, <1>p DEF SameRole, Refers, Owns, Holds, Drains, Opens, Kept
<1>7. ~Inside(t)' /\ ~Inside(t) /\ \A d \in Contexts : SameUse(t, d)
  BY <1>2, <1>4, <1>p DEF SameUse, Releases, InsideOf, Inside, Destroys, Kept
<1>8. ThOk(t)'
  BY <1>2, <1>4, <1>7, <1>p DEF Safe, ThOk, Working, Kept
<1>9. Typed' /\ Safe'
  BY <1>2, <1>4, <1>5, <1>6, <1>7, <1>8, MoveKeeps
<1>10. NoAssertionFails'
  <2>1. c = None \/ Alive(c)
    BY <1>3, SessionContext DEF Alive
  <2> QED BY <1>1, <2>1 DEF Unless, NoAssertionFails
<1> QED BY <1>9, <1>10

------------------------------------------------------------------------------
(* Steps that change a session                                               *)

\* Whoever has the lock of a session refers to it; whoever opens or frees it owns it.
LEMMA RolesNest ==
  ASSUME NEW t, NEW s
  PROVE  /\ Holds(t, s) => Refers(t, s)
         /\ Drains(t, s) => Owns(t, s) /\ Holds(t, s)
         /\ Opens(t, s) => Owns(t, s)
  BY DEF Holds, Refers, Drains, Owns, Opens

\* The references to a session, when one thread takes or gives back its own.
LEMMA OneMore ==
  ASSUME NEW t \in Threads, NEW s, Others(t), ~Refers(t, s), Refers(t, s)'
  PROVE  Cardinality(Referrers(s)') = Cardinality(Referrers(s)) + 1
<1>1. \A u \in Threads : u # t => SameRole(u, s)
  BY StayingSame DEF Others
<1>2. Referrers(s)' = Referrers(s) \cup {t} /\ t \notin Referrers(s)
  BY <1>1 DEF Referrers, SameRole
<1>3. IsFiniteSet(Referrers(s))
  BY FiniteSets
<1> QED BY <1>2, <1>3, FS_AddElement

\* One thread gives its reference back.
LEMMA OneLess ==
  ASSUME NEW t \in Threads, NEW s, Others(t), Refers(t, s), ~Refers(t, s)'
  PROVE  /\ Cardinality(Referrers(s)') = Cardinality(Referrers(s)) - 1
         /\ Cardinality(Referrers(s)) \in Nat /\ Cardinality(Referrers(s)) > 0
<1>1. \A u \in Threads : u # t => SameRole(u, s)
  BY StayingSame DEF Others
<1>2. Referrers(s)' = Referrers(s) \ {t} /\ t \in Referrers(s)
  BY <1>1 DEF Referrers, SameRole
<1>3. IsFiniteSet(Referrers(s)) /\ Cardinality(Referrers(s)) \in Nat
  BY FiniteSets
<1>4. Cardinality(Referrers(s)) >= 1
  BY <1>2, <1>3, Elements
<1> QED BY <1>2, <1>3, <1>4, FS_RemoveElement

\* Nobody takes or gives back a reference.
LEMMA SameReferrers ==
  ASSUME NEW t \in Threads, NEW s, Others(t), Refers(t, s)' <=> Refers(t, s)
  PROVE  Referrers(s)' = Referrers(s)
<1>1. \A u \in Threads : u # t => SameRole(u, s)
  BY StayingSame DEF Others
<1> QED BY <1>1 DEF Referrers, SameRole

\* A session in which one thread changes its part.
LEMMA SessionChange ==
  ASSUME NEW s \in Sessions, NEW t \in Threads, SessOk(s), Others(t),
         sess'[s].listed, sess'[s].ref_count = Cardinality(Referrers(s)'),
         \A u \in Threads : u # t => (sess'[s].lock_thread = u <=> sess[s].lock_thread = u),
         sess'[s].lock_thread = t <=> Holds(t, s)',
         sess'[s].unlink <=> (Drains(t, s)' \/ \E u \in Threads : u # t /\ Drains(u, s)),
         Owns(t, s)' \/ s \in handles' => \A u \in Threads : u # t => ~Owns(u, s),
         s \in handles' => ~Owns(t, s)',
         s \in handles' \/ Owns(t, s)' \/ \E u \in Threads : u # t /\ Owns(u, s),
         Opens(t, s)' => \A u \in Threads : u # t => ~Refers(u, s),
         Refers(t, s)' => \A u \in Threads : u # t => ~Opens(u, s)
  PROVE  SessOk(s)'
<1>0. \A u \in Threads : u # t => SameRole(u, s)
  BY StayingSame DEF Others
<1>3. \A u \in Threads : sess'[s].lock_thread = u <=> Holds(u, s)'
  BY <1>0 DEF SessOk, SameRole
<1>4. sess'[s].unlink <=> \E u \in Threads : Drains(u, s)'
  BY <1>0 DEF SameRole
<1>5. /\ s \in handles' => \A u \in Threads : ~Owns(u, s)'
      /\ s \in handles' \/ \E u \in Threads : Owns(u, s)'
  BY <1>0 DEF SameRole
<1>6. \A u, v \in Threads : Owns(u, s)' /\ Owns(v, s)' => u = v
  BY <1>0 DEF SessOk, SameRole
<1>7. \A u, v \in Threads : Opens(u, s)' /\ v # u => ~Refers(v, s)'
  BY <1>0 DEF SessOk, SameRole
<1> QED BY <1>3, <1>4, <1>5, <1>6, <1>7 DEF SessOk

\* A session that is freed.
LEMMA SessionFreed ==
  ASSUME NEW s \in Sessions, sess'[s] = NoSession, s \notin handles',
         \A u \in Threads : ~Refers(u, s)' /\ ~Owns(u, s)'
  PROVE  SessOk(s)'
<1>1. \A u \in Threads : ~Holds(u, s)' /\ ~Drains(u, s)' /\ ~Opens(u, s)'
  BY DEF Holds, Refers, Drains, Owns, Opens
<1>2. ~sess'[s].listed /\ ~sess'[s].unlink /\ \A u \in Threads : sess'[s].lock_thread # u
  BY TaSessionsAssumption DEF NoSession
<1> QED BY <1>1, <1>2 DEF SessOk

\* A step in one session that leaves contexts alone.
LEMMA SessionMoves ==
  ASSUME Typed, Safe, NEW t \in Threads, NEW s \in Sessions, Others(t),
         \A u \in Threads : u # t => Woken(u),
         UNCHANGED <<kind, ctx, tee_ctxes, single>>,
         th[t].s \in {s, None}, th'[t].s \in {s, None},
         \A x \in Sessions : x # s => sess'[x] = sess[x] /\ (x \in handles' <=> x \in handles),
         SessOk(s)',
         \A c \in Contexts : sess'[s].listed /\ sess'[s].ctx = c <=> sess[s].listed /\ sess[s].ctx = c,
         \A u \in Threads : u # t /\ AtWork(u, s) => sess'[s].ctx = sess[s].ctx,
         \A c \in Contexts : SameUse(t, c), Inside(t)' <=> Inside(t), ThOk(t)'
  PROVE  Safe'
<1>1. ASSUME NEW u \in Threads, u # t
      PROVE  (\A x \in Sessions : SameRole(u, x)) /\ (\A c \in Contexts : SameUse(u, c)) /\ (Inside(u)' <=> Inside(u))
  BY <1>1, StayingSame DEF Others
<1>2. ASSUME NEW x \in Sessions PROVE SessOk(x)'
  <2>1. CASE x = s
    BY <2>1
  <2>2. CASE x # s
    <3>1. SameRole(t, x)
      BY <2>2, OtherSession, TaSessionsAssumption
    <3>2. SameSession(x) /\ SessOk(x)
      BY <2>2 DEF SameSession, Safe
    <3> QED BY <1>1, <2>2, <3>1, <3>2, SessionFrame
  <2> QED BY <2>1, <2>2
<1>3. ASSUME NEW c \in Contexts PROVE CtxOk(c)'
  <2>1. SRefs(c)' = SRefs(c)
    <3>1. \A x \in Sessions : sess'[x].listed /\ sess'[x].ctx = c <=> sess[x].listed /\ sess[x].ctx = c
      OBVIOUS
    <3> QED BY <3>1 DEF SRefs
  <2>2. InList(c)' <=> InList(c)
    BY DEF InList
  <2> QED BY <1>1, <2>1, <2>2, ContextFrame DEF Safe
<1>4. ASSUME NEW u \in Threads, u # t PROVE ThOk(u)'
  <2>1. th'[u] = th[u] /\ Woken(u)
    BY <1>4 DEF Others
  <2>2. AtWork(u, th[u].s) => th[u].s \in Sessions
    BY WorkPlaces, TaSessionsAssumption DEF AtWork, Opens, Holds, Idle
  <2>3. AtWork(u, th[u].s) => sess'[th[u].s].ctx = sess[th[u].s].ctx
    BY <1>4, <2>2
  <2>4. SameView(u)
    BY <2>1, <2>3 DEF SameView, InList
  <2> QED BY <2>1, <2>4, ThreadFrame DEF Safe
<1>5. SingleOk'
  <2>1. \A u \in Threads : Inside(u)' <=> Inside(u)
    BY <1>1
  <2>2. single # None => single \in Threads
    BY DEF Typed, TypeOK
  <2> QED BY <2>1, <2>2 DEF Safe, SingleOk, SingleInstance, Inside
<1>6. ListOk'
  BY DEF Safe, ListOk
<1> QED BY <1>2, <1>3, <1>4, <1>5, <1>6 DEF Safe

\* A session with another number of references.
LEMMA CountEffect ==
  ASSUME Typed, NEW s \in Sessions, NEW n \in Nat, sess' = [sess EXCEPT ![s].ref_count = n],
         UNCHANGED <<ctx, single>>, handles' \subseteq handles
  PROVE  /\ TypeOK'
         /\ \A x \in Sessions : x # s => sess'[x] = sess[x]
         /\ sess'[s].ref_count = n /\ sess'[s].listed = sess[s].listed
         /\ sess'[s].lock_thread = sess[s].lock_thread /\ sess'[s].ctx = sess[s].ctx
         /\ sess'[s].unlink = sess[s].unlink
  BY DEF Typed, TypeOK

\* A call for a session that a client holds.
LEMMA StartKeeps ==
  ASSUME Typed, Safe, NEW t \in Threads, NEW s \in Sessions, NEW op, NEW p,
         s \in handles, th[t] = Idle, sess[s].listed, ~sess[s].unlink,
         \/ op = "invoke" /\ p = "lock"
         \/ op = "close" /\ p = "lock"
         \/ op = "cancel" /\ p = "put",
         sess' = [sess EXCEPT ![s].ref_count = @ + 1],
         th' = [th EXCEPT ![t] = [Idle EXCEPT !.pc = p, !.op = op, !.s = s]],
         handles' = IF op = "close" THEN handles \ {s} ELSE handles,
         UNCHANGED <<kind, ctx, tee_ctxes, single, waiting>>
  PROVE  Typed' /\ Safe' /\ sess[s].lock_thread # t
<1> DEFINE r == [Idle EXCEPT !.pc = p, !.op = op, !.s = s]
<1>1. r \in Thread /\ r.pc = p /\ r.op = op /\ r.s = s /\ r.c = None /\ ~r.busy
  BY DEF Idle, Thread, Places, InvokePlaces
<1>2. Others(t) /\ th' \in [Threads -> Thread] /\ th'[t] = r
  <2> HIDE DEF r
  <2>1. th' = [th EXCEPT ![t] = r]
    BY DEF r
  <2> QED BY <1>1, <2>1, StartEffect
<1> HIDE DEF r
<1>3. th'[t].pc = p /\ th'[t].op = op /\ th'[t].s = s /\ th'[t].c = None /\ ~th'[t].busy
  BY <1>1, <1>2
<1>4. th[t].pc = "idle" /\ th[t].op = "none" /\ th[t].s = None /\ th[t].c = None
  BY DEF Idle
<1>5. /\ ~Refers(t, s) /\ ~Holds(t, s) /\ Refers(t, s)' /\ ~Holds(t, s)' /\ ~Drains(t, s)' /\ ~Opens(t, s)'
      /\ Owns(t, s)' <=> op = "close"
  BY <1>3, <1>4, TaSessionsAssumption DEF Refers, Holds, Drains, Opens, Owns
<1>6. sess[s].ref_count \in Nat /\ sess[s].ref_count = Cardinality(Referrers(s)) /\ SessOk(s)
  BY Fields DEF Safe, SessOk
<1>7. /\ TypeOK' /\ \A x \in Sessions : x # s => sess'[x] = sess[x]
      /\ sess'[s].ref_count = sess[s].ref_count + 1 /\ sess'[s].listed
      /\ sess'[s].lock_thread = sess[s].lock_thread /\ sess'[s].ctx = sess[s].ctx /\ ~sess'[s].unlink
  <2> DEFINE n == sess[s].ref_count + 1
  <2>1. n \in Nat /\ sess' = [sess EXCEPT ![s].ref_count = n] /\ handles' \subseteq handles
    BY <1>6
  <2> HIDE DEF n
  <2>2. /\ TypeOK' /\ (\A x \in Sessions : x # s => sess'[x] = sess[x])
        /\ sess'[s].ref_count = n /\ sess'[s].listed = sess[s].listed
        /\ sess'[s].lock_thread = sess[s].lock_thread /\ sess'[s].ctx = sess[s].ctx
        /\ sess'[s].unlink = sess[s].unlink
    BY <2>1, CountEffect
  <2> QED BY <2>2 DEF n
<1>8. sess'[s].ref_count = Cardinality(Referrers(s)')
  BY <1>2, <1>5, <1>6, <1>7, OneMore
<1>9. SessOk(s)'
  <2>1. \A u \in Threads : ~Owns(u, s) /\ ~Drains(u, s) /\ ~Opens(u, s)
    BY <1>6, RolesNest DEF SessOk
  <2>2. sess[s].lock_thread # t
    BY <1>5, <1>6 DEF SessOk
  <2> QED BY <1>2, <1>5, <1>6, <1>7, <1>8, <2>1, <2>2, SessionChange
<1>10. ~Inside(t)' /\ ~Inside(t) /\ \A c \in Contexts : SameUse(t, c)
  BY <1>3, <1>4 DEF SameUse, Releases, InsideOf, Inside, Destroys
<1>11. ThOk(t)'
  BY <1>3, <1>4, <1>10 DEF Safe, ThOk, Working
<1>12. InCall(th'[t])
  BY <1>3 DEF InCall, InvokePlaces, ClosePlaces
<1>13. DOMAIN waiting' = Threads
  BY NoneWoken
<1>14. Typed'
  BY <1>2, <1>7, <1>12, <1>13, TypedMove
<1>15. Safe'
  BY <1>2, <1>3, <1>4, <1>7, <1>9, <1>10, <1>11, SessionMoves, NoneWoken
<1>16. sess[s].lock_thread # t
  BY <1>5, <1>6 DEF SessOk
<1> QED BY <1>14, <1>15, <1>16

\* A client invokes a session it holds,
LEMMA StartInvokeKeeps ==
  ASSUME TInv, NEW t \in Threads, NEW s \in Sessions, StartInvoke(t, s), kind' = kind
  PROVE  TInv'
<1>1. Typed' /\ Safe' /\ sess[s].lock_thread # t
  <2> DEFINE op == "invoke"
             p == "lock"
  <2>1. /\ s \in handles /\ th[t] = Idle /\ sess[s].listed /\ ~sess[s].unlink
        /\ \/ op = "invoke" /\ p = "lock"
           \/ op = "close" /\ p = "lock"
           \/ op = "cancel" /\ p = "put"
        /\ sess' = [sess EXCEPT ![s].ref_count = @ + 1]
        /\ th' = [th EXCEPT ![t] = [Idle EXCEPT !.pc = p, !.op = op, !.s = s]]
        /\ handles' = IF op = "close" THEN handles \ {s} ELSE handles
        /\ UNCHANGED <<kind, ctx, tee_ctxes, single, waiting>>
    BY DEF StartInvoke, StartExclusive
  <2> HIDE DEF op, p
  <2> QED BY <2>1, StartKeeps DEF TInv
<1> QED BY <1>1 DEF TInv, StartInvoke, StartExclusive, Check, Unless, NoAssertionFails

\* closes it,
LEMMA StartCloseKeeps ==
  ASSUME TInv, NEW t \in Threads, NEW s \in Sessions, StartClose(t, s), kind' = kind
  PROVE  TInv'
<1>1. Typed' /\ Safe' /\ sess[s].lock_thread # t
  <2> DEFINE op == "close"
             p == "lock"
  <2>1. /\ s \in handles /\ th[t] = Idle /\ sess[s].listed /\ ~sess[s].unlink
        /\ \/ op = "invoke" /\ p = "lock"
           \/ op = "close" /\ p = "lock"
           \/ op = "cancel" /\ p = "put"
        /\ sess' = [sess EXCEPT ![s].ref_count = @ + 1]
        /\ th' = [th EXCEPT ![t] = [Idle EXCEPT !.pc = p, !.op = op, !.s = s]]
        /\ handles' = IF op = "close" THEN handles \ {s} ELSE handles
        /\ UNCHANGED <<kind, ctx, tee_ctxes, single, waiting>>
    BY DEF StartClose, StartExclusive
  <2> HIDE DEF op, p
  <2> QED BY <2>1, StartKeeps DEF TInv
<1> QED BY <1>1 DEF TInv, StartClose, StartExclusive, Check, Unless, NoAssertionFails

\* or cancels what runs in it.
LEMMA StartCancelKeeps ==
  ASSUME TInv, NEW t \in Threads, NEW s \in Sessions, StartCancel(t, s), kind' = kind
  PROVE  TInv'
<1>1. Typed' /\ Safe'
  <2> DEFINE op == "cancel"
             p == "put"
  <2>1. /\ s \in handles /\ th[t] = Idle /\ sess[s].listed /\ ~sess[s].unlink
        /\ \/ op = "invoke" /\ p = "lock"
           \/ op = "close" /\ p = "lock"
           \/ op = "cancel" /\ p = "put"
        /\ sess' = [sess EXCEPT ![s].ref_count = @ + 1]
        /\ th' = [th EXCEPT ![t] = [Idle EXCEPT !.pc = p, !.op = op, !.s = s]]
        /\ handles' = IF op = "close" THEN handles \ {s} ELSE handles
        /\ UNCHANGED <<kind, ctx, tee_ctxes, single, waiting>>
    BY DEF StartCancel
  <2> HIDE DEF op, p
  <2> QED BY <2>1, StartKeeps DEF TInv
<1> QED BY <1>1 DEF TInv, StartCancel, NoAssertionFails

\* A thread whose call ended.
LEMMA IdleOk ==
  ASSUME NEW t \in Threads, th'[t] = Idle, waiting[t] = None, Woken(t)
  PROVE  ThOk(t)' /\ ~Inside(t)' /\ \A c : ~Releases(t, c)' /\ ~InsideOf(t, c)' /\ ~Destroys(t, c)'
<1>1. th'[t].pc = "idle" /\ th'[t].op = "none"
  BY DEF Idle
<1>2. ~Working(t)' /\ ~Inside(t)' /\ \A c : ~Releases(t, c)' /\ ~InsideOf(t, c)' /\ ~Destroys(t, c)'
  BY <1>1 DEF Working, Inside, Releases, InsideOf, Destroys
<1>3. \A c \in Contexts : waiting'[t] # <<"busy", c>>
  BY TaSessionsAssumption DEF Woken
<1> QED BY <1>1, <1>2, <1>3 DEF ThOk

\* tee_ta_get_session goes on: sent away, waiting, or with the lock.
LEMMA LockKeeps ==
  ASSUME TInv, NEW t \in Threads, Lock(t), kind' = kind
  PROVE  TInv'
<1> USE DEF TInv
<1>1. /\ th[t].pc = "lock" /\ th[t] # Idle /\ waiting[t] = None
      /\ UNCHANGED <<kind, ctx, tee_ctxes, single, handles>>
  BY DEF Lock, At, Idle
<1>0. PICK s \in Sessions : s = th[t].s
  BY <1>1, CallSession
<1>2. InCall(th[t]) /\ th[t].op \in {"invoke", "close"} /\ s \in Sessions /\ SessOk(s)
  BY <1>0, <1>1, CallSession DEF InCall, OpenPlaces, InvokePlaces, ClosePlaces, Safe
<1>3. /\ Refers(t, s) /\ ~Holds(t, s) /\ ~Drains(t, s) /\ ~Opens(t, s)
      /\ Owns(t, s) <=> th[t].op = "close"
      /\ sess[s].listed
  <2>1. /\ Refers(t, s) /\ ~Holds(t, s) /\ ~Drains(t, s) /\ ~Opens(t, s)
        /\ Owns(t, s) <=> th[t].op = "close"
    BY <1>0, <1>1, <1>2 DEF Refers, Holds, Drains, Opens, Owns
  <2> QED BY <1>2, <2>1 DEF SessOk
<1>4. sess[s].ref_count \in Nat /\ sess[s].ref_count = Cardinality(Referrers(s))
  BY <1>2, <1>3, Fields DEF SessOk
<1>5. ~Inside(t) /\ \A c \in Contexts : ~Releases(t, c) /\ ~InsideOf(t, c) /\ ~Destroys(t, c)
  BY <1>1 DEF Inside, Releases, InsideOf, Destroys
<1>6. CASE sess[s].unlink
  <2>1. /\ sess' = [sess EXCEPT ![s].ref_count = @ - 1] /\ Return(t)
        /\ Signal(RefCountSignals(s)) /\ faults' = faults \cup Unless(sess[s].ref_count > 0, "session_ref_count")
    BY <1>0, <1>6 DEF Lock, Check
  <2>2. /\ Others(t) /\ th' \in [Threads -> Thread] /\ th'[t] = Idle /\ th'[t].pc = "idle"
        /\ th'[t].op = "none" /\ th'[t].s = None
    BY <2>1, ReturnEffect
  <2>3. ~Owns(t, s)
    <3>1. PICK u \in Threads : Drains(u, s)
      BY <1>2, <1>6 DEF SessOk
    <3> QED BY <1>2, <1>3, <3>1, RolesNest DEF SessOk
  <2>4. ~Refers(t, s)' /\ ~Holds(t, s)' /\ ~Drains(t, s)' /\ ~Opens(t, s)' /\ ~Owns(t, s)'
    BY <1>2, <2>2, TaSessionsAssumption DEF Refers, Holds, Drains, Opens, Owns
  <2>5. /\ Cardinality(Referrers(s)') = sess[s].ref_count - 1 /\ sess[s].ref_count > 0
    BY <1>3, <1>4, <2>2, <2>4, OneLess
  <2> DEFINE n == sess[s].ref_count - 1
  <2>6. n \in Nat /\ n = Cardinality(Referrers(s)') /\ sess' = [sess EXCEPT ![s].ref_count = n]
    BY <1>4, <2>1, <2>5
  <2> HIDE DEF n
  <2>7. /\ TypeOK' /\ (\A x \in Sessions : x # s => sess'[x] = sess[x])
        /\ sess'[s].ref_count = n /\ sess'[s].listed = sess[s].listed
        /\ sess'[s].lock_thread = sess[s].lock_thread /\ sess'[s].ctx = sess[s].ctx
        /\ sess'[s].unlink = sess[s].unlink
    BY <1>1, <1>2, <2>6, CountEffect
  <2>8. DOMAIN waiting' = Threads /\ \A u \in Threads : Woken(u)
    BY <2>1, SignalWakes
  <2>9. SessOk(s)'
    <3>1. sess[s].lock_thread # t /\ \E u \in Threads : u # t /\ Drains(u, s)
      BY <1>2, <1>3, <1>6 DEF SessOk
    <3>2. \/ s \in handles
          \/ \E u \in Threads : u # t /\ Owns(u, s)
      BY <1>2, <1>3, <2>3 DEF SessOk
    <3>3. s \in handles => \A u \in Threads : ~Owns(u, s)
      BY <1>2 DEF SessOk
    <3> QED BY <1>1, <1>2, <1>3, <1>6, <2>2, <2>4, <2>6, <2>7, <3>1, <3>2, <3>3, SessionChange
  <2>10. ~Inside(t)' /\ \A c \in Contexts : SameUse(t, c)
    BY <1>5, <2>2 DEF SameUse, Releases, InsideOf, Inside, Destroys
  <2>11. ThOk(t)'
    BY <1>1, <2>2, <2>8, IdleOk
  <2>12. Typed'
    BY <1>1, <2>2, <2>7, <2>8, TypedMove
  <2>13. Safe'
    BY <1>0, <1>1, <1>2, <1>5, <2>2, <2>7, <2>8, <2>9, <2>10, <2>11, SessionMoves
  <2> QED BY <2>1, <2>5, <2>12, <2>13 DEF Unless, NoAssertionFails
<1>7. CASE ~sess[s].unlink /\ sess[s].lock_thread # None
  <2> DEFINE cv == <<"lock", s>>
  <2>1. Wait(t, cv) /\ UNCHANGED <<sess, th, faults>>
    BY <1>0, <1>7 DEF Lock
  <2>2. \A c \in Contexts : cv = <<"busy", c>> => th[t].pc = "set_busy" /\ th[t].c = c
    OBVIOUS
  <2> HIDE DEF cv
  <2> QED BY <1>1, <2>1, <2>2, WaitKeeps
<1>8. CASE ~sess[s].unlink /\ sess[s].lock_thread = None
  <2>1. /\ sess' = [sess EXCEPT ![s].lock_thread = t] /\ th' = [th EXCEPT ![t].pc = "locked"]
        /\ UNCHANGED <<waiting, faults>>
    BY <1>0, <1>8, TaSessionsAssumption DEF Lock, Goto
  <2>2. /\ Others(t) /\ th' \in [Threads -> Thread] /\ Kept(t)
        /\ th'[t].pc = "locked" /\ th'[t].c = th[t].c /\ th'[t].busy = th[t].busy
    <3>1. "locked" \in Places
      BY DEF Places, InvokePlaces
    <3> QED BY <2>1, <3>1, GotoEffect
  <2>3. /\ Refers(t, s)' /\ Holds(t, s)' /\ ~Drains(t, s)' /\ ~Opens(t, s)'
        /\ Owns(t, s)' <=> Owns(t, s)
    BY <1>0, <1>1, <1>2, <2>2 DEF Refers, Holds, Drains, Opens, Owns, Kept
  <2>4. Referrers(s)' = Referrers(s)
    BY <1>3, <2>2, <2>3, SameReferrers
  <2>5. /\ TypeOK' /\ \A x \in Sessions : x # s => sess'[x] = sess[x]
        /\ sess'[s].ref_count = sess[s].ref_count /\ sess'[s].listed = sess[s].listed
        /\ sess'[s].lock_thread = t /\ sess'[s].ctx = sess[s].ctx
        /\ sess'[s].unlink = sess[s].unlink
    BY <1>1, <1>2, <2>1 DEF Typed, TypeOK
  <2>6. SessOk(s)'
    <3>1. \A u \in Threads : ~Drains(u, s)
      BY <1>2, <1>8 DEF SessOk
    <3>2. \/ s \in handles
          \/ Owns(t, s)
          \/ \E u \in Threads : u # t /\ Owns(u, s)
      BY <1>2, <1>3 DEF SessOk
    <3>3. s \in handles \/ Owns(t, s) => \A u \in Threads : u # t => ~Owns(u, s)
      BY <1>2 DEF SessOk
    <3>4. s \in handles => ~Owns(t, s)
      BY <1>2 DEF SessOk
    <3>5. \A u \in Threads : u # t => ~Opens(u, s)
      BY <1>2, <1>3 DEF SessOk
    <3>6. \A u \in Threads : u # t => (sess'[s].lock_thread = u <=> sess[s].lock_thread = u)
      BY <1>8, <2>5, TaSessionsAssumption
    <3> QED BY <1>1, <1>2, <1>3, <1>4, <1>8, <2>2, <2>3, <2>4, <2>5, <3>1, <3>2, <3>3, <3>4, <3>5, <3>6, SessionChange
  <2>7. ~Inside(t)' /\ \A c \in Contexts : SameUse(t, c)
    BY <1>5, <2>2 DEF SameUse, Releases, InsideOf, Inside, Destroys
  <2>8. ThOk(t)'
    BY <1>1, <1>2, <2>1, <2>2, <2>7 DEF Safe, ThOk, Working, Kept
  <2>9. DOMAIN waiting' = Threads /\ \A u \in Threads : Woken(u)
    BY <2>1, NoneWoken
  <2>10. InCall(th'[t])
    BY <1>2, <2>2 DEF InCall, InvokePlaces, ClosePlaces, Kept
  <2>11. Typed'
    BY <1>1, <2>2, <2>5, <2>9, <2>10, TypedMove
  <2>12. Safe'
    <3>1. th[t].s \in {s, None} /\ th'[t].s \in {s, None}
      BY <1>0, <2>2 DEF Kept
    <3> QED BY <1>1, <1>2, <1>5, <2>2, <2>5, <2>6, <2>7, <2>8, <2>9, <3>1, SessionMoves
  <2> QED BY <2>1, <2>11, <2>12 DEF NoAssertionFails
<1> QED BY <1>6, <1>7, <1>8

\* tee_ta_put_session.
LEMMA PutKeeps ==
  ASSUME TInv, NEW t \in Threads, Put(t), kind' = kind
  PROVE  TInv'
<1> USE DEF TInv
<1>1. /\ th[t].pc = "put" /\ th[t] # Idle /\ waiting[t] = None
      /\ UNCHANGED <<kind, ctx, tee_ctxes, single, handles>>
  BY DEF Put, At, Idle
<1>2. PICK s \in Sessions : s = th[t].s
  BY <1>1, CallSession
<1>3. InCall(th[t]) /\ th[t].op \in {"open", "invoke", "cancel"} /\ SessOk(s)
  BY <1>1, CallSession DEF InCall, OpenPlaces, InvokePlaces, ClosePlaces, Safe
<1>4. /\ Refers(t, s) /\ ~Drains(t, s)
      /\ Holds(t, s) <=> th[t].op = "invoke"
      /\ Owns(t, s) <=> th[t].op = "open"
      /\ Opens(t, s) <=> th[t].op = "open"
  BY <1>1, <1>2, <1>3 DEF Refers, Holds, Drains, Opens, Owns
<1>5. sess[s].listed /\ (sess[s].lock_thread = t <=> Holds(t, s))
  BY <1>3, <1>4 DEF SessOk
<1>6. sess[s].ref_count \in Nat /\ sess[s].ref_count = Cardinality(Referrers(s))
  BY <1>3, <1>5, Fields DEF SessOk
<1>7. ~Inside(t) /\ \A c \in Contexts : ~Releases(t, c) /\ ~InsideOf(t, c) /\ ~Destroys(t, c)
  BY <1>1 DEF Inside, Releases, InsideOf, Destroys
<1>8. DOMAIN waiting' = Threads /\ \A u \in Threads : Woken(u)
  BY SignalWakes DEF Put
<1> DEFINE n == sess[s].ref_count - 1
           l == IF sess[s].lock_thread = t THEN None ELSE sess[s].lock_thread
<1>9. sess' = [sess EXCEPT ![s].ref_count = n, ![s].lock_thread = l]
  BY <1>2 DEF Put
<1>10. faults' = faults \cup Unless(sess[s].ref_count > 0, "session_ref_count")
  BY <1>2 DEF Put, Check
<1>11. /\ Others(t) /\ th' \in [Threads -> Thread] /\ th'[t].s \in {s, None}
       /\ IF th[t].op = "open" THEN th'[t].op = "open" /\ th'[t].pc = "opened" /\ th'[t].s = s
                               ELSE th'[t] = Idle /\ th'[t].op = "none" /\ th'[t].pc = "idle" /\ th'[t].s = None
  <2>1. CASE th[t].op = "open"
    <3> DEFINE k == th[t].ok /\ ~ctx[th[t].c].panicked
               o == ~ctx[th[t].c].panicked
    <3>1. th' = [th EXCEPT ![t].pc = "opened", ![t].ok = k, ![t].origin = o]
      BY <2>1 DEF Put
    <3>2. k \in BOOLEAN /\ o \in BOOLEAN /\ "opened" \in Places /\ th \in [Threads -> Thread] /\ th[t] \in Thread
      BY DEF Places, OpenPlaces, Typed
    <3> HIDE DEF k, o
    <3>3. th'[t] = [th[t] EXCEPT !.pc = "opened", !.ok = k, !.origin = o] /\ Others(t)
      BY <3>1, <3>2 DEF Others
    <3>4. th'[t] \in Thread /\ th'[t].pc = "opened" /\ th'[t].op = th[t].op /\ th'[t].s = th[t].s
      BY <3>2, <3>3 DEF Thread
    <3>5. th' \in [Threads -> Thread]
      BY <3>1, <3>2, <3>3, <3>4 DEF Others
    <3> QED BY <1>2, <2>1, <3>3, <3>4, <3>5
  <2>2. CASE th[t].op # "open"
    <3>1. Return(t)
      BY <2>2 DEF Put
    <3> QED BY <2>2, <3>1, ReturnEffect
  <2> QED BY <2>1, <2>2
<1>12. /\ ~Refers(t, s)' /\ ~Holds(t, s)' /\ ~Drains(t, s)'
       /\ Owns(t, s)' <=> Owns(t, s)
       /\ Opens(t, s)' <=> Opens(t, s)
  <2>1. CASE th[t].op = "open"
    BY <1>4, <1>11, <2>1 DEF Refers, Holds, Drains, Opens, Owns
  <2>2. CASE th[t].op # "open"
    BY <1>4, <1>11, <2>2, TaSessionsAssumption DEF Refers, Holds, Drains, Opens, Owns
  <2> QED BY <2>1, <2>2
<1>13. Cardinality(Referrers(s)') = sess[s].ref_count - 1 /\ sess[s].ref_count > 0
  BY <1>4, <1>6, <1>11, <1>12, OneLess
<1>14. n \in Nat /\ n = Cardinality(Referrers(s)') /\ l \in Threads \cup {None}
  BY <1>6, <1>13, Fields
<1>15. \A u \in Threads : (u # t => (l = u <=> sess[s].lock_thread = u)) /\ l # t
  BY TaSessionsAssumption
<1> HIDE DEF n, l
<1>16. /\ TypeOK' /\ \A x \in Sessions : x # s => sess'[x] = sess[x]
       /\ sess'[s].ref_count = n /\ sess'[s].listed = sess[s].listed
       /\ sess'[s].lock_thread = l /\ sess'[s].ctx = sess[s].ctx
       /\ sess'[s].unlink = sess[s].unlink
  <2> DEFINE Session == [listed : BOOLEAN, ctx : Contexts \cup {None}, ref_count : Nat,
                         lock_thread : Threads \cup {None}, unlink : BOOLEAN]
  <2>1. sess \in [Sessions -> Session] /\ sess[s] \in Session
    BY DEF Typed, TypeOK
  <2>2. sess'[s] = [sess[s] EXCEPT !.ref_count = n, !.lock_thread = l] /\ \A x \in Sessions : x # s => sess'[x] = sess[x]
    BY <1>9, <2>1
  <2>3. sess'[s] \in Session
    BY <1>14, <2>1, <2>2
  <2>4. sess' \in [Sessions -> Session]
    BY <1>9, <2>1, <2>2, <2>3
  <2>5. TypeOK'
    BY <1>1, <2>4 DEF Typed, TypeOK
  <2> QED BY <2>1, <2>2, <2>5
<1>17. SessOk(s)'
  <2>1. sess[s].unlink <=> \E u \in Threads : u # t /\ Drains(u, s)
    BY <1>3, <1>4 DEF SessOk
  <2>2. \/ s \in handles
        \/ Owns(t, s)
        \/ \E u \in Threads : u # t /\ Owns(u, s)
    BY <1>3, <1>5 DEF SessOk
  <2>3. s \in handles \/ Owns(t, s) => \A u \in Threads : u # t => ~Owns(u, s)
    BY <1>3 DEF SessOk
  <2>4. s \in handles => ~Owns(t, s)
    BY <1>3 DEF SessOk
  <2>5. Opens(t, s) => \A u \in Threads : u # t => ~Refers(u, s)
    BY <1>3 DEF SessOk
  <2> QED BY <1>1, <1>3, <1>5, <1>11, <1>12, <1>14, <1>15, <1>16, <2>1, <2>2, <2>3, <2>4, <2>5, SessionChange
<1>18. ThOk(t)' /\ ~Inside(t)' /\ \A c \in Contexts : SameUse(t, c)
  <2>1. CASE th[t].op = "open"
    <3>1. ~Inside(t)' /\ \A c \in Contexts : SameUse(t, c)
      BY <1>7, <1>11, <2>1 DEF SameUse, Releases, InsideOf, Inside, Destroys
    <3>2. ~Working(t)' /\ \A c \in Contexts : waiting'[t] # <<"busy", c>>
      BY <1>1, <1>8, <1>11, <2>1, TaSessionsAssumption DEF Working, Woken
    <3> QED BY <1>11, <2>1, <3>1, <3>2 DEF ThOk
  <2>2. CASE th[t].op # "open"
    BY <1>1, <1>7, <1>8, <1>11, <2>2, IdleOk DEF SameUse
  <2> QED BY <2>1, <2>2
<1>19. Typed'
  <2>1. th'[t] = Idle \/ InCall(th'[t])
    BY <1>11 DEF InCall, OpenPlaces
  <2> QED BY <1>1, <1>8, <1>11, <1>16, <2>1, TypedMove
<1>20. Safe'
  BY <1>1, <1>2, <1>7, <1>8, <1>11, <1>16, <1>17, <1>18, SessionMoves
<1> QED BY <1>10, <1>13, <1>19, <1>20 DEF Unless, NoAssertionFails

\* A session without a TA is freed.
LEMMA GiveUpKeeps ==
  ASSUME TInv, NEW t \in Threads, GiveUp(t), kind' = kind
  PROVE  TInv'
<1> USE DEF TInv
<1>1. /\ th[t].pc = "give_up" /\ th[t] # Idle /\ waiting[t] = None
      /\ UNCHANGED <<kind, ctx, tee_ctxes, single, waiting, handles, faults>>
      /\ Return(t)
  BY DEF GiveUp, At, Idle
<1>2. PICK s \in Sessions : s = th[t].s
  BY <1>1, CallSession
<1>3. th[t].op = "open" /\ SessOk(s) /\ sess[s].ctx = None
  <2>1. th[t].op = "open"
    BY <1>1, CallSession DEF InCall, OpenPlaces, InvokePlaces, ClosePlaces
  <2> QED BY <1>1, <1>2, <2>1 DEF Safe, ThOk
<1>4. Opens(t, s) /\ Owns(t, s)
  BY <1>2, <1>3 DEF Opens, Owns
<1>5. s \notin handles /\ \A u \in Threads : u # t => ~Refers(u, s) /\ ~Owns(u, s)
  BY <1>3, <1>4 DEF SessOk
<1>6. /\ Others(t) /\ th' \in [Threads -> Thread] /\ th'[t] = Idle /\ th'[t].pc = "idle"
      /\ th'[t].op = "none" /\ th'[t].s = None
  BY <1>1, ReturnEffect
<1>7. /\ TypeOK' /\ \A x \in Sessions : x # s => sess'[x] = sess[x]
      /\ sess'[s] = NoSession
  <2>1. sess' = [sess EXCEPT ![s] = NoSession]
    BY <1>2 DEF GiveUp
  <2> QED BY <1>1, <2>1 DEF Typed, TypeOK, NoSession
<1>8. SessOk(s)'
  <2>1. \A u \in Threads : ~Refers(u, s)' /\ ~Owns(u, s)'
    BY <1>5, <1>6, StayingSame, TaSessionsAssumption DEF Others, SameRole, Refers, Owns
  <2> QED BY <1>1, <1>5, <1>7, <2>1, SessionFreed
<1>9. Woken(t) /\ DOMAIN waiting' = Threads /\ \A u \in Threads : Woken(u)
  BY <1>1, NoneWoken
<1>10. ThOk(t)' /\ ~Inside(t)' /\ ~Inside(t) /\ \A c \in Contexts : SameUse(t, c)
  <2>1. ~Inside(t) /\ \A c \in Contexts : ~Releases(t, c) /\ ~InsideOf(t, c) /\ ~Destroys(t, c)
    BY <1>1, <1>3 DEF Inside, Releases, InsideOf, Destroys
  <2> QED BY <1>1, <1>6, <1>9, <2>1, IdleOk DEF SameUse
<1>11. /\ \A c \in Contexts : sess'[s].listed /\ sess'[s].ctx = c <=> sess[s].listed /\ sess[s].ctx = c
       /\ \A u \in Threads : u # t /\ AtWork(u, s) => sess'[s].ctx = sess[s].ctx
  BY <1>3, <1>7, TaSessionsAssumption DEF NoSession
<1>12. Typed'
  BY <1>1, <1>6, <1>7, <1>9, TypedMove
<1>13. Safe'
  BY <1>1, <1>2, <1>6, <1>7, <1>8, <1>9, <1>10, <1>11, SessionMoves
<1> QED BY <1>1, <1>12, <1>13 DEF NoAssertionFails

\* The client gets the session.
LEMMA OpenedKeeps ==
  ASSUME TInv, NEW t \in Threads, Opened(t), th[t].ok, kind' = kind
  PROVE  TInv'
<1> USE DEF TInv
<1>1. /\ th[t].pc = "opened" /\ th[t] # Idle /\ waiting[t] = None
      /\ UNCHANGED <<kind, sess, ctx, tee_ctxes, single, waiting, faults>>
      /\ Return(t)
  BY DEF Opened, At, Idle
<1>2. PICK s \in Sessions : s = th[t].s
  BY <1>1, CallSession
<1>3. th[t].op = "open" /\ SessOk(s)
  BY <1>1, CallSession DEF InCall, OpenPlaces, InvokePlaces, ClosePlaces, Safe
<1>4. Opens(t, s) /\ Owns(t, s) /\ ~Refers(t, s) /\ ~Holds(t, s) /\ ~Drains(t, s)
  BY <1>1, <1>2, <1>3 DEF Opens, Owns, Refers, Holds, Drains
<1>5. /\ sess[s].listed /\ s \notin handles
      /\ \A u \in Threads : u # t => ~Refers(u, s) /\ ~Owns(u, s)
  BY <1>3, <1>4 DEF SessOk
<1>6. /\ Others(t) /\ th' \in [Threads -> Thread] /\ th'[t] = Idle /\ th'[t].pc = "idle"
      /\ th'[t].op = "none" /\ th'[t].s = None
  BY <1>1, ReturnEffect
<1>7. handles' = handles \cup {s} /\ TypeOK'
  <2>1. handles' = handles \cup {s}
    BY <1>2 DEF Opened
  <2> QED BY <1>1, <2>1 DEF Typed, TypeOK
<1>8. SessOk(s)'
  <2>1. ~Refers(t, s)' /\ ~Owns(t, s)' /\ ~Holds(t, s)' /\ ~Drains(t, s)' /\ ~Opens(t, s)'
    BY <1>6, TaSessionsAssumption DEF Refers, Owns, Holds, Drains, Opens
  <2>2. Referrers(s)' = Referrers(s)
    BY <1>4, <1>6, <2>1, SameReferrers
  <2>3. sess'[s].listed /\ sess'[s].ref_count = Cardinality(Referrers(s)')
    BY <1>1, <1>3, <1>5, <2>2 DEF SessOk
  <2>4. sess'[s].lock_thread # t /\ (sess'[s].unlink <=> \E u \in Threads : u # t /\ Drains(u, s))
    BY <1>1, <1>3, <1>4 DEF SessOk
  <2> QED BY <1>1, <1>3, <1>5, <1>6, <1>7, <2>1, <2>3, <2>4, SessionChange
<1>9. Woken(t) /\ DOMAIN waiting' = Threads /\ \A u \in Threads : Woken(u)
  BY <1>1, NoneWoken
<1>10. ThOk(t)' /\ ~Inside(t)' /\ ~Inside(t) /\ \A c \in Contexts : SameUse(t, c)
  <2>1. ~Inside(t) /\ \A c \in Contexts : ~Releases(t, c) /\ ~InsideOf(t, c) /\ ~Destroys(t, c)
    BY <1>1, <1>3 DEF Inside, Releases, InsideOf, Destroys
  <2> QED BY <1>1, <1>6, <1>9, <2>1, IdleOk DEF SameUse
<1>12. Typed'
  BY <1>1, <1>6, <1>7, <1>9, TypedMove
<1>13. Safe'
  BY <1>1, <1>2, <1>6, <1>7, <1>8, <1>9, <1>10, SessionMoves
<1> QED BY <1>1, <1>12, <1>13 DEF NoAssertionFails

\* tee_ta_open_session closes the session it could not open.
LEMMA CloseUnopenedKeeps ==
  ASSUME TInv, NEW t \in Threads, CloseUnopened(t), kind' = kind
  PROVE  TInv'
<1> USE DEF TInv
<1>1. /\ th[t].pc = "reopen" /\ th[t] # Idle /\ waiting[t] = None
      /\ UNCHANGED <<kind, ctx, tee_ctxes, single, waiting, handles>>
      /\ th' = [th EXCEPT ![t].op = "close", ![t].pc = "lock", ![t].busy = FALSE]
  BY DEF CloseUnopened, At, Idle
<1>2. PICK s \in Sessions : s = th[t].s
  BY <1>1, CallSession
<1>3. th[t].op = "open" /\ SessOk(s)
  BY <1>1, CallSession DEF InCall, OpenPlaces, InvokePlaces, ClosePlaces, Safe
<1>4. Opens(t, s) /\ Owns(t, s) /\ ~Refers(t, s) /\ ~Holds(t, s) /\ ~Drains(t, s)
  BY <1>1, <1>2, <1>3 DEF Opens, Owns, Refers, Holds, Drains
<1>5. /\ sess[s].listed /\ s \notin handles /\ sess[s].lock_thread # t
      /\ \A u \in Threads : u # t => ~Refers(u, s) /\ ~Owns(u, s)
  BY <1>3, <1>4 DEF SessOk
<1>6. /\ Others(t) /\ th' \in [Threads -> Thread] /\ th'[t].pc = "lock"
      /\ th'[t].op = "close" /\ th'[t].s = s /\ ~th'[t].busy
  <2>1. th \in [Threads -> Thread] /\ "lock" \in Places /\ th[t] \in Thread
    BY DEF Typed, Places, ClosePlaces
  <2>2. th'[t] = [th[t] EXCEPT !.op = "close", !.pc = "lock", !.busy = FALSE] /\ Others(t)
    BY <1>1, <2>1 DEF Others
  <2>3. th'[t] \in Thread
    BY <2>1, <2>2 DEF Thread
  <2>4. th' \in [Threads -> Thread]
    BY <1>1, <2>1, <2>2, <2>3 DEF Others
  <2>5. th'[t].pc = "lock" /\ th'[t].op = "close" /\ th'[t].s = th[t].s /\ th'[t].busy = FALSE
    BY <2>1, <2>2 DEF Thread
  <2> QED BY <1>2, <2>2, <2>4, <2>5
<1>7. /\ sess' = [sess EXCEPT ![s].ref_count = @ + 1]
      /\ faults' = faults \cup Unless(sess[s].lock_thread # t, "relock")
  BY <1>2 DEF CloseUnopened, Check
<1>8. sess[s].ref_count \in Nat /\ sess[s].ref_count = Cardinality(Referrers(s))
  BY <1>3, <1>5, Fields DEF SessOk
<1>9. Refers(t, s)' /\ Owns(t, s)' /\ ~Holds(t, s)' /\ ~Drains(t, s)' /\ ~Opens(t, s)'
  BY <1>6 DEF Refers, Owns, Holds, Drains, Opens
<1> DEFINE n == sess[s].ref_count + 1
<1>10. n \in Nat /\ n = Cardinality(Referrers(s)') /\ sess' = [sess EXCEPT ![s].ref_count = n]
  BY <1>4, <1>6, <1>7, <1>8, <1>9, OneMore
<1> HIDE DEF n
<1>11. /\ TypeOK' /\ (\A x \in Sessions : x # s => sess'[x] = sess[x])
       /\ sess'[s].ref_count = n /\ sess'[s].listed = sess[s].listed
       /\ sess'[s].lock_thread = sess[s].lock_thread /\ sess'[s].ctx = sess[s].ctx
       /\ sess'[s].unlink = sess[s].unlink
  BY <1>1, <1>10, CountEffect
<1>12. SessOk(s)'
  <2>1. sess[s].unlink <=> \E u \in Threads : u # t /\ Drains(u, s)
    BY <1>3, <1>4 DEF SessOk
  <2>2. \A u \in Threads : u # t => ~Opens(u, s)
    BY <1>5, RolesNest
  <2> QED BY <1>1, <1>3, <1>5, <1>6, <1>9, <1>10, <1>11, <2>1, <2>2, SessionChange
<1>13. DOMAIN waiting' = Threads /\ \A u \in Threads : Woken(u)
  BY <1>1, NoneWoken
<1>14. ~Inside(t)' /\ ~Inside(t) /\ \A c \in Contexts : SameUse(t, c)
  BY <1>1, <1>3, <1>6 DEF SameUse, Releases, InsideOf, Inside, Destroys
<1>15. ThOk(t)'
  <2>1. ~Working(t)' /\ \A c \in Contexts : waiting'[t] # <<"busy", c>>
    BY <1>1, <1>6, TaSessionsAssumption DEF Working
  <2> QED BY <1>6, <1>14, <2>1 DEF ThOk
<1>16. Typed'
  <2>1. InCall(th'[t])
    BY <1>6 DEF InCall, ClosePlaces
  <2> QED BY <1>1, <1>6, <1>11, <1>13, <2>1, TypedMove
<1>17. Safe'
  BY <1>1, <1>2, <1>6, <1>11, <1>12, <1>13, <1>14, <1>15, SessionMoves
<1> QED BY <1>5, <1>7, <1>16, <1>17 DEF Unless, NoAssertionFails

\* tee_ta_unlink_session starts.
LEMMA UnlinkKeeps ==
  ASSUME TInv, NEW t \in Threads, Unlink(t), kind' = kind
  PROVE  TInv'
<1> USE DEF TInv
<1>1. /\ th[t].pc = "unlink" /\ th[t] # Idle /\ waiting[t] = None
      /\ UNCHANGED <<kind, ctx, tee_ctxes, single, handles>>
      /\ th' = [th EXCEPT ![t].pc = "drain"]
  BY DEF Unlink, At, Idle, Goto
<1>2. PICK s \in Sessions : s = th[t].s
  BY <1>1, CallSession
<1>3. th[t].op = "close" /\ SessOk(s)
  BY <1>1, CallSession DEF InCall, OpenPlaces, InvokePlaces, ClosePlaces, Safe
<1>4. ~Opens(t, s) /\ Owns(t, s) /\ Refers(t, s) /\ Holds(t, s) /\ ~Drains(t, s)
  BY <1>1, <1>2, <1>3 DEF Opens, Owns, Refers, Holds, Drains
<1>5. /\ sess[s].listed /\ s \notin handles /\ sess[s].lock_thread = t
      /\ \A u \in Threads : u # t => ~Owns(u, s) /\ ~Opens(u, s) /\ ~Drains(u, s)
      /\ sess[s].ref_count = Cardinality(Referrers(s))
  <2>1. /\ sess[s].listed /\ s \notin handles /\ sess[s].lock_thread = t
        /\ sess[s].ref_count = Cardinality(Referrers(s))
        /\ \A u \in Threads : u # t => ~Owns(u, s)
    BY <1>3, <1>4 DEF SessOk
  <2> QED BY <2>1, RolesNest
<1>6. ~sess[s].unlink
  BY <1>3, <1>4, <1>5 DEF SessOk
<1>7. /\ sess' = [sess EXCEPT ![s].unlink = TRUE] /\ Broadcast(<<"lock", s>>)
      /\ faults' = faults \cup Unless(sess[s].lock_thread = t, "unlink") \cup Unless(~sess[s].unlink, "unlink")
  BY <1>2 DEF Unlink, Check
<1>8. /\ Others(t) /\ th' \in [Threads -> Thread] /\ Kept(t)
      /\ th'[t].pc = "drain" /\ th'[t].c = th[t].c /\ th'[t].busy = th[t].busy
  <2>1. "drain" \in Places
    BY DEF Places, ClosePlaces
  <2> QED BY <1>1, <2>1, GotoEffect
<1>9. Refers(t, s)' /\ Owns(t, s)' /\ Holds(t, s)' /\ Drains(t, s)' /\ ~Opens(t, s)'
  BY <1>2, <1>3, <1>8 DEF Refers, Owns, Holds, Drains, Opens, Kept
<1>10. Referrers(s)' = Referrers(s)
  BY <1>4, <1>8, <1>9, SameReferrers
<1>11. /\ TypeOK' /\ (\A x \in Sessions : x # s => sess'[x] = sess[x])
       /\ sess'[s].ref_count = sess[s].ref_count /\ sess'[s].listed = sess[s].listed
       /\ sess'[s].lock_thread = sess[s].lock_thread /\ sess'[s].ctx = sess[s].ctx
       /\ sess'[s].unlink
  BY <1>1, <1>7, ZenonT(30) DEF Typed, TypeOK
<1>12. SessOk(s)'
  BY <1>1, <1>3, <1>5, <1>8, <1>9, <1>10, <1>11, SessionChange
<1>13. DOMAIN waiting' = Threads /\ \A u \in Threads : Woken(u)
  BY <1>7, BroadcastWakes
<1>14. (Inside(t)' <=> Inside(t)) /\ \A c \in Contexts : SameUse(t, c)
  BY <1>1, <1>3, <1>8 DEF SameUse, Releases, InsideOf, Inside, Destroys, Kept
<1>15. ThOk(t)'
  <2>1. ~Working(t)' /\ \A c \in Contexts : waiting'[t] # <<"busy", c>>
    BY <1>1, <1>3, <1>8, <1>13, TaSessionsAssumption DEF Working, Woken, Kept
  <2>2. th'[t].s = s /\ th[t].c = sess[s].ctx /\ (th[t].busy => th[t].c # None)
        /\ (Inside(t) => ctx[th[t].c].busy /\ (SingleInstance => single = t))
    BY <1>1, <1>2, <1>8 DEF Safe, ThOk, Kept
  <2>3. th'[t].c = sess'[s].ctx /\ (th'[t].busy => th'[t].c # None)
        /\ (Inside(t)' => ctx'[th'[t].c].busy /\ (SingleInstance' => single' = t))
    BY <1>1, <1>8, <1>11, <1>14, <2>2 DEF SingleInstance
  <2> QED BY <1>3, <1>8, <2>1, <2>2, <2>3 DEF ThOk, Kept
<1>16. Typed'
  <2>1. InCall(th'[t])
    BY <1>2, <1>3, <1>8 DEF InCall, ClosePlaces, Kept
  <2> QED BY <1>1, <1>8, <1>11, <1>13, <2>1, TypedMove
<1>17. Safe'
  <2>1. th[t].s \in {s, None} /\ th'[t].s \in {s, None}
    BY <1>2, <1>8 DEF Kept
  <2> QED BY <1>1, <1>8, <1>11, <1>12, <1>13, <1>14, <1>15, <2>1, SessionMoves
<1> QED BY <1>5, <1>6, <1>7, <1>16, <1>17 DEF Unless, NoAssertionFails

\* The thread that frees a session is alone with it.
LEMMA DrainAlone ==
  ASSUME Typed, Safe, NEW t \in Threads, th[t].pc = "drain", NEW s \in Sessions, s = th[t].s
  PROVE  /\ th[t].op = "close" /\ InCall(th[t]) /\ sess[s].listed /\ s \notin handles
         /\ \A u \in Threads : u # t => ~Owns(u, s) /\ ~AtWork(u, s)
         /\ sess[s].ref_count = 1 => \A u \in Threads : u # t => ~Refers(u, s)
         /\ th[t].c = sess[s].ctx /\ (th[t].busy => th[t].c # None)
<1>1. th[t] # Idle
  BY DEF Idle
<1>2. th[t].op = "close" /\ SessOk(s) /\ InCall(th[t])
  BY <1>1, CallSession DEF InCall, OpenPlaces, InvokePlaces, ClosePlaces, Safe
<1>3. Owns(t, s) /\ Refers(t, s) /\ Holds(t, s) /\ AtWork(t, s)
  BY <1>2 DEF Owns, Refers, Holds, AtWork
<1>4. /\ sess[s].listed /\ s \notin handles /\ sess[s].ref_count = Cardinality(Referrers(s))
      /\ \A u \in Threads : u # t => ~Owns(u, s)
  BY <1>2, <1>3 DEF SessOk
<1>5. \A u \in Threads : u # t => ~AtWork(u, s)
  BY <1>2, <1>3, WorkerAlone
<1>6. sess[s].ref_count = 1 => \A u \in Threads : u # t => ~Refers(u, s)
  <2>1. t \in Referrers(s) /\ IsFiniteSet(Referrers(s))
    BY <1>3, FiniteSets DEF Referrers
  <2>2. Cardinality(Referrers(s)) = 1 => Referrers(s) = {t}
    BY <2>1, Elements
  <2> QED BY <1>4, <2>2 DEF Referrers
<1>7. th[t].c = sess[s].ctx /\ (th[t].busy => th[t].c # None)
  BY DEF Safe, ThOk
<1> QED BY <1>2, <1>4, <1>5, <1>6, <1>7

\* A close waits for the last reference, or frees a session without a TA.
LEMMA DrainNoTaKeeps ==
  ASSUME TInv, NEW t \in Threads, Drain(t), th[t].c = None \/ sess[th[t].s].ref_count # 1, kind' = kind
  PROVE  TInv'
<1> USE DEF TInv
<1>1. /\ th[t].pc = "drain" /\ th[t] # Idle /\ waiting[t] = None
      /\ UNCHANGED <<kind, ctx, tee_ctxes, single, handles>>
  BY DEF Drain, At, Idle
<1>2. PICK s \in Sessions : s = th[t].s
  BY <1>1, CallSession
<1>3. CASE sess[s].ref_count # 1
  <2> DEFINE cv == <<"refc", s>>
  <2>1. Wait(t, cv) /\ UNCHANGED <<sess, th, faults>>
    BY <1>2, <1>3 DEF Drain
  <2>2. \A c \in Contexts : cv = <<"busy", c>> => th[t].pc = "set_busy" /\ th[t].c = c
    OBVIOUS
  <2> HIDE DEF cv
  <2> QED BY <1>1, <2>1, <2>2, WaitKeeps
<1>4. CASE sess[s].ref_count = 1
  <2>1. th[t].c = None
    BY <1>2, <1>4
  <2>2. /\ sess' = [sess EXCEPT ![s] = NoSession] /\ UNCHANGED waiting /\ Return(t)
        /\ faults' = faults \cup ({} \cup Unless(~th[t].origin, "freed_session"))
    BY <1>2, <1>4, <2>1 DEF Drain, Finish, Check
  <2>3. /\ th[t].op = "close" /\ s \notin handles /\ sess[s].ctx = None /\ ~th[t].busy
        /\ \A u \in Threads : u # t => ~Owns(u, s) /\ ~AtWork(u, s) /\ ~Refers(u, s)
    BY <1>1, <1>2, <1>4, <2>1, DrainAlone
  <2>6. /\ Others(t) /\ th' \in [Threads -> Thread] /\ th'[t] = Idle /\ th'[t].pc = "idle"
        /\ th'[t].op = "none" /\ th'[t].s = None
    BY <2>2, ReturnEffect
  <2>7. /\ TypeOK' /\ \A x \in Sessions : x # s => sess'[x] = sess[x]
        /\ sess'[s] = NoSession
    BY <1>1, <2>2 DEF Typed, TypeOK, NoSession
  <2>8. SessOk(s)'
    <3>1. \A u \in Threads : ~Refers(u, s)' /\ ~Owns(u, s)'
      BY <2>3, <2>6, StayingSame, TaSessionsAssumption DEF Others, SameRole, Refers, Owns
    <3> QED BY <1>1, <2>3, <2>7, <3>1, SessionFreed
  <2>9. Woken(t) /\ DOMAIN waiting' = Threads /\ \A u \in Threads : Woken(u)
    BY <2>2, NoneWoken
  <2>10. ThOk(t)' /\ ~Inside(t)' /\ ~Inside(t) /\ \A c \in Contexts : SameUse(t, c)
    <3>1. ~Inside(t) /\ \A c \in Contexts : ~Releases(t, c) /\ ~InsideOf(t, c) /\ ~Destroys(t, c)
      BY <1>1, <2>3 DEF Inside, Releases, InsideOf, Destroys
    <3> QED BY <1>1, <2>6, <2>9, <3>1, IdleOk DEF SameUse
  <2>11. /\ \A c \in Contexts : sess'[s].listed /\ sess'[s].ctx = c <=> sess[s].listed /\ sess[s].ctx = c
         /\ \A u \in Threads : u # t /\ AtWork(u, s) => sess'[s].ctx = sess[s].ctx
    BY <2>3, <2>7, TaSessionsAssumption DEF NoSession
  <2>12. Typed'
    BY <1>1, <2>6, <2>7, <2>9, TypedMove
  <2>13. Safe'
    BY <1>1, <1>2, <2>6, <2>7, <2>8, <2>9, <2>10, <2>11, SessionMoves
  <2> QED BY <2>2, <2>12, <2>13 DEF Unless, NoAssertionFails
<1> QED BY <1>3, <1>4

\* A session that is looked up: it was just made, or its thread waited for a TA to be loaded.
Looked(t, s, n, l, b) ==
  \/ th[t] = Idle /\ ~sess[s].listed /\ n = 1 /\ l = None /\ b = FALSE
  \/ th[t].pc = "find" /\ th[t].s = s /\ n = sess[s].ref_count /\ l = sess[s].lock_thread /\ b = sess[s].unlink

\* The lookup gives it the context d, or none, and the thread goes to p.
LookStep(t, s, n, l, b, p, d) ==
  /\ Looked(t, s, n, l, b)
  /\ n \in Nat /\ l \in Threads \cup {None} /\ b \in BOOLEAN /\ d \in Contexts \cup {None}
  /\ p \in {"load", "find", "give_up", "initialized"}
  /\ Others(t) /\ th' \in [Threads -> Thread] /\ th'[t].pc = p /\ th'[t].op = "open" /\ th'[t].s = s
  /\ sess' = [sess EXCEPT ![s] = [listed |-> TRUE, ctx |-> d, ref_count |-> n, lock_thread |-> l, unlink |-> b]]
  /\ UNCHANGED handles
SessionType == [listed : BOOLEAN, ctx : Contexts \cup {None}, ref_count : Nat,
                lock_thread : Threads \cup {None}, unlink : BOOLEAN]
LookResult(t, s, d) ==
  /\ SessOk(s)' /\ sess'[s].listed /\ sess'[s].ctx = d
  /\ \A c \in Contexts : ~(sess[s].listed /\ sess[s].ctx = c)
  /\ sess' \in [Sessions -> SessionType]
  /\ \A x \in Sessions : x # s => sess'[x] = sess[x]
  /\ \A u \in Threads : u # t => ~AtWork(u, s)
  /\ th[t].s \in {s, None} /\ th[t].pc \in {"idle", "find"} /\ th[t].op \in {"none", "open"}

\* A function changed at one argument.
LEMMA Updated ==
  ASSUME NEW D, NEW R, NEW f \in [D -> R], NEW x \in D, NEW r \in R, NEW g, g = [f EXCEPT ![x] = r]
  PROVE  g \in [D -> R] /\ g[x] = r /\ \A y \in D : y # x => g[y] = f[y]
  OBVIOUS

\* Whoever looks up the TA of a session owns the session and is alone with it.
LEMMA LookedSession ==
  ASSUME Typed, Safe, NEW t \in Threads, NEW s \in Sessions, NEW n, NEW l, NEW b, NEW p, NEW d,
         LookStep(t, s, n, l, b, p, d)
  PROVE  LookResult(t, s, d)
<1>1. SessOk(s) /\ sess \in [Sessions -> SessionType]
  BY DEF Safe, Typed, TypeOK, SessionType
<1>0. Looked(t, s, n, l, b) /\ Others(t) /\ th'[t].pc = p /\ th'[t].op = "open" /\ th'[t].s = s /\ UNCHANGED handles
      /\ p \in {"load", "find", "give_up", "initialized"}
  BY DEF LookStep
<1>2. Refers(t, s)' /\ Owns(t, s)' /\ Opens(t, s)' /\ ~Holds(t, s)' /\ ~Drains(t, s)'
  BY <1>0 DEF Refers, Owns, Opens, Holds, Drains
<1> DEFINE r == [listed |-> TRUE, ctx |-> d, ref_count |-> n, lock_thread |-> l, unlink |-> b]
<1>r. /\ r \in SessionType /\ r.listed /\ r.ref_count = n /\ r.ctx = d /\ r.lock_thread = l /\ r.unlink = b
      /\ sess' = [sess EXCEPT ![s] = r]
  BY DEF LookStep, SessionType
<1> HIDE DEF r
<1>s. sess'[s] = r /\ sess' \in [Sessions -> SessionType] /\ \A x \in Sessions : x # s => sess'[x] = sess[x]
  BY <1>1, <1>r, Updated
<1>f. sess'[s].listed /\ sess'[s].ref_count = n /\ sess'[s].ctx = d /\ sess'[s].lock_thread = l /\ sess'[s].unlink = b
  BY <1>r, <1>s
<1>3. CASE th[t] = Idle /\ ~sess[s].listed /\ n = 1 /\ l = None /\ b = FALSE
  <2>4. \A u \in Threads : ~Refers(u, s) /\ ~Owns(u, s) /\ ~Holds(u, s) /\ ~Drains(u, s) /\ ~Opens(u, s)
    BY <1>1, <1>3, RolesNest DEF SessOk
  <2>5. s \notin handles /\ \A u \in Threads : sess[s].lock_thread # u
    BY <1>1, <1>3, <2>4 DEF SessOk
  <2>6. Cardinality(Referrers(s)') = 1
    <3>1. Referrers(s) = {}
      BY <2>4 DEF Referrers
    <3>2. Cardinality(Referrers(s)) = 0
      BY <3>1, FS_EmptySet
    <3>3. Cardinality(Referrers(s)') = Cardinality(Referrers(s)) + 1
      BY <1>0, <1>2, <2>4, OneMore
    <3> QED BY <3>2, <3>3
  <2>7. \A u \in Threads : sess'[s].lock_thread # u
    BY <1>3, <1>f, TaSessionsAssumption
  <2>8. SessOk(s)'
    <3>1. sess'[s].listed /\ sess'[s].ref_count = 1 /\ ~sess'[s].unlink
      BY <1>3, <1>f
    <3> QED BY <1>0, <1>1, <1>2, <2>4, <2>5, <2>6, <2>7, <3>1, SessionChange
  <2>9. \A u \in Threads : ~AtWork(u, s)
    BY <2>4 DEF AtWork
  <2>10. th[t].s = None /\ th[t].pc = "idle" /\ th[t].op = "none"
    BY <1>3 DEF Idle
  <2> QED BY <1>3, <1>f, <1>s, <2>8, <2>9, <2>10 DEF LookResult
<1>4. CASE th[t].pc = "find" /\ th[t].s = s /\ n = sess[s].ref_count /\ l = sess[s].lock_thread /\ b = sess[s].unlink
  <2>1. th[t] # Idle
    BY <1>4 DEF Idle
  <2>2. th[t].op = "open" /\ sess[s].ctx = None
    <3>1. th[t].op = "open"
      BY <1>4, <2>1, CallSession DEF InCall, OpenPlaces, InvokePlaces, ClosePlaces
    <3> QED BY <1>4, <3>1 DEF Safe, ThOk
  <2>3. Refers(t, s) /\ Owns(t, s) /\ Opens(t, s) /\ ~Holds(t, s) /\ ~Drains(t, s) /\ AtWork(t, s)
    BY <1>4, <2>2 DEF Refers, Owns, Opens, Holds, Drains, AtWork
  <2>4. sess[s].listed
    BY <1>1, <2>3 DEF SessOk
  <2>6. SameSession(s)
    BY <1>4, <1>f, <2>4 DEF SameSession
  <2>7. SessOk(s)'
    <3>1. \A u \in Threads : SameRole(u, s)
      BY <1>0, <1>2, <2>3, StayingSame DEF SameRole, Others
    <3> QED BY <1>0, <1>1, <2>6, <3>1, SessionFrame
  <2>8. \A u \in Threads : u # t => ~AtWork(u, s)
    BY <1>1, <2>3, WorkerAlone
  <2> QED BY <1>4, <1>f, <1>s, <2>2, <2>7, <2>8, TaSessionsAssumption DEF LookResult
<1> QED BY <1>0, <1>3, <1>4 DEF Looked

\* The thread that looks it up.
LEMMA OpenEffect ==
  ASSUME Typed, NEW t \in Threads, NEW s \in Sessions, NEW p, p \in {"load", "find", "give_up", "initialized"},
         th' = [th EXCEPT ![t] = [Idle EXCEPT !.pc = p, !.op = "open", !.s = s]]
  PROVE  /\ Others(t) /\ th' \in [Threads -> Thread]
         /\ th'[t].pc = p /\ th'[t].op = "open" /\ th'[t].s = s
<1> DEFINE r == [Idle EXCEPT !.pc = p, !.op = "open", !.s = s]
<1>1. r \in Thread /\ r.pc = p /\ r.op = "open" /\ r.s = s /\ r.c = None
  BY DEF Idle, Thread, Places, OpenPlaces
<1> HIDE DEF r
<1>2. th' = [th EXCEPT ![t] = r]
  BY DEF r
<1> QED BY <1>1, <1>2, StartEffect

\* The TA is not there, still being loaded, or taken.
LEMMA NotFoundKeeps ==
  ASSUME TInv, NEW t \in Threads, NEW s \in Sessions, NEW n, NEW l, NEW b, NEW p,
         p \in {"load", "find", "give_up"}, LookStep(t, s, n, l, b, p, None),
         UNCHANGED <<kind, ctx, tee_ctxes, single, handles, faults>>,
         waiting' = waiting \/ Wait(t, <<"init", None>>)
  PROVE  TInv'
<1> USE DEF TInv
<1>3. th'[t].pc = p /\ th'[t].op = "open" /\ th'[t].s = s /\ Others(t) /\ th' \in [Threads -> Thread]
  BY DEF LookStep
<1>4. LookResult(t, s, None)
  BY LookedSession
<1>5. /\ SessOk(s)' /\ sess'[s].listed /\ sess'[s].ctx = None
      /\ \A c \in Contexts : ~(sess[s].listed /\ sess[s].ctx = c)
      /\ sess' \in [Sessions -> SessionType]
      /\ \A x \in Sessions : x # s => sess'[x] = sess[x]
      /\ \A u \in Threads : u # t => ~AtWork(u, s)
      /\ th[t].s \in {s, None} /\ th[t].pc \in {"idle", "find"} /\ th[t].op \in {"none", "open"}
  BY <1>4 DEF LookResult
<1>6. /\ DOMAIN waiting' = Threads /\ \A u \in Threads : u # t => Woken(u)
      /\ \A c \in Contexts : waiting'[t] # <<"busy", c>>
  <2>1. DOMAIN waiting = Threads /\ None # <<"busy", None>>
    BY TaSessionsAssumption DEF Typed
  <2>2. CASE waiting' = waiting
    BY <1>5, <2>1, <2>2 DEF Woken, Safe, ThOk
  <2>3. CASE Wait(t, <<"init", None>>)
    <3>1. waiting'[t] = <<"init", None>> /\ DOMAIN waiting' = Threads /\ \A u \in Threads : u # t => Woken(u)
      BY <2>1, <2>3 DEF Wait, Woken
    <3> QED BY <3>1
  <2> QED BY <2>2, <2>3
<1>7. ~Inside(t)' /\ ~Inside(t) /\ \A c \in Contexts : SameUse(t, c)
  BY <1>3, <1>5 DEF SameUse, Releases, InsideOf, Inside, Destroys
<1>8. ThOk(t)'
  <2>1. ~Working(t)'
    BY <1>3 DEF Working
  <2> QED BY <1>3, <1>5, <1>6, <1>7, <2>1 DEF ThOk
<1>9. Typed'
  <2>1. InCall(th'[t]) /\ TypeOK'
    BY <1>3, <1>5 DEF InCall, OpenPlaces, Typed, TypeOK, SessionType
  <2> QED BY <1>3, <1>6, <2>1, TypedMove
<1>10. Safe'
  <2>1. \A c \in Contexts : sess'[s].listed /\ sess'[s].ctx = c <=> sess[s].listed /\ sess[s].ctx = c
    BY <1>5, TaSessionsAssumption
  <2> QED BY <1>3, <1>5, <1>6, <1>7, <1>8, <2>1, SessionMoves
<1> QED BY <1>9, <1>10 DEF NoAssertionFails

------------------------------------------------------------------------------
(* Steps that change a context                                               *)

\* An instance that may panic has one reference at most.
LEMMA PanicsAlone ==
  ASSUME KindsHandled, Typed, Safe, NEW c \in Contexts, MayPanic
  PROVE  ctx[c].ref_count <= 1 /\ ~(KeepAlive /\ SingleInstance) /\ ~(MultiSession /\ SingleInstance)
<1>1. kind \in Kinds /\ kind.panics /\ CtxOk(c)
  BY DEF Typed, MayPanic, Safe
<1>2. kind.single => ~kind.multi /\ ~kind.keep
  BY <1>1 DEF KindsHandled
<1>3. ~(MultiSession /\ SingleInstance) /\ ~(KeepAlive /\ SingleInstance)
  BY <1>2 DEF MultiSession, SingleInstance, KeepAlive
<1> QED BY <1>1, <1>3 DEF CtxOk

\* A thread inside a context uses it, and so does one that waits for it.
LEMMA InsideUses ==
  ASSUME Typed, NEW t \in Threads, NEW c \in Contexts, ThOk(t)
  PROVE  /\ InsideOf(t, c) => User(t, c)
         /\ waiting[t] = <<"busy", c>> => User(t, c)
         /\ th[t].pc = "destroying" /\ th[t].op = "invoke" /\ th[t].c = c => User(t, c)
<1>1. InsideOf(t, c) => User(t, c)
  BY DEF InsideOf, Inside, User, Working, Releases
<1>2. waiting[t] = <<"busy", c>> => User(t, c)
  BY DEF ThOk, User, Working
<1>3. th[t].pc = "destroying" /\ th[t].op = "invoke" /\ th[t].c = c => User(t, c)
  BY DEF User, Working
<1> QED BY <1>1, <1>2, <1>3

\* Nobody uses a context that another thread destroys.
LEMMA DestroyerAlone ==
  ASSUME Typed, Safe, NEW t \in Threads, NEW u \in Threads, NEW c \in Contexts, Destroys(t, c), User(u, c)
  PROVE  u = t
<1>1. /\ th[t].pc = "destroying" /\ th[t].c = c
      /\ ctx[c].ref_count = IF th[t].op = "invoke" THEN 1 ELSE 0
  BY DEF Destroys, Safe, ThOk
<1>2. ctx[c].ref_count >= 1
  BY UserCounts
<1>3. th[t].op = "invoke" /\ ctx[c].ref_count <= 1
  BY <1>1, <1>2
<1>4. User(t, c)
  BY <1>1, <1>3, InsideUses DEF Safe
<1> QED BY <1>3, <1>4, UserCounts

\* Sessions that keep everything but their context.
LEMMA SessionsKept ==
  ASSUME Safe, NEW t \in Threads, Others(t), UNCHANGED handles,
         \A s \in Sessions : SameSession(s) /\ SameRole(t, s)
  PROVE  \A s \in Sessions : SessOk(s)'
<1>1. ASSUME NEW s \in Sessions PROVE SessOk(s)'
  <2>1. \A u \in Threads : SameRole(u, s)
    BY StayingSame DEF Others
  <2> QED BY <2>1, SessionFrame DEF Safe
<1> QED BY <1>1

\* The contexts a step does not touch.
LEMMA OtherContexts ==
  ASSUME Safe, NEW t \in Threads, Others(t), NEW c, kind' = kind,
         \A d \in Contexts : d # c => /\ ctx'[d] = ctx[d] /\ (InList(d)' <=> InList(d))
                                      /\ SameUse(t, d) /\ SRefs(d)' = SRefs(d)
  PROVE  \A d \in Contexts : d # c => CtxOk(d)'
<1>1. ASSUME NEW d \in Contexts, d # c PROVE CtxOk(d)'
  <2>1. \A u \in Threads : SameUse(u, d)
    BY <1>1, StayingSame DEF Others
  <2> QED BY <1>1, <2>1, ContextFrame DEF Safe
<1> QED BY <1>1

\* A context in which no count changes.
LEMMA ContextChange ==
  ASSUME NEW t \in Threads, NEW c \in Contexts, CtxOk(c), Others(t), kind' = kind,
         ctx'[c].alive = ctx[c].alive, ctx[c].alive,
         ctx'[c].ref_count = ctx[c].ref_count, SRefs(c)' = SRefs(c), TRefs(c)' = TRefs(c),
         ctx'[c].panicked => MayPanic,
         ctx'[c].busy => InsideOf(t, c)' \/ \E u \in Threads : u # t /\ InsideOf(u, c),
         InsideOf(t, c)' => \A u \in Threads : u # t => ~InsideOf(u, c),
         Destroys(t, c)' <=> Destroys(t, c), InList(c)' <=> InList(c)
  PROVE  CtxOk(c)'
<1>0. \A u \in Threads : u # t => SameUse(u, c)
  BY StayingSame DEF Others
<1>2. /\ ctx'[c].ref_count = Cardinality(SRefs(c)') + Cardinality(TRefs(c)')
      /\ ~(MultiSession /\ SingleInstance)' => ctx'[c].ref_count <= 1
      /\ ctx'[c].panicked => MayPanic'
      /\ InList(c)' => ctx'[c].alive /\ ((KeepAlive /\ SingleInstance)' \/ ctx'[c].ref_count > 0)
  BY DEF CtxOk, MultiSession, SingleInstance, MayPanic, KeepAlive
<1>3. /\ ctx'[c].busy => \E u \in Threads : InsideOf(u, c)'
      /\ \A v, u \in Threads : InsideOf(v, c)' /\ InsideOf(u, c)' => v = u
  BY <1>0 DEF CtxOk, SameUse
<1>4. /\ \A v, u \in Threads : Destroys(v, c)' /\ Destroys(u, c)' => v = u
      /\ InList(c)' \/ \E u \in Threads : Destroys(u, c)'
  BY <1>0 DEF CtxOk, SameUse
<1> QED BY <1>2, <1>3, <1>4 DEF CtxOk

\* The references of threads to a context.
LEMMA SameTRefs ==
  ASSUME NEW t \in Threads, NEW c, Others(t), Releases(t, c)' <=> Releases(t, c)
  PROVE  TRefs(c)' = TRefs(c)
<1>1. \A u \in Threads : u # t => SameUse(u, c)
  BY StayingSame DEF Others
<1> QED BY <1>1 DEF TRefs, SameUse

\* What a thread knows stays true when its contexts keep what it knows of them.
KeepsFor(u, c) ==
  /\ User(u, c) => ctx'[c].panicked = ctx[c].panicked
  /\ User(u, c) /\ th[u].pc = "loading" => /\ ctx'[c].initializing = ctx[c].initializing
                                           /\ ctx'[c].ref_count = ctx[c].ref_count
  /\ InsideOf(u, c) => ctx'[c].busy = ctx[c].busy /\ (SingleInstance => single' = single)
  /\ Destroys(u, c) => /\ ctx'[c].alive = ctx[c].alive /\ ctx'[c].ref_count = ctx[c].ref_count
                       /\ InList(c)' => InList(c)

\* The view of a thread that does not move, context by context.
LEMMA ViewKept ==
  ASSUME Typed, Safe, NEW u \in Threads, th'[u] = th[u], kind' = kind, Woken(u),
         AtWork(u, th[u].s) => sess'[th[u].s].ctx = sess[th[u].s].ctx,
         \A c \in Contexts : KeepsFor(u, c)
  PROVE  ThOk(u)'
<1>1. ThOk(u) /\ th[u].c \in Contexts \cup {None}
  BY Fields DEF Safe
<1>2. th[u].pc = "initialized" => sess[th[u].s].ctx \in Contexts /\ User(u, sess[th[u].s].ctx)
  <2>1. th[u].pc = "initialized" => th[u].s \in Sessions
    BY CallSession DEF Idle
  <2> QED BY <1>1, <2>1, Fields DEF ThOk, User
<1>3. th[u].pc \in {"loading", "destroy"} => th[u].c \in Contexts /\ User(u, th[u].c)
  BY <1>1 DEF ThOk, User, Working
<1>4. Inside(u) => th[u].c \in Contexts /\ InsideOf(u, th[u].c)
  <2>1. th[u].pc \in {"ta", "clear_busy"} => th[u].c # None
    <3>1. th[u].pc \in {"ta", "clear_busy"} => Working(u) \/ th[u].op = "close"
      BY DEF Working
    <3>2. th[u].pc = "ta" => Working(u)
      BY DEF Working
    <3> QED BY <1>1, <3>1, <3>2 DEF ThOk
  <2>2. th[u].busy /\ th[u].pc \in {"unlink", "drain"} => th[u].c # None
    BY <1>1 DEF ThOk
  <2>3. Inside(u) => th[u].c # None
    BY <2>1, <2>2 DEF Inside
  <2> QED BY <1>1, <2>3 DEF InsideOf
<1>5. th[u].pc = "destroying" => th[u].c \in Contexts /\ Destroys(u, th[u].c)
  <2>1. th[u].pc = "destroying" => th[u].op \in {"invoke", "close"}
    BY CallSession DEF Idle, InCall, OpenPlaces, InvokePlaces, ClosePlaces
  <2> QED BY <1>1, <2>1 DEF ThOk, Working, Destroys
<1>6. th[u].pc = "initialized" => ctx'[sess[th[u].s].ctx].panicked = ctx[sess[th[u].s].ctx].panicked
  BY <1>2 DEF KeepsFor
<1>7. /\ th[u].pc = "loading" => /\ ctx'[th[u].c].initializing = ctx[th[u].c].initializing
                                 /\ ctx'[th[u].c].ref_count = ctx[th[u].c].ref_count
                                 /\ ctx'[th[u].c].panicked = ctx[th[u].c].panicked
      /\ th[u].pc = "destroy" => ctx'[th[u].c].panicked = ctx[th[u].c].panicked
  BY <1>3 DEF KeepsFor
<1>8. Inside(u) => ctx'[th[u].c].busy = ctx[th[u].c].busy /\ (SingleInstance => single' = single)
  BY <1>4 DEF KeepsFor
<1>9. th[u].pc = "destroying" =>
        /\ ctx'[th[u].c].alive = ctx[th[u].c].alive
        /\ ctx'[th[u].c].ref_count = ctx[th[u].c].ref_count
        /\ InList(th[u].c)' => InList(th[u].c)
  BY <1>5 DEF KeepsFor, InList
<1>10. SameView(u)
  BY <1>6, <1>7, <1>8, <1>9, Zenon DEF SameView
<1> QED BY <1>1, <1>10, ThreadFrame

\* Records of contexts.
ContextType == [alive : BOOLEAN, initializing : BOOLEAN, ref_count : Nat, busy : BOOLEAN, panicked : BOOLEAN]

\* tee_ta_set_busy.
LEMMA SetBusyKeeps ==
  ASSUME TInv, NEW t \in Threads, SetBusy(t), kind' = kind
  PROVE  TInv'
<1> USE DEF TInv
<1>1. /\ th[t].pc = "set_busy" /\ th[t] # Idle /\ waiting[t] = None
      /\ UNCHANGED <<kind, sess, tee_ctxes, handles>>
  BY DEF SetBusy, At, Idle
<1>2. PICK c \in Contexts : c = th[t].c
  BY <1>1, Fields DEF Safe, ThOk, Working
<1>3. InCall(th[t]) /\ th[t].op \in {"open", "invoke", "close"} /\ c = sess[th[t].s].ctx
  <2>1. InCall(th[t]) /\ th[t].op \in {"open", "invoke", "close"}
    BY <1>1, CallSession DEF InCall, OpenPlaces, InvokePlaces, ClosePlaces
  <2> QED BY <1>1, <1>2, <2>1 DEF Safe, ThOk, Working
<1>4. User(t, c) /\ ctx[c].alive /\ CtxOk(c)
  <2>1. User(t, c)
    BY <1>1, <1>2 DEF User, Working
  <2> QED BY <2>1, UserCounts DEF Safe
<1> DEFINE blocked == IF SingleInstance THEN single # None ELSE ctx[c].busy
<1>5. CASE blocked
  <2> DEFINE cv == IF SingleInstance THEN <<"single", None>> ELSE <<"busy", c>>
  <2>1. Wait(t, cv) /\ UNCHANGED <<ctx, single, th, faults>>
    BY <1>2, <1>5 DEF SetBusy
  <2>2. \A d \in Contexts : cv = <<"busy", d>> => th[t].pc = "set_busy" /\ th[t].c = d
    BY <1>1, <1>2
  <2> HIDE DEF cv
  <2> QED BY <1>1, <2>1, <2>2, WaitKeeps
<1>6. CASE ~blocked
  <2>1. /\ single' = (IF SingleInstance THEN t ELSE single) /\ ctx' = [ctx EXCEPT ![c].busy = TRUE]
        /\ th' = [th EXCEPT ![t].pc = "ta", ![t].busy = TRUE]
        /\ faults' = faults \cup (Unless(Alive(c), "dangling") \cup Unless(~ctx[c].busy, "busy"))
        /\ UNCHANGED waiting
    BY <1>2, <1>6 DEF SetBusy, Check
  <2>2. \A u \in Threads : /\ Inside(u) => ctx[th[u].c].busy /\ (SingleInstance => single = u)
                           /\ InsideOf(u, c) => Inside(u) /\ th[u].c = c
    BY DEF Safe, ThOk, InsideOf
  <2>3. /\ \A u \in Threads : ~InsideOf(u, c)
        /\ SingleInstance => \A u \in Threads : ~Inside(u)
    BY <1>6, <2>2, TaSessionsAssumption
  <2>4. ~ctx[c].busy
    BY <1>4, <2>3 DEF CtxOk
  <2>5. /\ Others(t) /\ th' \in [Threads -> Thread] /\ Kept(t)
        /\ th'[t].pc = "ta" /\ th'[t].c = c /\ th'[t].busy
    <3>1. th \in [Threads -> Thread] /\ "ta" \in Places /\ th[t] \in Thread
      BY DEF Typed, Places, OpenPlaces
    <3>2. th'[t] = [th[t] EXCEPT !.pc = "ta", !.busy = TRUE] /\ Others(t)
      BY <2>1, <3>1 DEF Others
    <3>3. th'[t] \in Thread
      BY <3>1, <3>2 DEF Thread
    <3>4. th' \in [Threads -> Thread]
      BY <2>1, <3>1, <3>2, <3>3 DEF Others
    <3>5. th'[t].pc = "ta" /\ th'[t].c = th[t].c /\ th'[t].busy = TRUE /\ Kept(t)
      BY <3>1, <3>2 DEF Thread, Kept
    <3> QED BY <1>2, <3>2, <3>4, <3>5
  <2>6. /\ ctx' \in [Contexts -> ContextType] /\ \A d \in Contexts : d # c => ctx'[d] = ctx[d]
        /\ ctx'[c].busy /\ ctx'[c].alive = ctx[c].alive /\ ctx'[c].initializing = ctx[c].initializing
        /\ ctx'[c].ref_count = ctx[c].ref_count /\ ctx'[c].panicked = ctx[c].panicked
    BY <2>1 DEF Typed, TypeOK, ContextType
  <2>7. Typed'
    <3>1. InCall(th'[t])
      BY <1>3, <2>5 DEF InCall, OpenPlaces, InvokePlaces, ClosePlaces, Kept
    <3>2. TypeOK' /\ DOMAIN waiting' = Threads
      BY <1>1, <2>1, <2>6 DEF Typed, TypeOK, ContextType
    <3> QED BY <1>1, <2>5, <3>1, <3>2, TypedMove
  <2>8. \A s \in Sessions : SessOk(s)'
    <3>1. \A s \in Sessions : SameSession(s) /\ SameRole(t, s)
      BY <1>1, <1>3, <2>5 DEF SameSession, SameRole, Refers, Owns, Holds, Drains, Opens, Kept
    <3> QED BY <1>1, <2>5, <3>1, SessionsKept
  <2>9. /\ InsideOf(t, c)' /\ Inside(t)' /\ ~Inside(t)
        /\ \A d \in Contexts : ~Releases(t, d)' /\ ~Releases(t, d) /\ ~Destroys(t, d)' /\ ~Destroys(t, d)
        /\ \A d \in Contexts : d # c => ~InsideOf(t, d)' /\ ~InsideOf(t, d)
    BY <1>1, <1>2, <1>3, <2>5 DEF InsideOf, Inside, Releases, Destroys
  <2>10. \A d \in Contexts : SRefs(d)' = SRefs(d) /\ (InList(d)' <=> InList(d))
    BY <1>1 DEF SRefs, InList
  <2>11. ASSUME NEW d \in Contexts PROVE CtxOk(d)'
    <3>1. CASE d = c
      <4>1. TRefs(c)' = TRefs(c)
        BY <2>5, <2>9, SameTRefs
      <4>2. ctx'[c].panicked => MayPanic
        BY <1>4, <2>6 DEF CtxOk
      <4> QED BY <1>1, <1>4, <2>3, <2>5, <2>6, <2>9, <2>10, <3>1, <4>1, <4>2, ContextChange
    <3>2. CASE d # c
      <4>1. \A e \in Contexts : e # c => SameUse(t, e)
        BY <2>9 DEF SameUse
      <4> QED BY <1>1, <2>5, <2>6, <2>10, <3>2, <4>1, OtherContexts
    <3> QED BY <3>1, <3>2
  <2>12. ASSUME NEW u \in Threads PROVE ThOk(u)'
    <3>1. CASE u = t
      <4>1. Working(t)' /\ c # None /\ th'[t].s = th[t].s /\ th'[t].op = th[t].op
        BY <1>2, <2>5, TaSessionsAssumption DEF Working, Kept
      <4>2. \A d \in Contexts : waiting'[t] # <<"busy", d>>
        BY <1>1, <2>1, TaSessionsAssumption
      <4>3. ctx'[c].busy /\ (SingleInstance' => single' = t)
        BY <1>1, <2>1, <2>6 DEF SingleInstance
      <4> QED BY <1>1, <1>3, <2>5, <3>1, <4>1, <4>2, <4>3 DEF ThOk
    <3>2. CASE u # t
      <4>1. th'[u] = th[u] /\ Woken(u) /\ ThOk(u) /\ UNCHANGED sess
        BY <1>1, <2>1, <2>5, <3>2 DEF Others, Woken, Safe
      <4>2. ASSUME NEW d \in Contexts PROVE KeepsFor(u, d)
        <5>1. ctx'[d].alive = ctx[d].alive /\ ctx'[d].initializing = ctx[d].initializing
              /\ ctx'[d].ref_count = ctx[d].ref_count /\ ctx'[d].panicked = ctx[d].panicked
              /\ (d # c => ctx'[d].busy = ctx[d].busy)
          BY <2>6
        <5>2. InsideOf(u, d) => d # c /\ (SingleInstance => single' = single)
          BY <2>2, <2>3 DEF InsideOf
        <5> QED BY <2>10, <5>1, <5>2 DEF KeepsFor
      <4> QED BY <1>1, <4>1, <4>2, ViewKept
    <3> QED BY <3>1, <3>2
  <2>13. SingleOk'
    <3>1. CASE SingleInstance
      BY <1>1, <2>1, <2>9, <3>1 DEF SingleOk, SingleInstance, Inside
    <3>2. CASE ~SingleInstance
      BY <1>1, <2>1, <3>2 DEF Safe, SingleOk, SingleInstance
    <3> QED BY <3>1, <3>2
  <2>14. ListOk'
    BY <1>1 DEF Safe, ListOk
  <2>15. NoAssertionFails'
    <3>1. Alive(c)
      BY <1>4, TaSessionsAssumption DEF Alive
    <3> QED BY <2>1, <2>4, <3>1 DEF Unless, NoAssertionFails
  <2> QED BY <2>7, <2>8, <2>11, <2>12, <2>13, <2>14, <2>15 DEF Safe
<1> QED BY <1>5, <1>6

\* tee_ta_clear_busy.
LEMMA ClearBusyKeeps ==
  ASSUME TInv, NEW t \in Threads, ClearBusy(t), kind' = kind
  PROVE  TInv'
<1> USE DEF TInv
<1>1. /\ th[t].pc = "clear_busy" /\ th[t] # Idle /\ waiting[t] = None
      /\ UNCHANGED <<kind, sess, tee_ctxes, handles>>
  BY DEF ClearBusy, At, Idle
<1>2. InCall(th[t]) /\ th[t].op \in {"open", "invoke", "close"}
  BY <1>1, CallSession DEF InCall, OpenPlaces, InvokePlaces, ClosePlaces
<1>3. PICK c \in Contexts : c = th[t].c
  BY <1>1, <1>2, Fields DEF Safe, ThOk, Working
<1>4. th[t].op # "close" => c = sess[th[t].s].ctx
  BY <1>1, <1>3 DEF Safe, ThOk, Working
<1>5. /\ User(t, c) /\ ctx[c].alive /\ CtxOk(c) /\ Inside(t) /\ InsideOf(t, c)
      /\ ctx[c].busy /\ (SingleInstance => single = t)
  <2>1. User(t, c) /\ Inside(t) /\ InsideOf(t, c)
    BY <1>1, <1>2, <1>3 DEF User, Working, Releases, Inside, InsideOf
  <2>2. ctx[c].busy /\ (SingleInstance => single = t)
    BY <1>3, <2>1 DEF Safe, ThOk
  <2> QED BY <2>1, <2>2, UserCounts DEF Safe
<1> DEFINE p == CASE th[t].op = "open" -> "put" [] th[t].op = "invoke" -> "invoked" [] th[t].op = "close" -> "release"
<1>6. /\ single' = (IF SingleInstance THEN None ELSE single) /\ ctx' = [ctx EXCEPT ![c].busy = FALSE]
      /\ th' = [th EXCEPT ![t].pc = p]
      /\ faults' = faults \cup (Unless(Alive(c), "dangling") \cup Unless(ctx[c].busy, "busy"))
      /\ Signal({<<"busy", c>>} \cup IF SingleInstance THEN {<<"single", None>>} ELSE {})
  BY <1>3 DEF ClearBusy, Check, Goto
<1>7. /\ th[t].op = "open" => p = "put"
      /\ th[t].op = "invoke" => p = "invoked"
      /\ th[t].op = "close" => p = "release"
  OBVIOUS
<1> HIDE DEF p
<1>8. /\ Others(t) /\ th' \in [Threads -> Thread] /\ Kept(t)
      /\ th'[t].pc = p /\ th'[t].c = c
  <2>1. p \in Places
    BY <1>2, <1>7 DEF Places, OpenPlaces, InvokePlaces, ClosePlaces
  <2> QED BY <1>3, <1>6, <2>1, GotoEffect
<1>9. /\ ctx' \in [Contexts -> ContextType] /\ \A d \in Contexts : d # c => ctx'[d] = ctx[d]
      /\ ~ctx'[c].busy /\ ctx'[c].alive = ctx[c].alive /\ ctx'[c].initializing = ctx[c].initializing
      /\ ctx'[c].ref_count = ctx[c].ref_count /\ ctx'[c].panicked = ctx[c].panicked
  BY <1>6 DEF Typed, TypeOK, ContextType
<1>10. DOMAIN waiting' = Threads /\ \A u \in Threads : Woken(u)
  BY <1>6, SignalWakes
<1>11. Typed'
  <2>1. InCall(th'[t])
    BY <1>2, <1>7, <1>8 DEF InCall, OpenPlaces, InvokePlaces, ClosePlaces, Kept
  <2>2. TypeOK'
    BY <1>1, <1>6, <1>9 DEF Typed, TypeOK, ContextType
  <2> QED BY <1>1, <1>8, <1>10, <2>1, <2>2, TypedMove
<1>12. \A s \in Sessions : SessOk(s)'
  <2>1. \A s \in Sessions : SameSession(s) /\ SameRole(t, s)
    BY <1>1, <1>2, <1>7, <1>8 DEF SameSession, SameRole, Refers, Owns, Holds, Drains, Opens, Kept
  <2> QED BY <1>1, <1>8, <2>1, SessionsKept
<1>13. /\ ~Inside(t)'
       /\ \A d \in Contexts : ~InsideOf(t, d)' /\ ~Destroys(t, d)' /\ ~Destroys(t, d)
       /\ \A d \in Contexts : Releases(t, d)' <=> Releases(t, d)
       /\ \A d \in Contexts : d # c => ~InsideOf(t, d)
  BY <1>1, <1>2, <1>3, <1>7, <1>8 DEF InsideOf, Inside, Releases, Destroys, Kept
<1>14. \A d \in Contexts : SRefs(d)' = SRefs(d) /\ (InList(d)' <=> InList(d))
  BY <1>1 DEF SRefs, InList
<1>15. ASSUME NEW d \in Contexts PROVE CtxOk(d)'
  <2>1. CASE d = c
    <3>1. TRefs(c)' = TRefs(c)
      BY <1>8, <1>13, SameTRefs
    <3>2. ctx'[c].panicked => MayPanic
      BY <1>5, <1>9 DEF CtxOk
    <3> QED BY <1>1, <1>5, <1>8, <1>9, <1>13, <1>14, <2>1, <3>1, <3>2, ContextChange
  <2>2. CASE d # c
    <3>1. \A e \in Contexts : e # c => SameUse(t, e)
      BY <1>13 DEF SameUse
    <3> QED BY <1>1, <1>8, <1>9, <1>14, <2>2, <3>1, OtherContexts
  <2> QED BY <2>1, <2>2
<1>16. ASSUME NEW u \in Threads PROVE ThOk(u)'
  <2>1. CASE u = t
    <3>1. \A d \in Contexts : waiting'[t] # <<"busy", d>>
      BY <1>1, <1>10, TaSessionsAssumption DEF Woken
    <3>2. th'[t].s = th[t].s /\ th'[t].op = th[t].op /\ c # None
      BY <1>3, <1>8, TaSessionsAssumption DEF Kept
    <3> QED BY <1>1, <1>2, <1>4, <1>7, <1>8, <1>13, <2>1, <3>1, <3>2 DEF ThOk, Working
  <2>2. CASE u # t
    <3>1. th'[u] = th[u] /\ Woken(u) /\ UNCHANGED sess
      BY <1>1, <1>8, <1>10, <2>2 DEF Others
    <3>2. ASSUME NEW d \in Contexts PROVE KeepsFor(u, d)
      <4>1. ctx'[d].alive = ctx[d].alive /\ ctx'[d].initializing = ctx[d].initializing
            /\ ctx'[d].ref_count = ctx[d].ref_count /\ ctx'[d].panicked = ctx[d].panicked
            /\ (d # c => ctx'[d].busy = ctx[d].busy)
        BY <1>9
      <4>2. InsideOf(u, d) => d # c
        BY <1>5, <2>2 DEF CtxOk
      <4>3. InsideOf(u, d) => ~SingleInstance
        BY <1>5, <2>2 DEF Safe, ThOk, InsideOf
      <4> QED BY <1>14, <4>1, <4>2, <4>3 DEF KeepsFor
    <3> QED BY <1>1, <3>1, <3>2, ViewKept
  <2> QED BY <2>1, <2>2
<1>17. SingleOk'
  BY <1>1, <1>6 DEF Safe, SingleOk, SingleInstance
<1>18. ListOk'
  BY <1>1 DEF Safe, ListOk
<1>19. NoAssertionFails'
  <2>1. Alive(c)
    BY <1>5, TaSessionsAssumption DEF Alive
  <2> QED BY <1>5, <1>6, <2>1 DEF Unless, NoAssertionFails
<1> QED BY <1>11, <1>12, <1>15, <1>16, <1>17, <1>18, <1>19 DEF Safe

\* The TA panics: nobody else uses the instance.
LEMMA TaPanicsKeeps ==
  ASSUME KindsHandled, TInv, NEW t \in Threads, TaPanics(t), kind' = kind
  PROVE  TInv'
<1> USE DEF TInv
<1>1. /\ MayPanic /\ th[t].pc = "ta" /\ th[t] # Idle /\ waiting[t] = None
      /\ UNCHANGED <<kind, sess, tee_ctxes, single, waiting, handles>>
  BY DEF TaPanics, At, Idle
<1>2. InCall(th[t]) /\ th[t].op \in {"open", "invoke", "close"}
  BY <1>1, CallSession DEF InCall, OpenPlaces, InvokePlaces, ClosePlaces
<1>3. PICK c \in Contexts : c = th[t].c
  BY <1>1, Fields DEF Safe, ThOk, Working
<1>4. /\ c = sess[th[t].s].ctx /\ th[t].busy /\ Inside(t) /\ InsideOf(t, c) /\ User(t, c)
      /\ ctx[c].busy /\ (SingleInstance => single = t)
  <2>1. c = sess[th[t].s].ctx /\ th[t].busy
    BY <1>1, <1>3 DEF Safe, ThOk, Working
  <2>2. Inside(t) /\ InsideOf(t, c) /\ User(t, c)
    BY <1>1, <1>3 DEF Inside, InsideOf, User, Working
  <2> QED BY <1>3, <2>1, <2>2 DEF Safe, ThOk
<1>5. ctx[c].alive /\ CtxOk(c) /\ \A u \in Threads : User(u, c) => u = t
  <2>1. ctx[c].ref_count <= 1
    BY <1>1, PanicsAlone
  <2> QED BY <1>4, <2>1, UserCounts DEF Safe
<1> DEFINE p == IF th[t].op = "close" THEN "unlink" ELSE "clear_busy"
<1>6. /\ ctx' = [ctx EXCEPT ![c].panicked = TRUE] /\ th' = [th EXCEPT ![t].ok = FALSE, ![t].pc = p]
      /\ faults' = faults \cup Unless(Alive(c), "dangling")
  BY <1>3 DEF TaPanics, Check
<1>7. p \in Places /\ (th[t].op = "close" => p = "unlink") /\ (th[t].op # "close" => p = "clear_busy")
  BY DEF Places, OpenPlaces, ClosePlaces
<1> HIDE DEF p
<1>8. /\ Others(t) /\ th' \in [Threads -> Thread] /\ Kept(t)
      /\ th'[t].pc = p /\ th'[t].c = c /\ th'[t].busy
  <2>1. /\ Others(t) /\ th' \in [Threads -> Thread] /\ Kept(t)
        /\ th'[t].pc = p /\ th'[t].c = th[t].c /\ th'[t].busy = th[t].busy
    BY <1>6, <1>7, ResultEffect
  <2> QED BY <1>3, <1>4, <2>1
<1>9. /\ ctx' \in [Contexts -> ContextType] /\ \A d \in Contexts : d # c => ctx'[d] = ctx[d]
      /\ ctx'[c].panicked /\ ctx'[c].alive = ctx[c].alive /\ ctx'[c].initializing = ctx[c].initializing
      /\ ctx'[c].ref_count = ctx[c].ref_count /\ ctx'[c].busy = ctx[c].busy
  BY <1>6 DEF Typed, TypeOK, ContextType
<1>10. DOMAIN waiting' = Threads /\ \A u \in Threads : Woken(u)
  BY <1>1, NoneWoken
<1>11. Typed'
  <2>1. InCall(th'[t])
    BY <1>2, <1>7, <1>8 DEF InCall, OpenPlaces, InvokePlaces, ClosePlaces, Kept
  <2>2. TypeOK'
    BY <1>1, <1>9 DEF Typed, TypeOK, ContextType
  <2> QED BY <1>1, <1>8, <1>10, <2>1, <2>2, TypedMove
<1>12. \A s \in Sessions : SessOk(s)'
  <2>1. \A s \in Sessions : SameSession(s) /\ SameRole(t, s)
    BY <1>1, <1>2, <1>7, <1>8 DEF SameSession, SameRole, Refers, Owns, Holds, Drains, Opens, Kept
  <2> QED BY <1>1, <1>8, <2>1, SessionsKept
<1>13. Inside(t)' /\ \A d \in Contexts : SameUse(t, d)
  BY <1>1, <1>2, <1>3, <1>4, <1>7, <1>8 DEF SameUse, InsideOf, Inside, Releases, Destroys, Kept
<1>14. \A d \in Contexts : SRefs(d)' = SRefs(d) /\ (InList(d)' <=> InList(d))
  BY <1>1 DEF SRefs, InList
<1>15. ASSUME NEW d \in Contexts PROVE CtxOk(d)'
  <2>1. CASE d = c
    <3>1. TRefs(c)' = TRefs(c)
      BY <1>8, <1>13, SameTRefs DEF SameUse
    <3>2. InsideOf(t, c)' /\ (Destroys(t, c)' <=> Destroys(t, c)) /\ \A u \in Threads : u # t => ~InsideOf(u, c)
      BY <1>4, <1>5, <1>13 DEF SameUse, CtxOk
    <3> QED BY <1>1, <1>5, <1>8, <1>9, <1>14, <2>1, <3>1, <3>2, ContextChange
  <2>2. CASE d # c
    BY <1>1, <1>8, <1>9, <1>13, <1>14, <2>2, OtherContexts
  <2> QED BY <2>1, <2>2
<1>16. ASSUME NEW u \in Threads PROVE ThOk(u)'
  <2>1. CASE u = t
    <3>1. \A d \in Contexts : waiting'[t] # <<"busy", d>>
      BY <1>1, TaSessionsAssumption
    <3>2. th'[t].s = th[t].s /\ th'[t].op = th[t].op /\ c # None
      BY <1>3, <1>8, TaSessionsAssumption DEF Kept
    <3>3. ctx'[c].busy /\ (SingleInstance' => single' = t)
      BY <1>1, <1>4, <1>9 DEF SingleInstance
    <3> QED BY <1>1, <1>2, <1>4, <1>7, <1>8, <2>1, <3>1, <3>2, <3>3 DEF ThOk, Working
  <2>2. CASE u # t
    <3>1. th'[u] = th[u] /\ Woken(u) /\ UNCHANGED sess
      BY <1>1, <1>8, <1>10, <2>2 DEF Others
    <3>2. ASSUME NEW d \in Contexts PROVE KeepsFor(u, d)
      <4>1. ctx'[d].alive = ctx[d].alive /\ ctx'[d].initializing = ctx[d].initializing
            /\ ctx'[d].ref_count = ctx[d].ref_count /\ ctx'[d].busy = ctx[d].busy
            /\ (d # c => ctx'[d].panicked = ctx[d].panicked)
        BY <1>9
      <4>2. User(u, d) => d # c
        BY <1>5, <2>2
      <4> QED BY <1>1, <1>14, <4>1, <4>2 DEF KeepsFor
    <3> QED BY <1>1, <3>1, <3>2, ViewKept
  <2> QED BY <2>1, <2>2
<1>17. SingleOk'
  <2>1. \A u \in Threads : u # t => (Inside(u)' <=> Inside(u))
    BY <1>8, StayingSame DEF Others
  <2>2. single # None => single \in Threads
    BY DEF Typed, TypeOK
  <2> QED BY <1>1, <1>13, <2>1, <2>2 DEF Safe, SingleOk, SingleInstance, Inside
<1>18. ListOk'
  BY <1>1 DEF Safe, ListOk
<1>19. NoAssertionFails'
  <2>1. Alive(c)
    BY <1>5, TaSessionsAssumption DEF Alive
  <2> QED BY <1>6, <2>1 DEF Unless, NoAssertionFails
<1> QED BY <1>11, <1>12, <1>15, <1>16, <1>17, <1>18, <1>19 DEF Safe

\* The list of contexts: one is taken out, or put in.
LEMMA TakenOut ==
  ASSUME NEW T, NEW q \in Seq(T), NEW k \in 1..Len(q)
  PROVE  /\ RemoveAt(q, k) \in Seq(T)
         /\ Len(RemoveAt(q, k)) = Len(q) - 1
         /\ \A i \in 1..(Len(q) - 1) : RemoveAt(q, k)[i] = IF i < k THEN q[i] ELSE q[i + 1]
<1> DEFINE front == SubSeq(q, 1, k - 1)
           back == SubSeq(q, k + 1, Len(q))
<1>1. Len(q) \in Nat /\ k \in Nat /\ 1 <= k /\ k <= Len(q)
  BY LenProperties
<1>2. front \in Seq(T) /\ Len(front) = k - 1 /\ \A i \in 1..(k - 1) : front[i] = q[i]
  <2>1. \A i \in 1..(k - 1) : q[i] \in T
    BY <1>1, ElementOfSeq
  <2>2. /\ front \in Seq(T)
        /\ Len(front) = IF 1 <= k - 1 THEN (k - 1) - 1 + 1 ELSE 0
        /\ \A i \in 1..((k - 1) - 1 + 1) : front[i] = q[1 + i - 1]
    BY <1>1, <2>1, SubSeqProperties
  <2> HIDE DEF front
  <2>3. Len(front) = k - 1
    BY <1>1, <2>2
  <2>4. ASSUME NEW i \in 1..(k - 1) PROVE front[i] = q[i]
    <3>1. i \in 1..((k - 1) - 1 + 1) /\ 1 + i - 1 = i
      BY <1>1
    <3> QED BY <2>2, <3>1
  <2> QED BY <2>2, <2>3, <2>4
<1>3. back \in Seq(T) /\ Len(back) = Len(q) - k /\ \A i \in 1..(Len(q) - k) : back[i] = q[k + i]
  <2>1. \A i \in (k + 1)..Len(q) : q[i] \in T
    BY <1>1, ElementOfSeq
  <2>2. /\ back \in Seq(T)
        /\ Len(back) = IF k + 1 <= Len(q) THEN Len(q) - (k + 1) + 1 ELSE 0
        /\ \A i \in 1..(Len(q) - (k + 1) + 1) : back[i] = q[(k + 1) + i - 1]
    BY <1>1, <2>1, SubSeqProperties
  <2> HIDE DEF back
  <2>3. Len(back) = Len(q) - k
    BY <1>1, <2>2
  <2>4. ASSUME NEW i \in 1..(Len(q) - k) PROVE back[i] = q[k + i]
    <3>1. i \in 1..(Len(q) - (k + 1) + 1) /\ (k + 1) + i - 1 = k + i
      BY <1>1
    <3> QED BY <2>2, <3>1
  <2> QED BY <2>2, <2>3, <2>4
<1>4. RemoveAt(q, k) = front \o back
  BY DEF RemoveAt
<1> HIDE DEF front, back
<1>5. /\ front \o back \in Seq(T)
      /\ Len(front \o back) = Len(q) - 1
      /\ \A i \in 1..(Len(q) - 1) :
           (front \o back)[i] = IF i <= k - 1 THEN front[i] ELSE back[i - (k - 1)]
  <2>1. /\ front \o back \in Seq(T)
        /\ Len(front \o back) = Len(front) + Len(back)
        /\ \A i \in 1..(Len(front) + Len(back)) :
             (front \o back)[i] = IF i <= Len(front) THEN front[i] ELSE back[i - Len(front)]
    BY <1>2, <1>3, ConcatProperties
  <2>2. Len(front) + Len(back) = Len(q) - 1
    BY <1>1, <1>2, <1>3
  <2> QED BY <1>2, <2>1, <2>2
<1>6. \A i \in 1..(Len(q) - 1) : (front \o back)[i] = IF i < k THEN q[i] ELSE q[i + 1]
  BY <1>1, <1>2, <1>3, <1>5
<1> QED BY <1>4, <1>5, <1>6

\* TAILQ_REMOVE takes one context out of the list,
LEMMA ListWithout ==
  ASSUME ListOk, NEW c \in Contexts, tee_ctxes' = Without(tee_ctxes, c)
  PROVE  ListOk' /\ \A d \in Contexts : InList(d)' <=> InList(d) /\ d # c
<1> DEFINE q == tee_ctxes
           n == Len(q)
<1>1. q \in Seq(Contexts) /\ n \in Nat /\ DOMAIN q = 1..n /\ \A i, j \in 1..n : q[i] = q[j] => i = j
  BY LenProperties DEF ListOk
<1>2. CASE \E i \in DOMAIN q : q[i] = c
  <2> DEFINE k == CHOOSE i \in DOMAIN q : q[i] = c
             r == RemoveAt(q, k)
  <2>1. k \in 1..n /\ q[k] = c
    BY <1>1, <1>2
  <2>2. tee_ctxes' = r
    BY <1>2 DEF Without
  <2> HIDE DEF k
  <2>3. /\ r \in Seq(Contexts) /\ Len(r) = n - 1
        /\ \A i \in 1..(n - 1) : r[i] = IF i < k THEN q[i] ELSE q[i + 1]
    BY <1>1, <2>1, TakenOut
  <2> HIDE DEF r, n, q
  <2>4. \A i, j \in 1..(n - 1) : r[i] = r[j] => i = j
    BY <1>1, <2>1, <2>3
  <2>5. ASSUME NEW d \in Contexts
        PROVE  (\E i \in 1..(n - 1) : r[i] = d) <=> (\E i \in 1..n : q[i] = d) /\ d # c
    <3>1. ASSUME NEW i \in 1..(n - 1), r[i] = d PROVE (\E j \in 1..n : q[j] = d) /\ d # c
      <4>1. CASE i < k
        <5>1. i \in 1..n /\ q[i] = d /\ i # k
          BY <1>1, <2>1, <2>3, <3>1, <4>1
        <5> QED BY <1>1, <2>1, <5>1
      <4>2. CASE ~(i < k)
        <5>1. i + 1 \in 1..n /\ q[i + 1] = d /\ i + 1 # k
          BY <1>1, <2>1, <2>3, <3>1, <4>2
        <5> QED BY <1>1, <2>1, <5>1
      <4> QED BY <4>1, <4>2
    <3>2. ASSUME NEW j \in 1..n, q[j] = d, d # c PROVE \E i \in 1..(n - 1) : r[i] = d
      <4>1. CASE j < k
        <5>1. j \in 1..(n - 1) /\ r[j] = q[j]
          BY <1>1, <2>1, <2>3, <4>1
        <5> QED BY <3>2, <5>1
      <4>2. CASE ~(j < k)
        <5>1. j # k
          BY <2>1, <3>2
        <5>2. j - 1 \in 1..(n - 1) /\ ~(j - 1 < k) /\ (j - 1) + 1 = j
          BY <1>1, <2>1, <4>2, <5>1
        <5>3. r[j - 1] = q[j]
          BY <2>3, <5>2
        <5> QED BY <3>2, <5>2, <5>3
      <4> QED BY <4>1, <4>2
    <3> QED BY <3>1, <3>2
  <2>6. ListOk'
    BY <2>2, <2>3, <2>4 DEF ListOk
  <2>7. ASSUME NEW d \in Contexts PROVE InList(d)' <=> InList(d) /\ d # c
    BY <2>2, <2>3, <2>5 DEF InList, n, q
  <2> QED BY <2>6, <2>7
<1>3. CASE ~\E i \in DOMAIN q : q[i] = c
  <2>1. tee_ctxes' = tee_ctxes
    BY <1>3 DEF Without
  <2>2. ~InList(c)
    BY <1>1, <1>3 DEF InList
  <2> QED BY <2>1, <2>2 DEF ListOk, InList
<1> QED BY <1>2, <1>3

\* and TAILQ_INSERT_TAIL puts one in.
LEMMA ListAppend ==
  ASSUME ListOk, NEW c \in Contexts, ~InList(c), tee_ctxes' = Append(tee_ctxes, c)
  PROVE  ListOk' /\ \A d \in Contexts : InList(d)' <=> InList(d) \/ d = c
<1> DEFINE q == tee_ctxes
           r == Append(q, c)
           n == Len(q)
<1>1. q \in Seq(Contexts) /\ n \in Nat /\ \A i, j \in 1..n : q[i] = q[j] => i = j
  BY LenProperties DEF ListOk
<1>2. r \in Seq(Contexts) /\ Len(r) = n + 1 /\ (\A i \in 1..n : r[i] = q[i]) /\ r[n + 1] = c
  BY <1>1, AppendProperties
<1>3. \A i \in 1..n : q[i] # c
  BY DEF InList
<1>4. tee_ctxes' = r
  OBVIOUS
<1> HIDE DEF q, r, n
<1>5. \A i \in 1..(n + 1) : i \in 1..n \/ i = n + 1
  BY <1>1
<1>6. (\A i \in 1..n : i \in 1..(n + 1)) /\ n + 1 \in 1..(n + 1)
  BY <1>1
<1>7. \A i, j \in 1..(n + 1) : r[i] = r[j] => i = j
  BY <1>1, <1>2, <1>3, <1>5
<1>8. \A d \in Contexts : (\E i \in 1..(n + 1) : r[i] = d) <=> (\E i \in 1..n : q[i] = d) \/ d = c
  BY <1>2, <1>5, <1>6
<1>9. ListOk'
  BY <1>2, <1>4, <1>7 DEF ListOk
<1>10. ASSUME NEW d \in Contexts PROVE InList(d)' <=> InList(d) \/ d = c
  BY <1>2, <1>4, <1>8 DEF InList, n, q
<1> QED BY <1>9, <1>10

\* ldelf has filled the context.
LEMMA TaLoadedKeeps ==
  ASSUME TInv, NEW t \in Threads, TaLoaded(t), kind' = kind
  PROVE  TInv'
<1> USE DEF TInv
<1>1. /\ th[t].pc = "loading" /\ th[t] # Idle /\ waiting[t] = None
      /\ UNCHANGED <<kind, sess, tee_ctxes, single, handles, faults>>
      /\ Broadcast(<<"init", None>>) /\ th' = [th EXCEPT ![t].pc = "initialized"]
  BY DEF TaLoaded, At, Idle, Goto
<1>2. InCall(th[t]) /\ th[t].op = "open"
  BY <1>1, CallSession DEF InCall, OpenPlaces, InvokePlaces, ClosePlaces
<1>3. PICK c \in Contexts : c = th[t].c
  BY <1>1, Fields DEF Safe, ThOk, Working
<1>4. c = sess[th[t].s].ctx /\ ctx[c].ref_count = 1 /\ ~ctx[c].panicked /\ User(t, c)
  BY <1>1, <1>3 DEF Safe, ThOk, Working, User
<1>5. ctx[c].alive /\ CtxOk(c) /\ \A u \in Threads : User(u, c) => u = t
  BY <1>4, UserCounts DEF Safe
<1>6. ctx' = [ctx EXCEPT ![c].initializing = FALSE]
  BY <1>3 DEF TaLoaded
<1>8. /\ Others(t) /\ th' \in [Threads -> Thread] /\ Kept(t)
      /\ th'[t].pc = "initialized" /\ th'[t].c = c
  <2>1. "initialized" \in Places
    BY DEF Places, OpenPlaces
  <2> QED BY <1>1, <1>3, <2>1, GotoEffect
<1>9. /\ ctx' \in [Contexts -> ContextType] /\ \A d \in Contexts : d # c => ctx'[d] = ctx[d]
      /\ ctx'[c].panicked = ctx[c].panicked /\ ctx'[c].alive = ctx[c].alive
      /\ ctx'[c].ref_count = ctx[c].ref_count /\ ctx'[c].busy = ctx[c].busy
  BY <1>6 DEF Typed, TypeOK, ContextType
<1>10. DOMAIN waiting' = Threads /\ \A u \in Threads : Woken(u)
  BY <1>1, BroadcastWakes
<1>11. Typed'
  <2>1. InCall(th'[t])
    BY <1>2, <1>8 DEF InCall, OpenPlaces, Kept
  <2>2. TypeOK'
    BY <1>1, <1>9 DEF Typed, TypeOK, ContextType
  <2> QED BY <1>1, <1>8, <1>10, <2>1, <2>2, TypedMove
<1>12. \A s \in Sessions : SessOk(s)'
  <2>1. \A s \in Sessions : SameSession(s) /\ SameRole(t, s)
    BY <1>1, <1>2, <1>8 DEF SameSession, SameRole, Refers, Owns, Holds, Drains, Opens, Kept
  <2> QED BY <1>1, <1>8, <2>1, SessionsKept
<1>13. /\ ~Inside(t)' /\ ~Inside(t)
       /\ \A d \in Contexts : ~InsideOf(t, d)' /\ ~Destroys(t, d)' /\ ~Releases(t, d)'
       /\ \A d \in Contexts : ~InsideOf(t, d) /\ ~Destroys(t, d) /\ ~Releases(t, d)
  BY <1>1, <1>2, <1>8 DEF InsideOf, Inside, Releases, Destroys, Kept
<1>14. \A d \in Contexts : SRefs(d)' = SRefs(d) /\ (InList(d)' <=> InList(d))
  BY <1>1 DEF SRefs, InList
<1>15. ASSUME NEW d \in Contexts PROVE CtxOk(d)'
  <2>1. CASE d = c
    <3>1. TRefs(c)' = TRefs(c)
      BY <1>8, <1>13, SameTRefs
    <3>2. ctx'[c].panicked => MayPanic
      BY <1>5, <1>9 DEF CtxOk
    <3>3. ctx'[c].busy => \E u \in Threads : u # t /\ InsideOf(u, c)
      BY <1>5, <1>9, <1>13 DEF CtxOk
    <3> QED BY <1>1, <1>5, <1>8, <1>9, <1>13, <1>14, <2>1, <3>1, <3>2, <3>3, ContextChange
  <2>2. CASE d # c
    <3>1. \A e \in Contexts : e # c => SameUse(t, e)
      BY <1>13 DEF SameUse
    <3> QED BY <1>1, <1>8, <1>9, <1>14, <2>2, <3>1, OtherContexts
  <2> QED BY <2>1, <2>2
<1>16. ASSUME NEW u \in Threads PROVE ThOk(u)'
  <2>1. CASE u = t
    <3>1. \A d \in Contexts : waiting'[t] # <<"busy", d>>
      BY <1>1, <1>10, TaSessionsAssumption DEF Woken
    <3>2. th'[t].s = th[t].s /\ th'[t].op = th[t].op /\ c # None /\ c = sess'[th[t].s].ctx /\ ~ctx'[c].panicked
      BY <1>1, <1>3, <1>4, <1>8, <1>9, TaSessionsAssumption DEF Kept
    <3> QED BY <1>2, <1>8, <1>13, <2>1, <3>1, <3>2 DEF ThOk, Working
  <2>2. CASE u # t
    <3>1. th'[u] = th[u] /\ Woken(u) /\ UNCHANGED sess
      BY <1>1, <1>8, <1>10, <2>2 DEF Others
    <3>2. ASSUME NEW d \in Contexts PROVE KeepsFor(u, d)
      <4>1. ctx'[d].alive = ctx[d].alive /\ ctx'[d].busy = ctx[d].busy
            /\ ctx'[d].ref_count = ctx[d].ref_count /\ ctx'[d].panicked = ctx[d].panicked
            /\ (d # c => ctx'[d].initializing = ctx[d].initializing)
        BY <1>9
      <4>2. User(u, d) => d # c
        BY <1>5, <2>2
      <4> QED BY <1>1, <1>14, <4>1, <4>2 DEF KeepsFor
    <3> QED BY <1>1, <3>1, <3>2, ViewKept
  <2> QED BY <2>1, <2>2
<1>17. SingleOk'
  <2>1. \A u \in Threads : u # t => (Inside(u)' <=> Inside(u))
    BY <1>8, StayingSame DEF Others
  <2>2. single # None => single \in Threads
    BY DEF Typed, TypeOK
  <2> QED BY <1>1, <1>13, <2>1, <2>2 DEF Safe, SingleOk, SingleInstance, Inside
<1>18. ListOk'
  BY <1>1 DEF Safe, ListOk
<1> QED BY <1>1, <1>11, <1>12, <1>15, <1>16, <1>17, <1>18 DEF Safe, NoAssertionFails

\* A session is freed; its reference to its context is now the thread's.
LEMMA DrainKeeps ==
  ASSUME TInv, NEW t \in Threads, Drain(t), th[t].c # None, sess[th[t].s].ref_count = 1, kind' = kind
  PROVE  TInv'
<1> USE DEF TInv
<1>1. /\ th[t].pc = "drain" /\ th[t] # Idle /\ waiting[t] = None
      /\ UNCHANGED <<kind, ctx, tee_ctxes, single, handles, waiting, faults>>
  BY DEF Drain, At, Idle
<1>2. PICK s \in Sessions : s = th[t].s
  BY <1>1, CallSession
<1>3. PICK c \in Contexts : c = th[t].c
  BY Fields
<1>4. /\ th[t].op = "close" /\ InCall(th[t]) /\ sess[s].listed /\ s \notin handles /\ sess[s].ctx = c
      /\ \A u \in Threads : u # t => ~Owns(u, s) /\ ~AtWork(u, s) /\ ~Refers(u, s)
  BY <1>1, <1>2, <1>3, DrainAlone
<1> DEFINE p == IF th[t].busy THEN "clear_busy" ELSE "release"
<1>5. sess' = [sess EXCEPT ![s] = NoSession] /\ th' = [th EXCEPT ![t].pc = p]
  BY <1>2 DEF Drain, Goto
<1>6. p \in {"clear_busy", "release"} /\ (p = "clear_busy" <=> th[t].busy)
  OBVIOUS
<1> HIDE DEF p
<1>8. /\ Others(t) /\ th' \in [Threads -> Thread] /\ Kept(t)
      /\ th'[t].pc = p /\ th'[t].c = c
  <2>1. p \in Places
    BY <1>6 DEF Places, ClosePlaces
  <2> QED BY <1>3, <1>5, <2>1, GotoEffect
<1>9. /\ TypeOK' /\ sess'[s] = NoSession /\ \A x \in Sessions : x # s => sess'[x] = sess[x]
  BY <1>1, <1>5 DEF Typed, TypeOK, NoSession
<1>10. DOMAIN waiting' = Threads /\ \A u \in Threads : Woken(u)
  BY <1>1, NoneWoken
<1>11. Typed'
  <2>1. InCall(th'[t])
    BY <1>4, <1>6, <1>8 DEF InCall, ClosePlaces, Kept
  <2> QED BY <1>1, <1>8, <1>9, <1>10, <2>1, TypedMove
<1>12. ASSUME NEW x \in Sessions PROVE SessOk(x)'
  <2>1. CASE x = s
    <3>1. ~Refers(t, s)' /\ ~Owns(t, s)'
      BY <1>4, <1>6, <1>8 DEF Refers, Owns, Kept
    <3>2. \A u \in Threads : ~Refers(u, s)' /\ ~Owns(u, s)'
      BY <1>4, <1>8, <3>1, StayingSame DEF Others, SameRole
    <3> QED BY <1>1, <1>4, <1>9, <2>1, <3>2, SessionFreed
  <2>2. CASE x # s
    <3>1. SameRole(t, x)
      BY <1>2, <1>8, <2>2, OtherSession DEF Kept
    <3>2. \A u \in Threads : SameRole(u, x)
      BY <1>8, <3>1, StayingSame DEF Others
    <3> QED BY <1>1, <1>9, <2>2, <3>2, SessionFrame DEF SameSession, Safe
  <2> QED BY <2>1, <2>2
<1>13. /\ Inside(t)' <=> Inside(t)
       /\ \A d \in Contexts : InsideOf(t, d)' <=> InsideOf(t, d)
       /\ \A d \in Contexts : ~Destroys(t, d)' /\ ~Destroys(t, d)
       /\ \A d \in Contexts : ~Releases(t, d) /\ (Releases(t, d)' <=> d = c)
  BY <1>1, <1>3, <1>4, <1>6, <1>8 DEF InsideOf, Inside, Releases, Destroys, Kept
<1>14. \A d \in Contexts : InList(d)' <=> InList(d)
  BY <1>1 DEF InList
<1>15. SRefs(c)' = SRefs(c) \ {s} /\ s \in SRefs(c) /\ \A d \in Contexts : d # c => SRefs(d)' = SRefs(d)
  BY <1>4, <1>9 DEF SRefs, NoSession
<1>16. TRefs(c)' = TRefs(c) \cup {t} /\ t \notin TRefs(c)
  <2>1. \A u \in Threads : u # t => SameUse(u, c)
    BY <1>8, StayingSame DEF Others
  <2> QED BY <1>13, <2>1 DEF TRefs, SameUse
<1>17. Cardinality(SRefs(c)') + Cardinality(TRefs(c)') = Cardinality(SRefs(c)) + Cardinality(TRefs(c))
  <2>1. IsFiniteSet(SRefs(c)) /\ IsFiniteSet(TRefs(c)) /\ Cardinality(SRefs(c)) \in Nat /\ Cardinality(TRefs(c)) \in Nat
    BY FiniteSets
  <2>2. Cardinality(SRefs(c)') = Cardinality(SRefs(c)) - 1
    BY <1>15, <2>1, FS_RemoveElement
  <2>3. Cardinality(TRefs(c)') = Cardinality(TRefs(c)) + 1
    BY <1>16, <2>1, FS_AddElement
  <2> QED BY <2>1, <2>2, <2>3
<1>18. ASSUME NEW d \in Contexts PROVE CtxOk(d)'
  <2>1. CASE d = c
    <3>0. CtxOk(c) /\ \A u \in Threads : (InsideOf(u, c)' <=> InsideOf(u, c)) /\ (Destroys(u, c)' <=> Destroys(u, c))
      BY <1>8, <1>13, StayingSame DEF Others, SameUse, Safe
    <3>1. ctx'[c].ref_count = Cardinality(SRefs(c)') + Cardinality(TRefs(c)')
      BY <1>1, <1>17, <3>0 DEF CtxOk
    <3>2. /\ ~ctx'[c].alive => ctx'[c] = NoContext
          /\ ~(MultiSession /\ SingleInstance)' => ctx'[c].ref_count <= 1
          /\ ctx'[c].panicked => MayPanic'
          /\ InList(c)' => ctx'[c].alive /\ ((KeepAlive /\ SingleInstance)' \/ ctx'[c].ref_count > 0)
      BY <1>1, <1>14, <3>0 DEF CtxOk, MultiSession, SingleInstance, MayPanic, KeepAlive
    <3>3. /\ ctx'[c].busy => \E u \in Threads : InsideOf(u, c)'
          /\ \A v, u \in Threads : InsideOf(v, c)' /\ InsideOf(u, c)' => v = u
          /\ \A v, u \in Threads : Destroys(v, c)' /\ Destroys(u, c)' => v = u
          /\ ctx'[c].alive => InList(c)' \/ \E u \in Threads : Destroys(u, c)'
      BY <1>1, <1>14, <3>0 DEF CtxOk
    <3> QED BY <2>1, <3>1, <3>2, <3>3 DEF CtxOk
  <2>2. CASE d # c
    <3>1. \A e \in Contexts : e # c => SameUse(t, e)
      BY <1>13 DEF SameUse
    <3> QED BY <1>1, <1>8, <1>14, <1>15, <2>2, <3>1, OtherContexts
  <2> QED BY <2>1, <2>2
<1>19. ASSUME NEW u \in Threads PROVE ThOk(u)'
  <2>1. CASE u = t
    <3>1. \A d \in Contexts : waiting'[t] # <<"busy", d>>
      BY <1>1, TaSessionsAssumption
    <3>2. th'[t].op = "close" /\ c # None
      BY <1>3, <1>4, <1>8, TaSessionsAssumption DEF Kept
    <3>3. Inside(t)' => ctx'[c].busy /\ (SingleInstance' => single' = t)
      BY <1>1, <1>3, <1>13 DEF Safe, ThOk, SingleInstance
    <3> QED BY <1>6, <1>8, <2>1, <3>1, <3>2, <3>3 DEF ThOk, Working
  <2>2. CASE u # t
    <3>1. th'[u] = th[u] /\ Woken(u)
      BY <1>8, <1>10, <2>2 DEF Others
    <3>2. ASSUME NEW d \in Contexts PROVE KeepsFor(u, d)
      BY <1>1, <1>14 DEF KeepsFor
    <3>3. AtWork(u, th[u].s) => sess'[th[u].s].ctx = sess[th[u].s].ctx
      <4>1. AtWork(u, th[u].s) => th[u].s \in Sessions /\ th[u].s # s
        BY <1>4, <2>2, CallSession, TaSessionsAssumption DEF AtWork, Opens, Holds, Idle
      <4> QED BY <1>9, <4>1
    <3> QED BY <1>1, <3>1, <3>2, <3>3, ViewKept
  <2> QED BY <2>1, <2>2
<1>20. SingleOk'
  <2>1. \A u \in Threads : u # t => (Inside(u)' <=> Inside(u))
    BY <1>8, StayingSame DEF Others
  <2>2. single # None => single \in Threads
    BY DEF Typed, TypeOK
  <2> QED BY <1>1, <1>13, <2>1, <2>2 DEF Safe, SingleOk, SingleInstance, Inside
<1>21. ListOk'
  BY <1>1 DEF Safe, ListOk
<1> QED BY <1>1, <1>11, <1>12, <1>18, <1>19, <1>20, <1>21 DEF Safe, NoAssertionFails

\* The reference of a closed session to its context goes.
LEMMA ReleaseKeeps ==
  ASSUME TInv, NEW t \in Threads, Release(t), kind' = kind
  PROVE  TInv'
<1> USE DEF TInv
<1>1. /\ th[t].pc = "release" /\ th[t] # Idle /\ waiting[t] = None
      /\ UNCHANGED <<kind, sess, single, waiting, handles>>
  BY DEF Release, At, Idle
<1>2. InCall(th[t]) /\ th[t].op = "close"
  BY <1>1, CallSession DEF InCall, OpenPlaces, InvokePlaces, ClosePlaces
<1>3. PICK c \in Contexts : c = th[t].c
  BY <1>1, <1>2, Fields DEF Safe, ThOk
<1>4. /\ Releases(t, c) /\ User(t, c) /\ CtxOk(c) /\ ctx[c].alive
      /\ ctx[c].ref_count \in Nat /\ ctx[c].ref_count >= 1
  <2>1. Releases(t, c) /\ User(t, c)
    BY <1>1, <1>2, <1>3 DEF Releases, User
  <2> QED BY <2>1, UserCounts, Fields DEF Safe
<1>5. \A u \in Threads : ~Destroys(u, c)
  BY <1>1, <1>4, DestroyerAlone DEF Destroys
<1>6. \A u \in Threads : User(u, c) /\ th[u].pc = "loading" => FALSE
  <2>1. \A u \in Threads : th[u].pc = "loading" /\ User(u, c) => th[u].c = c
    BY DEF User, Releases
  <2>2. \A u \in Threads : th[u].pc = "loading" /\ User(u, c) => ctx[c].ref_count = 1
    BY <2>1 DEF Safe, ThOk
  <2>3. \A u \in Threads : th[u].pc = "loading" /\ User(u, c) => u = t
    BY <1>4, <2>2, UserCounts
  <2> QED BY <1>1, <2>3
<1> DEFINE last == ctx[c].ref_count = 1 /\ ~(KeepAlive /\ SingleInstance)
           n == ctx[c].ref_count - 1
<1>7. /\ ctx' = [ctx EXCEPT ![c].ref_count = n]
      /\ tee_ctxes' = IF last THEN Without(tee_ctxes, c) ELSE tee_ctxes
      /\ IF last THEN th' = [th EXCEPT ![t].pc = "destroying"] ELSE Return(t)
      /\ faults' \subseteq faults \cup (Unless(Alive(c), "dangling") \cup Unless(ctx[c].ref_count > 0, "context_ref_count")
                                      \cup {"freed_session"})
  <2>1. ctx' = [ctx EXCEPT ![c].ref_count = n] /\ tee_ctxes' = (IF last THEN Without(tee_ctxes, c) ELSE tee_ctxes)
    BY <1>3 DEF Release
  <2>2. CASE last
    BY <1>3, <2>1, <2>2 DEF Release, Goto, Check
  <2>3. CASE ~last
    BY <1>3, <2>1, <2>3 DEF Release, Finish, Check, Unless
  <2> QED BY <2>1, <2>2, <2>3
<1>8. n \in Nat /\ (last => n = 0) /\ (~last => (KeepAlive /\ SingleInstance) \/ n > 0) /\ n <= ctx[c].ref_count
  BY <1>4
<1>n. last \in BOOLEAN
  OBVIOUS
<1> HIDE DEF last, n
<1>9. /\ Others(t) /\ th' \in [Threads -> Thread]
      /\ last => Kept(t) /\ th'[t].pc = "destroying" /\ th'[t].c = c
      /\ ~last => th'[t] = Idle /\ th'[t].pc = "idle" /\ th'[t].s = None /\ th'[t].op = "none"
  <2>1. CASE last
    <3>1. "destroying" \in Places
      BY DEF Places, ClosePlaces
    <3> QED BY <1>3, <1>7, <2>1, <3>1, GotoEffect
  <2>2. CASE ~last
    BY <1>7, <2>2, ReturnEffect
  <2> QED BY <2>1, <2>2
<1>10. /\ ctx' \in [Contexts -> ContextType] /\ \A d \in Contexts : d # c => ctx'[d] = ctx[d]
       /\ ctx'[c].panicked = ctx[c].panicked /\ ctx'[c].alive = ctx[c].alive
       /\ ctx'[c].ref_count = n /\ ctx'[c].busy = ctx[c].busy
       /\ ctx'[c].initializing = ctx[c].initializing
  BY <1>7, <1>8 DEF Typed, TypeOK, ContextType
<1>11. DOMAIN waiting' = Threads /\ \A u \in Threads : Woken(u)
  BY <1>1, NoneWoken
<1>12. Typed'
  <2>1. th'[t] = Idle \/ InCall(th'[t])
    BY <1>2, <1>9, <1>n DEF InCall, ClosePlaces, Kept
  <2>2. TypeOK'
    BY <1>1, <1>10 DEF Typed, TypeOK, ContextType
  <2> QED BY <1>1, <1>9, <1>11, <2>1, <2>2, TypedMove
<1>13. \A s \in Sessions : SessOk(s)'
  <2>1. ASSUME NEW s \in Sessions PROVE SameSession(s) /\ SameRole(t, s)
    <3>1. ~Refers(t, s) /\ ~Owns(t, s) /\ ~Holds(t, s) /\ ~Drains(t, s) /\ ~Opens(t, s)
      BY <1>1, <1>2 DEF Refers, Owns, Holds, Drains, Opens
    <3>2. ~Refers(t, s)' /\ ~Owns(t, s)' /\ ~Holds(t, s)' /\ ~Drains(t, s)' /\ ~Opens(t, s)'
      <4>1. CASE last
        BY <1>2, <1>9, <4>1 DEF Refers, Owns, Holds, Drains, Opens, Kept
      <4>2. CASE ~last
        BY <1>9, <4>2, TaSessionsAssumption DEF Refers, Owns, Holds, Drains, Opens
      <4> QED BY <4>1, <4>2
    <3> QED BY <1>1, <3>1, <3>2 DEF SameSession, SameRole
  <2> QED BY <1>1, <1>9, <2>1, SessionsKept
<1>14. /\ ~Inside(t)' /\ ~Inside(t)
       /\ \A d \in Contexts : ~InsideOf(t, d)' /\ ~Releases(t, d)' /\ ~InsideOf(t, d) /\ ~Destroys(t, d)
       /\ \A d \in Contexts : (Destroys(t, d)' <=> last /\ d = c) /\ (Releases(t, d) <=> d = c)
  <2>1. /\ ~Inside(t)
        /\ \A d \in Contexts : ~InsideOf(t, d) /\ ~Destroys(t, d) /\ (Releases(t, d) <=> d = c)
    BY <1>1, <1>2, <1>3 DEF InsideOf, Inside, Releases, Destroys
  <2>2. CASE last
    <3>1. /\ ~Inside(t)'
          /\ \A d \in Contexts : ~InsideOf(t, d)' /\ ~Releases(t, d)' /\ (Destroys(t, d)' <=> d = c)
      BY <1>9, <2>2 DEF InsideOf, Inside, Releases, Destroys
    <3> QED BY <2>1, <2>2, <3>1
  <2>3. CASE ~last
    <3>1. /\ ~Inside(t)'
          /\ \A d \in Contexts : ~InsideOf(t, d)' /\ ~Releases(t, d)' /\ ~Destroys(t, d)'
      BY <1>9, <2>3 DEF InsideOf, Inside, Releases, Destroys
    <3> QED BY <2>1, <2>3, <3>1
  <2> QED BY <2>2, <2>3
<1>15. ListOk' /\ \A d \in Contexts : InList(d)' <=> InList(d) /\ ~(last /\ d = c)
  <2>1. CASE last
    BY <1>7, <2>1, ListWithout DEF Safe
  <2>2. CASE ~last
    BY <1>7, <2>2 DEF Safe, ListOk, InList
  <2> QED BY <2>1, <2>2
<1>16. \A d \in Contexts : SRefs(d)' = SRefs(d)
  BY <1>1 DEF SRefs
<1>17. ctx'[c].ref_count = Cardinality(SRefs(c)') + Cardinality(TRefs(c)')
  <2>1. \A u \in Threads : u # t => SameUse(u, c)
    BY <1>9, StayingSame DEF Others
  <2>2. TRefs(c)' = TRefs(c) \ {t} /\ t \in TRefs(c)
    BY <1>14, <2>1 DEF TRefs, SameUse
  <2>3. IsFiniteSet(TRefs(c)) /\ Cardinality(TRefs(c)) \in Nat /\ Cardinality(SRefs(c)) \in Nat
    BY FiniteSets
  <2>4. Cardinality(TRefs(c)') = Cardinality(TRefs(c)) - 1
    BY <2>2, <2>3, FS_RemoveElement
  <2>5. ctx[c].ref_count = Cardinality(SRefs(c)) + Cardinality(TRefs(c))
    BY <1>4 DEF CtxOk
  <2>6. n = Cardinality(SRefs(c)) + Cardinality(TRefs(c)')
    BY <2>3, <2>4, <2>5 DEF n
  <2> QED BY <1>10, <1>16, <2>6
<1>18. ASSUME NEW d \in Contexts PROVE CtxOk(d)'
  <2>1. CASE d = c
    <3>0. \A u \in Threads : u # t => SameUse(u, c)
      BY <1>9, StayingSame DEF Others
    <3>1. /\ ~ctx'[c].alive => ctx'[c] = NoContext
          /\ ~(MultiSession /\ SingleInstance)' => ctx'[c].ref_count <= 1
      <4>1. ~(MultiSession /\ SingleInstance) => ctx[c].ref_count <= 1
        BY <1>4 DEF CtxOk
      <4>2. ~(MultiSession /\ SingleInstance) => n <= 1
        BY <1>4, <1>8, <4>1
      <4> QED BY <1>1, <1>4, <1>10, <4>2 DEF MultiSession, SingleInstance
    <3>2. /\ ctx'[c].panicked => MayPanic'
          /\ InList(c)' => ctx'[c].alive /\ ((KeepAlive /\ SingleInstance)' \/ ctx'[c].ref_count > 0)
      BY <1>1, <1>4, <1>8, <1>10, <1>15 DEF CtxOk, MayPanic, KeepAlive, SingleInstance
    <3>3. /\ ctx'[c].busy => \E u \in Threads : InsideOf(u, c)'
          /\ \A v, u \in Threads : InsideOf(v, c)' /\ InsideOf(u, c)' => v = u
      BY <1>4, <1>10, <1>14, <3>0 DEF CtxOk, SameUse
    <3>4. \A v, u \in Threads : Destroys(v, c)' /\ Destroys(u, c)' => v = u
      BY <1>5, <3>0 DEF SameUse
    <3>5. ctx'[c].alive => InList(c)' \/ \E u \in Threads : Destroys(u, c)'
      BY <1>4, <1>5, <1>14, <1>15 DEF CtxOk
    <3> QED BY <1>17, <2>1, <3>1, <3>2, <3>3, <3>4, <3>5 DEF CtxOk
  <2>2. CASE d # c
    <3>1. \A e \in Contexts : e # c => SameUse(t, e) /\ (InList(e)' <=> InList(e))
      BY <1>14, <1>15 DEF SameUse
    <3> QED BY <1>1, <1>9, <1>10, <1>16, <2>2, <3>1, OtherContexts
  <2> QED BY <2>1, <2>2
<1>19. ASSUME NEW u \in Threads PROVE ThOk(u)'
  <2>1. CASE u = t
    <3>1. CASE last
      <4>1. \A d \in Contexts : waiting'[t] # <<"busy", d>>
        BY <1>1, TaSessionsAssumption
      <4>2. th'[t].op = "close" /\ c # None /\ th'[t].pc = "destroying" /\ th'[t].c = c
        BY <1>2, <1>3, <1>9, <3>1, TaSessionsAssumption DEF Kept
      <4>3. ctx'[c].alive /\ ~InList(c)' /\ ctx'[c].ref_count = 0
        BY <1>4, <1>8, <1>10, <1>15, <3>1
      <4>4. ~InList(th[t].c)'
        BY <4>2, <4>3 DEF InList
      <4> QED BY <1>14, <2>1, <4>1, <4>2, <4>3, <4>4 DEF ThOk, Working
    <3>2. CASE ~last
      BY <1>1, <1>9, <1>11, <2>1, <3>2, IdleOk
    <3> QED BY <3>1, <3>2
  <2>2. CASE u # t
    <3>1. th'[u] = th[u] /\ Woken(u)
      BY <1>9, <1>11, <2>2 DEF Others
    <3>2. ASSUME NEW d \in Contexts PROVE KeepsFor(u, d)
      <4>1. CASE d = c
        BY <1>1, <1>5, <1>6, <1>10, <4>1 DEF KeepsFor
      <4>2. CASE d # c
        BY <1>1, <1>10, <1>15, <4>2 DEF KeepsFor
      <4> QED BY <4>1, <4>2
    <3> QED BY <1>1, <3>1, <3>2, ViewKept
  <2> QED BY <2>1, <2>2
<1>20. SingleOk'
  <2>1. \A u \in Threads : u # t => (Inside(u)' <=> Inside(u))
    BY <1>9, StayingSame DEF Others
  <2>2. single # None => single \in Threads
    BY DEF Typed, TypeOK
  <2> QED BY <1>1, <1>14, <2>1, <2>2 DEF Safe, SingleOk, SingleInstance, Inside
<1>21. NoAssertionFails'
  <2>1. Alive(c) /\ ctx[c].ref_count > 0
    BY <1>4, TaSessionsAssumption DEF Alive
  <2> QED BY <1>7, <2>1 DEF Unless, NoAssertionFails
<1> QED BY <1>12, <1>13, <1>15, <1>18, <1>19, <1>20, <1>21 DEF Safe

\* An invocation takes the instance that panicked out of the list.
LEMMA ForgetKeeps ==
  ASSUME KindsHandled, TInv, NEW t \in Threads, Forget(t), kind' = kind
  PROVE  TInv'
<1> USE DEF TInv
<1>1. /\ th[t].pc = "destroy" /\ th[t] # Idle /\ waiting[t] = None
      /\ UNCHANGED <<kind, ctx, single, waiting, handles>>
  BY DEF Forget, At, Idle
<1>2. InCall(th[t]) /\ th[t].op = "invoke"
  BY <1>1, CallSession DEF InCall, OpenPlaces, InvokePlaces, ClosePlaces
<1>3. PICK c \in Contexts : c = th[t].c
  BY <1>1, Fields DEF Safe, ThOk, Working
<1>4. PICK s \in Sessions : s = th[t].s
  BY <1>1, CallSession
<1>5. sess[s].ctx = c /\ ctx[c].panicked /\ User(t, c) /\ CtxOk(c) /\ sess[s].listed
  <2>1. sess[s].ctx = c /\ ctx[c].panicked /\ User(t, c)
    BY <1>1, <1>3, <1>4 DEF Safe, ThOk, Working, User
  <2>2. AtWork(t, s)
    BY <1>1, <1>2, <1>4 DEF AtWork, Holds
  <2> QED BY <1>1, <1>4, <2>1, <2>2, CallSession DEF Safe
<1>6. ctx[c].ref_count = 1 /\ ctx[c].alive /\ SRefs(c) = {s} /\ \A u \in Threads : User(u, c) => u = t
  <2>1. ctx[c].ref_count <= 1 /\ ctx[c].ref_count \in Nat
    BY <1>5, PanicsAlone, Fields DEF CtxOk
  <2>2. s \in SRefs(c)
    BY <1>5 DEF SRefs
  <2>3. ctx[c].ref_count >= 1 /\ ctx[c].alive /\ SRefs(c) = {s} /\ \A u \in Threads : User(u, c) => u = t
    BY <1>4, <1>5, <2>1, <2>2, UserCounts
  <2> QED BY <2>1, <2>3
<1>7. /\ sess' = sess /\ tee_ctxes' = Without(tee_ctxes, c)
      /\ th' = [th EXCEPT ![t].c = c, ![t].pc = "destroying"]
      /\ faults' = faults \cup Unless(Cardinality({s}) = ctx[c].ref_count, "context_ref_count")
  <2> DEFINE users == {x \in Sessions : sess[x].listed /\ sess[x].ctx = c} \cup {s}
  <2>1. users = {s}
    BY <1>6 DEF SRefs
  <2>2. Alive(c)
    BY <1>6, TaSessionsAssumption DEF Alive
  <2> HIDE DEF users
  <2>3. /\ sess' = [x \in Sessions |-> IF x \in users \ {s} THEN [sess[x] EXCEPT !.ctx = None] ELSE sess[x]]
        /\ tee_ctxes' = Without(tee_ctxes, c)
        /\ th' = [th EXCEPT ![t].c = c, ![t].pc = "destroying"]
        /\ faults' = faults \cup (IF Alive(c) THEN Unless(Cardinality(users) = ctx[c].ref_count, "context_ref_count")
                                              ELSE {"dangling"})
    BY <1>4, <1>5 DEF Forget, Check, users
  <2>4. users \ {s} = {}
    BY <2>1
  <2>5. sess' = [x \in Sessions |-> sess[x]]
    BY <2>3, <2>4
  <2>6. sess = [x \in Sessions |-> sess[x]]
    BY DEF Typed, TypeOK
  <2> QED BY <2>1, <2>2, <2>3, <2>5, <2>6
<1>8. \A u \in Threads : ~Destroys(u, c)
  BY <1>1, <1>5, DestroyerAlone DEF Destroys
<1>9. /\ Others(t) /\ th' \in [Threads -> Thread] /\ Kept(t)
      /\ th'[t].pc = "destroying" /\ th'[t].c = c
  <2>1. "destroying" \in Places /\ c \in Contexts \cup {None}
    BY DEF Places, ClosePlaces
  <2> QED BY <1>7, <2>1, ContextEffect
<1>11. DOMAIN waiting' = Threads /\ \A u \in Threads : Woken(u)
  BY <1>1, NoneWoken
<1>12. Typed'
  <2>1. InCall(th'[t])
    BY <1>2, <1>9 DEF InCall, InvokePlaces, Kept
  <2>2. TypeOK'
    BY <1>1, <1>7 DEF Typed, TypeOK
  <2> QED BY <1>1, <1>9, <1>11, <2>1, <2>2, TypedMove
<1>13. \A x \in Sessions : SessOk(x)'
  <2>1. \A x \in Sessions : SameSession(x) /\ SameRole(t, x)
    BY <1>1, <1>2, <1>7, <1>9 DEF SameSession, SameRole, Refers, Owns, Holds, Drains, Opens, Kept
  <2> QED BY <1>1, <1>9, <2>1, SessionsKept
<1>14. /\ ~Inside(t)' /\ ~Inside(t)
       /\ \A d \in Contexts : ~InsideOf(t, d)' /\ ~Releases(t, d)' /\ ~InsideOf(t, d) /\ ~Destroys(t, d) /\ ~Releases(t, d)
       /\ \A d \in Contexts : Destroys(t, d)' <=> d = c
  BY <1>1, <1>2, <1>9 DEF InsideOf, Inside, Releases, Destroys, Kept
<1>15. ListOk' /\ \A d \in Contexts : InList(d)' <=> InList(d) /\ d # c
  BY <1>7, ListWithout DEF Safe
<1>16. \A d \in Contexts : SRefs(d)' = SRefs(d) /\ TRefs(d)' = TRefs(d)
  <2>1. \A d \in Contexts : SRefs(d)' = SRefs(d)
    BY <1>7 DEF SRefs
  <2>2. \A d \in Contexts : TRefs(d)' = TRefs(d)
    BY <1>9, <1>14, SameTRefs
  <2> QED BY <2>1, <2>2
<1>18. ASSUME NEW d \in Contexts PROVE CtxOk(d)'
  <2>1. CASE d = c
    <3>0. \A u \in Threads : u # t => SameUse(u, c)
      BY <1>9, StayingSame DEF Others
    <3>1. /\ ~ctx'[c].alive => ctx'[c] = NoContext
          /\ ~(MultiSession /\ SingleInstance)' => ctx'[c].ref_count <= 1
          /\ ctx'[c].panicked => MayPanic'
          /\ ctx'[c].ref_count = Cardinality(SRefs(c)') + Cardinality(TRefs(c)')
      BY <1>1, <1>5, <1>16 DEF CtxOk, MultiSession, SingleInstance, MayPanic
    <3>3. /\ ctx'[c].busy => \E u \in Threads : InsideOf(u, c)'
          /\ \A v, u \in Threads : InsideOf(v, c)' /\ InsideOf(u, c)' => v = u
      BY <1>1, <1>5, <1>14, <3>0 DEF CtxOk, SameUse
    <3>4. \A v, u \in Threads : Destroys(v, c)' /\ Destroys(u, c)' => v = u
      BY <1>8, <3>0 DEF SameUse
    <3>5. ~InList(c)' /\ Destroys(t, c)'
      BY <1>14, <1>15
    <3> QED BY <2>1, <3>1, <3>3, <3>4, <3>5 DEF CtxOk
  <2>2. CASE d # c
    <3>1. \A e \in Contexts : e # c => ctx'[e] = ctx[e] /\ SameUse(t, e) /\ (InList(e)' <=> InList(e))
      BY <1>1, <1>14, <1>15 DEF SameUse
    <3> QED BY <1>1, <1>9, <1>16, <2>2, <3>1, OtherContexts
  <2> QED BY <2>1, <2>2
<1>19. ASSUME NEW u \in Threads PROVE ThOk(u)'
  <2>1. CASE u = t
    <3>1. \A d \in Contexts : waiting'[t] # <<"busy", d>>
      BY <1>1, TaSessionsAssumption
    <3>2. th'[t].op = "invoke" /\ c # None /\ th'[t].s = s /\ sess'[s].ctx = c
      BY <1>2, <1>4, <1>5, <1>7, <1>9, TaSessionsAssumption DEF Kept
    <3>3. ctx'[c].alive /\ ~InList(c)' /\ ctx'[c].ref_count = 1
      BY <1>1, <1>6, <1>15
    <3>4. ~InList(th[t].c)'
      BY <1>9, <3>3 DEF InList
    <3> QED BY <1>9, <1>14, <2>1, <3>1, <3>2, <3>3, <3>4 DEF ThOk, Working
  <2>2. CASE u # t
    <3>1. th'[u] = th[u] /\ Woken(u)
      BY <1>9, <1>11, <2>2 DEF Others
    <3>2. ASSUME NEW d \in Contexts PROVE KeepsFor(u, d)
      BY <1>1, <1>15 DEF KeepsFor
    <3> QED BY <1>1, <1>7, <3>1, <3>2, ViewKept
  <2> QED BY <2>1, <2>2
<1>20. SingleOk'
  <2>1. \A u \in Threads : u # t => (Inside(u)' <=> Inside(u))
    BY <1>9, StayingSame DEF Others
  <2>2. single # None => single \in Threads
    BY DEF Typed, TypeOK
  <2> QED BY <1>1, <1>14, <2>1, <2>2 DEF Safe, SingleOk, SingleInstance, Inside
<1>21. NoAssertionFails'
  <2>1. Cardinality({s}) = 1
    BY FS_Singleton
  <2> QED BY <1>6, <1>7, <2>1 DEF Unless, NoAssertionFails
<1> QED BY <1>12, <1>13, <1>15, <1>18, <1>19, <1>20, <1>21 DEF Safe

\* A context that nobody refers to any more.
LEMMA ContextGone ==
  ASSUME NEW c \in Contexts, ctx'[c] = NoContext, SRefs(c)' = {}, TRefs(c)' = {}, ~InList(c)',
         \A u \in Threads : ~InsideOf(u, c)' /\ ~Destroys(u, c)'
  PROVE  CtxOk(c)'
<1>1. /\ ~ctx'[c].alive /\ ctx'[c].ref_count = 0 /\ ~ctx'[c].panicked /\ ~ctx'[c].busy
  BY DEF NoContext
<1>2. Cardinality(SRefs(c)') = 0 /\ Cardinality(TRefs(c)') = 0
  BY FS_EmptySet
<1> QED BY <1>1, <1>2 DEF CtxOk

\* destroy_context: only this thread knows the context.
LEMMA DestroyContextKeeps ==
  ASSUME TInv, NEW t \in Threads, DestroyContext(t), kind' = kind
  PROVE  TInv'
<1> USE DEF TInv
<1>1. /\ th[t].pc = "destroying" /\ th[t] # Idle /\ waiting[t] = None
      /\ UNCHANGED <<kind, tee_ctxes, single, waiting, handles>>
  BY DEF DestroyContext, At, Idle
<1>2. InCall(th[t]) /\ th[t].op \in {"invoke", "close"}
  BY <1>1, CallSession DEF InCall, OpenPlaces, InvokePlaces, ClosePlaces
<1>3. PICK c \in Contexts : c = th[t].c
  BY <1>1, <1>2, Fields DEF Safe, ThOk, Working
<1>4. PICK s \in Sessions : s = th[t].s
  BY <1>1, CallSession
<1>5. /\ Destroys(t, c) /\ CtxOk(c) /\ ctx[c].alive /\ ~InList(c)
      /\ ctx[c].ref_count = IF th[t].op = "invoke" THEN 1 ELSE 0
  BY <1>1, <1>3 DEF Destroys, Safe, ThOk
<1>6. \A u \in Threads : u # t => ~User(u, c) /\ ~InsideOf(u, c) /\ ~Destroys(u, c) /\ waiting[u] # <<"busy", c>>
  BY <1>5, DestroyerAlone, InsideUses DEF CtxOk, Safe
<1>7. ~Inside(t) /\ \A d \in Contexts : ~InsideOf(t, d) /\ ~Releases(t, d) /\ (Destroys(t, d) <=> d = c)
  BY <1>1, <1>3 DEF Inside, InsideOf, Releases, Destroys
<1>8. CASE th[t].op = "invoke"
  <2>1. User(t, c) /\ AtWork(t, s) /\ sess[s].ctx = c /\ sess[s].listed
    <3>1. User(t, c) /\ sess[s].ctx = c
      BY <1>1, <1>3, <1>4, <1>8 DEF User, Working, Safe, ThOk
    <3>2. AtWork(t, s)
      BY <1>1, <1>4, <1>8 DEF AtWork, Holds
    <3> QED BY <1>1, <1>4, <3>1, <3>2, CallSession
  <2>2. SRefs(c) = {s} /\ TRefs(c) = {}
    <3>1. th[t].s \in SRefs(c) /\ ctx[c].ref_count <= 1
      BY <1>4, <1>5, <1>8, <2>1 DEF SRefs
    <3> QED BY <1>4, <2>1, <3>1, UserCounts
  <2>3. /\ ctx' = [d \in Contexts |-> IF d = c THEN NoContext ELSE ctx[d]]
        /\ sess' = [sess EXCEPT ![s].ctx = None] /\ th' = [th EXCEPT ![t].pc = "put"]
        /\ faults' = faults \cup (Unless(Waiters(<<"busy", c>>) = {}, "condvar") \cup Unless(Alive(c), "dangling"))
    BY <1>3, <1>4, <1>8 DEF DestroyContext, Goto, Check
  <2>4. /\ Others(t) /\ th' \in [Threads -> Thread] /\ Kept(t)
        /\ th'[t].pc = "put" /\ th'[t].c = c
    <3>1. "put" \in Places
      BY DEF Places, OpenPlaces
    <3> QED BY <1>3, <2>3, <3>1, GotoEffect
  <2>5. /\ TypeOK' /\ ctx'[c] = NoContext /\ \A d \in Contexts : d # c => ctx'[d] = ctx[d]
    <3>1. NoContext \in ContextType
      BY DEF NoContext, ContextType
    <3>2. /\ ctx' \in [Contexts -> ContextType] /\ ctx'[c] = NoContext
          /\ \A d \in Contexts : d # c => ctx'[d] = ctx[d]
      BY <2>3, <3>1 DEF Typed, TypeOK, ContextType
    <3>3. sess' \in [Sessions -> SessionType]
      BY <2>3, ZenonT(30) DEF Typed, TypeOK, SessionType
    <3> QED BY <1>1, <3>2, <3>3 DEF Typed, TypeOK, SessionType, ContextType
  <2>6. /\ \A x \in Sessions : SameSession(x) /\ sess'[x].listed = sess[x].listed
        /\ sess'[s].ctx = None /\ \A x \in Sessions : x # s => sess'[x] = sess[x]
    BY <2>1, <2>3 DEF Typed, TypeOK, SameSession
  <2>7. Typed'
    <3>1. InCall(th'[t])
      BY <1>2, <1>8, <2>4 DEF InCall, InvokePlaces, Kept
    <3>2. DOMAIN waiting' = Threads
      BY <1>1 DEF Typed
    <3> QED BY <1>1, <2>4, <2>5, <3>1, <3>2, TypedMove
  <2>8. \A x \in Sessions : SessOk(x)'
    <3>1. \A x \in Sessions : SameRole(t, x)
      BY <1>1, <1>8, <2>4 DEF SameRole, Refers, Owns, Holds, Drains, Opens, Kept
    <3> QED BY <1>1, <2>4, <2>6, <3>1, SessionsKept
  <2>9. ~Inside(t)' /\ \A d \in Contexts : ~InsideOf(t, d)' /\ ~Releases(t, d)' /\ ~Destroys(t, d)'
    BY <2>4 DEF Inside, InsideOf, Releases, Destroys
  <2>10. SRefs(c)' = {} /\ TRefs(c)' = {} /\ \A d \in Contexts : d # c => SRefs(d)' = SRefs(d)
    <3>1. TRefs(c)' = TRefs(c)
      BY <1>7, <2>4, <2>9, SameTRefs
    <3>2. ASSUME NEW d \in Contexts, d # c PROVE SRefs(d)' = SRefs(d)
      BY <2>1, <2>6, <3>2, TaSessionsAssumption DEF SRefs
    <3>3. SRefs(c)' = {}
      <4>1. \A x \in Sessions : x # s => ~(sess[x].listed /\ sess[x].ctx = c)
        BY <2>2 DEF SRefs
      <4>2. \A x \in Sessions : ~(sess'[x].listed /\ sess'[x].ctx = c)
        BY <2>6, <4>1, TaSessionsAssumption
      <4> QED BY <4>2 DEF SRefs
    <3> QED BY <2>2, <3>1, <3>2, <3>3
  <2>11. \A d \in Contexts : InList(d)' <=> InList(d)
    BY <1>1 DEF InList
  <2>12. ASSUME NEW d \in Contexts PROVE CtxOk(d)'
    <3>1. CASE d = c
      <4>1. \A u \in Threads : ~InsideOf(u, c)' /\ ~Destroys(u, c)'
        BY <1>6, <2>4, <2>9, StayingSame DEF Others, SameUse
      <4> QED BY <1>5, <2>5, <2>10, <2>11, <3>1, <4>1, ContextGone
    <3>2. CASE d # c
      <4>1. \A e \in Contexts : e # c => SameUse(t, e)
        BY <1>7, <2>9 DEF SameUse
      <4> QED BY <1>1, <2>4, <2>5, <2>10, <2>11, <3>2, <4>1, OtherContexts
    <3> QED BY <3>1, <3>2
  <2>13. ASSUME NEW u \in Threads PROVE ThOk(u)'
    <3>1. CASE u = t
      <4>1. \A d \in Contexts : waiting'[t] # <<"busy", d>>
        BY <1>1, TaSessionsAssumption
      <4>2. th'[t].op = "invoke"
        BY <1>8, <2>4 DEF Kept
      <4> QED BY <2>4, <2>9, <3>1, <4>1, <4>2 DEF ThOk, Working
    <3>2. CASE u # t
      <4>1. th'[u] = th[u] /\ Woken(u)
        BY <1>1, <2>4, <3>2 DEF Others, Woken
      <4>2. ASSUME NEW d \in Contexts PROVE KeepsFor(u, d)
        BY <1>1, <1>6, <2>5, <2>11, <3>2 DEF KeepsFor
      <4>3. AtWork(u, th[u].s) => sess'[th[u].s].ctx = sess[th[u].s].ctx
        <5>1. AtWork(u, th[u].s) => th[u].s \in Sessions
          BY CallSession, TaSessionsAssumption DEF AtWork, Opens, Holds, Idle
        <5>2. AtWork(u, th[u].s) => th[u].s # s
          BY <2>1, <3>2, WorkerAlone DEF Safe
        <5> QED BY <2>6, <5>1, <5>2
      <4> QED BY <1>1, <4>1, <4>2, <4>3, ViewKept
    <3> QED BY <3>1, <3>2
  <2>14. SingleOk' /\ ListOk'
    <3>1. \A u \in Threads : u # t => (Inside(u)' <=> Inside(u))
      BY <2>4, StayingSame DEF Others
    <3>2. single # None => single \in Threads
      BY DEF Typed, TypeOK
    <3>3. SingleOk'
      BY <1>1, <1>7, <3>1, <3>2 DEF Safe, SingleOk, SingleInstance, Inside
    <3>4. ListOk'
      BY <1>1 DEF Safe, ListOk
    <3> QED BY <3>3, <3>4
  <2>15. NoAssertionFails'
    <3>1. Alive(c) /\ Waiters(<<"busy", c>>) = {}
      BY <1>1, <1>5, <1>6, TaSessionsAssumption DEF Alive, Waiters
    <3> QED BY <2>3, <3>1 DEF Unless, NoAssertionFails
  <2> QED BY <2>7, <2>8, <2>12, <2>13, <2>14, <2>15 DEF Safe
<1>9. CASE th[t].op = "close"
  <2>1. SRefs(c) = {} /\ TRefs(c) = {}
    <3>1. Cardinality(SRefs(c)) + Cardinality(TRefs(c)) = 0
      BY <1>5, <1>9 DEF CtxOk
    <3>2. /\ Cardinality(SRefs(c)) \in Nat /\ Cardinality(TRefs(c)) \in Nat
          /\ IsFiniteSet(SRefs(c)) /\ IsFiniteSet(TRefs(c))
      BY FiniteSets
    <3>3. Cardinality(SRefs(c)) = 0 /\ Cardinality(TRefs(c)) = 0
      BY <3>1, <3>2
    <3> QED BY <3>2, <3>3, FS_EmptySet
  <2>3. /\ ctx' = [d \in Contexts |-> IF d = c THEN NoContext ELSE ctx[d]]
        /\ sess' = sess /\ Return(t)
        /\ faults' \subseteq faults \cup (Unless(Waiters(<<"busy", c>>) = {}, "condvar") \cup Unless(Alive(c), "dangling")
                                        \cup {"freed_session"})
    BY <1>3, <1>9 DEF DestroyContext, Finish, Check, Unless
  <2>4. /\ Others(t) /\ th' \in [Threads -> Thread] /\ th'[t] = Idle
        /\ th'[t].pc = "idle" /\ th'[t].s = None /\ th'[t].op = "none"
    BY <2>3, ReturnEffect
  <2>5. /\ TypeOK' /\ ctx'[c] = NoContext /\ \A d \in Contexts : d # c => ctx'[d] = ctx[d]
    BY <1>1, <2>3 DEF Typed, TypeOK, NoContext
  <2>7. Typed'
    <3>2. DOMAIN waiting' = Threads
      BY <1>1 DEF Typed
    <3> QED BY <1>1, <2>4, <2>5, <3>2, TypedMove
  <2>8. \A x \in Sessions : SessOk(x)'
    <3>0. ASSUME NEW x \in Sessions PROVE ~Refers(t, x) /\ ~Owns(t, x) /\ ~Holds(t, x) /\ ~Drains(t, x) /\ ~Opens(t, x)
      BY <1>1, <1>9 DEF Refers, Owns, Holds, Drains, Opens
    <3>1. ASSUME NEW x \in Sessions PROVE ~Refers(t, x)' /\ ~Owns(t, x)' /\ ~Holds(t, x)' /\ ~Drains(t, x)' /\ ~Opens(t, x)'
      BY <2>4, TaSessionsAssumption DEF Refers, Owns, Holds, Drains, Opens
    <3>2. \A x \in Sessions : SameRole(t, x) /\ SameSession(x)
      BY <2>3, <3>0, <3>1 DEF SameRole, SameSession
    <3> QED BY <1>1, <2>4, <3>2, SessionsKept
  <2>9. ~Inside(t)' /\ \A d \in Contexts : ~InsideOf(t, d)' /\ ~Releases(t, d)' /\ ~Destroys(t, d)'
    BY <2>4 DEF Inside, InsideOf, Releases, Destroys
  <2>10. SRefs(c)' = {} /\ TRefs(c)' = {} /\ \A d \in Contexts : SRefs(d)' = SRefs(d)
    <3>1. TRefs(c)' = TRefs(c)
      BY <1>7, <2>4, <2>9, SameTRefs
    <3>2. \A d \in Contexts : SRefs(d)' = SRefs(d)
      BY <2>3 DEF SRefs
    <3> QED BY <2>1, <3>1, <3>2
  <2>11. \A d \in Contexts : InList(d)' <=> InList(d)
    BY <1>1 DEF InList
  <2>12. ASSUME NEW d \in Contexts PROVE CtxOk(d)'
    <3>1. CASE d = c
      <4>1. \A u \in Threads : ~InsideOf(u, c)' /\ ~Destroys(u, c)'
        BY <1>6, <2>4, <2>9, StayingSame DEF Others, SameUse
      <4> QED BY <1>5, <2>5, <2>10, <2>11, <3>1, <4>1, ContextGone
    <3>2. CASE d # c
      <4>1. \A e \in Contexts : e # c => SameUse(t, e)
        BY <1>7, <2>9 DEF SameUse
      <4> QED BY <1>1, <2>4, <2>5, <2>10, <2>11, <3>2, <4>1, OtherContexts
    <3> QED BY <3>1, <3>2
  <2>13. ASSUME NEW u \in Threads PROVE ThOk(u)'
    <3>1. CASE u = t
      <4>1. Woken(t)
        BY <1>1 DEF Woken
      <4> QED BY <1>1, <2>4, <3>1, <4>1, IdleOk
    <3>2. CASE u # t
      <4>1. th'[u] = th[u] /\ Woken(u)
        BY <1>1, <2>4, <3>2 DEF Others, Woken
      <4>2. ASSUME NEW d \in Contexts PROVE KeepsFor(u, d)
        BY <1>1, <1>6, <2>5, <2>11, <3>2 DEF KeepsFor
      <4> QED BY <1>1, <2>3, <4>1, <4>2, ViewKept
    <3> QED BY <3>1, <3>2
  <2>14. SingleOk' /\ ListOk'
    <3>1. \A u \in Threads : u # t => (Inside(u)' <=> Inside(u))
      BY <2>4, StayingSame DEF Others
    <3>2. single # None => single \in Threads
      BY DEF Typed, TypeOK
    <3>3. SingleOk'
      BY <1>1, <1>7, <3>1, <3>2 DEF Safe, SingleOk, SingleInstance, Inside
    <3>4. ListOk'
      BY <1>1 DEF Safe, ListOk
    <3> QED BY <3>3, <3>4
  <2>15. NoAssertionFails'
    <3>1. Alive(c) /\ Waiters(<<"busy", c>>) = {}
      BY <1>1, <1>5, <1>6, TaSessionsAssumption DEF Alive, Waiters
    <3> QED BY <2>3, <3>1 DEF Unless, NoAssertionFails
  <2> QED BY <2>7, <2>8, <2>12, <2>13, <2>14, <2>15 DEF Safe
<1> QED BY <1>2, <1>8, <1>9

\* ldelf failed: the context goes, and nobody else knew it.
LEMMA TaNotLoadedKeeps ==
  ASSUME TInv, NEW t \in Threads, TaNotLoaded(t), kind' = kind
  PROVE  TInv'
<1> USE DEF TInv
<1>1. /\ th[t].pc = "loading" /\ th[t] # Idle /\ waiting[t] = None
      /\ UNCHANGED <<kind, single, handles>> /\ Broadcast(<<"init", None>>)
  BY DEF TaNotLoaded, At, Idle
<1>2. InCall(th[t]) /\ th[t].op = "open"
  BY <1>1, CallSession DEF InCall, OpenPlaces, InvokePlaces, ClosePlaces
<1>3. PICK c \in Contexts : c = th[t].c
  BY <1>1, Fields DEF Safe, ThOk, Working
<1>4. PICK s \in Sessions : s = th[t].s
  BY <1>1, CallSession
<1>5. /\ sess[s].ctx = c /\ ctx[c].ref_count = 1 /\ User(t, c) /\ CtxOk(c) /\ AtWork(t, s) /\ sess[s].listed
  <2>1. sess[s].ctx = c /\ ctx[c].ref_count = 1 /\ User(t, c)
    BY <1>1, <1>3, <1>4 DEF Safe, ThOk, Working, User
  <2>2. AtWork(t, s)
    BY <1>2, <1>4 DEF AtWork, Opens
  <2> QED BY <1>1, <1>4, <2>1, <2>2, CallSession DEF Safe
<1>6. /\ SRefs(c) = {s} /\ TRefs(c) = {}
      /\ \A u \in Threads : u # t => ~User(u, c) /\ ~InsideOf(u, c) /\ waiting[u] # <<"busy", c>>
      /\ \A u \in Threads : ~Destroys(u, c)
  <2>1. s \in SRefs(c)
    BY <1>5 DEF SRefs
  <2>2. SRefs(c) = {s} /\ TRefs(c) = {} /\ \A u \in Threads : u # t => ~User(u, c)
    BY <1>4, <1>5, <2>1, UserCounts
  <2>3. \A u \in Threads : ~Destroys(u, c)
    BY <1>1, <1>5, DestroyerAlone DEF Destroys
  <2> QED BY <2>2, <2>3, InsideUses DEF Safe
<1>7. ~Inside(t) /\ \A d \in Contexts : ~InsideOf(t, d) /\ ~Releases(t, d) /\ ~Destroys(t, d)
  BY <1>1, <1>2 DEF Inside, InsideOf, Releases, Destroys
<1>8. /\ ctx' = [ctx EXCEPT ![c] = NoContext] /\ tee_ctxes' = Without(tee_ctxes, c)
      /\ sess' = [sess EXCEPT ![s].ctx = None] /\ th' = [th EXCEPT ![t].pc = "give_up"]
      /\ faults' = faults \cup Unless(Waiters(<<"busy", c>>) = {}, "condvar")
  BY <1>3, <1>4 DEF TaNotLoaded, Goto, Check
<1>9. /\ Others(t) /\ th' \in [Threads -> Thread] /\ Kept(t)
      /\ th'[t].pc = "give_up" /\ th'[t].c = c
  <2>1. "give_up" \in Places
    BY DEF Places, OpenPlaces
  <2> QED BY <1>3, <1>8, <2>1, GotoEffect
<1>10. /\ TypeOK' /\ ctx'[c] = NoContext /\ \A d \in Contexts : d # c => ctx'[d] = ctx[d]
  <2>1. NoContext \in ContextType
    BY DEF NoContext, ContextType
  <2>2. /\ ctx' \in [Contexts -> ContextType] /\ ctx'[c] = NoContext
        /\ \A d \in Contexts : d # c => ctx'[d] = ctx[d]
    BY <1>8, <2>1 DEF Typed, TypeOK, ContextType
  <2>3. sess' \in [Sessions -> SessionType]
    BY <1>8, SMTT(30) DEF Typed, TypeOK, SessionType
  <2> QED BY <1>1, <2>2, <2>3 DEF Typed, TypeOK, SessionType, ContextType
<1>11. /\ \A x \in Sessions : SameSession(x) /\ sess'[x].listed = sess[x].listed
       /\ sess'[s].ctx = None /\ \A x \in Sessions : x # s => sess'[x] = sess[x]
  BY <1>5, <1>8 DEF Typed, TypeOK, SameSession
<1>12. DOMAIN waiting' = Threads /\ \A u \in Threads : Woken(u)
  BY <1>1, BroadcastWakes
<1>13. Typed'
  <2>1. InCall(th'[t])
    BY <1>2, <1>9 DEF InCall, OpenPlaces, Kept
  <2> QED BY <1>1, <1>9, <1>10, <1>12, <2>1, TypedMove
<1>14. \A x \in Sessions : SessOk(x)'
  <2>1. \A x \in Sessions : SameRole(t, x)
    BY <1>1, <1>2, <1>9 DEF SameRole, Refers, Owns, Holds, Drains, Opens, Kept
  <2> QED BY <1>1, <1>9, <1>11, <2>1, SessionsKept
<1>15. ~Inside(t)' /\ \A d \in Contexts : ~InsideOf(t, d)' /\ ~Releases(t, d)' /\ ~Destroys(t, d)'
  BY <1>9 DEF Inside, InsideOf, Releases, Destroys
<1>16. SRefs(c)' = {} /\ TRefs(c)' = {} /\ \A d \in Contexts : d # c => SRefs(d)' = SRefs(d)
  <2>1. TRefs(c)' = TRefs(c)
    BY <1>7, <1>9, <1>15, SameTRefs
  <2>2. ASSUME NEW d \in Contexts, d # c PROVE SRefs(d)' = SRefs(d)
    BY <1>5, <1>11, <2>2, TaSessionsAssumption DEF SRefs
  <2>3. SRefs(c)' = {}
    <3>1. \A x \in Sessions : x # s => ~(sess[x].listed /\ sess[x].ctx = c)
      BY <1>6 DEF SRefs
    <3>2. \A x \in Sessions : ~(sess'[x].listed /\ sess'[x].ctx = c)
      BY <1>11, <3>1, TaSessionsAssumption
    <3> QED BY <3>2 DEF SRefs
  <2> QED BY <1>6, <2>1, <2>2, <2>3
<1>17. ListOk' /\ \A d \in Contexts : InList(d)' <=> InList(d) /\ d # c
  BY <1>8, ListWithout DEF Safe
<1>18. ASSUME NEW d \in Contexts PROVE CtxOk(d)'
  <2>1. CASE d = c
    <3>1. \A u \in Threads : ~InsideOf(u, c)' /\ ~Destroys(u, c)'
      BY <1>6, <1>9, <1>15, StayingSame DEF Others, SameUse
    <3> QED BY <1>10, <1>16, <1>17, <2>1, <3>1, ContextGone
  <2>2. CASE d # c
    <3>1. \A e \in Contexts : e # c => SameUse(t, e) /\ (InList(e)' <=> InList(e))
      BY <1>7, <1>15, <1>17 DEF SameUse
    <3> QED BY <1>1, <1>9, <1>10, <1>16, <2>2, <3>1, OtherContexts
  <2> QED BY <2>1, <2>2
<1>19. ASSUME NEW u \in Threads PROVE ThOk(u)'
  <2>1. CASE u = t
    <3>1. \A d \in Contexts : waiting'[t] # <<"busy", d>>
      BY <1>1, <1>12, TaSessionsAssumption DEF Woken
    <3>2. th'[t].op = "open" /\ th'[t].s = s
      BY <1>2, <1>4, <1>9 DEF Kept
    <3> QED BY <1>9, <1>11, <1>15, <2>1, <3>1, <3>2 DEF ThOk, Working
  <2>2. CASE u # t
    <3>1. th'[u] = th[u] /\ Woken(u)
      BY <1>9, <1>12, <2>2 DEF Others
    <3>2. ASSUME NEW d \in Contexts PROVE KeepsFor(u, d)
      BY <1>1, <1>6, <1>10, <1>17, <2>2 DEF KeepsFor
    <3>3. AtWork(u, th[u].s) => sess'[th[u].s].ctx = sess[th[u].s].ctx
      <4>1. AtWork(u, th[u].s) => th[u].s \in Sessions
        BY CallSession, TaSessionsAssumption DEF AtWork, Opens, Holds, Idle
      <4>2. AtWork(u, th[u].s) => th[u].s # s
        BY <1>5, <2>2, WorkerAlone DEF Safe
      <4> QED BY <1>11, <4>1, <4>2
    <3> QED BY <1>1, <3>1, <3>2, <3>3, ViewKept
  <2> QED BY <2>1, <2>2
<1>20. SingleOk'
  <2>1. \A u \in Threads : u # t => (Inside(u)' <=> Inside(u))
    BY <1>9, StayingSame DEF Others
  <2>2. single # None => single \in Threads
    BY DEF Typed, TypeOK
  <2> QED BY <1>1, <1>7, <2>1, <2>2 DEF Safe, SingleOk, SingleInstance, Inside
<1>21. NoAssertionFails'
  <2>1. Waiters(<<"busy", c>>) = {}
    BY <1>1, <1>6, TaSessionsAssumption DEF Waiters
  <2> QED BY <1>8, <2>1 DEF Unless, NoAssertionFails
<1> QED BY <1>13, <1>14, <1>17, <1>18, <1>19, <1>20, <1>21 DEF Safe

\* Nothing refers to a context that is not there.
LEMMA Unused ==
  ASSUME Typed, Safe, NEW c \in Contexts, ~ctx[c].alive
  PROVE  /\ SRefs(c) = {} /\ TRefs(c) = {} /\ ~InList(c)
         /\ \A u \in Threads : ~User(u, c) /\ ~InsideOf(u, c) /\ ~Destroys(u, c)
<1>1. CtxOk(c) /\ ctx[c] = NoContext
  BY DEF Safe, CtxOk
<1>2. ctx[c].ref_count = 0
  BY <1>1 DEF NoContext
<1>3. SRefs(c) = {} /\ TRefs(c) = {}
  <2>1. Cardinality(SRefs(c)) + Cardinality(TRefs(c)) = 0
    BY <1>1, <1>2 DEF CtxOk
  <2>2. /\ Cardinality(SRefs(c)) \in Nat /\ Cardinality(TRefs(c)) \in Nat
        /\ IsFiniteSet(SRefs(c)) /\ IsFiniteSet(TRefs(c))
    BY FiniteSets
  <2>3. Cardinality(SRefs(c)) = 0 /\ Cardinality(TRefs(c)) = 0
    BY <2>1, <2>2
  <2> QED BY <2>2, <2>3, FS_EmptySet
<1>4. ~InList(c)
  BY <1>1 DEF CtxOk
<1>5. \A u \in Threads : ~User(u, c)
  BY UserCounts
<1>6. \A u \in Threads : ~InsideOf(u, c)
  BY <1>5, InsideUses DEF Safe
<1>7. \A u \in Threads : ~Destroys(u, c)
  BY DEF Safe, ThOk, Destroys
<1> QED BY <1>3, <1>4, <1>5, <1>6, <1>7

\* A new context goes into the list.
LEMMA LoadTaKeeps ==
  ASSUME TInv, NEW t \in Threads, LoadTa(t), kind' = kind
  PROVE  TInv'
<1> USE DEF TInv
<1>1. /\ th[t].pc = "load" /\ th[t] # Idle /\ waiting[t] = None
      /\ UNCHANGED <<kind, single, waiting, handles, faults>>
  BY DEF LoadTa, At, Idle
<1>2. InCall(th[t]) /\ th[t].op = "open"
  BY <1>1, CallSession DEF InCall, OpenPlaces, InvokePlaces, ClosePlaces
<1> DEFINE New == [NoContext EXCEPT !.alive = TRUE, !.initializing = TRUE, !.ref_count = 1]
<1>8. New \in ContextType /\ New.alive /\ New.initializing /\ New.ref_count = 1 /\ ~New.busy /\ ~New.panicked
  BY DEF ContextType, NoContext
<1>p. \E c \in Contexts :
        /\ ~ctx[c].alive /\ ctx' = [ctx EXCEPT ![c] = New]
        /\ sess' = [sess EXCEPT ![th[t].s].ctx = c]
        /\ tee_ctxes' = Append(tee_ctxes, c)
        /\ th' = [th EXCEPT ![t].c = c, ![t].pc = "loading"]
  BY DEF LoadTa
<1> HIDE DEF New
<1>3. PICK c \in Contexts :
        /\ ~ctx[c].alive /\ ctx' = [ctx EXCEPT ![c] = New]
        /\ sess' = [sess EXCEPT ![th[t].s].ctx = c]
        /\ tee_ctxes' = Append(tee_ctxes, c)
        /\ th' = [th EXCEPT ![t].c = c, ![t].pc = "loading"]
  BY <1>p
<1>4. PICK s \in Sessions : s = th[t].s
  BY <1>1, CallSession
<1>s. sess' = [sess EXCEPT ![s].ctx = c]
  BY <1>3, <1>4
<1>5. sess[s].ctx = None /\ AtWork(t, s) /\ sess[s].listed
  <2>1. sess[s].ctx = None /\ AtWork(t, s)
    BY <1>1, <1>2, <1>4 DEF Safe, ThOk, AtWork, Opens
  <2> QED BY <1>1, <1>4, <2>1, CallSession
<1>6. /\ SRefs(c) = {} /\ TRefs(c) = {} /\ ~InList(c)
      /\ \A u \in Threads : ~User(u, c) /\ ~InsideOf(u, c) /\ ~Destroys(u, c)
  BY <1>3, Unused
<1>7. ~Inside(t) /\ \A d \in Contexts : ~InsideOf(t, d) /\ ~Releases(t, d) /\ ~Destroys(t, d)
  BY <1>1, <1>2 DEF Inside, InsideOf, Releases, Destroys
<1>9. /\ Others(t) /\ th' \in [Threads -> Thread] /\ Kept(t)
      /\ th'[t].pc = "loading" /\ th'[t].c = c
  <2>1. "loading" \in Places /\ c \in Contexts \cup {None}
    BY DEF Places, OpenPlaces
  <2> QED BY <1>3, <2>1, ContextEffect
<1>10. /\ TypeOK' /\ ctx'[c] = New /\ \A d \in Contexts : d # c => ctx'[d] = ctx[d]
  <2>2. /\ ctx' \in [Contexts -> ContextType] /\ ctx'[c] = New
        /\ \A d \in Contexts : d # c => ctx'[d] = ctx[d]
    BY <1>3, <1>8 DEF Typed, TypeOK, ContextType
  <2>3. sess' \in [Sessions -> SessionType]
    BY <1>s DEF Typed, TypeOK, SessionType
  <2> QED BY <1>1, <2>2, <2>3 DEF Typed, TypeOK, SessionType, ContextType
<1>11. /\ \A x \in Sessions : SameSession(x) /\ sess'[x].listed = sess[x].listed
       /\ sess'[s].ctx = c /\ \A x \in Sessions : x # s => sess'[x] = sess[x]
  BY <1>5, <1>s DEF Typed, TypeOK, SameSession
<1>12. DOMAIN waiting' = Threads /\ \A u \in Threads : Woken(u)
  BY <1>1, NoneWoken
<1>13. Typed'
  <2>1. InCall(th'[t])
    BY <1>2, <1>9 DEF InCall, OpenPlaces, Kept
  <2> QED BY <1>1, <1>9, <1>10, <1>12, <2>1, TypedMove
<1>14. \A x \in Sessions : SessOk(x)'
  <2>1. \A x \in Sessions : SameRole(t, x)
    BY <1>1, <1>2, <1>9 DEF SameRole, Refers, Owns, Holds, Drains, Opens, Kept
  <2> QED BY <1>1, <1>9, <1>11, <2>1, SessionsKept
<1>15. ~Inside(t)' /\ \A d \in Contexts : ~InsideOf(t, d)' /\ ~Releases(t, d)' /\ ~Destroys(t, d)'
  BY <1>2, <1>9 DEF Inside, InsideOf, Releases, Destroys, Kept
<1>16. SRefs(c)' = {s} /\ TRefs(c)' = {} /\ \A d \in Contexts : d # c => SRefs(d)' = SRefs(d)
  <2>1. TRefs(c)' = TRefs(c)
    BY <1>7, <1>9, <1>15, SameTRefs
  <2>2. ASSUME NEW d \in Contexts, d # c PROVE SRefs(d)' = SRefs(d)
    BY <1>5, <1>11, <2>2, TaSessionsAssumption DEF SRefs
  <2>3. SRefs(c)' = {s}
    <3>1. \A x \in Sessions : ~(sess[x].listed /\ sess[x].ctx = c)
      BY <1>6 DEF SRefs
    <3>2. \A x \in Sessions : sess'[x].listed /\ sess'[x].ctx = c <=> x = s
      BY <1>5, <1>11, <3>1
    <3> QED BY <3>2 DEF SRefs
  <2> QED BY <1>6, <2>1, <2>2, <2>3
<1>17. ListOk' /\ \A d \in Contexts : InList(d)' <=> InList(d) \/ d = c
  BY <1>3, <1>6, ListAppend DEF Safe
<1>18. ASSUME NEW d \in Contexts PROVE CtxOk(d)'
  <2>1. CASE d = c
    <3>1. \A u \in Threads : ~InsideOf(u, c)' /\ ~Destroys(u, c)'
      BY <1>6, <1>9, <1>15, StayingSame DEF Others, SameUse
    <3>2. Cardinality(SRefs(c)') = 1 /\ Cardinality(TRefs(c)') = 0
      BY <1>16, FS_Singleton, FS_EmptySet
    <3>3. ctx'[c].alive /\ ctx'[c].ref_count = 1 /\ ~ctx'[c].busy /\ ~ctx'[c].panicked /\ InList(c)'
      BY <1>8, <1>10, <1>17
    <3> QED BY <2>1, <3>1, <3>2, <3>3 DEF CtxOk
  <2>2. CASE d # c
    <3>1. \A e \in Contexts : e # c => SameUse(t, e) /\ (InList(e)' <=> InList(e))
      BY <1>7, <1>15, <1>17 DEF SameUse
    <3> QED BY <1>1, <1>9, <1>10, <1>16, <2>2, <3>1, OtherContexts
  <2> QED BY <2>1, <2>2
<1>19. ASSUME NEW u \in Threads PROVE ThOk(u)'
  <2>1. CASE u = t
    <3>1. \A d \in Contexts : waiting'[t] # <<"busy", d>>
      BY <1>1, TaSessionsAssumption
    <3>2. th'[t].op = "open" /\ th'[t].s = s /\ c # None
      BY <1>2, <1>4, <1>9, TaSessionsAssumption DEF Kept
    <3>3. ctx'[c].initializing /\ ctx'[c].ref_count = 1 /\ ~ctx'[c].panicked
      BY <1>8, <1>10
    <3> QED BY <1>9, <1>11, <1>15, <2>1, <3>1, <3>2, <3>3 DEF ThOk, Working
  <2>2. CASE u # t
    <3>1. th'[u] = th[u] /\ Woken(u)
      BY <1>9, <1>12, <2>2 DEF Others
    <3>2. ASSUME NEW d \in Contexts PROVE KeepsFor(u, d)
      BY <1>1, <1>6, <1>10, <1>17, <2>2 DEF KeepsFor
    <3>3. AtWork(u, th[u].s) => sess'[th[u].s].ctx = sess[th[u].s].ctx
      <4>1. AtWork(u, th[u].s) => th[u].s \in Sessions
        BY CallSession, TaSessionsAssumption DEF AtWork, Opens, Holds, Idle
      <4>2. AtWork(u, th[u].s) => th[u].s # s
        BY <1>5, <2>2, WorkerAlone DEF Safe
      <4> QED BY <1>11, <4>1, <4>2
    <3> QED BY <1>1, <3>1, <3>2, <3>3, ViewKept
  <2> QED BY <2>1, <2>2
<1>20. SingleOk'
  <2>1. \A u \in Threads : u # t => (Inside(u)' <=> Inside(u))
    BY <1>9, StayingSame DEF Others
  <2>2. single # None => single \in Threads
    BY DEF Typed, TypeOK
  <2> QED BY <1>1, <1>7, <2>1, <2>2 DEF Safe, SingleOk, SingleInstance, Inside
<1> QED BY <1>1, <1>13, <1>14, <1>17, <1>18, <1>19, <1>20 DEF Safe, NoAssertionFails

\* The TA is there: the session shares its context.
LEMMA FoundKeeps ==
  ASSUME KindsHandled, TInv, NEW t \in Threads, NEW s \in Sessions, NEW n, NEW l, NEW b,
         NEW c \in Contexts, InList(c), SingleInstance, ~ctx[c].initializing,
         MultiSession \/ ctx[c].ref_count = 0,
         LookStep(t, s, n, l, b, "initialized", c), ctx' = [ctx EXCEPT ![c].ref_count = @ + 1],
         UNCHANGED <<kind, tee_ctxes, single, waiting, handles, faults>>
  PROVE  TInv'
<1> USE DEF TInv
<1>1. th'[t].pc = "initialized" /\ th'[t].op = "open" /\ th'[t].s = s /\ Others(t) /\ th' \in [Threads -> Thread]
  BY DEF LookStep
<1>2. LookResult(t, s, c)
  BY LookedSession
<1>3. /\ SessOk(s)' /\ sess'[s].listed /\ sess'[s].ctx = c
      /\ \A d \in Contexts : ~(sess[s].listed /\ sess[s].ctx = d)
      /\ sess' \in [Sessions -> SessionType]
      /\ \A x \in Sessions : x # s => sess'[x] = sess[x]
      /\ \A u \in Threads : u # t => ~AtWork(u, s)
      /\ th[t].s \in {s, None} /\ th[t].pc \in {"idle", "find"} /\ th[t].op \in {"none", "open"}
  BY <1>2 DEF LookResult
<1>4. CtxOk(c) /\ ctx[c].alive /\ ctx[c].ref_count \in Nat
  BY Fields DEF Safe, CtxOk
<1>5. ~ctx[c].panicked
  <2>1. SUFFICES ASSUME ctx[c].panicked PROVE FALSE
    OBVIOUS
  <2>2. MayPanic
    BY <1>4, <2>1 DEF CtxOk
  <2>3. ~(KeepAlive /\ SingleInstance) /\ ~(MultiSession /\ SingleInstance)
    BY <2>2, PanicsAlone
  <2>4. ctx[c].ref_count > 0
    BY <1>4, <2>3 DEF CtxOk
  <2> QED BY <2>3, <2>4
<1>6. \A u \in Threads : ~Destroys(u, c) /\ ~(User(u, c) /\ th[u].pc = "loading")
  <2>1. \A u \in Threads : ~Destroys(u, c)
    <3>1. SUFFICES ASSUME NEW u \in Threads, Destroys(u, c) PROVE FALSE
      OBVIOUS
    <3>2. th[u].pc = "destroying" /\ th[u].c = c
      BY <3>1 DEF Destroys
    <3> QED BY <3>2 DEF Safe, ThOk
  <2>2. \A u \in Threads : User(u, c) /\ th[u].pc = "loading" => th[u].c = c
    BY DEF User, Releases
  <2>3. \A u \in Threads : th[u].pc = "loading" /\ th[u].c = c => FALSE
    BY DEF Safe, ThOk
  <2> QED BY <2>1, <2>2, <2>3
<1>7. /\ ctx' \in [Contexts -> ContextType] /\ \A d \in Contexts : d # c => ctx'[d] = ctx[d]
      /\ ctx'[c].panicked = ctx[c].panicked /\ ctx'[c].alive = ctx[c].alive
      /\ ctx'[c].ref_count = ctx[c].ref_count + 1 /\ ctx'[c].busy = ctx[c].busy
  <2> DEFINE k == ctx[c].ref_count + 1
  <2>1. k \in Nat /\ ctx' = [ctx EXCEPT ![c].ref_count = k]
    BY <1>4
  <2> HIDE DEF k
  <2>2. /\ ctx' \in [Contexts -> ContextType] /\ \A d \in Contexts : d # c => ctx'[d] = ctx[d]
        /\ ctx'[c].panicked = ctx[c].panicked /\ ctx'[c].alive = ctx[c].alive
        /\ ctx'[c].ref_count = k /\ ctx'[c].busy = ctx[c].busy
    BY <2>1 DEF Typed, TypeOK, ContextType
  <2> QED BY <2>2 DEF k
<1>8. DOMAIN waiting' = Threads /\ \A u \in Threads : Woken(u)
  BY NoneWoken
<1>9. Typed'
  <2>1. InCall(th'[t]) /\ TypeOK'
    BY <1>1, <1>3, <1>7 DEF InCall, OpenPlaces, Typed, TypeOK, SessionType, ContextType
  <2> QED BY <1>1, <1>8, <2>1, TypedMove
<1>10. ASSUME NEW x \in Sessions PROVE SessOk(x)'
  <2>1. CASE x = s
    BY <1>3, <2>1
  <2>2. CASE x # s
    <3>1. SameRole(t, x)
      BY <1>1, <1>3, <2>2, OtherSession, TaSessionsAssumption
    <3>2. \A u \in Threads : SameRole(u, x)
      BY <1>1, <3>1, StayingSame DEF Others
    <3> QED BY <1>3, <2>2, <3>2, SessionFrame DEF SameSession, Safe
  <2> QED BY <2>1, <2>2
<1>11. ~Inside(t)' /\ ~Inside(t) /\ \A d \in Contexts : SameUse(t, d)
  BY <1>1, <1>3 DEF SameUse, Releases, InsideOf, Inside, Destroys
<1>12. \A d \in Contexts : InList(d)' <=> InList(d)
  BY DEF InList
<1>13. SRefs(c)' = SRefs(c) \cup {s} /\ s \notin SRefs(c) /\ \A d \in Contexts : d # c => SRefs(d)' = SRefs(d)
  BY <1>3 DEF SRefs
<1>14. ctx'[c].ref_count = Cardinality(SRefs(c)') + Cardinality(TRefs(c)')
  <2>1. TRefs(c)' = TRefs(c)
    BY <1>1, <1>11, SameTRefs DEF SameUse
  <2>2. IsFiniteSet(SRefs(c)) /\ Cardinality(SRefs(c)) \in Nat /\ Cardinality(TRefs(c)) \in Nat
    BY FiniteSets
  <2>3. Cardinality(SRefs(c)') = Cardinality(SRefs(c)) + 1
    BY <1>13, <2>2, FS_AddElement
  <2>4. ctx[c].ref_count = Cardinality(SRefs(c)) + Cardinality(TRefs(c))
    BY <1>4 DEF CtxOk
  <2>5. ctx[c].ref_count + 1 = Cardinality(SRefs(c)') + Cardinality(TRefs(c)')
    BY <2>1, <2>2, <2>3, <2>4
  <2> QED BY <1>7, <2>5
<1>15. ASSUME NEW d \in Contexts PROVE CtxOk(d)'
  <2>1. CASE d = c
    <3>0. \A u \in Threads : (InsideOf(u, c)' <=> InsideOf(u, c)) /\ (Destroys(u, c)' <=> Destroys(u, c))
      BY <1>1, <1>11, StayingSame DEF Others, SameUse
    <3>1. /\ ~(MultiSession /\ SingleInstance)' => ctx'[c].ref_count <= 1
          /\ InList(c)' => ctx'[c].alive /\ ((KeepAlive /\ SingleInstance)' \/ ctx'[c].ref_count > 0)
      BY <1>4, <1>7 DEF MultiSession, SingleInstance
    <3>2. /\ ~ctx'[c].alive => ctx'[c] = NoContext
          /\ ctx'[c].panicked => MayPanic'
      BY <1>4, <1>5, <1>7
    <3>3. /\ ctx'[c].busy => \E u \in Threads : InsideOf(u, c)'
          /\ \A v, u \in Threads : InsideOf(v, c)' /\ InsideOf(u, c)' => v = u
          /\ \A v, u \in Threads : Destroys(v, c)' /\ Destroys(u, c)' => v = u
          /\ ctx'[c].alive => InList(c)' \/ \E u \in Threads : Destroys(u, c)'
      BY <1>4, <1>7, <1>12, <3>0 DEF CtxOk
    <3> QED BY <1>14, <2>1, <3>1, <3>2, <3>3 DEF CtxOk
  <2>2. CASE d # c
    BY <1>1, <1>7, <1>11, <1>12, <1>13, <2>2, OtherContexts
  <2> QED BY <2>1, <2>2
<1>16. ASSUME NEW u \in Threads PROVE ThOk(u)'
  <2>1. CASE u = t
    <3>1. \A d \in Contexts : waiting'[t] # <<"busy", d>>
      BY <1>3 DEF Safe, ThOk
    <3>2. c # None /\ ~ctx'[c].panicked
      BY <1>5, <1>7, TaSessionsAssumption
    <3> QED BY <1>1, <1>3, <1>11, <2>1, <3>1, <3>2 DEF ThOk, Working
  <2>2. CASE u # t
    <3>1. th'[u] = th[u] /\ Woken(u)
      BY <1>1, <1>8, <2>2 DEF Others
    <3>2. ASSUME NEW d \in Contexts PROVE KeepsFor(u, d)
      <4>1. CASE d = c
        BY <1>6, <1>7, <4>1 DEF KeepsFor
      <4>2. CASE d # c
        BY <1>7, <1>12, <4>2 DEF KeepsFor
      <4> QED BY <4>1, <4>2
    <3>3. AtWork(u, th[u].s) => sess'[th[u].s].ctx = sess[th[u].s].ctx
      <4>1. AtWork(u, th[u].s) => th[u].s \in Sessions
        BY CallSession, TaSessionsAssumption DEF AtWork, Opens, Holds, Idle
      <4>2. AtWork(u, th[u].s) => th[u].s # s
        BY <1>3, <2>2
      <4> QED BY <1>3, <4>1, <4>2
    <3> QED BY <3>1, <3>2, <3>3, ViewKept
  <2> QED BY <2>1, <2>2
<1>17. SingleOk'
  <2>1. \A u \in Threads : u # t => (Inside(u)' <=> Inside(u))
    BY <1>1, StayingSame DEF Others
  <2>2. single # None => single \in Threads
    BY DEF Typed, TypeOK
  <2> QED BY <1>11, <2>1, <2>2 DEF Safe, SingleOk, SingleInstance, Inside
<1>18. ListOk'
  BY DEF Safe, ListOk
<1> QED BY <1>9, <1>10, <1>15, <1>16, <1>17, <1>18 DEF Safe, NoAssertionFails

\* The first context of a list that is not empty.
LEMMA FirstOfList ==
  ASSUME ListOk, tee_ctxes # << >>
  PROVE  tee_ctxes[1] \in Contexts /\ InList(tee_ctxes[1])
<1>1. tee_ctxes \in Seq(Contexts) /\ Len(tee_ctxes) \in Nat /\ Len(tee_ctxes) # 0
  BY LenProperties, EmptySeq DEF ListOk
<1>2. 1 \in 1..Len(tee_ctxes)
  BY <1>1
<1> QED BY <1>1, <1>2, ElementOfSeq DEF InList

\* A session whose fields are known.
LEMMA RecordOf ==
  ASSUME NEW c, NEW n, NEW l, NEW b,
         NEW r \in [listed : {TRUE}, ctx : {c}, ref_count : {n}, lock_thread : {l}, unlink : {b}]
  PROVE  r = [listed |-> TRUE, ctx |-> c, ref_count |-> n, lock_thread |-> l, unlink |-> b]
  OBVIOUS

\* It is given another context,
LEMMA RecordSet ==
  ASSUME NEW c, NEW n, NEW l, NEW b
  PROVE  [[listed |-> TRUE, ctx |-> None, ref_count |-> n, lock_thread |-> l, unlink |-> b] EXCEPT !.ctx = c]
           = [listed |-> TRUE, ctx |-> c, ref_count |-> n, lock_thread |-> l, unlink |-> b]
<1> DEFINE e == [[listed |-> TRUE, ctx |-> None, ref_count |-> n, lock_thread |-> l, unlink |-> b] EXCEPT !.ctx = c]
<1>1. e \in [listed : {TRUE}, ctx : {c}, ref_count : {n}, lock_thread : {l}, unlink : {b}]
  OBVIOUS
<1> HIDE DEF e
<1>2. e = [listed |-> TRUE, ctx |-> c, ref_count |-> n, lock_thread |-> l, unlink |-> b]
  BY <1>1, RecordOf
<1> QED BY <1>2 DEF e

\* after it was put among the sessions.
Listed(S, s, c, n, l, b) ==
  S = [sess EXCEPT ![s] = [listed |-> TRUE, ctx |-> c, ref_count |-> n, lock_thread |-> l, unlink |-> b]]
Given(S, s, c) == sess' = [S EXCEPT ![s].ctx = c]
\* The session is in the list with the context it was given.
LEMMA ContextSet ==
  ASSUME Typed, NEW s \in Sessions, NEW c, NEW n, NEW l, NEW b, NEW S,
         Listed(S, s, None, n, l, b), Given(S, s, c)
  PROVE  sess' = [sess EXCEPT ![s] = [listed |-> TRUE, ctx |-> c, ref_count |-> n, lock_thread |-> l, unlink |-> b]]
<1> DEFINE r == [listed |-> TRUE, ctx |-> None, ref_count |-> n, lock_thread |-> l, unlink |-> b]
           q == [listed |-> TRUE, ctx |-> c, ref_count |-> n, lock_thread |-> l, unlink |-> b]
           e == [r EXCEPT !.ctx = c]
<1>1. e = q
  BY RecordSet
<1>2. S = [sess EXCEPT ![s] = r] /\ DOMAIN sess = Sessions /\ sess = [x \in Sessions |-> sess[x]]
  BY DEF Typed, TypeOK, Listed
<1> HIDE DEF r, q, e
<1>3. S = [x \in Sessions |-> IF x = s THEN r ELSE sess[x]]
  BY <1>2
<1>4. sess' = [x \in Sessions |-> IF x = s THEN [S[s] EXCEPT !.ctx = c] ELSE S[x]]
  BY <1>3 DEF Given
<1>5. S[s] = r /\ \A x \in Sessions : x # s => S[x] = sess[x]
  BY <1>3
<1>6. [S[s] EXCEPT !.ctx = c] = e
  BY <1>5 DEF e
<1>7. sess' = [x \in Sessions |-> IF x = s THEN q ELSE sess[x]]
  BY <1>1, <1>4, <1>5, <1>6
<1>8. sess' = [sess EXCEPT ![s] = q]
  BY <1>2, <1>7
<1> QED BY <1>8 DEF q

\* tee_ta_init_session_with_context: the lookup of the TA of a session.
LEMMA FindContextKeeps ==
  ASSUME KindsHandled, TInv, NEW t \in Threads, NEW s \in Sessions, NEW n \in Nat,
         NEW l \in Threads \cup {None}, NEW b \in BOOLEAN, Looked(t, s, n, l, b), NEW S,
         S = [sess EXCEPT ![s] = [listed |-> TRUE, ctx |-> None, ref_count |-> n, lock_thread |-> l, unlink |-> b]],
         FindContext(t, s, S), kind' = kind
  PROVE  TInv'
<1> USE DEF TInv
<1> DEFINE c == tee_ctxes[1]
           found == tee_ctxes # << >>
           OpenAt(label) == th' = [th EXCEPT ![t] = [Idle EXCEPT !.pc = label, !.op = "open", !.s = s]]
<1>1. UNCHANGED <<kind, tee_ctxes, single, handles, faults>>
  BY DEF FindContext
<1>2. ASSUME NEW p \in {"load", "find", "give_up"}, OpenAt(p), sess' = S PROVE LookStep(t, s, n, l, b, p, None)
  BY <1>1, <1>2, OpenEffect DEF LookStep
<1>3. CASE OpenAt("load") /\ sess' = S /\ UNCHANGED <<ctx, waiting>>
  <2>1. LookStep(t, s, n, l, b, "load", None)
    BY <1>2, <1>3
  <2> QED BY <1>1, <1>3, <2>1, NotFoundKeeps
<1>4. CASE Wait(t, <<"init", None>>) /\ OpenAt("find") /\ sess' = S /\ UNCHANGED ctx
  <2>1. LookStep(t, s, n, l, b, "find", None)
    BY <1>2, <1>4
  <2> QED BY <1>1, <1>4, <2>1, NotFoundKeeps
<1>5. CASE OpenAt("give_up") /\ sess' = S /\ UNCHANGED <<ctx, waiting>>
  <2>1. LookStep(t, s, n, l, b, "give_up", None)
    BY <1>2, <1>5
  <2> QED BY <1>1, <1>5, <2>1, NotFoundKeeps
<1>6. CASE /\ SingleInstance /\ found /\ ~ctx[c].initializing
           /\ MultiSession \/ ctx[c].ref_count = 0
           /\ ctx' = [ctx EXCEPT ![c].ref_count = @ + 1]
           /\ sess' = [S EXCEPT ![s].ctx = c]
           /\ OpenAt("initialized")
           /\ UNCHANGED waiting
  <2>1. c \in Contexts /\ InList(c)
    BY <1>6, FirstOfList DEF Safe
  <2>2. sess' = [sess EXCEPT ![s] = [listed |-> TRUE, ctx |-> c, ref_count |-> n, lock_thread |-> l, unlink |-> b]]
    <3>1. Given(S, s, c) /\ Listed(S, s, None, n, l, b)
      BY <1>6 DEF Given, Listed
    <3> HIDE DEF c
    <3> QED BY <3>1, ContextSet
  <2> HIDE DEF c
  <2>3. LookStep(t, s, n, l, b, "initialized", c)
    BY <1>1, <1>6, <2>1, <2>2, OpenEffect DEF LookStep
  <2> QED BY <1>1, <1>6, <2>1, <2>3, FoundKeeps
<1> QED BY <1>3, <1>4, <1>5, <1>6 DEF FindContext

\* A session is made, and its TA looked up.
LEMMA StartOpenKeeps ==
  ASSUME KindsHandled, TInv, NEW t \in Threads, NEW s \in Sessions, StartOpen(t, s), kind' = kind
  PROVE  TInv'
<1> DEFINE r == [NoSession EXCEPT !.listed = TRUE, !.ref_count = 1]
           q == [listed |-> TRUE, ctx |-> None, ref_count |-> 1, lock_thread |-> None, unlink |-> FALSE]
           S == [sess EXCEPT ![s] = r]
<1>1. r = q
  <2>1. r \in [listed : {TRUE}, ctx : {None}, ref_count : {1}, lock_thread : {None}, unlink : {FALSE}]
    BY DEF NoSession
  <2> QED BY <2>1, RecordOf
<1>2. th[t] = Idle /\ ~sess[s].listed /\ FindContext(t, s, S)
  BY DEF StartOpen
<1>3. Looked(t, s, 1, None, FALSE)
  BY <1>2 DEF Looked
<1> HIDE DEF r, S
<1>4. S = [sess EXCEPT ![s] = q]
  BY <1>1 DEF S
<1> QED BY <1>2, <1>3, <1>4, FindContextKeeps

\* The TA is looked up again.
LEMMA FindAgainKeeps ==
  ASSUME KindsHandled, TInv, NEW t \in Threads, FindAgain(t), kind' = kind
  PROVE  TInv'
<1> USE DEF TInv
<1>1. th[t].pc = "find" /\ th[t] # Idle
  BY DEF FindAgain, At, Idle
<1>2. PICK s \in Sessions : s = th[t].s
  BY <1>1, CallSession
<1>3. th[t].op = "open" /\ sess[s].ctx = None /\ sess[s].listed /\ FindContext(t, s, sess)
  <2>1. th[t].op = "open"
    BY <1>1, CallSession DEF InCall, OpenPlaces, InvokePlaces, ClosePlaces
  <2>2. AtWork(t, s) /\ sess[s].ctx = None
    BY <1>1, <1>2, <2>1 DEF AtWork, Opens, Safe, ThOk
  <2> QED BY <1>1, <1>2, <2>1, <2>2, CallSession DEF FindAgain
<1> DEFINE n == sess[s].ref_count
           l == sess[s].lock_thread
           b == sess[s].unlink
           r == [listed |-> TRUE, ctx |-> None, ref_count |-> n, lock_thread |-> l, unlink |-> b]
<1>4. n \in Nat /\ l \in Threads \cup {None} /\ b \in BOOLEAN /\ Looked(t, s, n, l, b)
  BY <1>1, <1>2, Fields DEF Looked
<1>5. sess[s] = r
  <2>1. sess[s] \in SessionType /\ sess[s].listed = TRUE
    BY <1>3, Fields DEF Typed, TypeOK, SessionType
  <2> QED BY <1>3, <2>1 DEF SessionType
<1> HIDE DEF r
<1>6. sess = [sess EXCEPT ![s] = r]
  BY <1>5 DEF Typed, TypeOK
<1> HIDE DEF n, l, b
<1>7. sess = [sess EXCEPT ![s] = [listed |-> TRUE, ctx |-> None, ref_count |-> n, lock_thread |-> l, unlink |-> b]]
  BY <1>6 DEF r
<1> QED BY <1>3, <1>4, <1>7, FindContextKeeps

------------------------------------------------------------------------------
(* The invariant, and what follows from it                                   *)

\* At the start nothing is open, and every thread is idle.
LEMMA InitInvariant ==
  ASSUME Init
  PROVE  TInv
<1>1. /\ kind \in Kinds /\ sess = [s \in Sessions |-> NoSession] /\ ctx = [c \in Contexts |-> NoContext]
      /\ tee_ctxes = << >> /\ single = None /\ th = [t \in Threads |-> Idle]
      /\ waiting = [t \in Threads |-> None] /\ handles = {} /\ faults = {}
  BY DEF Init
<1>2. Idle \in Thread /\ Idle.pc = "idle" /\ Idle.op = "none" /\ Idle.s = None /\ Idle.c = None
  BY DEF Idle, Thread, Places
<1>3. /\ NoSession \in SessionType /\ ~NoSession.listed /\ ~NoSession.unlink /\ NoSession.lock_thread = None
      /\ NoContext \in ContextType /\ ~NoContext.alive /\ NoContext.ref_count = 0 /\ ~NoContext.busy /\ ~NoContext.panicked
  BY DEF NoSession, NoContext, SessionType, ContextType
<1>4. Typed
  <2>1. TypeOK
    BY <1>1, <1>3 DEF TypeOK, SessionType, ContextType
  <2> QED BY <1>1, <1>2, <2>1 DEF Typed
<1>5. \A t \in Threads : th[t].pc = "idle" /\ th[t].op = "none" /\ th[t].s = None
  BY <1>1, <1>2
<1>6. ASSUME NEW t \in Threads
      PROVE  /\ \A s \in Sessions : ~Refers(t, s) /\ ~Owns(t, s) /\ ~Holds(t, s) /\ ~Drains(t, s) /\ ~Opens(t, s)
             /\ ~Inside(t) /\ ~Working(t)
             /\ \A c \in Contexts : ~InsideOf(t, c) /\ ~Releases(t, c) /\ ~Destroys(t, c)
  <2>1. th[t].pc = "idle" /\ th[t].op = "none" /\ \A s \in Sessions : th[t].s # s
    BY <1>5, TaSessionsAssumption
  <2> QED BY <2>1 DEF Refers, Owns, Holds, Drains, Opens, Inside, Working, InsideOf, Releases, Destroys
<1>7. ASSUME NEW s \in Sessions PROVE SessOk(s)
  <2>1. sess[s] = NoSession /\ s \notin handles /\ \A t \in Threads : sess[s].lock_thread # t
    BY <1>1, <1>3, TaSessionsAssumption
  <2> QED BY <1>3, <1>6, <2>1 DEF SessOk
<1>8. \A c \in Contexts : ~InList(c)
  BY <1>1 DEF InList
<1>9. ASSUME NEW c \in Contexts PROVE CtxOk(c)
  <2>1. ctx[c] = NoContext
    BY <1>1
  <2>2. SRefs(c) = {} /\ TRefs(c) = {}
    BY <1>1, <1>3, <1>6 DEF SRefs, TRefs
  <2>3. Cardinality(SRefs(c)) = 0 /\ Cardinality(TRefs(c)) = 0
    BY <2>2, FS_EmptySet
  <2> QED BY <1>3, <1>6, <1>8, <2>1, <2>3 DEF CtxOk
<1>10. ASSUME NEW t \in Threads PROVE ThOk(t)
  <2>1. \A c \in Contexts : waiting[t] # <<"busy", c>>
    BY <1>1, TaSessionsAssumption
  <2> QED BY <1>5, <1>6, <2>1 DEF ThOk
<1>11. SingleOk /\ ListOk
  <2>1. ListOk
    BY <1>1, EmptySeq DEF ListOk
  <2> QED BY <1>1, <2>1 DEF SingleOk
<1> QED BY <1>1, <1>4, <1>7, <1>9, <1>10, <1>11 DEF TInv, Safe, NoAssertionFails

\* A step that changes nothing.
LEMMA StutterKeeps ==
  ASSUME TInv, UNCHANGED vars
  PROVE  TInv'
<1>1. /\ kind' = kind /\ sess' = sess /\ ctx' = ctx /\ tee_ctxes' = tee_ctxes /\ single' = single
      /\ th' = th /\ waiting' = waiting /\ handles' = handles /\ faults' = faults
  BY DEF vars
<1>2. Typed'
  BY <1>1 DEF TInv, Typed, TypeOK
<1>3. ASSUME NEW s \in Sessions PROVE SessOk(s)'
  <2>1. SameSession(s) /\ \A u \in Threads : SameRole(u, s)
    BY <1>1, StayingSame DEF SameSession
  <2> QED BY <1>1, <2>1, SessionFrame DEF TInv, Safe
<1>4. ASSUME NEW c \in Contexts PROVE CtxOk(c)'
  <2>1. /\ \A u \in Threads : SameUse(u, c)
        /\ InList(c)' <=> InList(c)
        /\ SRefs(c)' = SRefs(c)
    BY <1>1, StayingSame DEF InList, SRefs
  <2> QED BY <1>1, <2>1, ContextFrame DEF TInv, Safe
<1>5. ASSUME NEW u \in Threads PROVE ThOk(u)'
  <2>1. Woken(u) /\ \A c \in Contexts : KeepsFor(u, c)
    BY <1>1 DEF Woken, KeepsFor, InList
  <2> QED BY <1>1, <2>1, ViewKept DEF TInv
<1>6. SingleOk' /\ ListOk'
  BY <1>1 DEF TInv, Safe, SingleOk, ListOk, SingleInstance, Inside
<1> QED BY <1>1, <1>2, <1>3, <1>4, <1>5, <1>6 DEF TInv, Safe, NoAssertionFails

\* Every step keeps the invariant.
LEMMA StepKeeps ==
  ASSUME KindsHandled, TInv, [Next]_vars
  PROVE  TInv'
<1>1. CASE UNCHANGED vars
  BY <1>1, StutterKeeps
<1>2. CASE Next
  <2>0. kind' = kind
    BY <1>2 DEF Next
  <2>1. PICK t \in Threads :
          \/ Lock(t) \/ Put(t) \/ SetBusy(t) \/ ClearBusy(t) \/ TaReturns(t) \/ TaPanics(t)
          \/ FindAgain(t) \/ LoadTa(t) \/ TaLoaded(t) \/ TaNotLoaded(t) \/ GiveUp(t)
          \/ EnterOpen(t) \/ Opened(t) \/ CloseUnopened(t)
          \/ Invoke(t) \/ Invoked(t) \/ Forget(t) \/ DestroyContext(t)
          \/ Close(t) \/ Unlink(t) \/ Drain(t) \/ Release(t)
          \/ \E s \in Sessions : StartOpen(t, s) \/ StartInvoke(t, s) \/ StartCancel(t, s) \/ StartClose(t, s)
    BY <1>2 DEF Next
  <2>2. CASE Lock(t) BY <2>0, <2>2, LockKeeps
  <2>3. CASE Put(t) BY <2>0, <2>3, PutKeeps
  <2>4. CASE SetBusy(t) BY <2>0, <2>4, SetBusyKeeps
  <2>5. CASE ClearBusy(t) BY <2>0, <2>5, ClearBusyKeeps
  <2>6. CASE TaReturns(t) BY <2>0, <2>6, TaReturnsKeeps
  <2>7. CASE TaPanics(t) BY <2>0, <2>7, TaPanicsKeeps
  <2>8. CASE FindAgain(t) BY <2>0, <2>8, FindAgainKeeps
  <2>9. CASE LoadTa(t) BY <2>0, <2>9, LoadTaKeeps
  <2>10. CASE TaLoaded(t) BY <2>0, <2>10, TaLoadedKeeps
  <2>11. CASE TaNotLoaded(t) BY <2>0, <2>11, TaNotLoadedKeeps
  <2>12. CASE GiveUp(t) BY <2>0, <2>12, GiveUpKeeps
  <2>13. CASE EnterOpen(t) BY <2>0, <2>13, EnterOpenKeeps
  <2>14. CASE Opened(t) BY <2>0, <2>14, OpenedKeeps, NotOpenedKeeps
  <2>15. CASE CloseUnopened(t) BY <2>0, <2>15, CloseUnopenedKeeps
  <2>16. CASE Invoke(t) BY <2>0, <2>16, InvokeKeeps
  <2>17. CASE Invoked(t) BY <2>0, <2>17, InvokedKeeps
  <2>18. CASE Forget(t) BY <2>0, <2>18, ForgetKeeps
  <2>19. CASE DestroyContext(t) BY <2>0, <2>19, DestroyContextKeeps
  <2>20. CASE Close(t) BY <2>0, <2>20, CloseKeeps
  <2>21. CASE Unlink(t) BY <2>0, <2>21, UnlinkKeeps
  <2>22. CASE Drain(t) BY <2>0, <2>22, DrainNoTaKeeps, DrainKeeps
  <2>23. CASE Release(t) BY <2>0, <2>23, ReleaseKeeps
  <2>24. ASSUME NEW s \in Sessions, StartOpen(t, s) \/ StartInvoke(t, s) \/ StartCancel(t, s) \/ StartClose(t, s)
         PROVE  TInv'
    BY <2>0, <2>24, StartOpenKeeps, StartInvokeKeeps, StartCancelKeeps, StartCloseKeeps
  <2> QED BY <2>1, <2>2, <2>3, <2>4, <2>5, <2>6, <2>7, <2>8, <2>9, <2>10, <2>11, <2>12, <2>13, <2>14,
             <2>15, <2>16, <2>17, <2>18, <2>19, <2>20, <2>21, <2>22, <2>23, <2>24
<1> QED BY <1>1, <1>2

\* Whatever opens, invokes, cancels and closes run at the same time, sessions and contexts
\* are as the invariant says.
THEOREM TaSessionsInvariant == KindsHandled /\ Spec => []TInv
<1> SUFFICES ASSUME KindsHandled PROVE Spec => []TInv
  OBVIOUS
<1>1. Init => TInv
  BY InitInvariant
<1>2. TInv /\ [Next]_vars => TInv'
  BY StepKeeps
<1> QED BY <1>1, <1>2, PTL DEF Spec

\* No assertion and no panic of tee_ta_manager.c is reached, no context is used after it was
\* destroyed and no condition variable destroyed while somebody waits for it.
THEOREM AssertionsHold == KindsHandled /\ Spec => []NoAssertionFails
<1>1. TInv => NoAssertionFails
  BY DEF TInv
<1> QED BY <1>1, TaSessionsInvariant, PTL

\* The reference count of a session is the number of threads that use it, and an instance is
\* entered by one thread at a time (tee_ta_set_busy).
THEOREM SessionsAreConsistent == KindsHandled /\ Spec => []SessionsConsistent
<1>1. TInv => SessionsConsistent
  <2> SUFFICES ASSUME TInv PROVE SessionsConsistent
    OBVIOUS
  <2>1. TypeOK
    BY DEF TInv, Typed
  <2>2. SessionRefCount
    BY DEF TInv, Safe, SessOk, SessionRefCount, Referrers
  <2>3. OneThreadInTa
    <3>1. SUFFICES ASSUME NEW t \in Threads, NEW u \in Threads, th[t].pc = "ta", th[u].pc = "ta", th[t].c = th[u].c
                   PROVE  t = u
      BY DEF OneThreadInTa
    <3>2. th[t].c \in Contexts
      BY <3>1, Fields DEF TInv, Safe, ThOk, Working
    <3>3. PICK c \in Contexts : c = th[t].c
      BY <3>2
    <3>4. InsideOf(t, c) /\ InsideOf(u, c)
      BY <3>1, <3>3 DEF InsideOf, Inside
    <3> QED BY <3>4 DEF TInv, Safe, CtxOk
  <2> QED BY <2>1, <2>2, <2>3 DEF SessionsConsistent
<1> QED BY <1>1, TaSessionsInvariant, PTL

\* When no call is under way the sessions are those the clients hold and the contexts those
\* the sessions use: calls that fail and TAs that panic leave nothing behind.
THEOREM CallsLeaveNothing == KindsHandled /\ Spec => []NothingLeftBehind
<1>1. TInv => NothingLeftBehind
  <2> SUFFICES ASSUME TInv, \A t \in Threads : th[t] = Idle
               PROVE  /\ {s \in Sessions : sess[s].listed} = handles
                      /\ KeepAlive \/ {c \in Contexts : ctx[c].alive} = {sess[s].ctx : s \in handles} \ {None}
                      /\ \A c \in Contexts : ~ctx[c].busy
                      /\ \A c \in Contexts :
                           ctx[c].alive => ctx[c].ref_count = Cardinality({s \in handles : sess[s].ctx = c})
                      /\ \A s \in handles : sess[s].lock_thread = None /\ ~sess[s].unlink
    BY DEF NothingLeftBehind
  <2>1. \A t \in Threads : th[t].pc = "idle" /\ th[t].op = "none"
    BY DEF Idle
  <2>2. /\ \A t \in Threads, s \in Sessions : ~Owns(t, s) /\ ~Holds(t, s) /\ ~Drains(t, s)
        /\ \A t \in Threads, c \in Contexts : ~InsideOf(t, c) /\ ~Releases(t, c) /\ ~Destroys(t, c)
    BY <2>1 DEF Owns, Holds, Drains, InsideOf, Inside, Releases, Destroys
  <2>3. handles \subseteq Sessions /\ \A s \in Sessions : sess[s].listed <=> s \in handles
    <3>1. \A s \in Sessions : s \in handles => sess[s].listed
      BY DEF TInv, Safe, SessOk
    <3>2. \A s \in Sessions : sess[s].listed => s \in handles \/ \E t \in Threads : Owns(t, s)
      BY DEF TInv, Safe, SessOk
    <3> QED BY <2>2, <3>1, <3>2 DEF TInv, Typed, TypeOK
  <2>4. {s \in Sessions : sess[s].listed} = handles
    BY <2>3
  <2>5. \A c \in Contexts : SRefs(c) = {s \in handles : sess[s].ctx = c} /\ TRefs(c) = {}
    BY <2>2, <2>3 DEF SRefs, TRefs
  <2>6. ASSUME NEW c \in Contexts PROVE ctx[c].ref_count = Cardinality(SRefs(c)) /\ ~ctx[c].busy
    <3>1. CtxOk(c)
      BY DEF TInv, Safe
    <3>2. Cardinality(TRefs(c)) = 0 /\ Cardinality(SRefs(c)) \in Nat
      BY <2>5, FS_EmptySet, FiniteSets
    <3> QED BY <2>2, <3>1, <3>2 DEF CtxOk
  <2>7. \A c \in Contexts : ctx[c].ref_count = Cardinality({s \in handles : sess[s].ctx = c})
    BY <2>5, <2>6
  <2>8. ASSUME NEW s \in handles PROVE sess[s].lock_thread = None /\ ~sess[s].unlink
    <3>1. s \in Sessions /\ SessOk(s) /\ sess[s].lock_thread \in Threads \cup {None}
      BY <2>3, Fields DEF TInv, Safe
    <3> QED BY <2>2, <3>1 DEF SessOk
  <2>9. ASSUME ~KeepAlive
        PROVE  {c \in Contexts : ctx[c].alive} = {sess[s].ctx : s \in handles} \ {None}
    <3>1. ASSUME NEW s \in handles, sess[s].ctx # None PROVE sess[s].ctx \in Contexts /\ ctx[sess[s].ctx].alive
      <4>1. s \in Sessions /\ sess[s].listed /\ sess[s].ctx \in Contexts
        BY <2>3, <3>1, Fields DEF TInv
      <4> QED BY <4>1, SessionContext DEF TInv
    <3>2. ASSUME NEW c \in Contexts, ctx[c].alive PROVE c # None /\ \E s \in handles : sess[s].ctx = c
      <4>1. CtxOk(c) /\ c # None
        BY TaSessionsAssumption DEF TInv, Safe
      <4>2. ctx[c].ref_count > 0
        BY <2>2, <2>9, <3>2, <4>1 DEF CtxOk
      <4>3. SRefs(c) # {}
        BY <2>6, <4>2, FS_EmptySet
      <4> QED BY <2>5, <4>1, <4>3
    <3> QED BY <3>1, <3>2
  <2> QED BY <2>4, <2>6, <2>7, <2>8, <2>9
<1> QED BY <1>1, TaSessionsInvariant, PTL

\* Sessions of a TA that is not MULTI_SESSION never share an instance, so what it keeps in
\* its statics is the session's own.
THEOREM InstancesAreNotShared == KindsHandled /\ Spec => []OneSessionPerContext
<1>1. TInv => OneSessionPerContext
  <2> SUFFICES ASSUME TInv, ~MultiSession, NEW s \in Sessions, NEW r \in Sessions,
                      sess[s].listed, sess[r].listed, sess[s].ctx # None, sess[s].ctx = sess[r].ctx
               PROVE  s = r
    BY DEF OneSessionPerContext
  <2>1. PICK c \in Contexts : c = sess[s].ctx
    BY Fields DEF TInv
  <2>2. CtxOk(c) /\ s \in SRefs(c) /\ r \in SRefs(c)
    BY <2>1 DEF TInv, Safe, SRefs
  <2>3. /\ IsFiniteSet(SRefs(c)) /\ Cardinality(SRefs(c)) \in Nat /\ Cardinality(TRefs(c)) \in Nat
        /\ Cardinality(SRefs(c)) >= 1
    BY <2>2, FiniteSets, Elements
  <2>4. Cardinality(SRefs(c)) + Cardinality(TRefs(c)) <= 1
    BY <2>2 DEF CtxOk
  <2>5. Cardinality(SRefs(c)) = 1
    BY <2>3, <2>4
  <2>6. SRefs(c) = {s}
    BY <2>2, <2>3, <2>5, Elements
  <2> QED BY <2>2, <2>6
<1> QED BY <1>1, TaSessionsInvariant, PTL

------------------------------------------------------------------------------
(* What the threads that wait wait for                                      *)

\* Who will go on with what a thread waits for: a thread on its way to the lock or to the
\* instance, or the one that has it.
Tries(u, s) == At(u, "lock") /\ th[u].s = s
Enters(u, c) == At(u, "set_busy") /\ th[u].c = c

WaitsForLock(t, s) ==
  /\ th[t].pc = "lock" /\ th[t].s = s
  /\ ~sess[s].unlink
  /\ sess[s].lock_thread # None \/ \E u \in Threads : Tries(u, s)
WaitsForUsers(t, s) == th[t].pc = "drain" /\ th[t].s = s /\ sess[s].ref_count # 1
WaitsForInstance(t, c) ==
  /\ th[t].pc = "set_busy" /\ th[t].c = c /\ ~SingleInstance
  /\ ctx[c].busy \/ \E u \in Threads : Enters(u, c)
WaitsForSingle(t) ==
  /\ th[t].pc = "set_busy" /\ SingleInstance
  /\ single # None \/ \E u \in Threads : At(u, "set_busy")
WaitsForLoader(t) == th[t].pc = "find" /\ \E u \in Threads : th[u].pc = "loading"

\* A thread that sleeps waits for something that somebody has or is about to take.
WaitOk(t) ==
  \/ waiting[t] = None
  \/ \E s \in Sessions : waiting[t] = <<"lock", s>> /\ WaitsForLock(t, s)
  \/ \E s \in Sessions : waiting[t] = <<"refc", s>> /\ WaitsForUsers(t, s)
  \/ \E c \in Contexts : waiting[t] = <<"busy", c>> /\ WaitsForInstance(t, c)
  \/ waiting[t] = <<"single", None>> /\ WaitsForSingle(t)
  \/ waiting[t] = <<"init", None>> /\ WaitsForLoader(t)

\* A context is being initialised by the thread that loads it.
LoaderOk(c) == ctx[c].initializing => \E u \in Threads : th[u].pc = "loading" /\ th[u].c = c

WaitInv == (\A t \in Threads : WaitOk(t)) /\ (\A c \in Contexts : LoaderOk(c))

\* What a thread waits for tells where it is and why it waits.
LEMMA WaitCases ==
  ASSUME NEW t \in Threads, WaitOk(t)
  PROVE  /\ \A s \in Sessions : waiting[t] = <<"lock", s>> => WaitsForLock(t, s)
         /\ \A s \in Sessions : waiting[t] = <<"refc", s>> => WaitsForUsers(t, s)
         /\ \A c \in Contexts : waiting[t] = <<"busy", c>> => WaitsForInstance(t, c)
         /\ waiting[t] = <<"single", None>> => WaitsForSingle(t)
         /\ waiting[t] = <<"init", None>> => WaitsForLoader(t)
         /\ waiting[t] = None \/ th[t].pc \in {"lock", "drain", "set_busy", "find"}
<1>1. /\ \A s \in Sessions : None # <<"lock", s>> /\ None # <<"refc", s>>
      /\ \A c \in Contexts : None # <<"busy", c>>
      /\ None # <<"single", None>> /\ None # <<"init", None>>
  BY TaSessionsAssumption
<1>2. waiting[t] = None \/ th[t].pc \in {"lock", "drain", "set_busy", "find"}
  BY DEF WaitOk, WaitsForLock, WaitsForUsers, WaitsForInstance, WaitsForSingle, WaitsForLoader
<1> HIDE DEF WaitsForLock, WaitsForUsers, WaitsForInstance, WaitsForSingle, WaitsForLoader
<1>3. ASSUME NEW s \in Sessions, waiting[t] = <<"lock", s>> PROVE WaitsForLock(t, s)
  BY <1>1, <1>3 DEF WaitOk
<1>4. ASSUME NEW s \in Sessions, waiting[t] = <<"refc", s>> PROVE WaitsForUsers(t, s)
  BY <1>1, <1>4 DEF WaitOk
<1>5. ASSUME NEW c \in Contexts, waiting[t] = <<"busy", c>> PROVE WaitsForInstance(t, c)
  BY <1>1, <1>5 DEF WaitOk
<1>6. waiting[t] = <<"single", None>> => WaitsForSingle(t)
  BY <1>1 DEF WaitOk
<1>7. waiting[t] = <<"init", None>> => WaitsForLoader(t)
  BY <1>1 DEF WaitOk
<1> QED BY <1>2, <1>3, <1>4, <1>5, <1>6, <1>7

------------------------------------------------------------------------------
(* Following a thread that waits to one that runs                            *)

Runs(u) == u \in Threads /\ th[u] # Idle /\ waiting[u] = None

\* A thread that does not wait and is in a call runs.
LEMMA PlaceRuns ==
  ASSUME TInv, WaitInv, NEW u \in Threads,
         th[u].pc \notin {"idle", "lock", "drain", "set_busy", "find"} \/ (waiting[u] = None /\ th[u].pc # "idle")
  PROVE  Runs(u)
<1>1. th[u] # Idle
  BY DEF Idle
<1>2. waiting[u] = None
  BY WaitCases DEF WaitInv
<1> QED BY <1>1, <1>2 DEF Runs

\* Who waits for the users of a session waits for one that runs: the lock of the session is
\* its own, so they give up or have only to go.
LEMMA DrainerEnds ==
  ASSUME TInv, WaitInv, NEW t \in Threads, NEW s \in Sessions, WaitsForUsers(t, s)
  PROVE  \E u \in Threads : Runs(u)
<1> USE DEF TInv
<1>1. /\ th[t].pc = "drain" /\ th[t].s = s /\ sess[s].ref_count # 1 /\ th[t] # Idle
  BY DEF WaitsForUsers, Idle
<1>2. th[t].op = "close"
  BY <1>1 DEF Typed, InCall, OpenPlaces, InvokePlaces
<1>3. Refers(t, s) /\ Owns(t, s) /\ Holds(t, s) /\ Drains(t, s)
  BY <1>1, <1>2 DEF Refers, Owns, Holds, Drains
<1>4. SessOk(s) /\ sess[s].listed /\ sess[s].unlink
  BY <1>3 DEF Safe, SessOk
<1>5. t \in Referrers(s) /\ IsFiniteSet(Referrers(s)) /\ Cardinality(Referrers(s)) # 1
  BY <1>1, <1>3, <1>4, FiniteSets DEF Referrers, SessOk
<1>6. Referrers(s) # {t}
  BY <1>5, FS_Singleton
<1>7. PICK u \in Threads : u # t /\ Refers(u, s)
  BY <1>5, <1>6 DEF Referrers
<1>8. ~Owns(u, s) /\ ~Holds(u, s)
  BY <1>3, <1>4, <1>7 DEF SessOk
<1>9. th[u].s = s /\ InCall(th[u])
  BY <1>7, TaSessionsAssumption DEF Typed, Refers, Idle
<1>10. th[u].pc \in {"lock", "put"}
  BY <1>7, <1>8, <1>9 DEF InCall, Owns, Holds, Refers, OpenPlaces, InvokePlaces, ClosePlaces
<1>11. waiting[u] = None
  <2>1. WaitOk(u)
    BY DEF WaitInv
  <2>2. \A r \in Sessions : ~WaitsForLock(u, r)
    BY <1>4, <1>9 DEF WaitsForLock
  <2> QED BY <1>10, <2>1, <2>2 DEF WaitOk, WaitsForUsers, WaitsForInstance, WaitsForSingle, WaitsForLoader
<1> QED BY <1>10, <1>11, PlaceRuns

\* Who is in an instance runs, or closes a session and waits for its users.
LEMMA InsideEnds ==
  ASSUME TInv, WaitInv, NEW t \in Threads, Inside(t)
  PROVE  \E u \in Threads : Runs(u)
<1>1. th[t].pc \in {"ta", "clear_busy", "unlink", "drain"}
  BY DEF Inside
<1>2. CASE waiting[t] = None
  BY <1>1, <1>2, PlaceRuns
<1>3. CASE waiting[t] # None
  <2>1. PICK s \in Sessions : WaitsForUsers(t, s)
    BY <1>1, <1>3 DEF WaitInv, WaitOk, WaitsForLock, WaitsForInstance, WaitsForSingle, WaitsForLoader
  <2> QED BY <2>1, DrainerEnds
<1> QED BY <1>2, <1>3

\* Who waits for an instance, or for all of them, waits for the thread inside or one on its way.
LEMMA EntererEnds ==
  ASSUME TInv, WaitInv, NEW t \in Threads, (\E c \in Contexts : WaitsForInstance(t, c)) \/ WaitsForSingle(t)
  PROVE  \E u \in Threads : Runs(u)
<1> USE DEF TInv
<1>1. ASSUME NEW c \in Contexts, WaitsForInstance(t, c) PROVE \E u \in Threads : Runs(u)
  <2>1. CASE ctx[c].busy
    BY <2>1, InsideEnds DEF Safe, CtxOk, InsideOf
  <2>2. CASE \E u \in Threads : Enters(u, c)
    BY <2>2, PlaceRuns DEF Enters, At
  <2> QED BY <1>1, <2>1, <2>2 DEF WaitsForInstance
<1>2. CASE WaitsForSingle(t)
  <2>1. CASE single # None
    <3>1. single \in Threads /\ Inside(single)
      BY <2>1 DEF Safe, SingleOk, Typed, TypeOK
    <3> QED BY <3>1, InsideEnds
  <2>2. CASE \E u \in Threads : At(u, "set_busy")
    BY <2>2, PlaceRuns DEF At
  <2> QED BY <1>2, <2>1, <2>2 DEF WaitsForSingle
<1> QED BY <1>1, <1>2

\* Who waits for a context to be loaded waits for its loader.
LEMMA FinderEnds ==
  ASSUME TInv, WaitInv, NEW t \in Threads, WaitsForLoader(t)
  PROVE  \E u \in Threads : Runs(u)
  BY PlaceRuns DEF WaitsForLoader

\* Who waits for the lock of a session waits for the thread that has it, or one on its way.
LEMMA LockerEnds ==
  ASSUME TInv, WaitInv, NEW t \in Threads, NEW s \in Sessions, WaitsForLock(t, s)
  PROVE  \E u \in Threads : Runs(u)
<1> USE DEF TInv
<1>1. CASE \E u \in Threads : Tries(u, s)
  BY <1>1, PlaceRuns DEF Tries, At
<1>2. CASE sess[s].lock_thread # None
  <2>1. PICK u \in Threads : Holds(u, s)
    BY <1>2, Fields DEF Safe, SessOk
  <2>2. th[u].pc # "lock" /\ th[u] # Idle
    BY <2>1 DEF Holds, Idle
  <2>3. \/ waiting[u] = None
        \/ \E r \in Sessions : WaitsForUsers(u, r)
        \/ (\E c \in Contexts : WaitsForInstance(u, c)) \/ WaitsForSingle(u)
        \/ WaitsForLoader(u)
    BY <2>2 DEF WaitInv, WaitOk, WaitsForLock
  <2> QED BY <2>2, <2>3, DrainerEnds, EntererEnds, FinderEnds DEF Runs
<1> QED BY <1>1, <1>2 DEF WaitsForLock

\* So somebody runs.
LEMMA WaitersEnd == TInv /\ WaitInv => SomebodyRuns
<1> SUFFICES ASSUME TInv, WaitInv, NEW t \in Threads, waiting[t] # None
             PROVE  \E u \in Threads : Runs(u)
  BY DEF SomebodyRuns, Runs
<1>1. \/ \E s \in Sessions : WaitsForLock(t, s)
      \/ \E s \in Sessions : WaitsForUsers(t, s)
      \/ (\E c \in Contexts : WaitsForInstance(t, c)) \/ WaitsForSingle(t)
      \/ WaitsForLoader(t)
  BY DEF WaitInv, WaitOk
<1> QED BY <1>1, LockerEnds, DrainerEnds, EntererEnds, FinderEnds

------------------------------------------------------------------------------
(* What a step leaves for those who wait                                     *)

\* What a thread waits for stays in somebody's hands: nobody waits for it any more, or
\* somebody is on the way to it, or whoever had it or was on the way has it now.
LockKept(t, s) ==
  \/ Waiters(<<"lock", s>>)' = {}
  \/ /\ sess'[s].unlink = sess[s].unlink
     /\ \/ \E u \in Threads : Tries(u, s)'
        \/ /\ sess[s].lock_thread # None => sess'[s].lock_thread # None
           /\ Tries(t, s) => sess'[s].lock_thread # None
UsersKept(s) ==
  \/ Waiters(<<"refc", s>>)' = {}
  \/ sess'[s].ref_count >= sess[s].ref_count
  \/ sess'[s].ref_count # 1
InstanceKept(t, c) ==
  \/ Waiters(<<"busy", c>>)' = {}
  \/ \E u \in Threads : Enters(u, c)'
  \/ (ctx[c].busy => ctx'[c].busy) /\ (Enters(t, c) => ctx'[c].busy)
SingleKept(t) ==
  \/ Waiters(<<"single", None>>)' = {}
  \/ \E u \in Threads : At(u, "set_busy")'
  \/ (single # None => single' # None) /\ (At(t, "set_busy") => single' # None)
LoaderKept(t) == Waiters(<<"init", None>>)' = {} \/ th[t].pc # "loading"

\* A session that is drained is counted at least once.
LEMMA DrainedCount ==
  ASSUME TInv, NEW t \in Threads, NEW s \in Sessions, th[t].pc = "drain", th[t].s = s
  PROVE  sess[s].ref_count \in Nat /\ sess[s].ref_count >= 1
<1> USE DEF TInv
<1>1. th[t].op = "close"
  BY DEF Typed, InCall, OpenPlaces, InvokePlaces, Idle
<1>2. Refers(t, s)
  BY <1>1 DEF Refers
<1>3. sess[s].ref_count = Cardinality(Referrers(s)) /\ t \in Referrers(s)
  BY <1>2 DEF Safe, SessOk, Referrers
<1> QED BY <1>3, FiniteSets, Elements

\* A thread that sleeps through the step of another still waits for somebody.
LEMMA WaiterFrame ==
  ASSUME TInv, WaitInv, TInv', NEW t \in Threads, Others(t), kind' = kind,
         \A u \in Threads : u # t => Woken(u),
         \A s \in Sessions : LockKept(t, s) /\ UsersKept(s),
         \A c \in Contexts : InstanceKept(t, c), SingleKept(t), LoaderKept(t),
         NEW u \in Threads, u # t
  PROVE  WaitOk(u)'
<1>1. CASE waiting'[u] = None
  BY <1>1 DEF WaitOk
<1>2. CASE waiting'[u] # None
  <2>1. waiting'[u] = waiting[u] /\ th'[u] = th[u] /\ WaitOk(u)
    BY <1>2 DEF Woken, Others, WaitInv
  <2>2. \A v \in Threads : v # t /\ waiting[v] = None => waiting'[v] = None /\ th'[v] = th[v]
    BY DEF Woken, Others
  <2>3. \A cv : waiting[u] = cv => u \in Waiters(cv)'
    BY <2>1 DEF Waiters
  <2>4. ASSUME NEW s \in Sessions, waiting[u] = <<"lock", s>>, WaitsForLock(u, s)
        PROVE  WaitsForLock(u, s)'
    <3>1. Waiters(<<"lock", s>>)' # {}
      BY <2>3, <2>4
    <3>2. sess'[s].unlink = sess[s].unlink
      BY <3>1 DEF LockKept
    <3>3. sess'[s].lock_thread # None \/ \E v \in Threads : Tries(v, s)'
      <4>1. \A v \in Threads : v # t /\ Tries(v, s) => Tries(v, s)'
        BY <2>2 DEF Tries, At
      <4> HIDE DEF Tries
      <4> QED BY <2>4, <3>1, <4>1 DEF LockKept, WaitsForLock
    <3> QED BY <2>1, <2>4, <3>2, <3>3 DEF WaitsForLock
  <2>5. ASSUME NEW s \in Sessions, waiting[u] = <<"refc", s>>, WaitsForUsers(u, s)
        PROVE  WaitsForUsers(u, s)'
    <3>1. Waiters(<<"refc", s>>)' # {}
      BY <2>3, <2>5
    <3>2. sess'[s].ref_count >= sess[s].ref_count \/ sess'[s].ref_count # 1
      BY <3>1 DEF UsersKept
    <3>3. th[u].pc = "drain" /\ th[u].s = s /\ sess[s].ref_count # 1
      BY <2>5 DEF WaitsForUsers
    <3>4. sess[s].ref_count \in Nat /\ sess[s].ref_count >= 1 /\ sess'[s].ref_count \in Nat
      BY <3>3, DrainedCount DEF TInv, Typed, TypeOK
    <3> QED BY <2>1, <3>2, <3>3, <3>4 DEF WaitsForUsers
  <2>6. ASSUME NEW c \in Contexts, waiting[u] = <<"busy", c>>, WaitsForInstance(u, c)
        PROVE  WaitsForInstance(u, c)'
    <3>1. Waiters(<<"busy", c>>)' # {}
      BY <2>3, <2>6
    <3>2. \A v \in Threads : v # t /\ Enters(v, c) => Enters(v, c)'
      BY <2>2 DEF Enters, At
    <3>3. ctx'[c].busy \/ \E v \in Threads : Enters(v, c)'
      <4> HIDE DEF Enters
      <4> QED BY <2>6, <3>1, <3>2 DEF InstanceKept, WaitsForInstance
    <3> QED BY <2>1, <2>6, <3>3 DEF WaitsForInstance, SingleInstance
  <2>7. ASSUME waiting[u] = <<"single", None>>, WaitsForSingle(u)
        PROVE  WaitsForSingle(u)'
    <3>1. Waiters(<<"single", None>>)' # {}
      BY <2>3, <2>7
    <3>2. \A v \in Threads : v # t /\ At(v, "set_busy") => At(v, "set_busy")'
      BY <2>2 DEF At
    <3>3. single' # None \/ \E v \in Threads : At(v, "set_busy")'
      <4> HIDE DEF At
      <4> QED BY <2>7, <3>1, <3>2 DEF SingleKept, WaitsForSingle
    <3> QED BY <2>1, <2>7, <3>3 DEF WaitsForSingle, SingleInstance
  <2>8. ASSUME waiting[u] = <<"init", None>>, WaitsForLoader(u)
        PROVE  WaitsForLoader(u)'
    <3>1. Waiters(<<"init", None>>)' # {}
      BY <2>3, <2>8
    <3> QED BY <2>1, <2>8, <3>1 DEF LoaderKept, WaitsForLoader, Others
  <2> HIDE DEF WaitsForLock, WaitsForUsers, WaitsForInstance, WaitsForSingle, WaitsForLoader
  <2> QED BY <1>2, <2>1, <2>4, <2>5, <2>6, <2>7, <2>8 DEF WaitOk
<1> QED BY <1>1, <1>2

\* The thread of a step is not asleep afterwards, or waits for somebody itself.
LEMMA WaitStep ==
  ASSUME TInv, WaitInv, TInv', NEW t \in Threads, Others(t), kind' = kind,
         \A u \in Threads : u # t => Woken(u), WaitOk(t)',
         \A s \in Sessions : LockKept(t, s) /\ UsersKept(s),
         \A c \in Contexts : InstanceKept(t, c), SingleKept(t), LoaderKept(t),
         \A c \in Contexts : LoaderOk(c)'
  PROVE  WaitInv'
  BY WaiterFrame DEF WaitInv

\* Contexts keep their loaders.
LEMMA LoaderFrame ==
  ASSUME WaitInv, NEW t \in Threads, Others(t), NEW c \in Contexts,
         ctx'[c].initializing => ctx[c].initializing, th[t].pc # "loading" \/ th[t].c # c
  PROVE  LoaderOk(c)'
  BY DEF WaitInv, LoaderOk, Others

\* A step that wakes nobody and takes nothing from anybody.
LEMMA QuietStep ==
  ASSUME TInv, WaitInv, TInv', NEW t \in Threads, Others(t), kind' = kind,
         UNCHANGED <<single, waiting>>, waiting[t] = None,
         th[t].pc \notin {"lock", "set_busy", "loading"},
         \A s \in Sessions : /\ sess'[s].unlink = sess[s].unlink
                             /\ sess'[s].lock_thread = sess[s].lock_thread
                             /\ sess'[s].ref_count >= sess[s].ref_count,
         \A c \in Contexts : /\ ctx[c].busy => ctx'[c].busy
                             /\ ctx'[c].initializing => ctx[c].initializing
  PROVE  WaitInv'
<1>1. /\ \A u \in Threads : u # t => Woken(u)
      /\ WaitOk(t)'
      /\ SingleKept(t) /\ LoaderKept(t)
  BY DEF Woken, WaitOk, SingleKept, LoaderKept, At
<1>2. \A s \in Sessions : LockKept(t, s) /\ UsersKept(s)
  BY DEF LockKept, UsersKept, Tries, At
<1>3. \A c \in Contexts : InstanceKept(t, c) /\ LoaderOk(c)'
  BY LoaderFrame DEF InstanceKept, Enters, At
<1> QED BY <1>1, <1>2, <1>3, WaitStep

------------------------------------------------------------------------------
(* The actions: those that leave the sleepers alone                          *)

\* A step that only moves its thread.
LEMMA MoveQuiet ==
  ASSUME TInv, WaitInv, TInv', NEW t \in Threads, Others(t), kind' = kind,
         UNCHANGED <<sess, ctx, single, waiting>>, waiting[t] = None,
         th[t].pc \notin {"lock", "set_busy", "loading"}
  PROVE  WaitInv'
<1>1. \A s \in Sessions : sess'[s].ref_count >= sess[s].ref_count
  BY Fields DEF TInv
<1> QED BY <1>1, QuietStep

\* The other threads stay whatever the thread of the step assigns to itself.
LEMMA OnlyMover ==
  ASSUME TInv, NEW t \in Threads
  PROVE  /\ \A r : th' = [th EXCEPT ![t] = r] => Others(t)
         /\ \A p : Goto(t, p) => Others(t)
         /\ Return(t) => Others(t)
         /\ \A p, c : th' = [th EXCEPT ![t].c = c, ![t].pc = p] => Others(t)
         /\ \A p, k : th' = [th EXCEPT ![t].ok = k, ![t].pc = p] => Others(t)
         /\ \A p, c, k : th' = [th EXCEPT ![t].c = c, ![t].ok = k, ![t].pc = p] => Others(t)
         /\ \A p, b : th' = [th EXCEPT ![t].pc = p, ![t].busy = b] => Others(t)
         /\ \A p, o, b : th' = [th EXCEPT ![t].op = o, ![t].pc = p, ![t].busy = b] => Others(t)
         /\ \A p, k, o : th' = [th EXCEPT ![t].pc = p, ![t].ok = k, ![t].origin = o] => Others(t)
  BY DEF TInv, Typed, Others, Goto, Return

\* TaReturns, EnterOpen, Opened, Invoke, Invoked and Close.
LEMMA MovesWait ==
  ASSUME TInv, WaitInv, TInv', NEW t \in Threads, kind' = kind,
         TaReturns(t) \/ EnterOpen(t) \/ Opened(t) \/ Invoke(t) \/ Invoked(t) \/ Close(t)
  PROVE  WaitInv'
<1>1. CASE TaReturns(t)
  <2>1. Others(t)
    BY <1>1, OnlyMover DEF TaReturns
  <2> QED BY <1>1, <2>1, MoveQuiet DEF TaReturns, At
<1>2. CASE EnterOpen(t)
  <2>1. Others(t)
    BY <1>2, OnlyMover DEF EnterOpen
  <2> QED BY <1>2, <2>1, MoveQuiet DEF EnterOpen, At
<1>3. CASE Opened(t)
  <2>1. Others(t)
    BY <1>3, OnlyMover DEF Opened
  <2> QED BY <1>3, <2>1, MoveQuiet DEF Opened, At
<1>4. CASE Invoke(t)
  <2>1. Others(t)
    BY <1>4, OnlyMover DEF Invoke
  <2> QED BY <1>4, <2>1, MoveQuiet DEF Invoke, At
<1>5. CASE Invoked(t)
  <2>1. Others(t)
    BY <1>5, OnlyMover DEF Invoked
  <2> QED BY <1>5, <2>1, MoveQuiet DEF Invoked, At
<1>6. CASE Close(t)
  <2>1. Others(t)
    BY <1>6, OnlyMover DEF Close
  <2> QED BY <1>6, <2>1, MoveQuiet DEF Close, At
<1> QED BY <1>1, <1>2, <1>3, <1>4, <1>5, <1>6

\* What an assignment to a field of a session leaves.
LEMMA SessionFields ==
  ASSUME TInv, NEW s \in Sessions
  PROVE  /\ \A n : sess' = [sess EXCEPT ![s].ref_count = n] =>
              /\ \A r \in Sessions : r # s => sess'[r] = sess[r]
              /\ sess'[s].ref_count = n /\ sess'[s].lock_thread = sess[s].lock_thread
              /\ sess'[s].unlink = sess[s].unlink
         /\ \A l : sess' = [sess EXCEPT ![s].lock_thread = l] =>
              /\ \A r \in Sessions : r # s => sess'[r] = sess[r]
              /\ sess'[s].ref_count = sess[s].ref_count /\ sess'[s].lock_thread = l
              /\ sess'[s].unlink = sess[s].unlink
         /\ \A n, l : sess' = [sess EXCEPT ![s].ref_count = n, ![s].lock_thread = l] =>
              /\ \A r \in Sessions : r # s => sess'[r] = sess[r]
              /\ sess'[s].ref_count = n /\ sess'[s].lock_thread = l
              /\ sess'[s].unlink = sess[s].unlink
         /\ \A b : sess' = [sess EXCEPT ![s].unlink = b] =>
              /\ \A r \in Sessions : r # s => sess'[r] = sess[r]
              /\ sess'[s].ref_count = sess[s].ref_count
              /\ sess'[s].lock_thread = sess[s].lock_thread /\ sess'[s].unlink = b
         /\ \A c : sess' = [sess EXCEPT ![s].ctx = c] =>
              /\ \A r \in Sessions : r # s => sess'[r] = sess[r]
              /\ sess'[s].ref_count = sess[s].ref_count
              /\ sess'[s].lock_thread = sess[s].lock_thread /\ sess'[s].unlink = sess[s].unlink
         /\ \A e : sess' = [sess EXCEPT ![s] = e] =>
              (\A r \in Sessions : r # s => sess'[r] = sess[r]) /\ sess'[s] = e
  BY DEF TInv, Typed, TypeOK

\* One more reference to a session.
LEMMA CountQuiet ==
  ASSUME TInv, WaitInv, TInv', NEW t \in Threads, Others(t), kind' = kind, NEW s \in Sessions,
         sess' = [sess EXCEPT ![s].ref_count = @ + 1],
         UNCHANGED <<ctx, single, waiting>>, waiting[t] = None,
         th[t].pc \notin {"lock", "set_busy", "loading"}
  PROVE  WaitInv'
<1>1. /\ \A r \in Sessions : r # s => sess'[r] = sess[r]
      /\ sess'[s].ref_count = sess[s].ref_count + 1 /\ sess'[s].lock_thread = sess[s].lock_thread
      /\ sess'[s].unlink = sess[s].unlink
  BY SessionFields
<1>2. \A r \in Sessions : sess[r].ref_count \in Nat
  BY Fields DEF TInv
<1>3. \A r \in Sessions : /\ sess'[r].unlink = sess[r].unlink
                          /\ sess'[r].lock_thread = sess[r].lock_thread
                          /\ sess'[r].ref_count >= sess[r].ref_count
  BY <1>1, <1>2
<1> QED BY <1>3, QuietStep

\* An idle thread does not wait.
LEMMA IdleAwake ==
  ASSUME WaitInv, NEW t \in Threads, th[t] = Idle
  PROVE  waiting[t] = None /\ th[t].pc = "idle"
<1>1. th[t].pc = "idle"
  BY DEF Idle
<1> QED BY <1>1, WaitCases DEF WaitInv

\* StartInvoke, StartCancel, StartClose and CloseUnopened.
LEMMA CountsWait ==
  ASSUME TInv, WaitInv, TInv', NEW t \in Threads, kind' = kind,
         CloseUnopened(t) \/ \E s \in Sessions : StartInvoke(t, s) \/ StartCancel(t, s) \/ StartClose(t, s)
  PROVE  WaitInv'
<1>1. CASE CloseUnopened(t)
  <2>1. Others(t)
    BY <1>1, OnlyMover DEF CloseUnopened
  <2>2. th[t].s \in Sessions
    BY <1>1, CallSession DEF CloseUnopened, At, Idle, TInv
  <2> QED BY <1>1, <2>1, <2>2, CountQuiet DEF CloseUnopened, At
<1>2. ASSUME NEW s \in Sessions, StartInvoke(t, s) \/ StartCancel(t, s) \/ StartClose(t, s)
      PROVE  WaitInv'
  <2>1. Others(t) /\ th[t] = Idle
    BY <1>2, OnlyMover DEF StartInvoke, StartCancel, StartClose, StartExclusive
  <2>2. /\ sess' = [sess EXCEPT ![s].ref_count = @ + 1]
        /\ UNCHANGED <<ctx, single, waiting>>
    BY <1>2 DEF StartInvoke, StartCancel, StartClose, StartExclusive
  <2> QED BY <2>1, <2>2, IdleAwake, CountQuiet
<1> QED BY <1>1, <1>2

\* What an assignment to a field of a context leaves.
LEMMA ContextFields ==
  ASSUME TInv, NEW c \in Contexts
  PROVE  /\ \A n : ctx' = [ctx EXCEPT ![c].ref_count = n] =>
              /\ \A d \in Contexts : d # c => ctx'[d] = ctx[d]
              /\ ctx'[c].busy = ctx[c].busy /\ ctx'[c].initializing = ctx[c].initializing
         /\ \A b : ctx' = [ctx EXCEPT ![c].panicked = b] =>
              /\ \A d \in Contexts : d # c => ctx'[d] = ctx[d]
              /\ ctx'[c].busy = ctx[c].busy /\ ctx'[c].initializing = ctx[c].initializing
         /\ \A b : ctx' = [ctx EXCEPT ![c].busy = b] =>
              /\ \A d \in Contexts : d # c => ctx'[d] = ctx[d]
              /\ ctx'[c].busy = b /\ ctx'[c].initializing = ctx[c].initializing
         /\ \A b : ctx' = [ctx EXCEPT ![c].initializing = b] =>
              /\ \A d \in Contexts : d # c => ctx'[d] = ctx[d]
              /\ ctx'[c].busy = ctx[c].busy /\ ctx'[c].initializing = b
         /\ \A e : ctx' = [ctx EXCEPT ![c] = e] =>
              (\A d \in Contexts : d # c => ctx'[d] = ctx[d]) /\ ctx'[c] = e
  BY DEF TInv, Typed, TypeOK

\* Where a thread has a context.
LEMMA HasContext ==
  ASSUME TInv, NEW t \in Threads,
         \/ th[t].pc \in {"ta", "loading", "set_busy", "destroying", "release", "clear_busy"}
  PROVE  th[t].c \in Contexts /\ th[t] # Idle /\ th[t].s \in Sessions
<1> USE DEF TInv
<1>1. th[t] # Idle
  BY DEF Idle
<1>2. InCall(th[t])
  BY <1>1 DEF Typed
<1>3. th[t].op \in {"open", "invoke", "close"}
  BY <1>2 DEF InCall
<1>4. th[t].pc = "release" => th[t].op = "close"
  BY <1>2 DEF InCall, OpenPlaces, InvokePlaces
<1>5. th[t].pc = "destroying" => th[t].op \in {"invoke", "close"}
  BY <1>2 DEF InCall, OpenPlaces
<1>6. th[t].c # None
  BY <1>3, <1>4, <1>5 DEF Safe, ThOk, Working
<1> QED BY <1>1, <1>2, <1>6, Fields DEF InCall

\* TaPanics, Forget and Release: a context or its users change, the sleepers' do not.
LEMMA UsesWait ==
  ASSUME TInv, WaitInv, TInv', NEW t \in Threads, kind' = kind,
         TaPanics(t) \/ Forget(t) \/ Release(t)
  PROVE  WaitInv'
<1>0. \A s \in Sessions : sess[s].ref_count \in Nat
  BY Fields DEF TInv
<1>1. CASE TaPanics(t)
  <2>1. Others(t) /\ th[t].c \in Contexts
    BY <1>1, OnlyMover, HasContext DEF TaPanics, At
  <2>2. \A d \in Contexts : ctx'[d].busy = ctx[d].busy /\ ctx'[d].initializing = ctx[d].initializing
    BY <1>1, <2>1, ContextFields DEF TaPanics
  <2> QED BY <1>0, <1>1, <2>1, <2>2, QuietStep DEF TaPanics, At
<1>2. CASE Forget(t)
  <2>1. Others(t)
    BY <1>2, OnlyMover DEF Forget
  <2>2. \A s \in Sessions : /\ sess'[s].unlink = sess[s].unlink
                            /\ sess'[s].lock_thread = sess[s].lock_thread
                            /\ sess'[s].ref_count = sess[s].ref_count
    BY <1>2 DEF Forget, TInv, Typed, TypeOK
  <2>3. \A s \in Sessions : sess'[s].ref_count >= sess[s].ref_count
    BY <1>0, <2>2
  <2> QED BY <1>2, <2>1, <2>2, <2>3, QuietStep DEF Forget, At
<1>3. CASE Release(t)
  <2>1. Others(t) /\ th[t].c \in Contexts
    BY <1>3, OnlyMover, HasContext DEF Release, At, Finish
  <2>2. \A d \in Contexts : ctx'[d].busy = ctx[d].busy /\ ctx'[d].initializing = ctx[d].initializing
    BY <1>3, <2>1, ContextFields DEF Release
  <2> QED BY <1>0, <1>3, <2>1, <2>2, QuietStep DEF Release, At
<1> QED BY <1>1, <1>2, <1>3

------------------------------------------------------------------------------
(* Steps that wake: nobody is left behind                                    *)

\* Only those who wait can be waiting after a step that wakes.
LEMMA FewerWaiters ==
  ASSUME NEW t \in Threads, \A u \in Threads : u # t => Woken(u), waiting'[t] = None,
         NEW cv, cv # None
  PROVE  Waiters(cv)' \subseteq Waiters(cv) \ {t}
  BY DEF Woken, Waiters

\* The names of the condition variables.
LEMMA Names ==
  /\ \A s \in Sessions : None # <<"lock", s>> /\ None # <<"refc", s>>
  /\ \A c \in Contexts : None # <<"busy", c>>
  /\ None # <<"single", None>> /\ None # <<"init", None>>
  BY TaSessionsAssumption

\* The thread that owns a session drains it alone, and nobody sleeps on its lock once it is
\* unlinked or before it is open.
LEMMA OwnerAlone ==
  ASSUME TInv, WaitInv, NEW t \in Threads, NEW s \in Sessions, Owns(t, s)
  PROVE  /\ Waiters(<<"refc", s>>) \subseteq {t}
         /\ sess[s].unlink \/ Opens(t, s) => Waiters(<<"lock", s>>) = {}
<1> USE DEF TInv
<1>1. ASSUME NEW u \in Waiters(<<"refc", s>>) PROVE u = t
  <2>1. u \in Threads /\ WaitsForUsers(u, s)
    BY <1>1, WaitCases DEF Waiters, WaitInv
  <2>2. th[u].pc = "drain" /\ th[u].s = s /\ th[u].op = "close"
    BY <2>1 DEF WaitsForUsers, Typed, InCall, OpenPlaces, InvokePlaces, Idle
  <2>3. Owns(u, s)
    BY <2>2 DEF Owns
  <2> QED BY <2>1, <2>3 DEF Safe, SessOk
<1>2. ASSUME NEW u \in Waiters(<<"lock", s>>) PROVE ~sess[s].unlink /\ ~Opens(t, s)
  <2>1. u \in Threads /\ WaitsForLock(u, s)
    BY <1>2, WaitCases DEF Waiters, WaitInv
  <2>2. th[u].pc = "lock" /\ th[u].s = s /\ ~sess[s].unlink
    BY <2>1 DEF WaitsForLock
  <2>3. th[u].op \in {"invoke", "close"}
    BY <2>1, <2>2 DEF Typed, InCall, OpenPlaces, Idle
  <2>4. Refers(u, s) /\ ~Opens(u, s)
    BY <2>2, <2>3 DEF Refers, Opens
  <2> QED BY <2>1, <2>2, <2>4 DEF Safe, SessOk
<1> QED BY <1>1, <1>2

\* A session that its owner frees has no sleepers.
LEMMA SessionGone ==
  ASSUME TInv, WaitInv, TInv', NEW t \in Threads, Others(t), kind' = kind, NEW s \in Sessions,
         Owns(t, s), sess[s].unlink \/ Opens(t, s),
         sess' = [sess EXCEPT ![s] = NoSession],
         UNCHANGED <<ctx, single, waiting>>, waiting[t] = None,
         th[t].pc \notin {"lock", "set_busy", "loading"}
  PROVE  WaitInv'
<1>1. /\ \A u \in Threads : u # t => Woken(u)
      /\ WaitOk(t)'
      /\ SingleKept(t) /\ LoaderKept(t)
  BY DEF Woken, WaitOk, SingleKept, LoaderKept, At
<1>2. Waiters(<<"refc", s>>)' = {} /\ Waiters(<<"lock", s>>)' = {}
  <2>1. Waiters(<<"refc", s>>)' = Waiters(<<"refc", s>>) /\ Waiters(<<"lock", s>>)' = Waiters(<<"lock", s>>)
    BY DEF Waiters
  <2>2. t \notin Waiters(<<"refc", s>>)
    BY Names DEF Waiters
  <2> QED BY <2>1, <2>2, OwnerAlone
<1>3. \A r \in Sessions : r # s => sess'[r] = sess[r] /\ sess[r].ref_count \in Nat
  BY SessionFields, Fields DEF TInv
<1>4. \A r \in Sessions : LockKept(t, r) /\ UsersKept(r)
  BY <1>2, <1>3 DEF LockKept, UsersKept, Tries, At
<1>5. \A c \in Contexts : InstanceKept(t, c) /\ LoaderOk(c)'
  BY LoaderFrame DEF InstanceKept, Enters, At
<1> QED BY <1>1, <1>4, <1>5, WaitStep

\* The session has no TA.
LEMMA GiveUpWaits ==
  ASSUME TInv, WaitInv, TInv', NEW t \in Threads, kind' = kind, GiveUp(t)
  PROVE  WaitInv'
<1>0. Others(t)
  BY OnlyMover DEF GiveUp
<1>1. th[t].pc = "give_up" /\ waiting[t] = None /\ th[t] # Idle
  BY DEF GiveUp, At, Idle
<1>2. th[t].op = "open" /\ th[t].s \in Sessions
  BY <1>1 DEF TInv, Typed, InCall, InvokePlaces, ClosePlaces
<1>3. Owns(t, th[t].s) /\ Opens(t, th[t].s)
  BY <1>2 DEF Owns, Opens
<1> QED BY <1>0, <1>1, <1>2, <1>3, SessionGone DEF GiveUp

\* The thread that closes a session waits for its users, or frees it.
LEMMA DrainWaits ==
  ASSUME TInv, WaitInv, TInv', NEW t \in Threads, kind' = kind, Drain(t)
  PROVE  WaitInv'
<1>1. th[t].pc = "drain" /\ waiting[t] = None /\ th[t] # Idle
  BY DEF Drain, At, Idle
<1>2. th[t].op = "close" /\ th[t].s \in Sessions
  BY <1>1 DEF TInv, Typed, InCall, OpenPlaces, InvokePlaces
<1> DEFINE s == th[t].s
<1>3. Owns(t, s) /\ Drains(t, s)
  BY <1>1, <1>2 DEF Owns, Drains
<1>4. sess[s].unlink
  BY <1>2, <1>3 DEF TInv, Safe, SessOk
<1>5. CASE sess[s].ref_count # 1 /\ Wait(t, <<"refc", s>>) /\ UNCHANGED <<sess, th>>
  <2>1. /\ Others(t) /\ UNCHANGED <<ctx, single>>
        /\ \A u \in Threads : u # t => Woken(u)
        /\ waiting'[t] = <<"refc", s>>
    BY <1>5 DEF Drain, Wait, Woken, Others, TInv, Typed
  <2>2. PICK r \in Sessions : r = s
    BY <1>2
  <2>3. WaitOk(t)'
    <3>1. waiting'[t] = <<"refc", r>> /\ WaitsForUsers(t, r)'
      BY <1>1, <1>5, <2>1, <2>2 DEF WaitsForUsers
    <3> QED BY <2>2, <3>1 DEF WaitOk
  <2>4. SingleKept(t) /\ LoaderKept(t)
    BY <1>1, <2>1 DEF SingleKept, LoaderKept, At
  <2>5. \A q \in Sessions : LockKept(t, q) /\ UsersKept(q)
    BY <1>1, <1>5, Fields DEF LockKept, UsersKept, Tries, At, TInv
  <2>6. \A c \in Contexts : InstanceKept(t, c) /\ LoaderOk(c)'
    BY <1>1, <2>1, LoaderFrame DEF InstanceKept, Enters, At
  <2> QED BY <2>1, <2>3, <2>4, <2>5, <2>6, WaitStep
<1>6. CASE sess' = [sess EXCEPT ![s] = NoSession] /\ UNCHANGED waiting
           /\ (Finish(t, {}) \/ Goto(t, IF th[t].busy THEN "clear_busy" ELSE "release"))
  <2>1. Others(t) /\ UNCHANGED <<ctx, single>>
    BY <1>6, OnlyMover DEF Drain, Finish
  <2> QED BY <1>1, <1>2, <1>3, <1>4, <1>6, <2>1, SessionGone
<1> QED BY <1>5, <1>6 DEF Drain

------------------------------------------------------------------------------
(* Loading a TA                                                              *)

\* The lookup waits only for a context that somebody loads.
LEMMA FindContextWaits ==
  ASSUME TInv, WaitInv, TInv', NEW t \in Threads, kind' = kind, NEW s \in Sessions,
         NEW S \in [Sessions -> SessionType],
         \A r \in Sessions : /\ S[r].unlink = sess[r].unlink
                             /\ S[r].lock_thread = sess[r].lock_thread
                             /\ S[r].ref_count >= sess[r].ref_count,
         waiting[t] = None, th[t].pc \in {"idle", "find"}, FindContext(t, s, S)
  PROVE  WaitInv'
<1> DEFINE found == tee_ctxes # << >>
           c == tee_ctxes[1]
<1>1. Others(t) /\ UNCHANGED single
  BY OnlyMover DEF FindContext
<1>2. found => c \in Contexts
  BY FirstOfList DEF TInv, Safe, ListOk
<1>3. \A r \in Sessions : /\ sess'[r].unlink = sess[r].unlink
                          /\ sess'[r].lock_thread = sess[r].lock_thread
                          /\ sess'[r].ref_count >= sess[r].ref_count
  <2>1. CASE sess' = S
    BY <2>1
  <2>2. CASE sess' = [S EXCEPT ![s].ctx = c]
    BY <2>2 DEF SessionType
  <2> QED BY <2>1, <2>2 DEF FindContext
<1>4. \A d \in Contexts : ctx'[d].busy = ctx[d].busy /\ ctx'[d].initializing = ctx[d].initializing
  <2>1. CASE ctx' = ctx
    BY <2>1
  <2>2. CASE found /\ ctx' = [ctx EXCEPT ![c].ref_count = @ + 1]
    <3> HIDE DEF c, found
    <3> QED BY <1>2, <2>2, ContextFields
  <2> QED BY <2>1, <2>2 DEF FindContext
<1>5. CASE UNCHANGED waiting
  BY <1>1, <1>3, <1>4, <1>5, QuietStep
<1>6. CASE found /\ ctx[c].initializing /\ Wait(t, <<"init", None>>) /\ th'[t].pc = "find"
  <2>1. /\ \A u \in Threads : u # t => Woken(u)
        /\ waiting'[t] = <<"init", None>>
    BY <1>6 DEF Wait, Woken, TInv, Typed
  <2>2. PICK u \in Threads : th[u].pc = "loading"
    BY <1>2, <1>6 DEF WaitInv, LoaderOk
  <2>3. WaitOk(t)'
    <3>1. th'[u].pc = "loading"
      BY <1>1, <2>2 DEF Others
    <3> QED BY <1>6, <2>1, <3>1 DEF WaitOk, WaitsForLoader
  <2>4. SingleKept(t) /\ LoaderKept(t)
    BY <1>1 DEF SingleKept, LoaderKept, At
  <2>5. \A r \in Sessions : LockKept(t, r) /\ UsersKept(r)
    BY <1>3 DEF LockKept, UsersKept, Tries, At
  <2>6. \A d \in Contexts : InstanceKept(t, d) /\ LoaderOk(d)'
    BY <1>1, <1>4, LoaderFrame DEF InstanceKept, Enters, At
  <2> QED BY <1>1, <2>1, <2>3, <2>4, <2>5, <2>6, WaitStep
<1>7. (found /\ ctx[c].initializing /\ Wait(t, <<"init", None>>) /\ th'[t].pc = "find") \/ UNCHANGED waiting
  <2>1. th' = [th EXCEPT ![t] = [Idle EXCEPT !.pc = "find", !.op = "open", !.s = s]] => th'[t].pc = "find"
    BY DEF TInv, Typed, Idle
  <2> QED BY <2>1 DEF FindContext
<1> QED BY <1>5, <1>6, <1>7

\* StartOpen and FindAgain.
LEMMA OpensWait ==
  ASSUME TInv, WaitInv, TInv', NEW t \in Threads, kind' = kind,
         FindAgain(t) \/ \E s \in Sessions : StartOpen(t, s)
  PROVE  WaitInv'
<1>1. CASE FindAgain(t)
  <2>1. th[t].pc = "find" /\ waiting[t] = None /\ FindContext(t, th[t].s, sess)
    BY <1>1 DEF FindAgain, At
  <2>2. th[t].s \in Sessions
    BY <2>1, CallSession DEF TInv, Idle
  <2>3. sess \in [Sessions -> SessionType] /\ \A r \in Sessions : sess[r].ref_count >= sess[r].ref_count
    BY Fields DEF TInv, Typed, TypeOK, SessionType
  <2> QED BY <2>1, <2>2, <2>3, FindContextWaits
<1>2. ASSUME NEW s \in Sessions, StartOpen(t, s) PROVE WaitInv'
  <2> DEFINE new == [NoSession EXCEPT !.listed = TRUE, !.ref_count = 1]
             S == [sess EXCEPT ![s] = new]
  <2>1. th[t] = Idle /\ ~sess[s].listed /\ FindContext(t, s, S)
    BY <1>2 DEF StartOpen
  <2>2. sess[s] = NoSession
    BY <2>1 DEF TInv, Safe, SessOk
  <2>3. new \in SessionType /\ new.unlink = FALSE /\ new.lock_thread = None /\ new.ref_count = 1
    BY DEF SessionType, NoSession
  <2>4. sess[s].unlink = FALSE /\ sess[s].lock_thread = None /\ sess[s].ref_count = 0
    BY <2>2 DEF NoSession
  <2>5. sess \in [Sessions -> SessionType] /\ \A r \in Sessions : sess[r].ref_count \in Nat
    BY Fields DEF TInv, Typed, TypeOK, SessionType
  <2> HIDE DEF new
  <2>6. S \in [Sessions -> SessionType] /\ S[s] = new /\ \A r \in Sessions : r # s => S[r] = sess[r]
    BY <2>3, <2>5
  <2>7. \A r \in Sessions : /\ S[r].unlink = sess[r].unlink
                            /\ S[r].lock_thread = sess[r].lock_thread
                            /\ S[r].ref_count >= sess[r].ref_count
    <3> HIDE DEF S
    <3>1. S[s].unlink = sess[s].unlink /\ S[s].lock_thread = sess[s].lock_thread
      BY <2>3, <2>4, <2>6, Zenon
    <3>3. S[s].ref_count = 1
      BY <2>3, <2>6, Zenon
    <3>4. S[s].ref_count >= sess[s].ref_count
      BY <2>4, <3>3
    <3>2. \A r \in Sessions : sess[r].ref_count >= sess[r].ref_count
      BY <2>5
    <3> QED BY <2>6, <3>1, <3>2, <3>4
  <2> HIDE DEF S
  <2> QED BY <2>1, <2>6, <2>7, IdleAwake, FindContextWaits
<1> QED BY <1>1, <1>2

\* A TA is loaded by the thread that says so.
LEMMA LoadTaWaits ==
  ASSUME TInv, WaitInv, TInv', NEW t \in Threads, kind' = kind, LoadTa(t)
  PROVE  WaitInv'
<1>1. th[t].pc = "load" /\ waiting[t] = None /\ UNCHANGED <<single, waiting>>
  BY DEF LoadTa, At
<1>2. PICK c \in Contexts :
        /\ ~ctx[c].alive
        /\ ctx' = [ctx EXCEPT ![c] = [NoContext EXCEPT !.alive = TRUE, !.initializing = TRUE,
                                                       !.ref_count = 1]]
        /\ sess' = [sess EXCEPT ![th[t].s].ctx = c]
        /\ th' = [th EXCEPT ![t].c = c, ![t].pc = "loading"]
  BY DEF LoadTa
<1>3. th[t].s \in Sessions
  BY <1>1, CallSession DEF TInv, Idle
<1>4. Others(t) /\ th'[t].c = c /\ th'[t].pc = "loading"
  BY <1>2, ContextEffect DEF TInv, Places, OpenPlaces
<1>5. ~ctx[c].busy /\ \A d \in Contexts : d # c => ctx'[d] = ctx[d]
  BY <1>2, ContextFields DEF TInv, Safe, CtxOk, NoContext
<1>6. \A s \in Sessions : /\ sess'[s].unlink = sess[s].unlink
                          /\ sess'[s].lock_thread = sess[s].lock_thread
                          /\ sess'[s].ref_count = sess[s].ref_count
  BY <1>2, <1>3, SessionFields
<1>7. /\ \A u \in Threads : u # t => Woken(u)
      /\ WaitOk(t)'
      /\ SingleKept(t) /\ LoaderKept(t)
  BY <1>1 DEF Woken, WaitOk, SingleKept, LoaderKept, At
<1>8. \A s \in Sessions : LockKept(t, s) /\ UsersKept(s)
  BY <1>1, <1>6, Fields DEF LockKept, UsersKept, Tries, At, TInv
<1>9. ASSUME NEW d \in Contexts PROVE InstanceKept(t, d) /\ LoaderOk(d)'
  <2>1. InstanceKept(t, d)
    BY <1>1, <1>5 DEF InstanceKept, Enters, At
  <2>2. CASE d = c
    BY <1>4, <2>1, <2>2 DEF LoaderOk
  <2>3. CASE d # c
    BY <1>1, <1>4, <1>5, <2>1, <2>3, LoaderFrame
  <2> QED BY <2>2, <2>3
<1> QED BY <1>4, <1>7, <1>8, <1>9, WaitStep

\* The context is there, or gone: whoever waits for it looks again.
LEMMA LoadedWait ==
  ASSUME TInv, WaitInv, TInv', NEW t \in Threads, kind' = kind, TaLoaded(t) \/ TaNotLoaded(t)
  PROVE  WaitInv'
<1>1. /\ th[t].pc = "loading" /\ waiting[t] = None /\ UNCHANGED single
      /\ Broadcast(<<"init", None>>)
  BY DEF TaLoaded, TaNotLoaded, At
<1>2. Others(t) /\ th[t].c \in Contexts /\ th[t].s \in Sessions
  <2>1. Others(t)
    BY OnlyMover DEF TaLoaded, TaNotLoaded
  <2> QED BY <1>1, <2>1, HasContext
<1>c. PICK c \in Contexts : c = th[t].c
  BY <1>2
<1>3. /\ \A u \in Threads : Woken(u)
      /\ waiting'[t] = None /\ Waiters(<<"init", None>>)' = {}
  <2>1. \A u \in Threads : waiting'[u] = IF waiting[u] = <<"init", None>> THEN None ELSE waiting[u]
    BY <1>1 DEF Broadcast
  <2> QED BY <1>1, <2>1, Names DEF Woken, Waiters
<1>4. \A d \in Contexts : d # c => ctx'[d] = ctx[d]
  <2>1. \/ ctx' = [ctx EXCEPT ![c].initializing = FALSE]
        \/ ctx' = [ctx EXCEPT ![c] = NoContext]
    BY <1>c DEF TaLoaded, TaNotLoaded
  <2> QED BY <1>2, <2>1, ContextFields
<1>5. ~ctx'[c].initializing /\ (ctx[c].busy => ctx'[c].busy \/ Waiters(<<"busy", c>>)' = {})
  <2>1. CASE TaLoaded(t)
    <3>1. ctx' = [ctx EXCEPT ![c].initializing = FALSE]
      BY <1>c, <2>1 DEF TaLoaded
    <3> QED BY <1>2, <3>1, ContextFields
  <2>2. CASE TaNotLoaded(t)
    <3>1. ctx' = [ctx EXCEPT ![c] = NoContext] /\ faults' = faults \cup Unless(Waiters(<<"busy", c>>) = {}, "condvar")
      BY <1>c, <2>2 DEF TaNotLoaded, Check
    <3>2. Waiters(<<"busy", c>>) = {}
      BY <3>1 DEF TInv, NoAssertionFails, Unless
    <3>3. Waiters(<<"busy", c>>)' = {}
      BY <1>2, <1>3, <3>2, Names DEF Woken, Waiters
    <3>4. ctx'[c] = NoContext
      BY <3>1, ContextFields
    <3> QED BY <3>3, <3>4 DEF NoContext
  <2> QED BY <2>1, <2>2
<1>6. \A s \in Sessions : /\ sess'[s].unlink = sess[s].unlink
                          /\ sess'[s].lock_thread = sess[s].lock_thread
                          /\ sess'[s].ref_count = sess[s].ref_count
  <2>1. sess' = sess \/ sess' = [sess EXCEPT ![th[t].s].ctx = None]
    BY DEF TaLoaded, TaNotLoaded
  <2> QED BY <1>2, <2>1, SessionFields
<1>7. WaitOk(t)' /\ SingleKept(t) /\ LoaderKept(t)
  BY <1>1, <1>3 DEF WaitOk, SingleKept, LoaderKept, At
<1>8. \A s \in Sessions : LockKept(t, s) /\ UsersKept(s)
  BY <1>1, <1>6, Fields DEF LockKept, UsersKept, Tries, At, TInv
<1>9. ASSUME NEW d \in Contexts PROVE InstanceKept(t, d) /\ LoaderOk(d)'
  <2>1. InstanceKept(t, d)
    BY <1>1, <1>4, <1>5 DEF InstanceKept, Enters, At
  <2>2. CASE d = c
    BY <1>5, <2>1, <2>2 DEF LoaderOk
  <2>3. CASE d # c
    BY <1>2, <1>c, <1>4, <2>1, <2>3, LoaderFrame
  <2> QED BY <2>2, <2>3
<1> QED BY <1>2, <1>3, <1>7, <1>8, <1>9, WaitStep

------------------------------------------------------------------------------
(* The instance and the lock of a session                                    *)

\* condvar_signal wakes one of those who wait.
LEMMA SignalOne ==
  ASSUME TInv, NEW cvs, Signal(cvs), NEW cv \in cvs, Waiters(cv) # {}
  PROVE  \E u \in Waiters(cv) : waiting'[u] = None
<1>1. PICK W \in SUBSET Threads :
        /\ Cardinality(W \cap Waiters(cv)) = 1
        /\ waiting' = [u \in Threads |-> IF u \in W THEN None ELSE waiting[u]]
  BY DEF Signal
<1>2. W \cap Waiters(cv) # {}
  BY <1>1, FS_EmptySet
<1> QED BY <1>1, <1>2 DEF Waiters

\* Instances are waited for one by one, or all together.
LEMMA OneKindOfWait ==
  ASSUME TInv, WaitInv
  PROVE  /\ SingleInstance => \A c \in Contexts : Waiters(<<"busy", c>>) = {}
         /\ ~SingleInstance => Waiters(<<"single", None>>) = {}
<1>1. ASSUME NEW c \in Contexts, NEW u \in Waiters(<<"busy", c>>) PROVE ~SingleInstance
  <2>1. u \in Threads /\ WaitsForInstance(u, c)
    BY <1>1, WaitCases DEF Waiters, WaitInv
  <2> QED BY <2>1 DEF WaitsForInstance
<1>2. ASSUME NEW u \in Waiters(<<"single", None>>) PROVE SingleInstance
  <2>1. u \in Threads /\ WaitsForSingle(u)
    BY <1>2, WaitCases DEF Waiters, WaitInv
  <2> QED BY <2>1 DEF WaitsForSingle
<1> QED BY <1>1, <1>2

\* A context that is destroyed has no sleepers.
LEMMA DestroyContextWaits ==
  ASSUME TInv, WaitInv, TInv', NEW t \in Threads, kind' = kind, DestroyContext(t)
  PROVE  WaitInv'
<1>1. th[t].pc = "destroying" /\ waiting[t] = None /\ UNCHANGED <<single, waiting>>
  BY DEF DestroyContext, At
<1>2. Others(t)
  BY OnlyMover DEF DestroyContext, Finish
<1>3. th[t].c \in Contexts /\ th[t].s \in Sessions
  BY <1>1, HasContext
<1>c. PICK c \in Contexts : c = th[t].c
  BY <1>3
<1>4. ctx'[c] = NoContext /\ \A d \in Contexts : d # c => ctx'[d] = ctx[d]
  BY <1>c DEF DestroyContext
<1>5. Waiters(<<"busy", c>>)' = {}
  <2>1. Unless(Waiters(<<"busy", c>>) = {}, "condvar") \subseteq faults'
    BY <1>c DEF DestroyContext, Check, Finish
  <2>2. Waiters(<<"busy", c>>) = {}
    BY <2>1 DEF TInv, NoAssertionFails, Unless
  <2> QED BY <1>1, <2>2 DEF Waiters
<1>6. \A s \in Sessions : /\ sess'[s].unlink = sess[s].unlink
                          /\ sess'[s].lock_thread = sess[s].lock_thread
                          /\ sess'[s].ref_count = sess[s].ref_count
  <2>1. sess' = sess \/ sess' = [sess EXCEPT ![th[t].s].ctx = None]
    BY DEF DestroyContext
  <2> QED BY <1>3, <2>1, SessionFields
<1>7. /\ \A u \in Threads : u # t => Woken(u)
      /\ WaitOk(t)' /\ SingleKept(t) /\ LoaderKept(t)
  BY <1>1 DEF Woken, WaitOk, SingleKept, LoaderKept, At
<1>8. \A s \in Sessions : LockKept(t, s) /\ UsersKept(s)
  BY <1>1, <1>6, Fields DEF LockKept, UsersKept, Tries, At, TInv
<1>9. \A d \in Contexts : InstanceKept(t, d) /\ LoaderOk(d)'
  <2>1. \A d \in Contexts : ctx'[d].initializing => ctx[d].initializing
    BY <1>4 DEF NoContext
  <2>2. \A d \in Contexts : InstanceKept(t, d)
    BY <1>1, <1>4, <1>5 DEF InstanceKept, Enters, At
  <2> QED BY <1>1, <1>2, <2>1, <2>2, LoaderFrame
<1> QED BY <1>2, <1>7, <1>8, <1>9, WaitStep

\* A thread takes the instance or waits for the one that has it.
LEMMA SetBusyWaits ==
  ASSUME TInv, WaitInv, TInv', NEW t \in Threads, kind' = kind, SetBusy(t)
  PROVE  WaitInv'
<1>1. th[t].pc = "set_busy" /\ waiting[t] = None /\ UNCHANGED sess
  BY DEF SetBusy, At
<1>2. th[t].c \in Contexts
  BY <1>1, HasContext
<1>c. PICK c \in Contexts : c = th[t].c
  BY <1>2
<1>3. LoaderKept(t) /\ \A s \in Sessions : LockKept(t, s) /\ UsersKept(s)
  BY <1>1, Fields DEF LoaderKept, LockKept, UsersKept, Tries, At, TInv
<1> DEFINE blocked == IF SingleInstance THEN single # None ELSE ctx[c].busy
<1>4. CASE /\ blocked /\ Wait(t, IF SingleInstance THEN <<"single", None>> ELSE <<"busy", c>>)
           /\ UNCHANGED <<ctx, single, th>>
  <2>1. /\ Others(t)
        /\ \A u \in Threads : u # t => Woken(u)
        /\ waiting'[t] = IF SingleInstance THEN <<"single", None>> ELSE <<"busy", c>>
    BY <1>4 DEF Wait, Woken, Others, TInv, Typed
  <2>2. WaitOk(t)'
    <3>1. CASE SingleInstance
      BY <1>1, <1>4, <2>1, <3>1 DEF WaitOk, WaitsForSingle, SingleInstance
    <3>2. CASE ~SingleInstance
      <4>1. WaitsForInstance(t, c)' /\ waiting'[t] = <<"busy", c>>
        BY <1>1, <1>c, <1>4, <2>1, <3>2 DEF WaitsForInstance, SingleInstance
      <4> QED BY <4>1 DEF WaitOk
    <3> QED BY <3>1, <3>2
  <2>3. SingleKept(t) /\ \A d \in Contexts : InstanceKept(t, d)
    <3>1. CASE SingleInstance
      <4>1. \A d \in Contexts : Waiters(<<"busy", d>>)' = {}
        <5>1. \A d \in Contexts, u \in Threads : waiting[u] # <<"busy", d>>
          BY <3>1, OneKindOfWait DEF Waiters
        <5>2. \A d \in Contexts : waiting'[t] # <<"busy", d>>
          BY <2>1, <3>1
        <5>3. \A d \in Contexts, u \in Threads : waiting'[u] # <<"busy", d>>
          BY <2>1, <5>1, <5>2, Names DEF Woken
        <5> QED BY <5>3 DEF Waiters
      <4> QED BY <1>4, <3>1, <4>1 DEF SingleKept, InstanceKept
    <3>2. CASE ~SingleInstance
      <4>1. Waiters(<<"single", None>>)' = {}
        <5>1. \A u \in Threads : waiting[u] # <<"single", None>>
          BY <3>2, OneKindOfWait DEF Waiters
        <5>2. waiting'[t] # <<"single", None>>
          BY <2>1, <3>2
        <5>3. \A u \in Threads : waiting'[u] # <<"single", None>>
          BY <2>1, <5>1, <5>2, Names DEF Woken
        <5> QED BY <5>3 DEF Waiters
      <4>2. \A d \in Contexts : Enters(t, d) => ctx'[d].busy
        BY <1>c, <1>4, <3>2 DEF Enters
      <4> QED BY <1>4, <4>1, <4>2 DEF SingleKept, InstanceKept
    <3> QED BY <3>1, <3>2
  <2>4. \A d \in Contexts : LoaderOk(d)'
    BY <1>1, <1>4, <2>1, LoaderFrame
  <2> QED BY <1>3, <2>1, <2>2, <2>3, <2>4, WaitStep
<1>5. CASE /\ single' = (IF SingleInstance THEN t ELSE single)
           /\ ctx' = [ctx EXCEPT ![c].busy = TRUE]
           /\ th' = [th EXCEPT ![t].pc = "ta", ![t].busy = TRUE]
           /\ UNCHANGED waiting
  <2>1. Others(t) /\ (\A u \in Threads : u # t => Woken(u)) /\ WaitOk(t)'
    BY <1>1, <1>5, OnlyMover DEF Woken, WaitOk
  <2>2. /\ \A d \in Contexts : d # c => ctx'[d] = ctx[d]
        /\ ctx'[c].busy /\ ctx'[c].initializing = ctx[c].initializing
    BY <1>5, ContextFields
  <2>3. SingleKept(t)
    <3>1. SingleInstance => single' # None
      BY <1>5, TaSessionsAssumption
    <3>2. ~SingleInstance => Waiters(<<"single", None>>)' = {}
      BY <1>5, OneKindOfWait DEF Waiters
    <3> QED BY <3>1, <3>2 DEF SingleKept
  <2>4. \A d \in Contexts : InstanceKept(t, d) /\ LoaderOk(d)'
    <3>1. \A d \in Contexts : InstanceKept(t, d)
      BY <1>c, <2>2 DEF InstanceKept, Enters
    <3> QED BY <1>1, <2>1, <2>2, <3>1, LoaderFrame
  <2> QED BY <1>3, <2>1, <2>3, <2>4, WaitStep
<1> QED BY <1>c, <1>4, <1>5 DEF SetBusy

\* A thread leaves the instance: one that waits for it is on its way.
LEMMA ClearBusyWaits ==
  ASSUME TInv, WaitInv, TInv', NEW t \in Threads, kind' = kind, ClearBusy(t)
  PROVE  WaitInv'
<1>1. th[t].pc = "clear_busy" /\ waiting[t] = None /\ UNCHANGED sess
  BY DEF ClearBusy, At
<1>2. th[t].c \in Contexts /\ Others(t)
  BY <1>1, HasContext, OnlyMover DEF ClearBusy
<1>c. PICK c \in Contexts : c = th[t].c
  BY <1>2
<1> DEFINE cvs == {<<"busy", c>>} \cup IF SingleInstance THEN {<<"single", None>>} ELSE {}
<1>3. /\ Signal(cvs) /\ ctx' = [ctx EXCEPT ![c].busy = FALSE]
      /\ single' = IF SingleInstance THEN None ELSE single
  BY <1>c DEF ClearBusy
<1>4. \A u \in Threads : Woken(u)
  BY <1>3, SignalWakes DEF TInv
<1>5. waiting'[t] = None /\ WaitOk(t)'
  BY <1>1, <1>4 DEF Woken, WaitOk
<1>6. \A d \in Contexts : d # c => ctx'[d] = ctx[d]
  BY <1>3, ContextFields
<1>7. LoaderKept(t) /\ \A s \in Sessions : LockKept(t, s) /\ UsersKept(s)
  BY <1>1, Fields DEF LoaderKept, LockKept, UsersKept, Tries, At, TInv
<1>8. ASSUME NEW d \in Contexts PROVE InstanceKept(t, d)
  <2>1. CASE d # c
    BY <1>1, <1>6, <2>1 DEF InstanceKept, Enters, At
  <2>2. CASE d = c /\ Waiters(<<"busy", c>>) = {}
    BY <1>4, <1>5, <2>2, Names, FewerWaiters DEF InstanceKept
  <2>3. CASE d = c /\ Waiters(<<"busy", c>>) # {}
    <3>1. PICK u \in Waiters(<<"busy", c>>) : waiting'[u] = None
      BY <1>3, <2>3, SignalOne
    <3>2. u \in Threads /\ WaitsForInstance(u, c)
      BY <3>1, WaitCases DEF Waiters, WaitInv
    <3>3. u # t
      BY <1>1, <3>2 DEF WaitsForInstance
    <3>4. Enters(u, c)'
      BY <1>2, <3>1, <3>2, <3>3 DEF Others, WaitsForInstance, Enters, At
    <3> QED BY <2>3, <3>2, <3>4 DEF InstanceKept
  <2> QED BY <2>1, <2>2, <2>3
<1>9. SingleKept(t)
  <2>1. CASE ~SingleInstance
    BY <1>1, <1>3, <2>1 DEF SingleKept, At
  <2>2. CASE Waiters(<<"single", None>>) = {}
    BY <1>4, <1>5, <2>2, Names, FewerWaiters DEF SingleKept
  <2>3. CASE SingleInstance /\ Waiters(<<"single", None>>) # {}
    <3>1. PICK u \in Waiters(<<"single", None>>) : waiting'[u] = None
      BY <1>3, <2>3, SignalOne
    <3>2. u \in Threads /\ WaitsForSingle(u)
      BY <3>1, WaitCases DEF Waiters, WaitInv
    <3>3. u # t
      BY <1>1, <3>2 DEF WaitsForSingle
    <3>4. At(u, "set_busy")'
      BY <1>2, <3>1, <3>2, <3>3 DEF Others, WaitsForSingle, At
    <3> QED BY <3>2, <3>4 DEF SingleKept
  <2> QED BY <2>1, <2>2, <2>3
<1>10. \A d \in Contexts : LoaderOk(d)'
  <2>1. ctx'[c].initializing = ctx[c].initializing
    BY <1>3, ContextFields
  <2> QED BY <1>1, <1>2, <1>6, <2>1, LoaderFrame
<1> QED BY <1>2, <1>4, <1>5, <1>7, <1>8, <1>9, <1>10, WaitStep

\* The last user but the closing thread tells it so.
LEMMA UsersTold ==
  ASSUME TInv, WaitInv, NEW t \in Threads, Others(t), NEW s \in Sessions, NEW cvs,
         RefCountSignals(s) \subseteq cvs, Signal(cvs),
         sess'[s].ref_count = sess[s].ref_count - 1
  PROVE  UsersKept(s)
<1>1. \A u \in Threads : Woken(u)
  BY SignalWakes DEF TInv
<1>2. sess[s].ref_count \in Nat
  BY Fields DEF TInv
<1>3. CASE sess[s].ref_count # 2
  BY <1>2, <1>3 DEF UsersKept
<1>4. CASE sess[s].ref_count = 2 /\ Waiters(<<"refc", s>>) = {}
  <2>1. Waiters(<<"refc", s>>)' = {}
    BY <1>1, <1>4, Names DEF Woken, Waiters
  <2> QED BY <2>1 DEF UsersKept
<1>5. CASE sess[s].ref_count = 2 /\ Waiters(<<"refc", s>>) # {}
  <2>1. <<"refc", s>> \in cvs
    BY <1>5 DEF RefCountSignals
  <2>2. PICK u \in Waiters(<<"refc", s>>) : waiting'[u] = None
    BY <1>5, <2>1, SignalOne
  <2>3. u \in Threads /\ WaitsForUsers(u, s)
    BY <2>2, WaitCases DEF Waiters, WaitInv
  <2>4. Owns(u, s)
    <3>1. th[u].pc = "drain" /\ th[u].s = s
      BY <2>3 DEF WaitsForUsers
    <3>2. th[u].op = "close"
      BY <2>3, <3>1 DEF TInv, Typed, InCall, OpenPlaces, InvokePlaces, Idle
    <3> QED BY <3>1, <3>2 DEF Owns
  <2>5. Waiters(<<"refc", s>>) \subseteq {u}
    BY <2>3, <2>4, OwnerAlone
  <2>6. Waiters(<<"refc", s>>)' = {}
    BY <1>1, <2>2, <2>5, Names DEF Woken, Waiters
  <2> QED BY <2>6 DEF UsersKept
<1> QED BY <1>3, <1>4, <1>5

\* Nobody sleeps on the lock of a session that is unlinked.
LEMMA UnlinkedAwake ==
  ASSUME WaitInv, NEW s \in Sessions, sess[s].unlink
  PROVE  Waiters(<<"lock", s>>) = {}
<1>1. ASSUME NEW u \in Waiters(<<"lock", s>>) PROVE FALSE
  <2>1. u \in Threads /\ WaitsForLock(u, s)
    BY <1>1, WaitCases DEF Waiters, WaitInv
  <2> QED BY <2>1 DEF WaitsForLock
<1> QED BY <1>1

\* A step about one session that leaves the contexts alone.
LEMMA SessionStep ==
  ASSUME TInv, WaitInv, TInv', NEW t \in Threads, Others(t), kind' = kind, NEW s \in Sessions,
         UNCHANGED <<ctx, single>>, th[t].pc \notin {"set_busy", "loading"},
         th[t].pc = "lock" => th[t].s = s,
         \A u \in Threads : u # t => Woken(u), WaitOk(t)',
         \A r \in Sessions : r # s => sess'[r] = sess[r],
         LockKept(t, s), UsersKept(s)
  PROVE  WaitInv'
<1>1. SingleKept(t) /\ LoaderKept(t)
  BY DEF SingleKept, LoaderKept, At
<1>2. \A c \in Contexts : InstanceKept(t, c) /\ LoaderOk(c)'
  BY LoaderFrame DEF InstanceKept, Enters, At
<1>3. ASSUME NEW r \in Sessions PROVE LockKept(t, r) /\ UsersKept(r)
  <2>1. CASE r # s
    BY <2>1, Fields DEF LockKept, UsersKept, Tries, At, TInv
  <2> QED BY <2>1
<1> QED BY <1>1, <1>2, <1>3, WaitStep

\* tee_ta_get_session: a thread takes the lock, waits for it, or is sent away.
LEMMA LockWaits ==
  ASSUME TInv, WaitInv, TInv', NEW t \in Threads, kind' = kind, Lock(t)
  PROVE  WaitInv'
<1>1. th[t].pc = "lock" /\ waiting[t] = None /\ UNCHANGED <<ctx, single>> /\ th[t] # Idle
  BY DEF Lock, At, Idle
<1>2. th[t].s \in Sessions
  BY <1>1, CallSession DEF TInv
<1>s. PICK s \in Sessions : s = th[t].s
  BY <1>2
<1>3. CASE /\ sess[s].unlink /\ sess' = [sess EXCEPT ![s].ref_count = @ - 1]
           /\ Signal(RefCountSignals(s)) /\ Return(t)
  <2>1. Others(t) /\ (\A u \in Threads : Woken(u))
    BY <1>3, OnlyMover, SignalWakes DEF TInv
  <2>2. /\ \A r \in Sessions : r # s => sess'[r] = sess[r]
        /\ sess'[s].ref_count = sess[s].ref_count - 1
    BY <1>3, SessionFields
  <2>3. waiting'[t] = None /\ WaitOk(t)'
    BY <1>1, <2>1 DEF Woken, WaitOk
  <2>4. UsersKept(s)
    BY <1>3, <2>1, <2>2, UsersTold
  <2>5. LockKept(t, s)
    BY <1>3, <2>1, <2>3, UnlinkedAwake, FewerWaiters, Names DEF LockKept
  <2> QED BY <1>1, <1>s, <2>1, <2>2, <2>3, <2>4, <2>5, SessionStep
<1>4. CASE /\ ~sess[s].unlink /\ sess[s].lock_thread # None /\ Wait(t, <<"lock", s>>)
           /\ UNCHANGED <<sess, th>>
  <2>1. /\ Others(t) /\ waiting'[t] = <<"lock", s>>
        /\ \A u \in Threads : u # t => Woken(u)
    BY <1>4 DEF Wait, Woken, Others, TInv, Typed
  <2>2. WaitOk(t)'
    <3>1. WaitsForLock(t, s)'
      BY <1>1, <1>s, <1>4 DEF WaitsForLock
    <3> QED BY <2>1, <3>1 DEF WaitOk
  <2>3. LockKept(t, s) /\ UsersKept(s)
    BY <1>4, Fields DEF LockKept, UsersKept, TInv
  <2> QED BY <1>1, <1>s, <1>4, <2>1, <2>2, <2>3, SessionStep
<1>5. CASE /\ ~sess[s].unlink /\ sess' = [sess EXCEPT ![s].lock_thread = t]
           /\ Goto(t, "locked") /\ UNCHANGED waiting
  <2>1. Others(t) /\ (\A u \in Threads : u # t => Woken(u)) /\ WaitOk(t)'
    BY <1>1, <1>5, OnlyMover DEF Woken, WaitOk
  <2>2. /\ \A r \in Sessions : r # s => sess'[r] = sess[r]
        /\ sess'[s].ref_count = sess[s].ref_count /\ sess'[s].lock_thread = t
        /\ sess'[s].unlink = sess[s].unlink
    BY <1>5, SessionFields
  <2>3. LockKept(t, s) /\ UsersKept(s)
    BY <2>2, Fields, TaSessionsAssumption DEF LockKept, UsersKept, TInv
  <2> QED BY <1>1, <1>s, <2>1, <2>2, <2>3, SessionStep
<1> QED BY <1>s, <1>3, <1>4, <1>5 DEF Lock

\* tee_ta_put_session: one that waits for the lock is on its way to it.
LEMMA PutWaits ==
  ASSUME TInv, WaitInv, TInv', NEW t \in Threads, kind' = kind, Put(t)
  PROVE  WaitInv'
<1>1. th[t].pc = "put" /\ waiting[t] = None /\ UNCHANGED <<ctx, single>> /\ th[t] # Idle
  BY DEF Put, At, Idle
<1>2. th[t].s \in Sessions
  BY <1>1, CallSession DEF TInv
<1>s. PICK s \in Sessions : s = th[t].s
  BY <1>2
<1> DEFINE mine == sess[s].lock_thread = t
           cvs == RefCountSignals(s) \cup IF mine THEN {<<"lock", s>>} ELSE {}
<1>3. /\ sess' = [sess EXCEPT ![s].ref_count = @ - 1, ![s].lock_thread = IF mine THEN None ELSE @]
      /\ Signal(cvs)
  BY <1>s DEF Put
<1>4. /\ \A r \in Sessions : r # s => sess'[r] = sess[r]
      /\ sess'[s].ref_count = sess[s].ref_count - 1
      /\ sess'[s].lock_thread = (IF mine THEN None ELSE sess[s].lock_thread)
      /\ sess'[s].unlink = sess[s].unlink
  <2> DEFINE n == sess[s].ref_count - 1
             l == IF mine THEN None ELSE sess[s].lock_thread
  <2>1. sess' = [sess EXCEPT ![s].ref_count = n, ![s].lock_thread = l]
    BY <1>3
  <2> HIDE DEF n, l
  <2>2. /\ \A r \in Sessions : r # s => sess'[r] = sess[r]
        /\ sess'[s].ref_count = n /\ sess'[s].lock_thread = l
        /\ sess'[s].unlink = sess[s].unlink
    BY <2>1 DEF TInv, Typed, TypeOK
  <2> QED BY <2>2 DEF n, l
<1>5. Others(t) /\ \A u \in Threads : Woken(u)
  <2>1. Others(t)
    BY DEF Put, Return, Others, TInv, Typed
  <2> HIDE DEF cvs
  <2>2. \A u \in Threads : Woken(u)
    BY <1>3, SignalWakes DEF TInv
  <2> QED BY <2>1, <2>2
<1>6. waiting'[t] = None /\ WaitOk(t)'
  BY <1>1, <1>5 DEF Woken, WaitOk
<1>7. UsersKept(s)
  BY <1>3, <1>4, <1>5, UsersTold
<1>8. LockKept(t, s)
  <2>1. CASE ~mine
    BY <1>1, <1>4, <2>1 DEF LockKept, Tries, At
  <2>2. CASE Waiters(<<"lock", s>>) = {}
    BY <1>5, <1>6, <2>2, FewerWaiters, Names DEF LockKept
  <2>3. CASE mine /\ Waiters(<<"lock", s>>) # {}
    <3>1. PICK u \in Waiters(<<"lock", s>>) : waiting'[u] = None
      BY <1>3, <2>3, SignalOne
    <3>2. u \in Threads /\ WaitsForLock(u, s)
      BY <3>1, WaitCases DEF Waiters, WaitInv
    <3>3. Tries(u, s)'
      BY <1>1, <1>5, <3>1, <3>2 DEF WaitsForLock, Others, Tries, At
    <3> QED BY <1>4, <3>2, <3>3 DEF LockKept
  <2> QED BY <2>1, <2>2, <2>3
<1> QED BY <1>1, <1>s, <1>4, <1>5, <1>6, <1>7, <1>8, SessionStep

\* tee_ta_unlink_session wakes all who wait for the lock.
LEMMA UnlinkWaits ==
  ASSUME TInv, WaitInv, TInv', NEW t \in Threads, kind' = kind, Unlink(t)
  PROVE  WaitInv'
<1>1. th[t].pc = "unlink" /\ waiting[t] = None /\ UNCHANGED <<ctx, single>> /\ th[t] # Idle
  BY DEF Unlink, At, Idle
<1>2. th[t].s \in Sessions
  BY <1>1, CallSession DEF TInv
<1>s. PICK s \in Sessions : s = th[t].s
  BY <1>2
<1>3. sess' = [sess EXCEPT ![s].unlink = TRUE] /\ Broadcast(<<"lock", s>>)
  BY <1>s DEF Unlink
<1>4. /\ \A r \in Sessions : r # s => sess'[r] = sess[r]
      /\ sess'[s].ref_count = sess[s].ref_count
  BY <1>3, SessionFields
<1>5. Others(t) /\ \A u \in Threads : Woken(u)
  BY <1>3, OnlyMover, BroadcastWakes DEF Unlink, TInv
<1>6. waiting'[t] = None /\ WaitOk(t)'
  BY <1>1, <1>5 DEF Woken, WaitOk
<1>7. Waiters(<<"lock", s>>)' = {}
  BY <1>3, Names DEF Broadcast, Waiters
<1>8. LockKept(t, s) /\ UsersKept(s)
  BY <1>4, <1>7, Fields DEF LockKept, UsersKept, TInv
<1> QED BY <1>1, <1>s, <1>4, <1>5, <1>6, <1>8, SessionStep

------------------------------------------------------------------------------

\* Every step leaves each sleeper somebody to wait for.
LEMMA StepWaits ==
  ASSUME TInv, WaitInv, TInv', [Next]_vars
  PROVE  WaitInv'
<1>1. CASE UNCHANGED vars
  BY <1>1 DEF vars, WaitInv, WaitOk, LoaderOk, WaitsForLock, WaitsForUsers, WaitsForInstance,
              WaitsForSingle, WaitsForLoader, Tries, Enters, At, SingleInstance
<1>2. ASSUME kind' = kind, NEW t \in Threads,
             \/ Lock(t) \/ Put(t) \/ SetBusy(t) \/ ClearBusy(t) \/ TaReturns(t) \/ TaPanics(t)
             \/ FindAgain(t) \/ LoadTa(t) \/ TaLoaded(t) \/ TaNotLoaded(t) \/ GiveUp(t)
             \/ EnterOpen(t) \/ Opened(t) \/ CloseUnopened(t)
             \/ Invoke(t) \/ Invoked(t) \/ Forget(t) \/ DestroyContext(t)
             \/ Close(t) \/ Unlink(t) \/ Drain(t) \/ Release(t)
             \/ \E s \in Sessions : StartOpen(t, s) \/ StartInvoke(t, s) \/ StartCancel(t, s) \/ StartClose(t, s)
      PROVE  WaitInv'
  BY <1>2, LockWaits, PutWaits, SetBusyWaits, ClearBusyWaits, MovesWait, UsesWait, OpensWait, LoadTaWaits,
     LoadedWait, GiveUpWaits, CountsWait, DestroyContextWaits, UnlinkWaits, DrainWaits
<1> QED BY <1>1, <1>2 DEF Next

\* Nobody waits at the beginning.
LEMMA InitWaits == Init => WaitInv
<1> SUFFICES ASSUME Init PROVE WaitInv
  OBVIOUS
<1>1. (\A t \in Threads : waiting[t] = None) /\ (\A c \in Contexts : ctx[c] = NoContext)
  BY DEF Init
<1> QED BY <1>1 DEF WaitInv, WaitOk, LoaderOk, NoContext

\* Each thread that waits has a thread to wait for, for any number of threads, sessions and
\* contexts: a signal is given whenever what is waited for becomes free.
THEOREM SleepersAreAwaited == KindsHandled /\ Spec => []WaitInv
<1>1. TInv /\ TInv' /\ WaitInv /\ [Next]_vars => WaitInv'
  BY StepWaits
<1> QED BY <1>1, InitWaits, TaSessionsInvariant, PTL DEF Spec

\* tee_ta_manager.c never lets all threads wait for each other: whenever one waits for a
\* session, a context or the single-instance lock, one that is in a call can go on.
THEOREM NotEveryoneWaits == KindsHandled /\ Spec => []SomebodyRuns
<1> QED BY TaSessionsInvariant, SleepersAreAwaited, WaitersEnd, PTL
=================================================================================
