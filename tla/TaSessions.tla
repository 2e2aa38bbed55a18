------------------------------ MODULE TaSessions ------------------------------
(***************************************************************************)
(* The session manager of OP-TEE (core/kernel/tee_ta_manager.c) with the   *)
(* loading of a user TA (user_ta.c), as clients of the normal world reach  *)
(* it (entry_std.c): sessions of one TA are opened, invoked, cancelled and *)
(* closed by threads that run in parallel.  Attester and verifier TA are   *)
(* such TAs; both are loaded anew for every session.                       *)
(*                                                                         *)
(* A section under tee_ta_mutex is one step; a condvar_wait ends the step, *)
(* and the thread tries the rest again once it was signalled.  The mutex   *)
(* and the condition variables themselves are in KernelMutex.  A client    *)
(* invokes, cancels and closes sessions it has open, each closed once.     *)
(*                                                                         *)
(* The assertions and panics of the code, and the use of memory that was   *)
(* freed, are recorded in faults; the step goes on as if nothing happened. *)
(***************************************************************************)
EXTENDS Integers, Sequences, FiniteSets, SequencesExt

CONSTANTS Threads,         \* threads of OP-TEE
          Sessions,        \* room for sessions
          Contexts,        \* room for contexts of the TA
          None,            \* NULL and THREAD_ID_INVALID
          Kinds            \* the TAs: flags of their header, and whether they may panic

ASSUME TaSessionsAssumption ==
  /\ Kinds \subseteq [single : BOOLEAN, multi : BOOLEAN, keep : BOOLEAN, panics : BOOLEAN]
  /\ None \notin Threads \cup Sessions \cup Contexts
  /\ \A cv \in {"lock", "refc", "busy", "single", "init"}, x \in Sessions \cup Contexts \cup {None} :
       None # <<cv, x>>
  /\ IsFiniteSet(Threads) /\ IsFiniteSet(Sessions)

VARIABLES
  kind,       \* the TA
  sess,       \* struct tee_ta_session of each slot; listed when it is in open_sessions
  ctx,        \* struct tee_ta_ctx of each slot
  tee_ctxes,  \* the contexts in the list, oldest first
  single,     \* tee_ta_single_instance_thread
  th,         \* each thread: where it is, its call, its session and context, its result
  waiting,    \* the condition variable a thread waits for
  handles,    \* the sessions the clients hold
  faults      \* history: what went wrong

\* TA_FLAG_SINGLE_INSTANCE, TA_FLAG_MULTI_SESSION, TA_FLAG_INSTANCE_KEEP_ALIVE
SingleInstance == kind.single
MultiSession   == kind.multi
KeepAlive      == kind.keep
MayPanic       == kind.panics

vars == <<kind, sess, ctx, tee_ctxes, single, th, waiting, handles, faults>>

NoSession == [listed |-> FALSE, ctx |-> None, ref_count |-> 0, lock_thread |-> None,
              unlink |-> FALSE]
NoContext == [alive |-> FALSE, initializing |-> FALSE, ref_count |-> 0, busy |-> FALSE,
              panicked |-> FALSE]
\* busy: tee_ta_set_busy was called for this close; origin: the call will still look at
\* the session for the origin of its error.
Idle == [pc |-> "idle", op |-> "none", s |-> None, c |-> None, ok |-> TRUE, busy |-> FALSE,
         origin |-> FALSE]

Init ==
  /\ kind \in Kinds
  /\ sess = [s \in Sessions |-> NoSession]
  /\ ctx = [c \in Contexts |-> NoContext]
  /\ tee_ctxes = << >>
  /\ single = None
  /\ th = [t \in Threads |-> Idle]
  /\ waiting = [t \in Threads |-> None]
  /\ handles = {}
  /\ faults = {}

------------------------------------------------------------------------------
(* Threads and condition variables                                           *)

At(t, label) == th[t].pc = label /\ waiting[t] = None
Goto(t, label) == th' = [th EXCEPT ![t].pc = label]

Wait(t, cv) == waiting' = [waiting EXCEPT ![t] = cv]

Waiters(cv) == {t \in Threads : waiting[t] = cv}

Broadcast(cv) == waiting' = [t \in Threads |-> IF waiting[t] = cv THEN None ELSE waiting[t]]

\* condvar_signal for some condition variables, one waiter each.
Signal(cvs) ==
  \E W \in SUBSET Threads :
    /\ \A cv \in cvs : Cardinality(W \cap Waiters(cv)) = IF Waiters(cv) = {} THEN 0 ELSE 1
    /\ W \subseteq UNION {Waiters(cv) : cv \in cvs}
    /\ waiting' = [t \in Threads |-> IF t \in W THEN None ELSE waiting[t]]

\* A check of the code, or a dereference, that fails is recorded.
Check(failures) == faults' = faults \cup failures
Unless(holds, what) == IF holds THEN {} ELSE {what}
Alive(c) == c # None /\ ctx[c].alive

\* TAILQ_REMOVE
Without(list, c) ==
  IF \E i \in DOMAIN list : list[i] = c
  THEN RemoveAt(list, CHOOSE i \in DOMAIN list : list[i] = c)
  ELSE list

\* A call ends; one that failed to open reads err_origin of the session it has closed.
Return(t) == th' = [th EXCEPT ![t] = Idle]
Finish(t, failures) == Return(t) /\ Check(failures \cup Unless(~th[t].origin, "freed_session"))

------------------------------------------------------------------------------
(* tee_ta_get_session, tee_ta_put_session                                    *)

\* The reference is taken at once, the lock of the session when it is free.
StartExclusive(t, op, s) ==
  /\ th[t] = Idle
  /\ sess[s].listed /\ ~sess[s].unlink
  /\ sess' = [sess EXCEPT ![s].ref_count = @ + 1]
  /\ th' = [th EXCEPT ![t] = [Idle EXCEPT !.pc = "lock", !.op = op, !.s = s]]
  /\ Check(Unless(sess[s].lock_thread # t, "relock"))

\* dec_session_ref_count tells the closing thread when only its reference is left.
RefCountSignals(s) == IF sess[s].ref_count = 2 THEN {<<"refc", s>>} ELSE {}

\* Mutant: a thread that is sent away keeps its reference.
LockKeepsReference(t) ==
  LET s == th[t].s IN
  /\ At(t, "lock")
  /\ IF sess[s].unlink
     THEN Return(t) /\ UNCHANGED sess
     ELSE /\ sess[s].lock_thread = None
          /\ sess' = [sess EXCEPT ![s].lock_thread = t]
          /\ Goto(t, "locked")
  /\ UNCHANGED <<waiting, faults, ctx, tee_ctxes, single, handles>>

Lock(t) ==
  LET s == th[t].s IN
  /\ At(t, "lock")
  /\ \/ /\ sess[s].unlink
        /\ sess' = [sess EXCEPT ![s].ref_count = @ - 1]
        /\ Signal(RefCountSignals(s))
        /\ Check(Unless(sess[s].ref_count > 0, "session_ref_count"))
        /\ Return(t)
     \/ /\ ~sess[s].unlink
        /\ sess[s].lock_thread # None
        /\ Wait(t, <<"lock", s>>)
        /\ UNCHANGED <<sess, th, faults>>
     \/ /\ ~sess[s].unlink
        /\ sess[s].lock_thread = None
        /\ sess' = [sess EXCEPT ![s].lock_thread = t]
        /\ Goto(t, "locked")
        /\ UNCHANGED <<waiting, faults>>
  /\ UNCHANGED <<ctx, tee_ctxes, single, handles>>

Put(t) ==
  LET s == th[t].s
      mine == sess[s].lock_thread = t
  IN  /\ At(t, "put")
      /\ sess' = [sess EXCEPT ![s].ref_count = @ - 1,
                              ![s].lock_thread = IF mine THEN None ELSE @]
      /\ Signal(RefCountSignals(s) \cup IF mine THEN {<<"lock", s>>} ELSE {})
      /\ Check(Unless(sess[s].ref_count > 0, "session_ref_count"))
      /\ IF th[t].op = "open"
         THEN th' = [th EXCEPT ![t].pc = "opened", ![t].ok = @ /\ ~ctx[th[t].c].panicked,
                               ![t].origin = ~ctx[th[t].c].panicked]
         ELSE Return(t)
      /\ UNCHANGED <<ctx, tee_ctxes, single, handles>>

------------------------------------------------------------------------------
(* tee_ta_set_busy, tee_ta_clear_busy                                        *)

\* Outside calls never hold the single-instance lock here, so a context found busy under
\* it is the panic of tee_ta_set_busy.
SetBusy(t) ==
  LET c == th[t].c
      blocked == IF SingleInstance THEN single # None ELSE ctx[c].busy
  IN
  /\ At(t, "set_busy")
  /\ \/ /\ blocked
        /\ Wait(t, IF SingleInstance THEN <<"single", None>> ELSE <<"busy", c>>)
        /\ UNCHANGED <<ctx, single, th, faults>>
     \/ /\ ~blocked
        /\ single' = IF SingleInstance THEN t ELSE single
        /\ ctx' = [ctx EXCEPT ![c].busy = TRUE]
        /\ th' = [th EXCEPT ![t].pc = "ta", ![t].busy = TRUE]
        /\ Check(Unless(Alive(c), "dangling") \cup Unless(~ctx[c].busy, "busy"))
        /\ UNCHANGED waiting
  /\ UNCHANGED <<sess, tee_ctxes, handles>>

ClearBusy(t) ==
  LET c == th[t].c IN
  /\ At(t, "clear_busy")
  /\ ctx' = [ctx EXCEPT ![c].busy = FALSE]
  /\ single' = IF SingleInstance THEN None ELSE single
  /\ Signal({<<"busy", c>>} \cup IF SingleInstance THEN {<<"single", None>>} ELSE {})
  /\ Check(Unless(Alive(c), "dangling") \cup Unless(ctx[c].busy, "busy"))
  /\ Goto(t, CASE th[t].op = "open"   -> "put"
               [] th[t].op = "invoke" -> "invoked"
               [] th[t].op = "close"  -> "release")
  /\ UNCHANGED <<sess, tee_ctxes, handles>>

\* The entry point of the TA runs: user_ta_enter.
TaReturns(t) ==
  /\ At(t, "ta")
  /\ \E ok \in BOOLEAN :
       th' = [th EXCEPT ![t].ok = @ /\ ok,
                        ![t].pc = IF th[t].op = "close" THEN "unlink" ELSE "clear_busy"]
  /\ Check(Unless(Alive(th[t].c), "dangling"))
  /\ UNCHANGED <<sess, ctx, tee_ctxes, single, waiting, handles>>

TaPanics(t) ==
  /\ MayPanic
  /\ At(t, "ta")
  /\ ctx' = [ctx EXCEPT ![th[t].c].panicked = TRUE]
  /\ th' = [th EXCEPT ![t].ok = FALSE,
                      ![t].pc = IF th[t].op = "close" THEN "unlink" ELSE "clear_busy"]
  /\ Check(Unless(Alive(th[t].c), "dangling"))
  /\ UNCHANGED <<sess, tee_ctxes, single, waiting, handles>>

------------------------------------------------------------------------------
(* tee_ta_open_session                                                       *)

\* Mutant: an instance is used again whatever its flags say.
FindContextAny(t, s, S) ==
  LET c == tee_ctxes[1]
      found == tee_ctxes # << >>
  IN
  /\ found => ~ctx[c].initializing
  /\ ctx' = IF found THEN [ctx EXCEPT ![c].ref_count = @ + 1] ELSE ctx
  /\ sess' = IF found THEN [S EXCEPT ![s].ctx = c] ELSE S
  /\ th' = [th EXCEPT ![t] = [Idle EXCEPT !.pc = IF found THEN "initialized" ELSE "load",
                                          !.op = "open", !.s = s]]
  /\ UNCHANGED <<tee_ctxes, single, waiting, handles, faults>>

\* tee_ta_init_session_with_context, for a session that is in the list S of sessions.
FindContext(t, s, S) ==
  LET found == tee_ctxes # << >>
      c == tee_ctxes[1]
      OpenAt(label) == th' = [th EXCEPT ![t] = [Idle EXCEPT !.pc = label, !.op = "open", !.s = s]]
  IN
  /\ \/ /\ ~(found /\ (SingleInstance \/ ctx[c].initializing))
        /\ OpenAt("load")
        /\ sess' = S
        /\ UNCHANGED <<ctx, waiting>>
     \/ /\ found /\ ctx[c].initializing
        /\ Wait(t, <<"init", None>>)
        /\ OpenAt("find")
        /\ sess' = S
        /\ UNCHANGED ctx
     \/ /\ SingleInstance /\ found /\ ~ctx[c].initializing
        /\ ~MultiSession /\ ctx[c].ref_count > 0
        /\ OpenAt("give_up")
        /\ sess' = S
        /\ UNCHANGED <<ctx, waiting>>
     \/ /\ SingleInstance /\ found /\ ~ctx[c].initializing
        /\ MultiSession \/ ctx[c].ref_count = 0
        /\ ctx' = [ctx EXCEPT ![c].ref_count = @ + 1]
        /\ sess' = [S EXCEPT ![s].ctx = c]
        /\ OpenAt("initialized")
        /\ UNCHANGED waiting
  /\ UNCHANGED <<tee_ctxes, single, handles, faults>>

\* tee_ta_init_session: the session goes into the list before its TA is looked up.
StartOpen(t, s) ==
  /\ th[t] = Idle
  /\ ~sess[s].listed
  /\ FindContext(t, s, [sess EXCEPT ![s] = [NoSession EXCEPT !.listed = TRUE, !.ref_count = 1]])

\* A context was loaded, or could not be: the lookup starts again.
FindAgain(t) == At(t, "find") /\ FindContext(t, th[t].s, sess)

\* tee_ta_init_user_ta_session: a new context, which ldelf fills outside the mutex.
LoadTa(t) ==
  /\ At(t, "load")
  /\ \E c \in Contexts :
       /\ ~ctx[c].alive
       /\ ctx' = [ctx EXCEPT ![c] = [NoContext EXCEPT !.alive = TRUE, !.initializing = TRUE,
                                                      !.ref_count = 1]]
       /\ sess' = [sess EXCEPT ![th[t].s].ctx = c]
       /\ tee_ctxes' = Append(tee_ctxes, c)
       /\ th' = [th EXCEPT ![t].c = c, ![t].pc = "loading"]
  /\ UNCHANGED <<single, waiting, handles, faults>>

TaLoaded(t) ==
  /\ At(t, "loading")
  /\ ctx' = [ctx EXCEPT ![th[t].c].initializing = FALSE]
  /\ Broadcast(<<"init", None>>)
  /\ Goto(t, "initialized")
  /\ UNCHANGED <<sess, tee_ctxes, single, handles, faults>>

TaNotLoaded(t) ==
  LET c == th[t].c IN
  /\ At(t, "loading")
  /\ ctx' = [ctx EXCEPT ![c] = NoContext]
  /\ sess' = [sess EXCEPT ![th[t].s].ctx = None]
  /\ tee_ctxes' = Without(tee_ctxes, c)
  /\ Broadcast(<<"init", None>>)
  /\ Check(Unless(Waiters(<<"busy", c>>) = {}, "condvar"))
  /\ Goto(t, "give_up")
  /\ UNCHANGED <<single, handles>>

\* The end of tee_ta_init_session when there is no TA for the session.
GiveUp(t) ==
  /\ At(t, "give_up")
  /\ sess' = [sess EXCEPT ![th[t].s] = NoSession]
  /\ Return(t)
  /\ UNCHANGED <<ctx, tee_ctxes, single, waiting, handles, faults>>

\* A context that panicked meanwhile is not entered: the session is closed.
EnterOpen(t) ==
  LET c == sess[th[t].s].ctx
      dead == c = None \/ ctx[c].panicked
  IN
  /\ At(t, "initialized")
  /\ th' = [th EXCEPT ![t].c = c, ![t].ok = ~dead, ![t].pc = IF dead THEN "reopen" ELSE "set_busy"]
  /\ Check(Unless(c = None \/ Alive(c), "dangling"))
  /\ UNCHANGED <<sess, ctx, tee_ctxes, single, waiting, handles>>

\* Mutant: a session that could not be opened is not closed.
OpenedOrForgotten(t) ==
  /\ At(t, "opened")
  /\ handles' = IF th[t].ok THEN handles \cup {th[t].s} ELSE handles
  /\ Return(t)
  /\ UNCHANGED <<sess, ctx, tee_ctxes, single, waiting, faults>>

\* The rest of tee_ta_open_session, after tee_ta_put_session.
Opened(t) ==
  LET s == th[t].s IN
  /\ At(t, "opened")
  /\ IF th[t].ok
     THEN handles' = handles \cup {s} /\ Return(t)
     ELSE Goto(t, "reopen") /\ UNCHANGED handles
  /\ UNCHANGED <<sess, ctx, tee_ctxes, single, waiting, faults>>

\* tee_ta_open_session calls tee_ta_close_session for the session it could not open.
CloseUnopened(t) ==
  LET s == th[t].s IN
  /\ At(t, "reopen")
  /\ sess' = [sess EXCEPT ![s].ref_count = @ + 1]
  /\ th' = [th EXCEPT ![t].op = "close", ![t].pc = "lock", ![t].busy = FALSE]
  /\ Check(Unless(sess[s].lock_thread # t, "relock"))
  /\ UNCHANGED <<ctx, tee_ctxes, single, waiting, handles>>

------------------------------------------------------------------------------
(* tee_ta_invoke_command, tee_ta_cancel_command                              *)

StartInvoke(t, s) ==
  /\ s \in handles
  /\ StartExclusive(t, "invoke", s)
  /\ UNCHANGED <<ctx, tee_ctxes, single, waiting, handles>>

Invoke(t) ==
  LET c == sess[th[t].s].ctx IN
  /\ At(t, "locked")
  /\ th[t].op = "invoke"
  /\ th' = [th EXCEPT ![t].c = c,
                      ![t].pc = IF c = None THEN "put"
                                ELSE IF ctx[c].panicked THEN "destroy" ELSE "set_busy"]
  /\ Check(Unless(c = None \/ Alive(c), "dangling"))
  /\ UNCHANGED <<sess, ctx, tee_ctxes, single, waiting, handles>>

Invoked(t) ==
  /\ At(t, "invoked")
  /\ Goto(t, IF ctx[th[t].c].panicked THEN "destroy" ELSE "put")
  /\ Check(Unless(Alive(th[t].c), "dangling"))
  /\ UNCHANGED <<sess, ctx, tee_ctxes, single, waiting, handles>>

\* destroy_ta_ctx_from_session: no other session refers to the context any more.
Forget(t) ==
  LET s == th[t].s
      c == sess[s].ctx
      users == {x \in Sessions : sess[x].listed /\ sess[x].ctx = c} \cup {s}
  IN
  /\ At(t, "destroy")
  /\ sess' = [x \in Sessions |-> IF x \in users \ {s} THEN [sess[x] EXCEPT !.ctx = None] ELSE sess[x]]
  /\ tee_ctxes' = Without(tee_ctxes, c)
  /\ th' = [th EXCEPT ![t].c = c, ![t].pc = "destroying"]
  /\ Check(IF Alive(c) THEN Unless(Cardinality(users) = ctx[c].ref_count, "context_ref_count")
                       ELSE {"dangling"})
  /\ UNCHANGED <<ctx, single, waiting, handles>>

\* Mutant: the session keeps its pointer to the context.
DestroyContextOnly(t) ==
  /\ At(t, "destroying")
  /\ ctx' = [d \in Contexts |-> IF d = th[t].c THEN NoContext ELSE ctx[d]]
  /\ IF th[t].op = "invoke" THEN Goto(t, "put") ELSE Return(t)
  /\ UNCHANGED <<sess, tee_ctxes, single, waiting, handles, faults>>

\* destroy_context; the session that brought it here loses its reference last.
DestroyContext(t) ==
  LET c == th[t].c IN
  /\ At(t, "destroying")
  /\ ctx' = [d \in Contexts |-> IF d = c THEN NoContext ELSE ctx[d]]
  /\ LET failures == Unless(Waiters(<<"busy", c>>) = {}, "condvar")
                       \cup Unless(Alive(c), "dangling")
     IN  IF th[t].op = "invoke"
         THEN /\ sess' = [sess EXCEPT ![th[t].s].ctx = None]
              /\ Goto(t, "put")
              /\ Check(failures)
         ELSE UNCHANGED sess /\ Finish(t, failures)
  /\ UNCHANGED <<tee_ctxes, single, waiting, handles>>

\* entry_cancel takes a reference without the lock and gives it back.
StartCancel(t, s) ==
  /\ s \in handles
  /\ th[t] = Idle
  /\ sess[s].listed /\ ~sess[s].unlink
  /\ sess' = [sess EXCEPT ![s].ref_count = @ + 1]
  /\ th' = [th EXCEPT ![t] = [Idle EXCEPT !.pc = "put", !.op = "cancel", !.s = s]]
  /\ UNCHANGED <<ctx, tee_ctxes, single, waiting, handles, faults>>

------------------------------------------------------------------------------
(* tee_ta_close_session                                                      *)

StartClose(t, s) ==
  /\ s \in handles
  /\ StartExclusive(t, "close", s)
  /\ handles' = handles \ {s}
  /\ UNCHANGED <<ctx, tee_ctxes, single, waiting>>

Close(t) ==
  LET c == sess[th[t].s].ctx IN
  /\ At(t, "locked")
  /\ th[t].op = "close"
  /\ th' = [th EXCEPT ![t].c = c,
                      ![t].pc = IF c = None \/ ctx[c].panicked THEN "unlink" ELSE "set_busy"]
  /\ Check(Unless(c = None \/ Alive(c), "dangling"))
  /\ UNCHANGED <<sess, ctx, tee_ctxes, single, waiting, handles>>

\* Mutant: the threads that wait for the session are not told.
UnlinkQuietly(t) ==
  /\ At(t, "unlink")
  /\ sess' = [sess EXCEPT ![th[t].s].unlink = TRUE]
  /\ Goto(t, "drain")
  /\ UNCHANGED <<ctx, tee_ctxes, single, waiting, handles, faults>>

\* tee_ta_unlink_session: whoever waits for the session is sent away ...
Unlink(t) ==
  LET s == th[t].s IN
  /\ At(t, "unlink")
  /\ sess' = [sess EXCEPT ![s].unlink = TRUE]
  /\ Broadcast(<<"lock", s>>)
  /\ Check(Unless(sess[s].lock_thread = t, "unlink") \cup Unless(~sess[s].unlink, "unlink"))
  /\ Goto(t, "drain")
  /\ UNCHANGED <<ctx, tee_ctxes, single, handles>>

\* ... and the session leaves the list, and is freed, when its last reference is ours.
Drain(t) ==
  LET s == th[t].s
      c == th[t].c
  IN
  /\ At(t, "drain")
  /\ \/ /\ sess[s].ref_count # 1
        /\ Wait(t, <<"refc", s>>)
        /\ UNCHANGED <<sess, th, faults>>
     \/ /\ sess[s].ref_count = 1
        /\ sess' = [sess EXCEPT ![s] = NoSession]
        /\ IF c = None
           THEN Finish(t, {})
           ELSE Goto(t, IF th[t].busy THEN "clear_busy" ELSE "release") /\ UNCHANGED faults
        /\ UNCHANGED waiting
  /\ UNCHANGED <<ctx, tee_ctxes, single, handles>>

\* The reference of the session to the context goes, and with the last one the context.
Release(t) ==
  LET c == th[t].c
      last == ctx[c].ref_count = 1 /\ ~(KeepAlive /\ SingleInstance)
  IN
  /\ At(t, "release")
  /\ ctx' = [ctx EXCEPT ![c].ref_count = @ - 1]
  /\ tee_ctxes' = IF last THEN Without(tee_ctxes, c) ELSE tee_ctxes
  /\ LET failures == Unless(Alive(c), "dangling")
                       \cup Unless(ctx[c].ref_count > 0, "context_ref_count")
     IN  IF last THEN Goto(t, "destroying") /\ Check(failures) ELSE Finish(t, failures)
  /\ UNCHANGED <<sess, single, waiting, handles>>

------------------------------------------------------------------------------

Next ==
  /\ \E t \in Threads :
       \/ Lock(t) \/ Put(t) \/ SetBusy(t) \/ ClearBusy(t) \/ TaReturns(t) \/ TaPanics(t)
       \/ FindAgain(t) \/ LoadTa(t) \/ TaLoaded(t) \/ TaNotLoaded(t) \/ GiveUp(t)
       \/ EnterOpen(t) \/ Opened(t) \/ CloseUnopened(t)
       \/ Invoke(t) \/ Invoked(t) \/ Forget(t) \/ DestroyContext(t)
       \/ Close(t) \/ Unlink(t) \/ Drain(t) \/ Release(t)
       \/ \E s \in Sessions : StartOpen(t, s) \/ StartInvoke(t, s) \/ StartCancel(t, s) \/ StartClose(t, s)
  /\ UNCHANGED kind

Spec == Init /\ [][Next]_vars

------------------------------------------------------------------------------
(* Properties                                                                *)

\* The types of the variables.
TypeOK ==
  /\ sess \in [Sessions -> [listed : BOOLEAN, ctx : Contexts \cup {None}, ref_count : Nat,
                            lock_thread : Threads \cup {None}, unlink : BOOLEAN]]
  /\ ctx \in [Contexts -> [alive : BOOLEAN, initializing : BOOLEAN, ref_count : Nat,
                           busy : BOOLEAN, panicked : BOOLEAN]]
  /\ single \in Threads \cup {None}
  /\ handles \subseteq Sessions

\* No assertion or panic of the session manager is reached, and no context is used after
\* it was destroyed, whatever open, invoke, cancel and close run at the same time.  What is
\* left is the session whose err_origin a failed open reads when it has closed it.
NoAssertionFails == faults \subseteq {"freed_session"}

\* Where a thread has a reference to its session.
Refers(t, s) ==
  /\ th[t].s = s
  /\ th[t].pc \notin {"opened", "reopen", "release", "destroying"} \/ th[t].op = "invoke"
  /\ ~(th[t].op = "close" /\ th[t].pc = "clear_busy")

\* The reference count of a session is the number of threads that use it, so the thread
\* that closes it frees it when it is alone and not earlier.
SessionRefCount ==
  \A s \in Sessions :
    sess[s].listed => sess[s].ref_count = Cardinality({t \in Threads : Refers(t, s)})

\* A TA that is not CONCURRENT is entered by one thread at a time.
OneThreadInTa ==
  \A t, u \in Threads :
    t # u /\ th[t].pc = "ta" /\ th[u].pc = "ta" => th[t].c # th[u].c

\* Sessions are counted as they are used, and an instance is entered by one thread at a
\* time, whatever calls run at the same time.
SessionsConsistent == TypeOK /\ SessionRefCount /\ OneThreadInTa

\* When no call is under way, the sessions are those the clients hold and the contexts
\* those the sessions use, with a reference from each: a call that fails, or a TA that
\* panics, leaves nothing behind that would keep a context from being opened or destroyed.
NothingLeftBehind ==
  (\A t \in Threads : th[t] = Idle) =>
    /\ {s \in Sessions : sess[s].listed} = handles
    /\ KeepAlive \/ {c \in Contexts : ctx[c].alive} = {sess[s].ctx : s \in handles} \ {None}
    /\ \A c \in Contexts : ~ctx[c].busy
    /\ \A c \in Contexts :
         ctx[c].alive => ctx[c].ref_count = Cardinality({s \in handles : sess[s].ctx = c})
    /\ \A s \in handles : sess[s].lock_thread = None /\ ~sess[s].unlink

\* Sessions of a TA that is not MULTI_SESSION never share an instance, so what the TA keeps
\* in its statics (the handshakes of an attester, the context of a verifier) is its own.
OneSessionPerContext ==
  ~MultiSession =>
    \A s, r \in Sessions :
      s # r /\ sess[s].listed /\ sess[r].listed /\ sess[s].ctx # None => sess[s].ctx # sess[r].ctx

\* A thread that waits for a session, a context or the single-instance lock waits for one
\* that runs: no signal is lost, and the locks are never held in a circle.
SomebodyRuns ==
  (\E t \in Threads : waiting[t] # None) => \E t \in Threads : th[t] # Idle /\ waiting[t] = None
==============================================================================
