-------------------------- MODULE AttestationService --------------------------
(***************************************************************************)
(* The attestation service, a pseudo TA (attesting_service.c), and the     *)
(* part of OP-TEE that opens, invokes and closes its sessions              *)
(* (tee_ta_manager.c, pseudo_ta.c), used by attester TA instances that run *)
(* in parallel.                                                            *)
(*                                                                         *)
(* The keys are statics of the service, shared by all its contexts.  The   *)
(* service is SINGLE_INSTANCE, MULTI_SESSION and INSTANCE_KEEP_ALIVE and   *)
(* not CONCURRENT, so its entry points run under OP-TEE's single-instance  *)
(* lock; the lookup and the reference counts are under tee_ta_mutex alone. *)
(* Attester TAs are not single-instance: an instance holds the lock only   *)
(* in the service, and the count of the lock is 0 or 1.                    *)
(***************************************************************************)
EXTENDS Naturals, Sequences, FiniteSets

CONSTANTS Instances,  \* attester TA instances
          NoInstance, \* THREAD_ID_INVALID
          MaxOpens    \* bound: sessions opened

ASSUME ServiceAssumption ==
  IsFiniteSet(Instances) /\ NoInstance \notin Instances /\ MaxOpens \in Nat

VARIABLES
  tee_ctxes,  \* the contexts of the service, [ref_count, busy], oldest first
  lock,       \* tee_ta_single_instance_thread
  pc,         \* where each instance is
  ctx,        \* the context of its session: an index of tee_ctxes, 0 for none
  failed,     \* the open session entry point failed
  is_attestation_seed_derived,
  keypair,    \* "zero", "allocated", "generated", "exported"
  is_attestation_ecdsa_keypair_derived,
  signed,     \* the quote of each instance: "none", or the keypair it was signed with
  panicked,   \* the TEE core has panicked
  allocs,     \* history: keypairs allocated
  failures,   \* history: derivations that failed after the allocation
  raced,      \* history: a lookup found a context in use and no keypair
  opens       \* sessions opened so far

statics == <<is_attestation_seed_derived, keypair, is_attestation_ecdsa_keypair_derived,
             allocs, failures>>
vars    == <<tee_ctxes, lock, pc, ctx, failed, statics, signed, panicked, raced, opens>>

Derived == is_attestation_ecdsa_keypair_derived

\* Where an instance holds the single-instance lock.
Entered == {"entered", "seed", "keypair", "generate", "export", "opened", "signing", "closing"}

Init ==
  /\ tee_ctxes = <<>>
  /\ lock = NoInstance
  /\ pc = [t \in Instances |-> "idle"]
  /\ ctx = [t \in Instances |-> 0]
  /\ failed = [t \in Instances |-> FALSE]
  /\ is_attestation_seed_derived = FALSE
  /\ keypair = "zero"
  /\ is_attestation_ecdsa_keypair_derived = FALSE
  /\ signed = [t \in Instances |-> "none"]
  /\ panicked = FALSE
  /\ allocs = 0 /\ failures = 0
  /\ raced = FALSE
  /\ opens = 0

Goto(t, l) == pc' = [pc EXCEPT ![t] = l]

(***************************************************************************)
(* tee_ta_init_session.                                                    *)
(***************************************************************************)
\* Under tee_ta_mutex, the context is found or not; contexts are kept alive.
Lookup(t) ==
  /\ pc[t] = "idle"
  /\ opens < MaxOpens
  /\ opens' = opens + 1
  /\ IF tee_ctxes = <<>>
     THEN Goto(t, "load") /\ UNCHANGED <<tee_ctxes, ctx, raced>>
     ELSE /\ tee_ctxes' = [tee_ctxes EXCEPT ![1].ref_count = @ + 1]
          /\ ctx' = [ctx EXCEPT ![t] = 1]
          /\ raced' = (raced \/ (tee_ctxes[1].ref_count > 0 /\ ~Derived))
          /\ Goto(t, "open")
  /\ UNCHANGED <<lock, failed, statics, signed, panicked>>

\* tee_ta_init_pseudo_ta_session, after tee_ta_mutex was released.
Load(t) ==
  /\ pc[t] = "load"
  /\ tee_ctxes' = Append(tee_ctxes, [ref_count |-> 1, busy |-> FALSE])
  /\ ctx' = [ctx EXCEPT ![t] = Len(tee_ctxes')]
  /\ Goto(t, "open")
  /\ UNCHANGED <<lock, failed, statics, signed, panicked, raced, opens>>

LoadFails(t) ==
  /\ pc[t] = "load"
  /\ Goto(t, "idle")
  /\ UNCHANGED <<tee_ctxes, lock, ctx, failed, statics, signed, panicked, raced, opens>>

(***************************************************************************)
(* tee_ta_set_busy and tee_ta_clear_busy.                                  *)
(***************************************************************************)
\* Mutant: the service is declared CONCURRENT.
SetBusyConcurrent(t) == UNCHANGED <<lock, tee_ctxes>>

\* Waits for the single-instance lock; a context found busy then is a panic.
SetBusy(t) ==
  /\ lock = NoInstance
  /\ lock' = t
  /\ tee_ctxes' = [tee_ctxes EXCEPT ![ctx[t]].busy = TRUE]

\* Mutants: the flag stays set; the lock is kept.
ClearBusyKeepsFlag(t) == lock' = NoInstance /\ UNCHANGED tee_ctxes
ClearBusyKeepsLock(t) ==
  /\ tee_ctxes' = [tee_ctxes EXCEPT ![ctx[t]].busy = FALSE]
  /\ UNCHANGED lock

ClearBusy(t) ==
  /\ tee_ctxes' = [tee_ctxes EXCEPT ![ctx[t]].busy = FALSE]
  /\ lock' = NoInstance

(***************************************************************************)
(* tee_ta_open_session, with the create entry point of the service.        *)
(***************************************************************************)
OpenBusy(t) ==
  /\ pc[t] = "open"
  /\ SetBusy(t)
  /\ Goto(t, "entered")
  /\ UNCHANGED <<ctx, failed, statics, signed, panicked, raced, opens>>

\* Mutant: create is not called again after it failed half-way.
MustCreateOnce(t) == tee_ctxes[ctx[t]].ref_count = 1 /\ allocs = 0

\* pseudo_ta_enter_open_session decides by the reference count whether the
\* instance is new.
MustCreate(t) == tee_ctxes[ctx[t]].ref_count = 1

EnterOpen(t) ==
  /\ pc[t] = "entered"
  /\ Goto(t, IF MustCreate(t) THEN "seed" ELSE "opened")
  /\ UNCHANGED <<tee_ctxes, lock, ctx, failed, statics, signed, panicked, raced, opens>>

\* An entry point returned an error.
Fail(t) == failed' = [failed EXCEPT ![t] = TRUE] /\ Goto(t, "opened")

\* derive_attestation_seed.
DeriveSeed(t) ==
  /\ pc[t] = "seed"
  /\ \/ is_attestation_seed_derived' = TRUE /\ Goto(t, "keypair") /\ UNCHANGED failed
     \/ /\ ~is_attestation_seed_derived
        /\ Fail(t) /\ UNCHANGED is_attestation_seed_derived
  /\ UNCHANGED <<tee_ctxes, lock, ctx, keypair, is_attestation_ecdsa_keypair_derived, allocs,
                 failures, signed, panicked, raced, opens>>

\* Mutant: the flag is not looked at.
MustDeriveAlways == TRUE

\* derive_attestation_ecdsa_keypair: nothing is left to do once it succeeded.
MustDerive == ~is_attestation_ecdsa_keypair_derived

\* A failed crypto_acipher_alloc_ecc_keypair leaves a zeroed keypair.
AllocKeypair(t) ==
  /\ pc[t] = "keypair"
  /\ \/ ~MustDerive /\ Goto(t, "opened") /\ UNCHANGED <<keypair, allocs, failed>>
     \/ MustDerive /\ Fail(t) /\ keypair' = "zero" /\ UNCHANGED allocs
     \/ /\ MustDerive
        /\ keypair' = "allocated" /\ allocs' = allocs + 1
        /\ Goto(t, "generate") /\ UNCHANGED failed
  /\ UNCHANGED <<tee_ctxes, lock, ctx, is_attestation_seed_derived,
                 is_attestation_ecdsa_keypair_derived, failures, signed, panicked, raced, opens>>

\* gen_ecdsa_key_with_seed: a keypair allocated before is not freed on failure.
GenerateKeypair(t) ==
  /\ pc[t] = "generate"
  /\ \/ keypair' = "generated" /\ Goto(t, "export") /\ UNCHANGED <<failed, failures>>
     \/ Fail(t) /\ failures' = failures + 1 /\ UNCHANGED keypair
  /\ UNCHANGED <<tee_ctxes, lock, ctx, is_attestation_seed_derived,
                 is_attestation_ecdsa_keypair_derived, allocs, signed, panicked, raced, opens>>

\* ecc_export_public_in_buffer, and the flag.
ExportPublicKey(t) ==
  /\ pc[t] = "export"
  /\ \/ /\ keypair' = "exported" /\ is_attestation_ecdsa_keypair_derived' = TRUE
        /\ Goto(t, "opened") /\ UNCHANGED <<failed, failures>>
     \/ /\ Fail(t) /\ failures' = failures + 1
        /\ UNCHANGED <<keypair, is_attestation_ecdsa_keypair_derived>>
  /\ UNCHANGED <<tee_ctxes, lock, ctx, is_attestation_seed_derived, allocs, signed, panicked,
                 raced, opens>>

\* The end of tee_ta_open_session: the session of a failed open is closed.
LeaveOpen(t) ==
  /\ pc[t] = "opened"
  /\ ClearBusy(t)
  /\ Goto(t, IF failed[t] THEN "close" ELSE "ready")
  /\ failed' = [failed EXCEPT ![t] = FALSE]
  /\ UNCHANGED <<ctx, statics, signed, panicked, raced, opens>>

(***************************************************************************)
(* tee_ta_invoke_command with ATTESTATION_CMD_GEN_QUOTE.                   *)
(***************************************************************************)
Invoke(t) ==
  /\ pc[t] = "ready"
  /\ Goto(t, "invoke")
  /\ UNCHANGED <<tee_ctxes, lock, ctx, failed, statics, signed, panicked, raced, opens>>

InvokeBusy(t) ==
  /\ pc[t] = "invoke"
  /\ SetBusy(t)
  /\ Goto(t, "signing")
  /\ UNCHANGED <<ctx, failed, statics, signed, panicked, raced, opens>>

\* generate_quote fails, or signs with the keypair as it is.  Either way the quote
\* slot of the instance is taken until dispose_quote, which closes the session.
GenerateQuote(t) ==
  /\ pc[t] = "signing"
  /\ ClearBusy(t)
  /\ signed' = signed \/ (keypair # "zero" /\ signed' = [signed EXCEPT ![t] = keypair])
  /\ Goto(t, "served")
  /\ UNCHANGED <<ctx, failed, statics, panicked, raced, opens>>

\* crypto_acipher_ecc_sign asserts that the keypair has operations: they are set
\* by the allocation.
SignPanics(t) ==
  /\ pc[t] = "signing"
  /\ keypair = "zero"
  /\ panicked' = TRUE
  /\ UNCHANGED <<tee_ctxes, lock, pc, ctx, failed, statics, signed, raced, opens>>

(***************************************************************************)
(* tee_ta_close_session, by the instance, at its end or after a failed     *)
(* open: the service has no close and no destroy entry point.              *)
(***************************************************************************)
Close(t) ==
  /\ pc[t] \in {"ready", "served"}
  /\ Goto(t, "close")
  /\ UNCHANGED <<tee_ctxes, lock, ctx, failed, statics, signed, panicked, raced, opens>>

CloseBusy(t) ==
  /\ pc[t] = "close"
  /\ SetBusy(t)
  /\ Goto(t, "closing")
  /\ UNCHANGED <<ctx, failed, statics, signed, panicked, raced, opens>>

LeaveClose(t) ==
  /\ pc[t] = "closing"
  /\ ClearBusy(t)
  /\ Goto(t, "release")
  /\ UNCHANGED <<ctx, failed, statics, signed, panicked, raced, opens>>

\* Mutant: the session of the context is not counted down.
ReleaseForgets(t) ==
  /\ pc[t] = "release"
  /\ ctx' = [ctx EXCEPT ![t] = 0]
  /\ signed' = [signed EXCEPT ![t] = "none"]
  /\ Goto(t, "idle")
  /\ UNCHANGED <<tee_ctxes, lock, failed, statics, panicked, raced, opens>>

\* Under tee_ta_mutex; the context stays.  The instance opens again, or a new
\* one takes its place.
Release(t) ==
  /\ pc[t] = "release"
  /\ tee_ctxes' = [tee_ctxes EXCEPT ![ctx[t]].ref_count = @ - 1]
  /\ ctx' = [ctx EXCEPT ![t] = 0]
  /\ signed' = [signed EXCEPT ![t] = "none"]
  /\ Goto(t, "idle")
  /\ UNCHANGED <<lock, failed, statics, panicked, raced, opens>>

\* The steps of a call in progress.
Step(t) ==
  \/ Load(t) \/ LoadFails(t)
  \/ OpenBusy(t) \/ EnterOpen(t)
  \/ DeriveSeed(t) \/ AllocKeypair(t) \/ GenerateKeypair(t) \/ ExportPublicKey(t)
  \/ LeaveOpen(t)
  \/ InvokeBusy(t) \/ GenerateQuote(t) \/ SignPanics(t)
  \/ CloseBusy(t) \/ LeaveClose(t) \/ Release(t)

Next == ~panicked /\ \E t \in Instances : Lookup(t) \/ Invoke(t) \/ Close(t) \/ Step(t)

Spec == Init /\ [][Next]_vars

\* A thread in the TEE runs on when it is not waiting for the lock.
FairSpec == Spec /\ \A t \in Instances : WF_vars(~panicked /\ Step(t))

-----------------------------------------------------------------------------
(***************************************************************************)
(* Properties.                                                             *)
(***************************************************************************)

\* The statics of the service are used by one instance at a time, even when two
\* instances missed each other's context and the service has two of them.
StaticsExclusive == \A t, u \in Instances : pc[t] \in Entered /\ pc[u] \in Entered => t = u

\* tee_ta_set_busy never panics: no context is busy while the lock is free.
NeverBusy == lock = NoInstance => \A c \in DOMAIN tee_ctxes : ~tee_ctxes[c].busy

\* A context counts the sessions that refer to it, so that it is found unused
\* (and create is called again) exactly when nobody has a session.
CountsSessions ==
  \A c \in DOMAIN tee_ctxes :
    tee_ctxes[c].ref_count = Cardinality({t \in Instances : ctx[t] = c})

\* The keypair is allocated once, plus once for each derivation that failed
\* half-way: those are not freed.
AllocatedOnce ==
  allocs = failures + (IF Derived \/ \E t \in Instances : pc[t] \in {"generate", "export"}
                       THEN 1 ELSE 0)

\* A quote is signed with a keypair that was not derived, or the core panics on
\* it, only when a lookup came between the load of the context and its create.
DerivedUnlessRaced ==
  ~raced => ~panicked /\ \A t \in Instances : signed[t] \in {"none", "exported"}

\* Every call to the service returns, unless the core panics: nobody waits for
\* the lock for ever.
Returns ==
  \A t \in Instances : (pc[t] \notin {"idle", "ready", "served"})
                        ~> (pc[t] \in {"idle", "ready", "served"} \/ panicked)

\* "If a new Trusted Application instance is needed to handle the session,
\* TA_CreateEntryPoint is called.  Then, TA_OpenSessionEntryPoint is called": an
\* instance has a session only with a service that was created.
CreatedBeforeOpened == \A t \in Instances : pc[t] = "ready" => Derived
===============================================================================
