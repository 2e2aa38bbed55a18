----------------------------- MODULE CryptoHandles -----------------------------
(***************************************************************************)
(* The handles of crypto objects and operations in the attester TA         *)
(* (remote_attestation.c, ra_wasi.c): each function of the handshake, of   *)
(* send_quote and of receive_data is the sequence of its calls that can    *)
(* fail, with where it goes then: to its label out, where local handles    *)
(* are freed, or straight back to its caller.                              *)
(*                                                                         *)
(* A local handle is not initialised and an allocation that fails leaves   *)
(* it so.  Freeing such a handle is undefined: OP-TEE may kill the TA or   *)
(* close another object of it, and the model follows the TA no further.    *)
(* The handles are kernel objects of a pool that all allocations draw on.  *)
(***************************************************************************)
EXTENDS Naturals, Sequences, FiniteSets

CONSTANTS Pool,           \* handles the TA can have at a time
          Failing,        \* which calls may fail: "input", "api"
          MaxHandshakes   \* bound: calls of handshake

ASSUME CryptoHandlesAssumption ==
  Pool \in Nat /\ Failing \subseteq {"input", "api"} /\ MaxHandshakes \in Nat

VARIABLES
  available,  \* is_ra_context_available
  ctx,        \* the handles of ra_context_singleton
  local,      \* the handles of the function that runs
  call,       \* the functions still to run, the running one first; << >> outside a call
  at,         \* next step of the running function
  live,       \* allocated handles
  completed,  \* history: handshakes that succeeded
  failed,     \* history: and that did not
  apiFailed,  \* history: an allocation, or another call of the API, has failed
  faults      \* history: what was freed that was not a live handle

vars == <<available, ctx, local, call, at, live, completed, failed, apiFailed, faults>>

Null == 0            \* TEE_HANDLE_NULL
Unset == Pool + 1    \* what a local handle is before it was allocated

ContextSlots == {"keypair", "verifier_key", "kdk", "mac_key", "session_key"}
LocalSlots == {"operation", "key", "secret"}

------------------------------------------------------------------------------
(* The functions                                                             *)

Alloc(slot, exit) == [kind |-> "alloc", slot |-> slot, exit |-> exit]
Api(exit)         == [kind |-> "api", slot |-> "none", exit |-> exit]
Input(exit)       == [kind |-> "input", slot |-> "none", exit |-> exit]

Function(name, steps, frees) == [name |-> name, steps |-> steps, frees |-> frees]

generate_ecdh_keypair ==
  Function("generate_ecdh_keypair", <<Alloc("keypair", "return"), Api("return")>>, << >>)

\* The connection, msg0, msg1 and the pinned key: no handles, all of it up to the peer.
receive_msg1 == Function("receive_msg1", <<Input("return")>>, << >>)

import_verifier_attestation_key ==
  Function("import_verifier_attestation_key",
           <<Alloc("verifier_key", "return"), Input("return")>>, << >>)

\* Mutant: the operation of the digest is reused, and freed by whoever comes last.
verify_signature_frees_none ==
  Function("verify_ecdh_public_key_signature",
           <<Alloc("operation", "out"), Api("out"), Alloc("operation", "out"), Input("out")>>, << >>)

\* The handle of the digest is overwritten by that of the verification.
verify_ecdh_public_key_signature ==
  Function("verify_ecdh_public_key_signature",
           <<Alloc("operation", "out"), Api("out"), Alloc("operation", "out"), Input("out")>>,
           <<"operation">>)

\* The handle of the key agreement is overwritten by that of the MAC.
derive_shared_key ==
  Function("derive_shared_key",
           <<Alloc("operation", "out"), Api("out"), Alloc("secret", "out"), Api("return"),
             Alloc("key", "out"), Api("out"), Alloc("operation", "out"), Api("out"),
             Alloc("kdk", "out"), Api("out")>>,
           <<"key", "operation", "secret">>)

derive_shared_mac_key(output_key) ==
  Function("derive_shared_mac_key",
           <<Alloc("key", "out"), Api("out"), Alloc("operation", "out"), Api("out"),
             Alloc(output_key, "out"), Api("out")>>,
           <<"operation", "key">>)

\* Mutant: the comparison of the tag comes before the operation is allocated.
verify_msg1_mac_early ==
  Function("verify_msg1_mac", <<Input("out"), Alloc("operation", "return"), Api("return")>>,
           <<"operation">>)

verify_msg1_mac ==
  Function("verify_msg1_mac", <<Alloc("operation", "return"), Api("return"), Input("out")>>,
           <<"operation">>)

\* The size of the anchor is the application's.
generate_anchor ==
  Function("generate_anchor", <<Input("return"), Alloc("operation", "out"), Api("out")>>,
           <<"operation">>)

prepare_msg2 == Function("prepare_msg2", <<Alloc("operation", "out"), Api("out")>>, <<"operation">>)

receive_msg3 == Function("receive_msg3", <<Input("return")>>, << >>)

decrypt_msg3 ==
  Function("decrypt_msg3", <<Alloc("operation", "out"), Api("out"), Input("out")>>, <<"operation">>)

ra_net_handshake ==
  <<generate_ecdh_keypair, receive_msg1, import_verifier_attestation_key,
    verify_ecdh_public_key_signature, derive_shared_key, derive_shared_mac_key("mac_key"),
    derive_shared_mac_key("session_key"), verify_msg1_mac, generate_anchor>>

ra_net_send_quote == <<prepare_msg2>>

ra_net_receive_data == <<receive_msg3, decrypt_msg3>>

------------------------------------------------------------------------------
(* Calls                                                                     *)

NoLocals == [s \in LocalSlots |-> Unset]

Init ==
  /\ available = TRUE
  /\ ctx = [s \in ContextSlots |-> Null]
  /\ local = NoLocals
  /\ call = << >>
  /\ at = 1
  /\ live = {}
  /\ completed = 0 /\ failed = 0
  /\ apiFailed = FALSE
  /\ faults = {}

Idle == call = << >> /\ "undefined" \notin faults

Enter(functions) == call' = functions /\ at' = 1 /\ local' = NoLocals

\* wasi_ra_net_handshake: the context is zeroed, whatever a failed handshake left in it.
Handshake ==
  /\ Idle /\ available
  /\ completed + failed < MaxHandshakes
  /\ ctx' = [s \in ContextSlots |-> Null]
  /\ Enter(ra_net_handshake)
  /\ UNCHANGED <<available, live, completed, failed, apiFailed, faults>>

SendQuote ==
  /\ Idle /\ ~available
  /\ Enter(ra_net_send_quote)
  /\ UNCHANGED <<available, ctx, live, completed, failed, apiFailed, faults>>

ReceiveData ==
  /\ Idle /\ ~available
  /\ Enter(ra_net_receive_data)
  /\ UNCHANGED <<available, ctx, live, completed, failed, apiFailed, faults>>

\* TEE_FreeTransientObject takes TEE_HANDLE_NULL; neither takes a handle that is not live.
BadFrees(handles) ==
  (IF Unset \in handles THEN {"undefined"} ELSE {})
    \cup IF handles \subseteq live \cup {Null, Unset} THEN {} ELSE {"freed_twice"}

\* Mutant: the context is not given back.
DisposeKeepsContext ==
  /\ Idle /\ ~available
  /\ LET handles == {ctx[s] : s \in ContextSlots}
     IN  live' = live \ handles /\ faults' = faults \cup BadFrees(handles)
  /\ UNCHANGED <<available, ctx, local, call, at, completed, failed, apiFailed>>

\* wasi_ra_net_dispose: free_ra_context leaves the handles in the context.
Dispose ==
  /\ Idle /\ ~available
  /\ LET handles == {ctx[s] : s \in ContextSlots}
     IN  live' = live \ handles /\ faults' = faults \cup BadFrees(handles)
  /\ available' = TRUE
  /\ UNCHANGED <<ctx, local, call, at, completed, failed, apiFailed>>

------------------------------------------------------------------------------
(* Functions                                                                 *)

Running == call # << >>
Steps == Head(call).steps
InStep(kind) == Running /\ at <= Len(Steps) /\ Steps[at].kind = kind

\* An allocation sets its handle.
Allocate ==
  /\ InStep("alloc")
  /\ \E h \in (1 .. Pool) \ live :
       /\ \A g \in (1 .. Pool) \ live : h <= g
       /\ live' = live \cup {h}
       /\ IF Steps[at].slot \in ContextSlots
          THEN ctx' = [ctx EXCEPT ![Steps[at].slot] = h] /\ UNCHANGED local
          ELSE local' = [local EXCEPT ![Steps[at].slot] = h] /\ UNCHANGED ctx
  /\ at' = at + 1
  /\ UNCHANGED <<available, call, completed, failed, apiFailed, faults>>

\* Any other call of the API, or a check of what came from outside.
Succeed ==
  /\ InStep("api") \/ InStep("input")
  /\ at' = at + 1
  /\ UNCHANGED <<available, ctx, local, call, live, completed, failed, apiFailed, faults>>

Handshaking == available

\* The call ends with its last function or with the first that fails; the result of
\* prepare_msg2 is always success.  The context is taken by a handshake that succeeded.
Return(ok) ==
  LET rest == IF ok THEN Tail(call) ELSE << >>
      done == Handshaking /\ rest = << >>
  IN  /\ call' = rest
      /\ at' = 1
      /\ local' = NoLocals
      /\ available' = IF done /\ ok THEN FALSE ELSE available
      /\ completed' = IF done /\ ok THEN completed + 1 ELSE completed
      /\ failed' = IF done /\ ~ok THEN failed + 1 ELSE failed

\* The label out.
Out(ok) ==
  LET handles == {local[Head(call).frees[i]] : i \in 1 .. Len(Head(call).frees)}
  IN  /\ live' = live \ handles
      /\ faults' = faults \cup BadFrees(handles)
      /\ Return(ok)

Leave ==
  /\ Running /\ at > Len(Steps)
  /\ "undefined" \notin faults
  /\ Out(TRUE)
  /\ UNCHANGED <<ctx, apiFailed>>

\* A step fails: an allocation when the pool is empty, or for other reasons.
Fail ==
  /\ \/ InStep("alloc") /\ live = 1 .. Pool
     \/ (InStep("alloc") \/ InStep("api")) /\ "api" \in Failing
     \/ InStep("input") /\ "input" \in Failing
  /\ apiFailed' = (apiFailed \/ ~InStep("input"))
  /\ IF Steps[at].exit = "out" THEN Out(FALSE) ELSE Return(FALSE) /\ UNCHANGED <<live, faults>>
  /\ UNCHANGED ctx

Next ==
  Handshake \/ SendQuote \/ ReceiveData \/ Dispose \/ Allocate \/ Succeed \/ Leave \/ Fail

Spec == Init /\ [][Next]_vars

------------------------------------------------------------------------------
(* Properties                                                                *)

\* No handle is freed twice or after it went to somebody else, in any order of handshakes,
\* failed ones among them, and dispose.
FreedOnce == "freed_twice" \notin faults

\* What the verifier or the application sends can make a call fail but never makes the TA
\* free a handle it has not set: that takes a failing allocation or API call.
UndefinedNeedsApiFailure == "undefined" \in faults => apiFailed

\* Handles that neither a context in use nor the last failed handshake holds.
Lost == live \ {ctx[s] : s \in ContextSlots}

\* A handshake that succeeds loses two operations for good, one that fails at most eight
\* handles; send_quote, receive_data and dispose lose none.
LossPerHandshake ==
  Idle => Cardinality(Lost) \in (2 * completed) .. (2 * completed + 8 * failed)
==============================================================================
