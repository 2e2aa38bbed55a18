---------------------------- MODULE SecretRelease ----------------------------
(***************************************************************************)
(* What the remote attestation of WaTZ promises to the owner of a secret,  *)
(* with no protocol: a session becomes attested, the secret of a run of    *)
(* the verifier is released to one attested session, and only what was     *)
(* released to a session is delivered there.                               *)
(***************************************************************************)
CONSTANTS Anchors,   \* sessions, as the anchor that identifies each
          Runs       \* runs of the verifier, each with a secret

VARIABLES attested,  \* sessions genuine evidence exists for
          released,  \* [ga, gv, run]: the secret of run went to <<ga, gv>>
          delivered  \* [ga, gv, run]: it was handed over there

vars == <<attested, released, delivered>>

Init == attested = {} /\ released = {} /\ delivered = {}

Attest(s) ==
  /\ attested' = attested \cup {s}
  /\ UNCHANGED <<released, delivered>>

Release(s, r) ==
  /\ s \in attested
  /\ \A x \in released : x.run # r
  /\ released' = released \cup {[ga |-> s[1], gv |-> s[2], run |-> r]}
  /\ UNCHANGED <<attested, delivered>>

Deliver(x) ==
  /\ x \in released
  /\ delivered' = delivered \cup {x}
  /\ UNCHANGED <<attested, released>>

Next ==
  \/ \E s \in Anchors : Attest(s)
  \/ \E s \in Anchors, r \in Runs : Release(s, r)
  \/ \E x \in released : Deliver(x)

Spec == Init /\ [][Next]_vars
==============================================================================
