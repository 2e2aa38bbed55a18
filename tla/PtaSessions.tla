----------------------------- MODULE PtaSessions -----------------------------
(***************************************************************************)
(* The two sessions an attester TA instance holds with pseudo TAs, as its  *)
(* handles see them: attestation_session of ra_wasi.c, which is never      *)
(* reset, and the static of libutee for sockets.  att says what the first  *)
(* one names, sock what became of the second.                              *)
(*                                                                         *)
(* The numbers behind the names are in WasiRa, which implements this view: *)
(* OP-TEE gives the number of a session closed last to the next one that   *)
(* is opened, so a socket session opened while attestation_session names   *)
(* nothing is what attestation_session names from then on.                 *)
(***************************************************************************)
PtaStates == [att : {"null", "open", "closed", "socket"}, sock : {"null", "open", "closed"}]

NoSessions == [att |-> "null", sock |-> "null"]

\* invoke_socket_pta opens a session the first time.
OpenSocketSession(p) ==
  [att  |-> IF p.att = "closed" /\ p.sock = "null" THEN "socket" ELSE p.att,
   sock |-> IF p.sock = "null" THEN "open" ELSE p.sock]

\* ensure_attestation_service_up opens one when the handle is null, and only then.
OpenAttestationSession(p) == IF p.att = "null" THEN [p EXCEPT !.att = "open"] ELSE p

\* close_attestation_session closes whatever the handle names.
CloseAttestationSession(p) ==
  CASE p.att = "null"   -> p
    [] p.att = "socket" -> [att |-> "closed", sock |-> "closed"]
    [] OTHER            -> [p EXCEPT !.att = "closed"]

\* What one call may do to the sessions.
SessionSteps(p) ==
  {OpenSocketSession(p), OpenAttestationSession(p), CloseAttestationSession(p)}
==============================================================================
