---------------------------- MODULE RaProtocolInv ----------------------------
(***************************************************************************)
(* The inductive invariant behind the theorems of RaProtocolProofs, stated *)
(* apart so that TLC can check it on small instances first.                *)
(***************************************************************************)
EXTENDS RaProtocol

\* The messages of a channel.
Elems(s) == {s[i] : i \in 1..Len(s)}

(***************************************************************************)
(* Control: a blocked call has a keypair, hence a connection, and so does  *)
(* a context in use; a verifier process serves a connection in a run.      *)
(***************************************************************************)
Blocked ==
  \A c \in Clients :
    /\ app[c].pc = "handshake" \/ ra[c].inUse => ra[c].ga \in Keys
    /\ app[c].pc = "receive" => ra[c].inUse

Serving ==
  /\ v.pc # "down" => v.run \in Runs
  /\ v.pc \in {"msg0", "msg1", "msg2", "msg3"} => v.conn \in Keys
  /\ v.pc \in {"msg1", "msg2", "msg3"} => v.gv \in Keys

(***************************************************************************)
(* Keys: numbers are drawn in order; attesters' keys have an owner,        *)
(* verifiers' keys have none, so no key is ever used in both roles.        *)
(***************************************************************************)
VerifierKey(g) == g \in 1..nkey /\ owner[g] = None
AttesterKey(k) == k \in Keys /\ owner[k] \in Clients

KeysDrawn ==
  /\ \A k \in Keys : k > nkey => owner[k] = None
  /\ \A c \in Clients : ra[c].ga # Garbage => owner[ra[c].ga] = c
  /\ v.gv # Garbage => VerifierKey(v.gv)
  /\ \A s \in handed : AttesterKey(s[1]) /\ VerifierKey(s[2])
  /\ \A k \in Keys : \A m \in Elems(toA[k]) : m.type = "msg1" => VerifierKey(m.gv)

(***************************************************************************)
(* Evidence: a quote held by an application was signed for it; a tag over  *)
(* a quote exists only for a session that was handed to the owner of Ga.   *)
(***************************************************************************)
QuoteOf(c, q) ==
  q # NoQuote => q \in issued /\ q = generate_quote(c, q.anchor)

MacOf(k, mac) ==
  mac # NoMac =>
    /\ mac.ga = k
    /\ QuoteOf(owner[k], mac.quote)
    /\ \E g \in Points : generate_anchor(k, g) \in handed /\ mac.key = ECDH(k, g)

Evidence ==
  /\ \A c \in Clients :
       /\ QuoteOf(c, quote[c])
       /\ MacOf(ra[c].ga, ra[c].mac)
       /\ ra[c].inUse => generate_anchor(ra[c].ga, ra[c].gv) \in handed
  /\ \A k \in Keys : \A m \in Elems(toV[k]) : MacOf(k, m.mac)

\* A session that deserves the secret.
Genuine(ga, gv) ==
  /\ ga \in Keys
  /\ generate_anchor(ga, gv) \in handed
  /\ owner[ga] \in Clients
  /\ generate_quote(owner[ga], generate_anchor(ga, gv)) \in issued
  /\ DeviceOf[owner[ga]] = Endorsed

Appraised == v.pc = "msg3" => Genuine(v.ga, v.gv)

(***************************************************************************)
(* Agreement: a verifier key is drawn for one attester key, and msg1, the  *)
(* sessions handed out and the verifier's context all tell the same one.   *)
(***************************************************************************)
Agreement ==
  /\ \A k \in Keys : \A m \in Elems(toA[k]) :
       m.type = "msg1" =>
         /\ m.gv = v.gv => m.sig.ga = v.ga
         /\ \A s \in handed : s[2] = m.gv => s[1] = m.sig.ga
         /\ \A j \in Keys : \A n \in Elems(toA[j]) :
              n.type = "msg1" /\ n.gv = m.gv => n.sig.ga = m.sig.ga

(***************************************************************************)
(* Release: a secret is released at the end of a run, and every msg3 on    *)
(* its way is one that was released.                                       *)
(***************************************************************************)
ReleasedRuns ==
  \A x \in released :
    /\ x.run <= v.run
    /\ v.pc \in {"listen", "msg0", "msg1", "msg2", "msg3"} => x.run < v.run

Msg3Released ==
  \A k \in Keys : \A m \in Elems(toA[k]) :
    m.type = "msg3" => \E x \in released : m = Msg3(x.ga, x.gv, x.run)

\* The inductive invariant.
TypeInv == TypeOK /\ Blocked /\ Serving
IInv ==
  /\ TypeInv
  /\ KeysDrawn
  /\ Evidence
  /\ Appraised
  /\ ReleasedOnlyToAttested
  /\ Agreement
  /\ HandshakeAgreement
  /\ ReleasedRuns
  /\ OneSessionPerSecret
  /\ Msg3Released
  /\ DeliveredWasReleased
==============================================================================
