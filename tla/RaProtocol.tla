------------------------------ MODULE RaProtocol ------------------------------
(***************************************************************************)
(* The WaTZ remote attestation protocol, end to end: WebAssembly           *)
(* applications that call WASI-RA inside attester TA instances             *)
(* (ra_wasi.c, remote_attestation.c), the attestation pseudo TA that signs *)
(* their quotes (attesting_service.c), the TCP connections between them    *)
(* and the verifier, and the verifier process with its TA                  *)
(* (vedliot_verifier/host/main.c, ta/main.c, ta/verifier.c).               *)
(*                                                                         *)
(* Cryptography is symbolic.  An ephemeral ECDH keypair is a number, drawn *)
(* once; a signature or a MAC is the record of the key it was made with    *)
(* and of what it covers, and it verifies only against the same record.    *)
(* A byte string that is not a complete message carries the key Garbage.   *)
(***************************************************************************)
EXTENDS Naturals, Sequences, FiniteSets, PtaSessions

CONSTANTS
  Clients,     \* WebAssembly applications, each in an attester TA of its own
  Devices,     \* TrustZone devices, each with its own attestation keypair
  DeviceOf,    \* the device every application runs on
  Endorsed,    \* the device whose public key is compiled into the verifier
  None,        \* the signer of a quote that no attestation service signed
  SecretSize,  \* bytes of the secret bootstrapped in the verifier
  DataSizes,   \* sizes of the buffers applications pass to receive_data
  Pins,        \* verifier keys applications pass to handshake, 0 for none
  Faults,      \* which disturbances may happen: see FaultKinds
  MaxKeys,     \* bound: ephemeral keypairs drawn by all the parties
  MaxRuns,     \* bound: times the verifier process is started
  MaxSends,    \* bound: messages waiting for the verifier on a connection
  MaxQuotes    \* bound: distinct quotes signed

FaultKinds == {"api",        \* a GlobalPlatform API call returns an error
               "short_read", \* read() returns the front of a message only
               "reset",      \* a close discards what the peer has not read
               "crash",      \* a TA panics, or a process is killed
               "any_order"}  \* applications call WASI-RA in any order

ASSUME ConstantsAssumption ==
  /\ None \notin Devices \cup Clients
  /\ Endorsed \in Devices
  /\ DeviceOf \in [Clients -> Devices]
  /\ SecretSize \in Nat
  /\ DataSizes \subseteq Nat
  /\ Pins \subseteq Nat
  /\ Faults \subseteq FaultKinds
  /\ MaxKeys \in Nat /\ MaxRuns \in Nat /\ MaxSends \in Nat /\ MaxQuotes \in Nat

VARIABLES
  nkey,      \* ephemeral keypairs drawn so far
  owner,     \* owner[k]: the application whose handshake drew keypair k
  app,       \* app[c]: where the application is: pc, argument, progress
  ra,        \* ra[c]: ra_context_singleton and is_ra_context_available
  quote,     \* quote[c]: ra_quote_singleton
  slot,      \* slot[c]: is_ra_quote_available
  pta,       \* pta[c]: the sessions that attestation_session and libutee name
  aOpen,     \* aOpen[k]: the attester's end of connection k is open
  vEnd,      \* vEnd[k]: the verifier's end of connection k
  toV, toA,  \* toV[k], toA[k]: messages on their way on connection k
  v,         \* the verifier process and the context_singleton of its TA
  issued,    \* history: quotes signed by attestation services
  handed,    \* history: sessions <<ga, gv>> a handshake completed for
  released,  \* history: sessions a secret was sent to, with the run
  delivered  \* history: sessions a secret was returned to, with the run

clientVars == <<app, ra, quote, slot, pta>>
netVars    == <<aOpen, vEnd, toV, toA>>
history    == <<issued, handed, released, delivered>>
vars       == <<nkey, owner, clientVars, netVars, v, history>>

(***************************************************************************)
(* Keys, quotes and messages.                                              *)
(***************************************************************************)
Garbage == 0                        \* bytes that are nobody's public key
Keys    == 1..MaxKeys               \* a connection is named by its client key
Points  == Keys \cup {Garbage}
Runs    == 1..MaxRuns
Anchors == Points \X Points
Signers == Devices \cup {None}

NoQuote == [signer |-> None, claim |-> None, anchor |-> <<Garbage, Garbage>>]
Quotes  == [signer : Signers, claim : Clients \cup {None}, anchor : Anchors]

\* derive_shared_key: the ECDH secret of two keypairs, the same from both sides
ECDH(a, b) == {a, b}

NoMac == [key |-> {}, ga |-> Garbage, quote |-> NoQuote]
Macs2 == [key : SUBSET Points, ga : Points, quote : Quotes]

\* generate_anchor: the hash of both ephemeral public keys, attester's first
generate_anchor(ga, gv) == <<ga, gv>>

Msg0(ga) == [type |-> "msg0", ga |-> ga, quote |-> NoQuote, mac |-> NoMac]
Msg2(ga, q, mac) == [type |-> "msg2", ga |-> ga, quote |-> q, mac |-> mac]
Frag == [type |-> "frag", ga |-> Garbage, quote |-> NoQuote, mac |-> NoMac]
MsgsToV == [type : {"msg0", "msg2", "frag"}, ga : Points, quote : Quotes, mac : Macs2]

\* append_ecdh_public_keys_signature: the verifier signs (Gv, Ga)
Sign1(vk, gv, ga) == [vk |-> vk, gv |-> gv, ga |-> ga]
\* append_mac: the tag of msg1 covers Gv, the verifier's key and the signature
Mac1(key, gv, vk, sig) == [key |-> key, gv |-> gv, vk |-> vk, sig |-> sig]

Sigs1 == [vk : Nat, gv : Points, ga : Points]
Macs1 == [key : SUBSET Points, gv : Points, vk : Nat, sig : Sigs1]
Msgs1 == [type : {"msg1"}, gv : Points, vk : Nat, sig : Sigs1, mac : Macs1]
Msgs3 == [type : {"msg3"}, key : SUBSET Points, secret : Runs]

\* Mutant: append_mac is forgotten.
Msg1WithoutMac(ga, gv, vk) ==
  [type |-> "msg1", gv |-> gv, vk |-> vk, sig |-> Sign1(vk, gv, ga)]

\* prepare_msg1 of the verifier TA
Msg1(ga, gv, vk) ==
  [type |-> "msg1", gv |-> gv, vk |-> vk, sig |-> Sign1(vk, gv, ga),
   mac |-> Mac1(ECDH(ga, gv), gv, vk, Sign1(vk, gv, ga))]

\* Mutant: the secret of the previous run is encrypted.
Msg3OldSecret(ga, gv, secret) ==
  [type |-> "msg3", key |-> ECDH(ga, gv), secret |-> secret - 1]

\* encrypt_msg3: the secret, encrypted under the session key
Msg3(ga, gv, secret) ==
  [type |-> "msg3", key |-> ECDH(ga, gv), secret |-> secret]

(***************************************************************************)
(* Sizes, in bytes, of the messages and of the one buffer in which the     *)
(* verifier process receives and prepares all of them.                     *)
(***************************************************************************)
SizeofMsg0 == 72
SizeofMsg1 == 224
SizeofMsg2 == 288
SizeofMsg3 == 52          \* header of msg3, without the encrypted content
GcmOverhead == 16
\* Mutant: the header and the tag of msg3 are not accounted for.
BuffSizeOfSecret == SecretSize
BuffSize == SecretSize + SizeofMsg3 + GcmOverhead

(***************************************************************************)
(* What the attester checks of msg1 before it uses the session.            *)
(***************************************************************************)
verify_service_public_key(m, pin) == pin = 0 \/ m.vk = pin

verify_ecdh_public_key_signature(m, ga) == m.sig = Sign1(m.vk, m.gv, ga)

verify_msg1_mac(m, ga) == m.mac = Mac1(ECDH(ga, m.gv), m.gv, m.vk, m.sig)

\* The bytes of any other message carry no signature.
Msg1Accepted(m, ga, pin) ==
  /\ m.type = "msg1"
  /\ verify_service_public_key(m, pin)
  /\ verify_ecdh_public_key_signature(m, ga)
  /\ verify_msg1_mac(m, ga)

(***************************************************************************)
(* What the verifier TA checks of msg2, in this order (handle_msg2).       *)
(***************************************************************************)
verify_mac_msg2(m) ==
  m.mac = [key |-> ECDH(v.ga, v.gv), ga |-> m.ga, quote |-> m.quote]

verify_public_key_msg2_matches_msg0(m) == m.ga = v.ga

\* Mutant: the signature may be of any device.
AnySigner(m) == m.quote.signer # None
verify_quote_signature(m) == m.quote.signer = Endorsed

\* Mutant: the anchor is not compared.
AnchorIgnored(m) == TRUE
verify_anchor(m) == m.quote.anchor = generate_anchor(v.ga, v.gv)

\* handle_msg2 sets is_quote_valid when the signature is good, and only then
\* compares the anchor: the flag can be TRUE although the message is refused.
QuoteValid(m) ==
  /\ verify_mac_msg2(m)
  /\ verify_public_key_msg2_matches_msg0(m)
  /\ verify_quote_signature(m)

Msg2Accepted(m) == QuoteValid(m) /\ verify_anchor(m)

-----------------------------------------------------------------------------
(***************************************************************************)
(* Initially no TA session exists and the verifier process is not started. *)
(***************************************************************************)
Idle == [pc |-> "idle", arg |-> 0, stage |-> 0]
NoContext == [inUse |-> FALSE, ga |-> Garbage, gv |-> Garbage, mac |-> NoMac]

Init ==
  /\ nkey = 0
  /\ owner = [k \in Keys |-> None]
  /\ app = [c \in Clients |-> Idle]
  /\ ra = [c \in Clients |-> NoContext]
  /\ quote = [c \in Clients |-> NoQuote]
  /\ slot = [c \in Clients |-> TRUE]
  /\ pta = [c \in Clients |-> NoSessions]
  /\ aOpen = [k \in Keys |-> FALSE]
  /\ vEnd = [k \in Keys |-> "none"]
  /\ toV = [k \in Keys |-> <<>>]
  /\ toA = [k \in Keys |-> <<>>]
  /\ v = [pc |-> "down", run |-> 0, conn |-> Garbage, ga |-> Garbage,
          gv |-> Garbage, valid |-> FALSE]
  /\ issued = {} /\ handed = {} /\ released = {} /\ delivered = {}

(***************************************************************************)
(* Applications.  A disciplined application makes the calls of the samples *)
(* in their order, once each, and stops at the first error; under          *)
(* "any_order" it makes any call at any time.                              *)
(***************************************************************************)
Completed == 6                      \* stage after the last call of the samples
Aborted   == 9                      \* stage after a call that failed
May(c, i) == app[c].pc = "idle" /\ ("any_order" \in Faults \/ app[c].stage = i)
Return(c, ok) ==
  app' = [app EXCEPT ![c] = [pc |-> "idle", arg |-> 0,
            stage |-> IF "any_order" \in Faults THEN 0
                      ELSE IF ok THEN @.stage + 1 ELSE Aborted]]
Block(c, pc, arg) == app' = [app EXCEPT ![c].pc = pc, ![c].arg = arg]

\* A handle that names no session is used: TEE_InvokeTACommand panics the TA.
Panics(c) ==
  \/ May(c, 1) /\ slot[c] /\ pta[c].att = "closed"
  \/ app[c].pc = "idle" /\ pta[c].sock = "closed"

\* wasi_ra_net_handshake until it waits for msg1: the context is zeroed (what
\* it referred to is forgotten, its connection is not closed), a keypair is
\* drawn, the connection is opened and msg0 is sent.
HandshakeBegin(c, pin) ==
  /\ May(c, 0)
  /\ ~ra[c].inUse
  /\ nkey < MaxKeys
  /\ v.pc # "down"
  /\ pta[c].sock # "closed"
  /\ pta' = [pta EXCEPT ![c] = OpenSocketSession(@)]
  /\ LET k == nkey + 1 IN
     /\ nkey' = k
     /\ owner' = [owner EXCEPT ![k] = c]
     /\ ra' = [ra EXCEPT ![c] = [NoContext EXCEPT !.ga = k]]
     /\ aOpen' = [aOpen EXCEPT ![k] = TRUE]
     /\ vEnd' = [vEnd EXCEPT ![k] = "backlog"]
     /\ toV' = [toV EXCEPT ![k] = <<Msg0(k)>>]
  /\ Block(c, "handshake", pin)
  /\ UNCHANGED <<quote, slot, toA, v, history>>

\* The same call when the keypair cannot be drawn, or nobody listens.
HandshakeRefused(c) ==
  /\ May(c, 0)
  /\ ~ra[c].inUse
  /\ \/ /\ v.pc = "down" /\ pta[c].sock # "closed"
        /\ pta' = [pta EXCEPT ![c] = OpenSocketSession(@)]
     \/ "api" \in Faults /\ UNCHANGED pta
  /\ ra' = [ra EXCEPT ![c] = NoContext]
  /\ Return(c, FALSE)
  /\ UNCHANGED <<nkey, owner, quote, slot, netVars, v, history>>

\* The rest of ra_net_handshake once msg1 is complete and accepted: the keys
\* are derived, the anchor is handed to the application, which gets a handle.
HandshakeEnd(c) ==
  LET k == ra[c].ga IN
  /\ app[c].pc = "handshake"
  /\ toA[k] # <<>>
  /\ Msg1Accepted(Head(toA[k]), k, app[c].arg)
  /\ ra' = [ra EXCEPT ![c].inUse = TRUE, ![c].gv = Head(toA[k]).gv]
  /\ toA' = [toA EXCEPT ![k] = Tail(@)]
  /\ handed' = handed \cup {generate_anchor(k, Head(toA[k]).gv)}
  /\ Return(c, TRUE)
  /\ UNCHANGED <<nkey, owner, quote, slot, pta, aOpen, vEnd, toV, v, issued, released, delivered>>

\* msg1 is refused, or the connection ends before msg1 is complete: the error
\* is returned, the slot stays available and the connection stays open.
HandshakeFail(c) ==
  LET k == ra[c].ga IN
  /\ app[c].pc = "handshake"
  /\ \/ /\ toA[k] # <<>>
        /\ \/ ~Msg1Accepted(Head(toA[k]), k, app[c].arg)
           \/ "api" \in Faults
        /\ toA' = [toA EXCEPT ![k] = Tail(@)]
     \/ /\ vEnd[k] = "closed"
        /\ toA[k] = <<>> \/ "reset" \in Faults
        /\ toA' = [toA EXCEPT ![k] = <<>>]
  /\ Return(c, FALSE)
  /\ UNCHANGED <<nkey, owner, ra, quote, slot, pta, aOpen, vEnd, toV, v, history>>

\* generate_quote of the attestation service: the device's key signs the
\* claim (the hash of the caller's bytecode) and the anchor it was given.
generate_quote(c, anchor) == [signer |-> DeviceOf[c], claim |-> c, anchor |-> anchor]

\* The anchors an application can know: those any handshake handed out
\* (applications may exchange them), and one of its own making.
KnownAnchors(c) ==
  IF "any_order" \in Faults THEN handed \cup {<<Garbage, Garbage>>}
  ELSE {generate_anchor(ra[c].ga, ra[c].gv)}

\* wasi_ra_collect_quote: the slot is taken before the service is called and
\* stays taken when the service cannot be reached, when it fails, and when the
\* socket pseudo TA is called in its place and refuses the parameters.
CollectQuote(c, anchor) ==
  /\ May(c, 1)
  /\ slot[c]
  /\ slot' = [slot EXCEPT ![c] = FALSE]
  /\ \/ /\ pta[c].att \in {"null", "open"}
        /\ Cardinality(issued) < MaxQuotes \/ generate_quote(c, anchor) \in issued
        /\ pta' = [pta EXCEPT ![c] = OpenAttestationSession(@)]
        /\ quote' = [quote EXCEPT ![c] = generate_quote(c, anchor)]
        /\ issued' = issued \cup {generate_quote(c, anchor)}
        /\ Return(c, TRUE)
     \/ /\ "api" \in Faults
        /\ pta[c].att \in {"null", "open"}
        /\ pta' \in {pta, [pta EXCEPT ![c] = OpenAttestationSession(@)]}
        /\ Return(c, FALSE)
        /\ UNCHANGED <<quote, issued>>
     \/ /\ pta[c].att = "socket"
        /\ Return(c, FALSE)
        /\ UNCHANGED <<quote, issued, pta>>
  /\ UNCHANGED <<nkey, owner, ra, netVars, v, handed, released, delivered>>

\* prepare_msg2: the tag covers Ga and the quote; when it cannot be computed
\* the message keeps the tag it had, and success is returned all the same.
prepare_msg2(c) ==
  {[key |-> ECDH(ra[c].ga, ra[c].gv), ga |-> ra[c].ga, quote |-> quote[c]]}
    \cup IF "api" \in Faults THEN {ra[c].mac} ELSE {}

\* wasi_ra_net_send_quote: whatever the quote slot holds is sent.
SendQuote(c) ==
  LET k == ra[c].ga IN
  /\ May(c, 2)
  /\ ra[c].inUse
  /\ pta[c].sock # "closed"
  /\ Len(toV[k]) < MaxSends
  /\ \E mac \in prepare_msg2(c) :
       /\ ra' = [ra EXCEPT ![c].mac = mac]
       /\ \/ /\ vEnd[k] # "closed"
             /\ toV' = [toV EXCEPT ![k] = Append(@, Msg2(k, quote[c], mac))]
             /\ Return(c, TRUE)
          \/ /\ vEnd[k] = "closed"
             /\ Return(c, FALSE)
             /\ UNCHANGED toV
  /\ UNCHANGED <<nkey, owner, quote, slot, pta, aOpen, vEnd, toA, v, history>>

\* wasi_ra_net_receive_data until it waits for msg3.
ReceiveBegin(c, size) ==
  /\ May(c, 3)
  /\ ra[c].inUse
  /\ pta[c].sock # "closed"
  /\ Block(c, "receive", size)
  /\ UNCHANGED <<nkey, owner, ra, quote, slot, pta, netVars, v, history>>

\* receive_msg3 returns when the bytes the application made room for are
\* there, or at the end of the stream: with more room than msg3 needs only
\* the end of the stream ends the loop.
Msg3Complete(c) ==
  LET k == ra[c].ga IN
  toA[k] # <<>> /\ (app[c].arg <= SecretSize \/ vEnd[k] = "closed")

decrypt_msg3(c, m) ==
  /\ app[c].arg >= SecretSize
  /\ m.type = "msg3"
  /\ m.key = ECDH(ra[c].ga, ra[c].gv)

ReceiveEnd(c) ==
  LET k == ra[c].ga IN
  /\ app[c].pc = "receive"
  /\ Msg3Complete(c)
  /\ decrypt_msg3(c, Head(toA[k]))
  /\ toA' = [toA EXCEPT ![k] = Tail(@)]
  /\ delivered' = delivered \cup {[ga |-> k, gv |-> ra[c].gv, run |-> Head(toA[k]).secret]}
  /\ Return(c, TRUE)
  /\ UNCHANGED <<nkey, owner, ra, quote, slot, pta, aOpen, vEnd, toV, v, issued, handed, released>>

ReceiveFail(c) ==
  LET k == ra[c].ga IN
  /\ app[c].pc = "receive"
  /\ \/ /\ Msg3Complete(c)
        /\ ~decrypt_msg3(c, Head(toA[k])) \/ "api" \in Faults
        /\ toA' = [toA EXCEPT ![k] = Tail(@)]
     \/ /\ vEnd[k] = "closed"
        /\ toA[k] = <<>> \/ "reset" \in Faults
        /\ toA' = [toA EXCEPT ![k] = <<>>]
  /\ Return(c, FALSE)
  /\ UNCHANGED <<nkey, owner, ra, quote, slot, pta, aOpen, vEnd, toV, v, history>>

\* wasi_ra_net_dispose: the connection is closed, the slot is available again.
Dispose(c) ==
  /\ May(c, 4)
  /\ ra[c].inUse
  /\ pta[c].sock # "closed"
  /\ aOpen' = [aOpen EXCEPT ![ra[c].ga] = FALSE]
  /\ ra' = [ra EXCEPT ![c].inUse = FALSE]
  /\ Return(c, TRUE)
  /\ UNCHANGED <<nkey, owner, quote, slot, pta, vEnd, toV, toA, v, history>>

\* wasi_ra_net_dispose_quote: the session is closed, the quote is zeroed, the
\* slot available again.  If the session is the one with the socket pseudo TA,
\* that closes every connection of the instance (OPTEE_RPC_SOCKET_CLOSE_ALL).
DisposeQuote(c) ==
  /\ May(c, 5)
  /\ ~slot[c]
  /\ slot' = [slot EXCEPT ![c] = TRUE]
  /\ quote' = [quote EXCEPT ![c] = NoQuote]
  /\ pta' = [pta EXCEPT ![c] = CloseAttestationSession(@)]
  /\ \/ pta[c].att \in {"null", "open"} /\ UNCHANGED aOpen
     \/ /\ pta[c].att = "socket"
        /\ aOpen' = [k \in Keys |-> aOpen[k] /\ owner[k] # c]
  /\ Return(c, TRUE)
  /\ UNCHANGED <<nkey, owner, ra, vEnd, toV, toA, v, history>>

\* The session with the host is closed: the TA instance goes, and with it every
\* connection it opened.
CloseInstance(c) ==
  /\ app' = [app EXCEPT ![c] = [Idle EXCEPT !.pc = "ended"]]
  /\ aOpen' = [k \in Keys |-> aOpen[k] /\ owner[k] # c]
  /\ UNCHANGED <<nkey, owner, ra, quote, slot, pta, vEnd, toV, toA, v, history>>

\* The application's main returns.
AppEnd(c) ==
  /\ app[c].pc = "idle"
  /\ "any_order" \in Faults \/ app[c].stage >= Completed
  /\ CloseInstance(c)

\* The TA panics, or its host process is killed, possibly in a blocked call.
AppKilled(c) ==
  /\ app[c].pc # "ended"
  /\ "crash" \in Faults \/ Panics(c)
  /\ CloseInstance(c)

(***************************************************************************)
(* The verifier process.                                                   *)
(***************************************************************************)

\* main until listen: a TA session (a new signing key, named by the run), and
\* the secret, also named by the run.
Start ==
  /\ v.pc = "down"
  /\ v.run < MaxRuns
  /\ v' = [pc |-> "listen", run |-> v.run + 1, conn |-> Garbage,
           ga |-> Garbage, gv |-> Garbage, valid |-> FALSE]
  /\ UNCHANGED <<nkey, owner, clientVars, netVars, history>>

\* The one accept of start_verifier_server, in order of connection.
Accept(k) ==
  /\ v.pc = "listen"
  /\ vEnd[k] = "backlog"
  /\ \A j \in Keys : vEnd[j] = "backlog" => k <= j
  /\ vEnd' = [vEnd EXCEPT ![k] = "accepted"]
  /\ v' = [v EXCEPT !.pc = "msg0", !.conn = k]
  /\ UNCHANGED <<nkey, owner, clientVars, aOpen, toV, toA, history>>

\* Mutant: the end of the stream is taken for an interrupted read.
ReadAgain(k, m) ==
  /\ toV[k] # <<>>
  /\ m = Head(toV[k])
  /\ toV' = [toV EXCEPT ![k] = Tail(@)]

\* One read() into the buffer: the next message, the front of it, or, at the
\* end of the stream, nothing.  What the buffer holds beyond the bytes read is
\* not part of any message.
Read(k, m) ==
  \/ /\ toV[k] # <<>>
     /\ m = Head(toV[k])
     /\ toV' = [toV EXCEPT ![k] = Tail(@)]
  \/ /\ "short_read" \in Faults
     /\ toV[k] # <<>>
     /\ m = Frag
     /\ toV' = [toV EXCEPT ![k] = <<Frag>> \o Tail(@)]
  \/ /\ toV[k] = <<>>
     /\ ~aOpen[k]
     /\ m = Frag
     /\ UNCHANGED toV

\* Mutant: the process serves the next connection instead.
HostContinues == v' = [v EXCEPT !.pc = "listen"]

\* Every failed TA command ends the process (errx).
HostFails == v' = [v EXCEPT !.pc = "exit"]

\* Mutant: one keypair for all sessions.
KeypairKept == MaxKeys

\* generate_ecdh_keypair of the verifier TA: a keypair nobody has drawn before.
generate_ecdh_keypair == nkey + 1

\* receive_msg0: read, then handle_msg0 of the TA: a fresh keypair, msg0 as
\* the buffer holds it, the shared keys.
HandleMsg0 ==
  /\ v.pc = "msg0"
  /\ nkey < MaxKeys
  /\ nkey' = nkey + 1
  /\ \E m \in {Frag} \cup (IF toV[v.conn] = <<>> THEN {} ELSE {Head(toV[v.conn])}) :
       /\ Read(v.conn, m)
       /\ \/ /\ BuffSize >= SizeofMsg0
             /\ v' = [v EXCEPT !.pc = "msg1", !.ga = m.ga, !.gv = generate_ecdh_keypair]
          \/ /\ BuffSize < SizeofMsg0 \/ m.ga = Garbage \/ "api" \in Faults
             /\ HostFails
  /\ UNCHANGED <<owner, clientVars, aOpen, vEnd, toA, history>>

\* prepare_msg1 of the TA and the write of the host.
PrepareMsg1 ==
  /\ v.pc = "msg1"
  /\ \/ /\ BuffSize >= SizeofMsg1
        /\ toA' = [toA EXCEPT ![v.conn] = Append(@, Msg1(v.ga, v.gv, v.run))]
        /\ v' = [v EXCEPT !.pc = "msg2"]
     \/ /\ BuffSize < SizeofMsg1 \/ ~aOpen[v.conn] \/ "api" \in Faults
        /\ HostFails
        /\ UNCHANGED toA
  /\ UNCHANGED <<nkey, owner, clientVars, aOpen, vEnd, toV, history>>

\* receive_msg2: read, then handle_msg2 of the TA.
HandleMsg2 ==
  /\ v.pc = "msg2"
  /\ \E m \in {Frag} \cup (IF toV[v.conn] = <<>> THEN {} ELSE {Head(toV[v.conn])}) :
       /\ Read(v.conn, m)
       /\ \/ /\ BuffSize >= SizeofMsg2
             /\ Msg2Accepted(m)
             /\ v' = [v EXCEPT !.pc = "msg3", !.valid = TRUE]
          \/ /\ BuffSize < SizeofMsg2 \/ ~Msg2Accepted(m) \/ "api" \in Faults
             /\ v' = [v EXCEPT !.pc = "exit",
                               !.valid = BuffSize >= SizeofMsg2 /\ QuoteValid(m)]
  /\ UNCHANGED <<nkey, owner, clientVars, aOpen, vEnd, toA, history>>

\* prepare_msg3 of the TA and the write of the host.
PrepareMsg3 ==
  /\ v.pc = "msg3"
  /\ v' = [v EXCEPT !.pc = "exit"]
  /\ \/ /\ toA' = [toA EXCEPT ![v.conn] = Append(@, Msg3(v.ga, v.gv, v.run))]
        /\ released' = released \cup {[ga |-> v.ga, gv |-> v.gv, run |-> v.run]}
     \/ /\ ~aOpen[v.conn] \/ "api" \in Faults
        /\ UNCHANGED <<toA, released>>
  /\ UNCHANGED <<nkey, owner, clientVars, aOpen, vEnd, toV, issued, handed, delivered>>

\* The process ends; the kernel closes the accepted connection and those that
\* nobody accepted, and the TA instance goes with the session.
CloseProcess ==
  /\ v' = [v EXCEPT !.pc = "down"]
  /\ vEnd' = [k \in Keys |-> IF vEnd[k] = "none" THEN "none" ELSE "closed"]
  /\ UNCHANGED <<nkey, owner, clientVars, aOpen, toV, toA, history>>

\* Mutant: the process goes back to accept and keeps the connection.
AcceptAgain ==
  /\ v.pc = "exit"
  /\ v' = [v EXCEPT !.pc = "listen"]
  /\ UNCHANGED <<nkey, owner, clientVars, netVars, history>>

Terminate == v.pc = "exit" /\ CloseProcess

VerifierKilled == "crash" \in Faults /\ v.pc # "down" /\ CloseProcess

-----------------------------------------------------------------------------
AppCall(c) ==
  \/ \E pin \in Pins : HandshakeBegin(c, pin)
  \/ HandshakeRefused(c)
  \/ \E anchor \in KnownAnchors(c) : CollectQuote(c, anchor)
  \/ SendQuote(c)
  \/ \E size \in DataSizes : ReceiveBegin(c, size)
  \/ Dispose(c)
  \/ DisposeQuote(c)

\* A blocked call that can return.
AppReturn(c) ==
  \/ HandshakeEnd(c) \/ HandshakeFail(c)
  \/ ReceiveEnd(c) \/ ReceiveFail(c)

Verifier ==
  \/ \E k \in Keys : Accept(k)
  \/ HandleMsg0 \/ PrepareMsg1 \/ HandleMsg2 \/ PrepareMsg3
  \/ Terminate

Next ==
  \/ \E c \in Clients : AppCall(c) \/ AppReturn(c) \/ AppEnd(c) \/ AppKilled(c)
  \/ Start
  \/ Verifier
  \/ VerifierKilled

Spec == Init /\ [][Next]_vars

(***************************************************************************)
(* Fairness.  The verifier process is a sequence of system calls and TA    *)
(* invocations that the kernel schedules; an application runs on until it  *)
(* ends, and a blocked receive returns once there is something to return.  *)
(* Nobody has to start the verifier, and nothing has to go wrong.          *)
(***************************************************************************)
Fairness ==
  /\ WF_vars(Verifier)
  /\ \A c \in Clients : WF_vars(AppCall(c) \/ AppEnd(c)) /\ WF_vars(AppReturn(c))

FairSpec == Spec /\ Fairness

-----------------------------------------------------------------------------
(***************************************************************************)
(* Properties.                                                             *)
(***************************************************************************)

\* Type invariant: every variable keeps the shape the code gives it.
Contexts == [inUse : BOOLEAN, ga : Points, gv : Points, mac : Macs2]
Sessions == [ga : Points, gv : Points, run : Runs]
AppStates == [pc : {"idle", "handshake", "receive", "ended"}, arg : Nat, stage : Nat]
VerifierStates ==
  [pc : {"down", "listen", "msg0", "msg1", "msg2", "msg3", "exit"},
   run : 0..MaxRuns, conn : Points, ga : Points, gv : Points, valid : BOOLEAN]
TypeOK ==
  /\ nkey \in 0..MaxKeys
  /\ owner \in [Keys -> Clients \cup {None}]
  /\ app \in [Clients -> AppStates]
  /\ ra \in [Clients -> Contexts]
  /\ quote \in [Clients -> Quotes]
  /\ slot \in [Clients -> BOOLEAN]
  /\ pta \in [Clients -> PtaStates]
  /\ aOpen \in [Keys -> BOOLEAN]
  /\ vEnd \in [Keys -> {"none", "backlog", "accepted", "closed"}]
  /\ toV \in [Keys -> Seq(MsgsToV)]
  /\ toA \in [Keys -> Seq(Msgs1 \cup Msgs3)]
  /\ v \in VerifierStates
  /\ issued \subseteq Quotes
  /\ handed \subseteq Anchors
  /\ released \subseteq Sessions
  /\ delivered \subseteq Sessions

\* The secret leaves the verifier (prepare_msg3) only for a session that an
\* application on the endorsed device completed the handshake of, and for
\* which the attestation service of that device signed a quote of that very
\* application, whatever calls the applications make in whatever order and
\* whatever anchors they exchange.
ReleasedOnlyToAttested ==
  \A s \in released :
    /\ s.ga \in Keys
    /\ generate_anchor(s.ga, s.gv) \in handed
    /\ owner[s.ga] \in Clients
    /\ generate_quote(owner[s.ga], generate_anchor(s.ga, s.gv)) \in issued
    /\ DeviceOf[owner[s.ga]] = Endorsed

\* Non-injective agreement on the session (the Niagree claims of the protocol's
\* Scyther model): a handshake completes only for a session whose verifier
\* key the verifier drew for that attester key, so no verifier key is ever
\* shared by two sessions, and the verifier's own view is the same.
HandshakeAgreement ==
  /\ \A s, t \in handed : s[2] = t[2] => s = t
  /\ \A s \in handed : v.gv = s[2] => v.ga = s[1]

\* The secret of a run of the verifier goes to at most one session.
OneSessionPerSecret == \A s, t \in released : s.run = t.run => s = t

\* What receive_data returns to an application is the secret that the verifier
\* sent to that application's session, in the run it talked to.
DeliveredWasReleased == delivered \subseteq released

\* A blocked handshake returns, with a handle or an error.
HandshakeReturns ==
  \A c \in Clients : app[c].pc = "handshake" ~> app[c].pc # "handshake"

\* A blocked receive_data returns.
ReceiveReturns ==
  \A c \in Clients : app[c].pc = "receive" ~> app[c].pc # "receive"

\* A verifier process that accepted a connection ends.
VerifierEnds == v.pc \notin {"down", "listen"} ~> v.pc = "down"

\* When nothing goes wrong, every application on the endorsed device whose
\* connection the verifier accepts receives the secret, however many others
\* wait in the backlog and are turned away when the process ends.
SecretDelivered ==
  \A c \in Clients :
    /\ app[c].pc = "handshake"
    /\ vEnd[ra[c].ga] = "accepted"
    /\ DeviceOf[c] = Endorsed
    ~> \E x \in delivered : owner[x.ga] = c

\* The sessions for which the attestation service of the endorsed device
\* signed a quote of the application that completed the handshake.
Attested ==
  {s \in handed : \E q \in issued :
     /\ q.signer = Endorsed
     /\ q.anchor = s
     /\ q.claim = owner[s[1]]}

Promise == INSTANCE SecretRelease WITH attested <- Attested

\* The whole system implements SecretRelease: the secret of a run is released
\* once, to an attested session, and delivered to that session only.
ReleaseRefinement == Promise!Spec
===============================================================================
