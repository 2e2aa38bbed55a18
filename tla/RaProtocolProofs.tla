--------------------------- MODULE RaProtocolProofs ---------------------------
(***************************************************************************)
(* Theorems about RaProtocol, for any set of applications and devices and  *)
(* any bounds.                                                             *)
(***************************************************************************)
EXTENDS RaProtocolInv, TLAPS

\* Points, keys and runs are numbers, and garbage is a point.
LEMMA PointsFacts ==
  /\ Garbage \in Points
  /\ nkey \in Nat /\ nkey < MaxKeys => nkey + 1 \in Keys /\ nkey + 1 \in 0..MaxKeys
  /\ Keys \subseteq Points
  /\ Garbage \notin Keys
  /\ Points \subseteq Nat
  /\ Runs \subseteq Nat
  BY ConstantsAssumption DEF Keys, Points, Garbage, Runs

\* What the message constructors build has the type of a message.
LEMMA DataTypes ==
  /\ NoQuote \in Quotes
  /\ NoMac \in Macs2
  /\ NoContext \in Contexts
  /\ Frag \in MsgsToV
  /\ \A k \in Points : Msg0(k) \in MsgsToV
  /\ \A k \in Points, q \in Quotes, mac \in Macs2 : Msg2(k, q, mac) \in MsgsToV
  /\ \A ga, gv \in Points : \A r \in Runs : Msg1(ga, gv, r) \in Msgs1 /\ Msg3(ga, gv, r) \in Msgs3
  /\ \A c \in Clients, a \in Anchors : generate_quote(c, a) \in Quotes
<1>. USE PointsFacts
<1>1. NoQuote \in Quotes
  BY DEF NoQuote, Quotes, Signers, Anchors
<1>2. NoMac \in Macs2
  BY <1>1 DEF NoMac, Macs2
<1>3. NoContext \in Contexts
  BY <1>2 DEF NoContext, Contexts
<1>4. Frag \in MsgsToV
  BY <1>1, <1>2 DEF Frag, MsgsToV
<1>5. \A k \in Points : Msg0(k) \in MsgsToV
  BY <1>1, <1>2 DEF Msg0, MsgsToV
<1>6. \A k \in Points, q \in Quotes, mac \in Macs2 : Msg2(k, q, mac) \in MsgsToV
  BY DEF Msg2, MsgsToV
<1>7. ASSUME NEW ga \in Points, NEW gv \in Points, NEW r \in Runs
      PROVE  Msg1(ga, gv, r) \in Msgs1 /\ Msg3(ga, gv, r) \in Msgs3
  <2>1. ECDH(ga, gv) \in SUBSET Points
    BY DEF ECDH
  <2>2. Sign1(r, gv, ga) \in Sigs1
    BY DEF Sign1, Sigs1
  <2>3. Mac1(ECDH(ga, gv), gv, r, Sign1(r, gv, ga)) \in Macs1
    BY <2>1, <2>2 DEF Mac1, Macs1
  <2>4. Msg1(ga, gv, r) \in Msgs1
    BY <2>2, <2>3 DEF Msg1, Msgs1
  <2>5. Msg3(ga, gv, r) \in Msgs3
    BY <2>1 DEF Msg3, Msgs3
  <2>. QED BY <2>4, <2>5
<1>8. \A c \in Clients, a \in Anchors : generate_quote(c, a) \in Quotes
  BY ConstantsAssumption DEF generate_quote, Quotes, Signers
<1>. QED BY <1>1, <1>2, <1>3, <1>4, <1>5, <1>6, <1>7, <1>8

\* A call that returns leaves the application idle, and touches no other.
LEMMA ReturnTyped ==
  ASSUME NEW c \in Clients, NEW ok \in BOOLEAN,
         app \in [Clients -> AppStates], Return(c, ok)
  PROVE  /\ app' \in [Clients -> AppStates]
         /\ app'[c].pc = "idle"
         /\ \A d \in Clients \ {c} : app'[d] = app[d]
<1>1. app[c].stage \in Nat
  BY DEF AppStates
<1>2. [pc |-> "idle", arg |-> 0,
       stage |-> IF "any_order" \in Faults THEN 0
                 ELSE IF ok THEN app[c].stage + 1 ELSE Aborted] \in AppStates
  BY <1>1 DEF AppStates, Aborted
<1>. QED BY <1>2 DEF Return

\* A call that blocks keeps the type of the application.
LEMMA BlockTyped ==
  ASSUME NEW c \in Clients, NEW pc \in {"handshake", "receive"}, NEW arg \in Nat,
         app \in [Clients -> AppStates], Block(c, pc, arg)
  PROVE  /\ app' \in [Clients -> AppStates]
         /\ app'[c].pc = pc
         /\ \A d \in Clients \ {c} : app'[d] = app[d]
  BY DEF Block, AppStates

\* The operations on channels keep them sequences of messages.
LEMMA ToVTyped ==
  ASSUME toV \in [Keys -> Seq(MsgsToV)], NEW k \in Keys
  PROVE  /\ toV[k] # <<>> => Head(toV[k]) \in MsgsToV /\ Tail(toV[k]) \in Seq(MsgsToV)
         /\ \A m \in MsgsToV :
              /\ <<m>> \in Seq(MsgsToV)
              /\ Append(toV[k], m) \in Seq(MsgsToV)
              /\ toV[k] # <<>> => <<m>> \o Tail(toV[k]) \in Seq(MsgsToV)
         /\ \A e \in Seq(MsgsToV) : [toV EXCEPT ![k] = e] \in [Keys -> Seq(MsgsToV)]
<1>1. toV[k] \in Seq(MsgsToV)
  OBVIOUS
<1>2. toV[k] # <<>> => Head(toV[k]) \in MsgsToV /\ Tail(toV[k]) \in Seq(MsgsToV)
  BY <1>1
<1>3. \A m \in MsgsToV :
        /\ <<m>> \in Seq(MsgsToV)
        /\ Append(toV[k], m) \in Seq(MsgsToV)
        /\ toV[k] # <<>> => <<m>> \o Tail(toV[k]) \in Seq(MsgsToV)
  BY <1>1, <1>2
<1>. QED BY <1>2, <1>3

MsgsToA == Msgs1 \cup Msgs3

\* The same for the channels to the attesters.
LEMMA ToATyped ==
  ASSUME toA \in [Keys -> Seq(MsgsToA)], NEW k \in Keys
  PROVE  /\ toA[k] # <<>> => Head(toA[k]) \in MsgsToA /\ Tail(toA[k]) \in Seq(MsgsToA)
         /\ <<>> \in Seq(MsgsToA)
         /\ \A m \in MsgsToA : Append(toA[k], m) \in Seq(MsgsToA)
         /\ \A e \in Seq(MsgsToA) : [toA EXCEPT ![k] = e] \in [Keys -> Seq(MsgsToA)]
<1>1. toA[k] \in Seq(MsgsToA)
  OBVIOUS
<1>2. toA[k] # <<>> => Head(toA[k]) \in MsgsToA /\ Tail(toA[k]) \in Seq(MsgsToA)
  BY <1>1
<1>3. \A m \in MsgsToA : Append(toA[k], m) \in Seq(MsgsToA)
  BY <1>1
<1>. QED BY <1>2, <1>3

\* One read() takes a message of the channel, or leaves a fragment there.
LEMMA ReadTyped ==
  ASSUME toV \in [Keys -> Seq(MsgsToV)], NEW k \in Keys, NEW m, Read(k, m)
  PROVE  m \in MsgsToV /\ toV' \in [Keys -> Seq(MsgsToV)]
<1>1. Frag \in MsgsToV
  BY DataTypes
<1>2. CASE m = Head(toV[k]) /\ toV[k] # <<>> /\ toV' = [toV EXCEPT ![k] = Tail(@)]
  BY <1>2, ToVTyped
<1>3. CASE m = Frag /\ toV[k] # <<>> /\ toV' = [toV EXCEPT ![k] = <<Frag>> \o Tail(@)]
  <2>1. <<Frag>> \o Tail(toV[k]) \in Seq(MsgsToV)
    BY <1>1, <1>3, ToVTyped
  <2>. QED BY <1>1, <1>3, <2>1
<1>4. CASE m = Frag /\ toV' = toV
  BY <1>1, <1>4
<1>. QED BY <1>2, <1>3, <1>4 DEF Read

-----------------------------------------------------------------------------
\* The sessions with pseudo TAs, whatever a call does to them.
LEMMA PtaTyped ==
  ASSUME NEW c \in Clients, pta \in [Clients -> PtaStates],
         \/ UNCHANGED pta
         \/ pta' = [pta EXCEPT ![c] = OpenSocketSession(@)]
         \/ pta' = [pta EXCEPT ![c] = OpenAttestationSession(@)]
         \/ pta' = [pta EXCEPT ![c] = CloseAttestationSession(@)]
  PROVE  pta' \in [Clients -> PtaStates]
<1>1. pta[c] \in PtaStates
  OBVIOUS
<1>2. OpenSocketSession(pta[c]) \in PtaStates
  BY <1>1 DEF OpenSocketSession, PtaStates
<1>3. OpenAttestationSession(pta[c]) \in PtaStates
  BY <1>1 DEF OpenAttestationSession, PtaStates
<1>4. CloseAttestationSession(pta[c]) \in PtaStates
  BY <1>1 DEF CloseAttestationSession, PtaStates
<1>. QED BY <1>2, <1>3, <1>4

\* Type correctness needs Blocked and Serving: what is read from a channel is
\* a message only if the channel exists.
LEMMA TypeInit == Init => TypeInv
<1>. SUFFICES ASSUME Init PROVE TypeInv
  OBVIOUS
<1>. USE PointsFacts, DataTypes, ConstantsAssumption DEF Init
<1>1. app \in [Clients -> AppStates] /\ v \in VerifierStates
  BY DEF Idle, AppStates, VerifierStates
<1>2. nkey \in 0..MaxKeys /\ owner \in [Keys -> Clients \cup {None}]
  OBVIOUS
<1>3. pta \in [Clients -> PtaStates]
  BY DEF NoSessions, PtaStates
<1>. QED
  <2>1. TypeOK
    BY <1>1, <1>2, <1>3 DEF TypeOK
  <2>2. Blocked /\ Serving
    BY DEF Blocked, Serving, Idle, NoContext
  <2>. QED BY <2>1, <2>2 DEF TypeInv

\* Every step keeps the types.
LEMMA TypeNext == TypeInv /\ [Next]_vars => TypeInv'
<1>. SUFFICES ASSUME TypeInv, [Next]_vars PROVE TypeInv'
  OBVIOUS
<1>. USE PointsFacts
<1>a. app \in [Clients -> AppStates] /\ ra \in [Clients -> Contexts] /\ quote \in [Clients -> Quotes]
  BY DEF TypeInv, TypeOK
<1>b. \A c \in Clients : ra[c].ga \in Points /\ ra[c].gv \in Points /\ ra[c].mac \in Macs2
  BY <1>a DEF Contexts
<1>c. \A c \in Clients : app[c].pc \in {"handshake", "receive"} \/ ra[c].inUse => ra[c].ga \in Keys
  BY DEF TypeInv, Blocked
<1>d. toV \in [Keys -> Seq(MsgsToV)] /\ toA \in [Keys -> Seq(MsgsToA)]
  BY DEF TypeInv, TypeOK, MsgsToA
<1>e. v \in VerifierStates
  BY DEF TypeInv, TypeOK
<1>f. /\ v.conn \in Points /\ v.ga \in Points /\ v.gv \in Points
      /\ v.pc \in {"msg0", "msg1", "msg2", "msg3"} => v.conn \in Keys /\ v.run \in Runs
  BY <1>e DEF TypeInv, Serving, VerifierStates
<1>g. nkey \in 0..MaxKeys /\ nkey \in Nat
  BY ConstantsAssumption DEF TypeInv, TypeOK
<1>h. pta \in [Clients -> PtaStates]
  BY DEF TypeInv, TypeOK
<1>1. ASSUME NEW c \in Clients, NEW pin \in Pins, HandshakeBegin(c, pin)
      PROVE  TypeInv'
  <2>. DEFINE k == nkey + 1
  <2>1. k \in Keys /\ nkey' \in 0..MaxKeys
    BY <1>1, <1>g DEF HandshakeBegin
  <2>2. /\ app' \in [Clients -> AppStates]
        /\ app'[c].pc = "handshake"
        /\ \A d \in Clients \ {c} : app'[d] = app[d]
    <3>1. pin \in Nat /\ Block(c, "handshake", pin)
      BY <1>1, ConstantsAssumption DEF HandshakeBegin
    <3>. QED BY <3>1, <1>a, BlockTyped
  <2>3. ra' \in [Clients -> Contexts] /\ ra'[c].ga = k /\ \A d \in Clients \ {c} : ra'[d] = ra[d]
    <3>1. ra' = [ra EXCEPT ![c] = [NoContext EXCEPT !.ga = k]]
      BY <1>1 DEF HandshakeBegin
    <3>2. [NoContext EXCEPT !.ga = k] \in Contexts /\ [NoContext EXCEPT !.ga = k].ga = k
      BY <2>1, DataTypes DEF NoContext, Contexts
    <3>. QED BY <3>1, <3>2, <1>a
  <2>4. toV' \in [Keys -> Seq(MsgsToV)]
    BY <1>1, <1>d, <2>1, ToVTyped, DataTypes DEF HandshakeBegin
  <2>5. /\ owner' \in [Keys -> Clients \cup {None}]
        /\ aOpen' \in [Keys -> BOOLEAN]
        /\ vEnd' \in [Keys -> {"none", "backlog", "accepted", "closed"}]
    BY <1>1 DEF HandshakeBegin, TypeInv, TypeOK
  <2>6. pta' \in [Clients -> PtaStates]
    BY <1>1, <1>h, PtaTyped DEF HandshakeBegin
  <2>. QED BY <1>1, <2>1, <2>2, <2>3, <2>4, <2>5, <2>6
       DEF HandshakeBegin, history, TypeInv, TypeOK, Blocked, Serving
<1>2. ASSUME NEW c \in Clients, HandshakeRefused(c)
      PROVE  TypeInv'
  <2>1. Return(c, FALSE)
    BY <1>2 DEF HandshakeRefused
  <2>2. ra' \in [Clients -> Contexts] /\ ra'[c] = NoContext /\ \A d \in Clients \ {c} : ra'[d] = ra[d]
    BY <1>2, <1>a, DataTypes DEF HandshakeRefused
  <2>3. pta' \in [Clients -> PtaStates]
    BY <1>2, <1>h, PtaTyped DEF HandshakeRefused
  <2>. QED BY <1>2, <1>a, <2>1, <2>2, <2>3, ReturnTyped
       DEF HandshakeRefused, netVars, history, NoContext, TypeInv, TypeOK, Blocked, Serving
<1>3. ASSUME NEW c \in Clients, HandshakeEnd(c)
      PROVE  TypeInv'
  <2>. DEFINE k == ra[c].ga
              m == Head(toA[k])
  <2>1. k \in Keys /\ Return(c, TRUE)
    BY <1>3, <1>c DEF HandshakeEnd
  <2>2. m \in MsgsToA /\ toA' \in [Keys -> Seq(MsgsToA)]
    BY <1>3, <1>d, <2>1, ToATyped DEF HandshakeEnd
  <2>3. m.type = "msg1"
    BY <1>3 DEF HandshakeEnd, Msg1Accepted
  <2>4. m.gv \in Points
    BY <2>2, <2>3 DEF MsgsToA, Msgs1, Msgs3
  <2>5. ra' \in [Clients -> Contexts] /\ ra'[c].ga = k /\ \A d \in Clients \ {c} : ra'[d] = ra[d]
    <3>1. ra' = [ra EXCEPT ![c].inUse = TRUE, ![c].gv = m.gv]
      BY <1>3 DEF HandshakeEnd
    <3>. QED BY <3>1, <1>a, <2>4 DEF Contexts
  <2>6. handed' \subseteq Anchors
    BY <1>3, <2>1, <2>4 DEF HandshakeEnd, Anchors, generate_anchor, TypeInv, TypeOK
  <2>. QED BY <1>3, <1>a, <2>1, <2>2, <2>5, <2>6, ReturnTyped, ZenonT(30)
       DEF HandshakeEnd, MsgsToA, TypeInv, TypeOK, Blocked, Serving
<1>4. ASSUME NEW c \in Clients, HandshakeFail(c)
      PROVE  TypeInv'
  <2>1. ra[c].ga \in Keys /\ Return(c, FALSE)
    BY <1>4, <1>c DEF HandshakeFail
  <2>2. toA' \in [Keys -> Seq(MsgsToA)]
    BY <1>4, <1>d, <2>1, ToATyped, ZenonT(30) DEF HandshakeFail
  <2>. QED BY <1>4, <1>a, <2>1, <2>2, ReturnTyped
       DEF HandshakeFail, MsgsToA, history, TypeInv, TypeOK, Blocked, Serving
<1>5. ASSUME NEW c \in Clients, NEW a \in KnownAnchors(c), CollectQuote(c, a)
      PROVE  TypeInv'
  <2>1. a \in Anchors
    <3>1. <<Garbage, Garbage>> \in Anchors /\ generate_anchor(ra[c].ga, ra[c].gv) \in Anchors
      BY <1>b DEF Anchors, generate_anchor
    <3>. QED BY <3>1 DEF KnownAnchors, TypeInv, TypeOK
  <2>2. generate_quote(c, a) \in Quotes
    BY <2>1, DataTypes
  <2>3. quote' \in [Clients -> Quotes] /\ issued' \subseteq Quotes /\ slot' \in [Clients -> BOOLEAN]
    BY <1>5, <2>2 DEF CollectQuote, TypeInv, TypeOK
  <2>4. PICK ok \in BOOLEAN : Return(c, ok)
    BY <1>5 DEF CollectQuote
  <2>5. pta' \in [Clients -> PtaStates]
    BY <1>5, <1>h, PtaTyped DEF CollectQuote
  <2>. QED BY <1>5, <1>a, <2>3, <2>4, <2>5, ReturnTyped
       DEF CollectQuote, netVars, TypeInv, TypeOK, Blocked, Serving
<1>6. ASSUME NEW c \in Clients, SendQuote(c)
      PROVE  TypeInv'
  <2>. DEFINE k == ra[c].ga
  <2>1. k \in Keys
    BY <1>6, <1>c DEF SendQuote
  <2>2. PICK mac \in prepare_msg2(c), ok \in BOOLEAN :
          /\ ra' = [ra EXCEPT ![c].mac = mac]
          /\ toV' \in {toV, [toV EXCEPT ![k] = Append(@, Msg2(k, quote[c], mac))]}
          /\ Return(c, ok)
    BY <1>6 DEF SendQuote
  <2>3. [key |-> ECDH(k, ra[c].gv), ga |-> k, quote |-> quote[c]] \in Macs2
    BY <2>1, <1>a, <1>b DEF ECDH, Macs2
  <2>4. mac \in Macs2
    BY <2>3, <1>b DEF prepare_msg2
  <2>5. Msg2(k, quote[c], mac) \in MsgsToV
    BY <2>1, <2>4, <1>a, DataTypes
  <2>6. toV' \in [Keys -> Seq(MsgsToV)]
    <3>1. Append(toV[k], Msg2(k, quote[c], mac)) \in Seq(MsgsToV)
      BY <1>d, <2>1, <2>5, ToVTyped
    <3>. QED BY <1>d, <2>2, <3>1
  <2>7. /\ ra' \in [Clients -> Contexts]
        /\ \A d \in Clients : ra'[d].ga = ra[d].ga /\ ra'[d].inUse = ra[d].inUse
    BY <1>a, <2>2, <2>4, ZenonT(30) DEF Contexts
  <2>. QED BY <1>6, <1>a, <2>2, <2>6, <2>7, ReturnTyped
       DEF SendQuote, history, TypeInv, TypeOK, Blocked, Serving
<1>7. ASSUME NEW c \in Clients, NEW size \in DataSizes, ReceiveBegin(c, size)
      PROVE  TypeInv'
  <2>1. size \in Nat /\ Block(c, "receive", size)
    BY <1>7, ConstantsAssumption DEF ReceiveBegin
  <2>. QED BY <1>7, <1>a, <2>1, BlockTyped
       DEF ReceiveBegin, netVars, history, TypeInv, TypeOK, Blocked, Serving
<1>8. ASSUME NEW c \in Clients, ReceiveEnd(c)
      PROVE  TypeInv'
  <2>. DEFINE k == ra[c].ga
              m == Head(toA[k])
  <2>1. k \in Keys /\ ra[c].gv \in Points /\ Return(c, TRUE)
    BY <1>8, <1>b, <1>c DEF ReceiveEnd
  <2>2. m \in MsgsToA /\ toA' \in [Keys -> Seq(MsgsToA)]
    BY <1>8, <1>d, <2>1, ToATyped DEF ReceiveEnd, Msg3Complete
  <2>3. m.type = "msg3"
    BY <1>8 DEF ReceiveEnd, decrypt_msg3
  <2>4. m.secret \in Runs
    BY <2>2, <2>3 DEF MsgsToA, Msgs1, Msgs3
  <2>5. [ga |-> k, gv |-> ra[c].gv, run |-> m.secret] \in Sessions
    BY <2>1, <2>4 DEF Sessions
  <2>6. delivered' \subseteq Sessions
    BY <1>8, <2>5 DEF ReceiveEnd, TypeInv, TypeOK
  <2>. QED BY <1>8, <1>a, <2>1, <2>2, <2>6, ReturnTyped
       DEF ReceiveEnd, MsgsToA, TypeInv, TypeOK, Blocked, Serving
<1>9. ASSUME NEW c \in Clients, ReceiveFail(c)
      PROVE  TypeInv'
  <2>1. ra[c].ga \in Keys /\ Return(c, FALSE)
    BY <1>9, <1>c DEF ReceiveFail
  <2>2. toA' \in [Keys -> Seq(MsgsToA)]
    BY <1>9, <1>d, <2>1, ToATyped, ZenonT(30) DEF ReceiveFail, Msg3Complete
  <2>. QED BY <1>9, <1>a, <2>1, <2>2, ReturnTyped
       DEF ReceiveFail, MsgsToA, history, TypeInv, TypeOK, Blocked, Serving
<1>10. ASSUME NEW c \in Clients, Dispose(c)
       PROVE  TypeInv'
  <2>1. /\ ra' \in [Clients -> Contexts]
        /\ ~ra'[c].inUse
        /\ \A d \in Clients \ {c} : ra'[d] = ra[d]
    <3>1. ra' = [ra EXCEPT ![c].inUse = FALSE]
      BY <1>10 DEF Dispose
    <3>. QED BY <3>1, <1>a DEF Contexts
  <2>2. Return(c, TRUE) /\ aOpen' \in [Keys -> BOOLEAN]
    BY <1>10 DEF Dispose, TypeInv, TypeOK
  <2>. QED BY <1>10, <1>a, <2>1, <2>2, ReturnTyped
       DEF Dispose, history, TypeInv, TypeOK, Blocked, Serving
<1>11. ASSUME NEW c \in Clients, DisposeQuote(c)
       PROVE  TypeInv'
  <2>1. Return(c, TRUE) /\ quote' \in [Clients -> Quotes] /\ slot' \in [Clients -> BOOLEAN]
    BY <1>11, DataTypes DEF DisposeQuote, TypeInv, TypeOK
  <2>2. pta' \in [Clients -> PtaStates]
    BY <1>11, <1>h, PtaTyped DEF DisposeQuote
  <2>3. aOpen' \in [Keys -> BOOLEAN]
    BY <1>11 DEF DisposeQuote, TypeInv, TypeOK
  <2>. QED BY <1>11, <1>a, <2>1, <2>2, <2>3, ReturnTyped
       DEF DisposeQuote, history, TypeInv, TypeOK, Blocked, Serving
<1>12. ASSUME NEW c \in Clients, CloseInstance(c)
       PROVE  TypeInv'
  <2>1. [Idle EXCEPT !.pc = "ended"] \in AppStates /\ [Idle EXCEPT !.pc = "ended"].pc = "ended"
    BY DEF Idle, AppStates
  <2>2. /\ app' \in [Clients -> AppStates]
        /\ app'[c].pc = "ended"
        /\ \A d \in Clients \ {c} : app'[d] = app[d]
    BY <1>12, <1>a, <2>1 DEF CloseInstance
  <2>3. aOpen' \in [Keys -> BOOLEAN]
    BY <1>12 DEF CloseInstance, TypeInv, TypeOK
  <2>. QED BY <1>12, <2>2, <2>3 DEF CloseInstance, history, TypeInv, TypeOK, Blocked, Serving
<1>13. CASE Start
  <2>1. v.run \in 0..MaxRuns
    BY <1>e DEF VerifierStates
  <2>2. v' \in VerifierStates /\ v'.run \in Runs /\ v'.pc = "listen"
    BY <1>13, <2>1, ConstantsAssumption DEF Start, VerifierStates, Runs
  <2>. QED BY <1>13, <2>2
       DEF Start, clientVars, netVars, history, TypeInv, TypeOK, Blocked, Serving
<1>14. ASSUME NEW k \in Keys, Accept(k)
       PROVE  TypeInv'
  <2>1. v' \in VerifierStates /\ v'.pc = "msg0" /\ v'.conn = k /\ v'.run = v.run
    <3>1. v' = [v EXCEPT !.pc = "msg0", !.conn = k]
      BY <1>14 DEF Accept
    <3>. QED BY <3>1, <1>e DEF VerifierStates
  <2>2. vEnd' \in [Keys -> {"none", "backlog", "accepted", "closed"}] /\ v.run \in Runs
    BY <1>14 DEF Accept, TypeInv, TypeOK, Serving
  <2>. QED BY <1>14, <2>1, <2>2 DEF Accept, clientVars, history, TypeInv, TypeOK, Blocked, Serving
<1>15. CASE HandleMsg0
  <2>1. v.conn \in Keys /\ v.run \in Runs /\ nkey' \in 0..MaxKeys /\ generate_ecdh_keypair \in Keys
    BY <1>15, <1>f, <1>g DEF HandleMsg0, generate_ecdh_keypair
  <2>2. PICK m : /\ Read(v.conn, m)
                 /\ \/ v' = [v EXCEPT !.pc = "msg1", !.ga = m.ga, !.gv = generate_ecdh_keypair]
                    \/ v' = [v EXCEPT !.pc = "exit"]
    BY <1>15 DEF HandleMsg0, HostFails
  <2>3. m \in MsgsToV /\ toV' \in [Keys -> Seq(MsgsToV)]
    BY <1>d, <2>1, <2>2, ReadTyped
  <2>4. m.ga \in Points
    BY <2>3 DEF MsgsToV
  <2>5. /\ v' \in VerifierStates /\ v'.conn = v.conn /\ v'.run = v.run
        /\ v'.pc = "exit" \/ (v'.pc = "msg1" /\ v'.gv \in Keys)
    <3>1. PICK ga \in Points, gv \in Keys :
            \/ v' = [v EXCEPT !.pc = "msg1", !.ga = ga, !.gv = gv]
            \/ v' = [v EXCEPT !.pc = "exit"]
      BY <2>1, <2>2, <2>4
    <3>2. gv \in Points
      OBVIOUS
    <3>3. CASE v' = [v EXCEPT !.pc = "msg1", !.ga = ga, !.gv = gv]
      <4>1. v' = [pc |-> "msg1", run |-> v.run, conn |-> v.conn, ga |-> ga,
                  gv |-> gv, valid |-> v.valid]
        BY <1>e, <3>3 DEF VerifierStates
      <4>. QED BY <1>e, <3>2, <4>1 DEF VerifierStates
    <3>4. CASE v' = [v EXCEPT !.pc = "exit"]
      <4>1. v' \in VerifierStates /\ v'.conn = v.conn /\ v'.run = v.run
        BY <1>e, <3>4 DEF VerifierStates
      <4>2. v'.pc = "exit"
        BY <1>e, <3>4 DEF VerifierStates
      <4>. QED BY <4>1, <4>2
    <3>. QED BY <3>1, <3>3, <3>4
  <2>. QED BY <1>15, <2>1, <2>3, <2>5
       DEF HandleMsg0, clientVars, history, TypeInv, TypeOK, Blocked, Serving
<1>16. CASE PrepareMsg1
  <2>1. v.conn \in Keys /\ v.run \in Runs /\ v.gv \in Keys
    BY <1>16 DEF PrepareMsg1, TypeInv, Serving
  <2>2. Msg1(v.ga, v.gv, v.run) \in MsgsToA
    BY <1>f, <2>1, DataTypes DEF MsgsToA
  <2>3. toA' \in [Keys -> Seq(MsgsToA)]
    <3>1. Append(toA[v.conn], Msg1(v.ga, v.gv, v.run)) \in Seq(MsgsToA)
      BY <1>d, <2>1, <2>2, ToATyped
    <3>2. toA' = toA \/ toA' = [toA EXCEPT ![v.conn] = Append(@, Msg1(v.ga, v.gv, v.run))]
      BY <1>16 DEF PrepareMsg1
    <3>. QED BY <1>d, <3>1, <3>2
  <2>4. /\ v' \in VerifierStates /\ v'.pc \in {"exit", "msg2"}
        /\ v'.conn = v.conn /\ v'.run = v.run /\ v'.gv = v.gv
    <3>1. v' = [v EXCEPT !.pc = "msg2"] \/ v' = [v EXCEPT !.pc = "exit"]
      BY <1>16 DEF PrepareMsg1, HostFails
    <3>. QED BY <3>1, <1>e DEF VerifierStates
  <2>. QED BY <1>16, <2>1, <2>3, <2>4
       DEF PrepareMsg1, MsgsToA, clientVars, history, TypeInv, TypeOK, Blocked, Serving
<1>17. CASE HandleMsg2
  <2>1. v.conn \in Keys /\ v.run \in Runs /\ v.gv \in Keys
    BY <1>17 DEF HandleMsg2, TypeInv, Serving
  <2>2. PICK m : /\ Read(v.conn, m)
                 /\ \/ v' = [v EXCEPT !.pc = "msg3", !.valid = TRUE]
                    \/ v' = [v EXCEPT !.pc = "exit", !.valid = (BuffSize >= SizeofMsg2 /\ QuoteValid(m))]
    BY <1>17 DEF HandleMsg2
  <2>3. toV' \in [Keys -> Seq(MsgsToV)]
    BY <1>d, <2>1, <2>2, ReadTyped
  <2>4. PICK b \in BOOLEAN, pc \in {"exit", "msg3"} : v' = [v EXCEPT !.pc = pc, !.valid = b]
    BY <2>2
  <2>5. /\ v' \in VerifierStates /\ v'.pc \in {"exit", "msg3"}
        /\ v'.conn = v.conn /\ v'.run = v.run /\ v'.gv = v.gv
    BY <1>e, <2>4 DEF VerifierStates
  <2>. QED BY <1>17, <2>1, <2>3, <2>5
       DEF HandleMsg2, clientVars, history, TypeInv, TypeOK, Blocked, Serving
<1>18. CASE PrepareMsg3
  <2>1. v.conn \in Keys /\ v.run \in Runs /\ v.gv \in Keys
    BY <1>18 DEF PrepareMsg3, TypeInv, Serving
  <2>2. Msg3(v.ga, v.gv, v.run) \in MsgsToA
    BY <1>f, <2>1, DataTypes DEF MsgsToA
  <2>3. toA' \in [Keys -> Seq(MsgsToA)]
    <3>1. Append(toA[v.conn], Msg3(v.ga, v.gv, v.run)) \in Seq(MsgsToA)
      BY <1>d, <2>1, <2>2, ToATyped
    <3>2. toA' = toA \/ toA' = [toA EXCEPT ![v.conn] = Append(@, Msg3(v.ga, v.gv, v.run))]
      BY <1>18 DEF PrepareMsg3
    <3>. QED BY <1>d, <3>1, <3>2
  <2>4. [ga |-> v.ga, gv |-> v.gv, run |-> v.run] \in Sessions
    BY <1>f, <2>1 DEF Sessions
  <2>5. released' \subseteq Sessions
    BY <1>18, <2>4 DEF PrepareMsg3, TypeInv, TypeOK
  <2>6. v' \in VerifierStates /\ v'.pc = "exit" /\ v'.run = v.run
    <3>1. v' = [v EXCEPT !.pc = "exit"]
      BY <1>18 DEF PrepareMsg3
    <3>. QED BY <3>1, <1>e DEF VerifierStates
  <2>. QED BY <1>18, <2>1, <2>3, <2>5, <2>6
       DEF PrepareMsg3, MsgsToA, clientVars, TypeInv, TypeOK, Blocked, Serving
<1>19. CASE CloseProcess
  <2>1. v' \in VerifierStates /\ v'.pc = "down"
    <3>1. v' = [v EXCEPT !.pc = "down"]
      BY <1>19 DEF CloseProcess
    <3>. QED BY <3>1, <1>e DEF VerifierStates
  <2>2. vEnd' \in [Keys -> {"none", "backlog", "accepted", "closed"}]
    BY <1>19 DEF CloseProcess, TypeInv, TypeOK
  <2>. QED BY <1>19, <2>1, <2>2 DEF CloseProcess, clientVars, history, TypeInv, TypeOK, Blocked, Serving
<1>20. CASE UNCHANGED vars
  BY <1>20 DEF vars, clientVars, netVars, history, TypeInv, TypeOK, Blocked, Serving
<1>. QED
  BY <1>1, <1>2, <1>3, <1>4, <1>5, <1>6, <1>7, <1>8, <1>9, <1>10, <1>11, <1>12,
     <1>13, <1>14, <1>15, <1>16, <1>17, <1>18, <1>19, <1>20
  DEF Next, AppCall, AppReturn, AppEnd, AppKilled, Verifier, Terminate, VerifierKilled

\* Every variable keeps its shape, whatever the applications do.
THEOREM TypeCorrect == Spec => []TypeOK
<1>1. TypeInv => TypeOK
  BY DEF TypeInv
<1>. QED
  BY TypeInit, TypeNext, <1>1, PTL DEF Spec

-----------------------------------------------------------------------------
(***************************************************************************)
(* What one step may do to each part of the state.  The parts of the       *)
(* inductive invariant follow from these effects without the actions.      *)
(***************************************************************************)
Monotone ==
  /\ nkey <= nkey'
  /\ \A k \in Keys : k <= nkey \/ k > nkey' => owner'[k] = owner[k]
  /\ issued \subseteq issued'
  /\ handed \subseteq handed'
  /\ released \subseteq released'

\* Only the two messages of the verifier enter a channel to an attester.
ToAStep ==
  \A k \in Keys : \A m \in Elems(toA'[k]) :
    \/ m \in Elems(toA[k])
    \/ PrepareMsg1 /\ m = Msg1(v.ga, v.gv, v.run)
    \/ PrepareMsg3 /\ m = Msg3(v.ga, v.gv, v.run)
                   /\ [ga |-> v.ga, gv |-> v.gv, run |-> v.run] \in released'

\* Only send_quote puts a tag in a channel to the verifier.
ToVStep ==
  \A k \in Keys : \A m \in Elems(toV'[k]) :
    \/ m \in Elems(toV[k])
    \/ m.mac = NoMac
    \/ \E c \in Clients : SendQuote(c) /\ ra[c].ga = k /\ m.mac = ra'[c].mac

\* Only a handshake that accepted msg1 hands out a session.
HandedStep ==
  \A s \in handed' :
    \/ s \in handed
    \/ \E c \in Clients : /\ HandshakeEnd(c)
                          /\ s[1] = ra[c].ga
                          /\ \E m \in Elems(toA[ra[c].ga]) :
                               m.type = "msg1" /\ m.sig.ga = ra[c].ga /\ m.gv = s[2]

\* A context is reset, given a fresh key, put in use by a handshake, or given
\* the tag of the quote being sent; otherwise only its slot is released.
RaStep ==
  \A c \in Clients :
    \/ ra'[c].ga = ra[c].ga /\ ra'[c].mac = ra[c].mac /\ ra'[c].gv = ra[c].gv
                            /\ (ra'[c].inUse => ra[c].inUse)
    \/ ra'[c].ga = Garbage /\ ra'[c].mac = NoMac /\ ~ra'[c].inUse
    \/ /\ ra'[c].ga = nkey + 1 /\ ra'[c].mac = NoMac /\ ~ra'[c].inUse
       /\ nkey + 1 \in Keys /\ nkey' = nkey + 1 /\ owner'[nkey + 1] = c
    \/ /\ ra'[c].ga = ra[c].ga /\ ra'[c].mac = ra[c].mac
       /\ generate_anchor(ra'[c].ga, ra'[c].gv) \in handed'
    \/ /\ SendQuote(c) /\ ra[c].inUse
       /\ ra'[c].ga = ra[c].ga /\ ra'[c].gv = ra[c].gv /\ ra'[c].inUse
       /\ ra'[c].mac \in prepare_msg2(c)

\* The verifier's session: unchanged, forgotten, or with a fresh key.
VStep ==
  \/ v'.ga = v.ga /\ v'.gv = v.gv
  \/ v'.gv = Garbage /\ v'.pc = "listen"
  \/ /\ v'.gv = nkey + 1 /\ nkey' = nkey + 1 /\ nkey + 1 \in Keys
     /\ owner' = owner /\ handed' = handed /\ toA' = toA

\* The operations on channels, by the messages they hold.
LEMMA ElemsFacts ==
  ASSUME NEW S, NEW s \in Seq(S)
  PROVE  /\ Elems(<<>>) = {}
         /\ s # <<>> => Head(s) \in Elems(s) /\ Elems(Tail(s)) \subseteq Elems(s)
         /\ \A m \in S :
              /\ Elems(<<m>>) = {m}
              /\ Elems(Append(s, m)) = Elems(s) \cup {m}
              /\ s # <<>> => Elems(<<m>> \o Tail(s)) \subseteq Elems(s) \cup {m}
<1>1. Elems(<<>>) = {}
  BY DEF Elems
<1>2. s # <<>> => Head(s) \in Elems(s) /\ Elems(Tail(s)) \subseteq Elems(s)
  BY DEF Elems
<1>3. ASSUME NEW m \in S
      PROVE  Elems(<<m>>) = {m}
  BY DEF Elems
<1>4. ASSUME NEW m \in S
      PROVE  Elems(Append(s, m)) = Elems(s) \cup {m}
  BY DEF Elems
<1>5. ASSUME NEW m \in S, s # <<>>
      PROVE  Elems(<<m>> \o Tail(s)) \subseteq Elems(s) \cup {m}
  BY <1>5 DEF Elems
<1>. QED BY <1>1, <1>2, <1>3, <1>4, <1>5

\* Every step puts messages in the channels to the attesters as ToAStep says.
LEMMA ToAEffect == TypeInv /\ [Next]_vars => ToAStep
<1>. SUFFICES ASSUME TypeInv, [Next]_vars PROVE ToAStep
  OBVIOUS
<1>. USE PointsFacts
<1>a. toA \in [Keys -> Seq(MsgsToA)]
  BY DEF TypeInv, TypeOK, MsgsToA
<1>b. ASSUME NEW k \in Keys
      PROVE  /\ Elems(<<>>) = {}
             /\ toA[k] # <<>> => Elems(Tail(toA[k])) \subseteq Elems(toA[k])
             /\ \A m \in MsgsToA : Elems(Append(toA[k], m)) = Elems(toA[k]) \cup {m}
  <2>1. toA[k] \in Seq(MsgsToA)
    BY <1>a
  <2>. QED BY <2>1, ElemsFacts
<1>c. \A c \in Clients : app[c].pc \in {"handshake", "receive"} => ra[c].ga \in Keys
  BY DEF TypeInv, Blocked
<1>1. ASSUME NEW k \in Keys,
             \/ UNCHANGED toA
             \/ toA[k] # <<>> /\ toA' = [toA EXCEPT ![k] = Tail(@)]
             \/ toA' = [toA EXCEPT ![k] = <<>>]
      PROVE  ToAStep
  BY <1>1, <1>a, <1>b DEF ToAStep
<1>2. ASSUME NEW c \in Clients, AppReturn(c)
      PROVE  ToAStep
  <2>1. ra[c].ga \in Keys
    BY <1>2, <1>c DEF AppReturn, HandshakeEnd, HandshakeFail, ReceiveEnd, ReceiveFail
  <2>2. \/ toA[ra[c].ga] # <<>> /\ toA' = [toA EXCEPT ![ra[c].ga] = Tail(@)]
        \/ toA' = [toA EXCEPT ![ra[c].ga] = <<>>]
    BY <1>2 DEF AppReturn, HandshakeEnd, HandshakeFail, ReceiveEnd, ReceiveFail, Msg3Complete
  <2>. QED BY <2>1, <2>2, <1>1
<1>3. CASE PrepareMsg1
  <2>1. v.conn \in Keys /\ Msg1(v.ga, v.gv, v.run) \in MsgsToA
    BY <1>3, DataTypes DEF PrepareMsg1, TypeInv, TypeOK, Serving, MsgsToA, VerifierStates
  <2>2. toA' = toA \/ toA' = [toA EXCEPT ![v.conn] = Append(@, Msg1(v.ga, v.gv, v.run))]
    BY <1>3 DEF PrepareMsg1
  <2>3. Elems(Append(toA[v.conn], Msg1(v.ga, v.gv, v.run)))
          = Elems(toA[v.conn]) \cup {Msg1(v.ga, v.gv, v.run)}
    BY <2>1, <1>b
  <2>4. ASSUME NEW k \in Keys, NEW m \in Elems(toA'[k]), m \notin Elems(toA[k])
        PROVE  m = Msg1(v.ga, v.gv, v.run)
    <3>1. toA' # toA
      BY <2>4
    <3>2. k = v.conn /\ toA'[k] = Append(toA[v.conn], Msg1(v.ga, v.gv, v.run))
      BY <1>a, <2>1, <2>2, <2>4, <3>1
    <3>. QED BY <2>2, <2>3, <2>4, <3>1, <3>2
  <2>. QED BY <1>3, <2>4 DEF ToAStep
<1>4. CASE PrepareMsg3
  <2>1. v.conn \in Keys /\ Msg3(v.ga, v.gv, v.run) \in MsgsToA
    BY <1>4, DataTypes DEF PrepareMsg3, TypeInv, TypeOK, Serving, MsgsToA, VerifierStates
  <2>2. \/ toA' = toA
        \/ /\ toA' = [toA EXCEPT ![v.conn] = Append(@, Msg3(v.ga, v.gv, v.run))]
           /\ [ga |-> v.ga, gv |-> v.gv, run |-> v.run] \in released'
    BY <1>4 DEF PrepareMsg3
  <2>3. Elems(Append(toA[v.conn], Msg3(v.ga, v.gv, v.run)))
          = Elems(toA[v.conn]) \cup {Msg3(v.ga, v.gv, v.run)}
    BY <2>1, <1>b
  <2>4. ASSUME NEW k \in Keys, NEW m \in Elems(toA'[k]), m \notin Elems(toA[k])
        PROVE  m = Msg3(v.ga, v.gv, v.run) /\ [ga |-> v.ga, gv |-> v.gv, run |-> v.run] \in released'
    <3>1. toA' # toA
      BY <2>4
    <3>2. k = v.conn /\ toA'[k] = Append(toA[v.conn], Msg3(v.ga, v.gv, v.run))
      BY <1>a, <2>1, <2>2, <2>4, <3>1
    <3>. QED BY <2>2, <2>3, <2>4, <3>1, <3>2
  <2>. QED BY <1>4, <2>4 DEF ToAStep
<1>5. CASE UNCHANGED toA
  BY <1>5 DEF ToAStep
<1>6. ASSUME NEW c \in Clients, AppCall(c) \/ AppEnd(c) \/ AppKilled(c)
      PROVE  UNCHANGED toA
  BY <1>6 DEF AppCall, HandshakeBegin, HandshakeRefused, CollectQuote, SendQuote,
              ReceiveBegin, Dispose, DisposeQuote, AppEnd, AppKilled, CloseInstance, netVars
<1>7. CASE Start \/ VerifierKilled \/ UNCHANGED vars
  BY <1>5, <1>7 DEF Start, VerifierKilled, CloseProcess, vars, netVars
<1>8. CASE (\E k \in Keys : Accept(k)) \/ HandleMsg0 \/ HandleMsg2 \/ Terminate
  BY <1>5, <1>8 DEF Accept, HandleMsg0, HandleMsg2, Terminate, CloseProcess
<1>. QED
  BY <1>2, <1>3, <1>4, <1>5, <1>6, <1>7, <1>8 DEF Next, Verifier

\* Every step puts tags in the channels to the verifier as ToVStep says.
LEMMA ToVEffect == TypeInv /\ [Next]_vars => ToVStep
<1>. SUFFICES ASSUME TypeInv, [Next]_vars PROVE ToVStep
  OBVIOUS
<1>. USE PointsFacts
<1>a. toV \in [Keys -> Seq(MsgsToV)]
  BY DEF TypeInv, TypeOK
<1>b. ASSUME NEW k \in Keys
      PROVE  /\ toV[k] # <<>> => Elems(Tail(toV[k])) \subseteq Elems(toV[k])
             /\ \A m \in MsgsToV :
                  /\ Elems(<<m>>) = {m}
                  /\ Elems(Append(toV[k], m)) = Elems(toV[k]) \cup {m}
                  /\ toV[k] # <<>> => Elems(<<m>> \o Tail(toV[k])) \subseteq Elems(toV[k]) \cup {m}
  <2>1. toV[k] \in Seq(MsgsToV)
    BY <1>a
  <2>. QED BY <2>1, ElemsFacts
<1>1. ASSUME NEW c \in Clients, NEW pin \in Pins, HandshakeBegin(c, pin)
      PROVE  ToVStep
  <2>1. nkey + 1 \in Keys
    BY <1>1, ConstantsAssumption DEF HandshakeBegin, TypeInv, TypeOK
  <2>2. toV' = [toV EXCEPT ![nkey + 1] = <<Msg0(nkey + 1)>>]
    BY <1>1 DEF HandshakeBegin
  <2>3. Elems(<<Msg0(nkey + 1)>>) = {Msg0(nkey + 1)} /\ Msg0(nkey + 1).mac = NoMac
    BY <2>1, <1>b, DataTypes DEF Msg0
  <2>. QED BY <1>a, <2>1, <2>2, <2>3 DEF ToVStep
<1>2. ASSUME NEW c \in Clients, SendQuote(c)
      PROVE  ToVStep
  <2>. DEFINE k == ra[c].ga
  <2>1. k \in Keys /\ ra[c] \in Contexts /\ quote[c] \in Quotes
    BY <1>2 DEF SendQuote, TypeInv, TypeOK, Blocked
  <2>2. PICK mac \in prepare_msg2(c) :
          /\ ra' = [ra EXCEPT ![c].mac = mac]
          /\ toV' \in {toV, [toV EXCEPT ![k] = Append(@, Msg2(k, quote[c], mac))]}
    BY <1>2 DEF SendQuote
  <2>3. mac \in Macs2
    <3>1. [key |-> ECDH(k, ra[c].gv), ga |-> k, quote |-> quote[c]] \in Macs2
      BY <2>1 DEF ECDH, Macs2, Contexts
    <3>2. ra[c].mac \in Macs2
      BY <2>1 DEF Contexts
    <3>. QED BY <3>1, <3>2 DEF prepare_msg2
  <2>4. ra'[c].mac = mac
    BY <2>2 DEF Contexts, TypeInv, TypeOK
  <2>5. /\ Msg2(k, quote[c], mac).mac = mac
        /\ Elems(Append(toV[k], Msg2(k, quote[c], mac))) = Elems(toV[k]) \cup {Msg2(k, quote[c], mac)}
    <3>1. Msg2(k, quote[c], mac) \in MsgsToV
      BY <2>1, <2>3, DataTypes
    <3>. QED BY <2>1, <3>1, <1>b DEF Msg2
  <2>. QED BY <1>2, <1>a, <2>1, <2>2, <2>4, <2>5 DEF ToVStep
<1>3. ASSUME NEW m, v.conn \in Keys, Read(v.conn, m)
      PROVE  ToVStep
  <2>1. Frag \in MsgsToV /\ Frag.mac = NoMac
    BY DataTypes DEF Frag
  <2>2. toV[v.conn] # <<>> => Elems(<<Frag>> \o Tail(toV[v.conn])) \subseteq Elems(toV[v.conn]) \cup {Frag}
    BY <1>3, <1>b, <2>1
  <2>. QED BY <1>3, <1>a, <1>b, <2>1, <2>2 DEF ToVStep, Read
<1>4. CASE HandleMsg0 \/ HandleMsg2
  BY <1>3, <1>4 DEF HandleMsg0, HandleMsg2, TypeInv, Serving
<1>5. CASE UNCHANGED toV
  BY <1>5 DEF ToVStep
<1>6. ASSUME NEW c \in Clients,
             \/ HandshakeRefused(c)
             \/ \E anchor \in KnownAnchors(c) : CollectQuote(c, anchor)
             \/ \E size \in DataSizes : ReceiveBegin(c, size)
             \/ Dispose(c) \/ DisposeQuote(c)
             \/ AppReturn(c) \/ AppEnd(c) \/ AppKilled(c)
      PROVE  UNCHANGED toV
  BY <1>6 DEF HandshakeRefused, CollectQuote, ReceiveBegin, Dispose, DisposeQuote, AppReturn,
              HandshakeEnd, HandshakeFail, ReceiveEnd, ReceiveFail, AppEnd, AppKilled,
              CloseInstance, netVars
<1>7. CASE Start \/ VerifierKilled \/ UNCHANGED vars
  BY <1>5, <1>7 DEF Start, VerifierKilled, CloseProcess, vars, netVars
<1>8. CASE (\E k \in Keys : Accept(k)) \/ PrepareMsg1 \/ PrepareMsg3 \/ Terminate
  BY <1>5, <1>8 DEF Accept, PrepareMsg1, PrepareMsg3, Terminate, CloseProcess
<1>. QED
  BY <1>1, <1>2, <1>4, <1>5, <1>6, <1>7, <1>8 DEF Next, AppCall, Verifier

\* What was drawn, handed out or signed stays so.
LEMMA MonotoneEffect == TypeInv /\ [Next]_vars => Monotone
<1>. SUFFICES ASSUME TypeInv, [Next]_vars PROVE Monotone
  OBVIOUS
<1>a. nkey \in Nat /\ owner \in [Keys -> Clients \cup {None}] /\ Keys \subseteq Nat
  BY ConstantsAssumption DEF TypeInv, TypeOK, Keys
<1>1. ASSUME NEW c \in Clients, NEW pin \in Pins, HandshakeBegin(c, pin)
      PROVE  Monotone
  <2>1. nkey' = nkey + 1 /\ owner' = [owner EXCEPT ![nkey + 1] = c]
    BY <1>1 DEF HandshakeBegin
  <2>2. UNCHANGED history
    BY <1>1 DEF HandshakeBegin
  <2>. QED BY <1>a, <2>1, <2>2 DEF Monotone, history
<1>2. CASE HandleMsg0
  <2>1. nkey' = nkey + 1 /\ owner' = owner /\ UNCHANGED history
    BY <1>2 DEF HandleMsg0
  <2>. QED BY <1>a, <2>1 DEF Monotone, history
<1>3. ASSUME UNCHANGED <<nkey, owner>>, issued \subseteq issued', handed \subseteq handed',
             released \subseteq released'
      PROVE  Monotone
  BY <1>a, <1>3 DEF Monotone
<1>4. ASSUME NEW c \in Clients,
             \/ HandshakeRefused(c) \/ SendQuote(c) \/ Dispose(c) \/ DisposeQuote(c)
             \/ \E anchor \in KnownAnchors(c) : CollectQuote(c, anchor)
             \/ \E size \in DataSizes : ReceiveBegin(c, size)
      PROVE  Monotone
  <2>1. UNCHANGED <<nkey, owner, handed, released>> /\ issued \subseteq issued'
    BY <1>4 DEF HandshakeRefused, SendQuote, ReceiveBegin, Dispose, DisposeQuote,
                CollectQuote, history
  <2>. QED BY <1>3, <2>1
<1>5. ASSUME NEW c \in Clients, AppReturn(c) \/ AppEnd(c) \/ AppKilled(c)
      PROVE  Monotone
  <2>1. UNCHANGED <<nkey, owner, issued, released>> /\ handed \subseteq handed'
    BY <1>5 DEF AppReturn, HandshakeEnd, HandshakeFail, ReceiveEnd, ReceiveFail, AppEnd,
                AppKilled, CloseInstance, history
  <2>. QED BY <1>3, <2>1
<1>6. CASE \/ Start \/ VerifierKilled \/ Terminate \/ UNCHANGED vars
           \/ (\E k \in Keys : Accept(k)) \/ PrepareMsg1 \/ HandleMsg2 \/ PrepareMsg3
  <2>1. UNCHANGED <<nkey, owner, issued, handed>> /\ released \subseteq released'
    BY <1>6 DEF Start, VerifierKilled, Terminate, CloseProcess, Accept, PrepareMsg1, HandleMsg2,
                PrepareMsg3, vars, history
  <2>. QED BY <1>3, <2>1
<1>. QED BY <1>1, <1>2, <1>4, <1>5, <1>6 DEF Next, AppCall, Verifier

\* Every step hands out sessions as HandedStep says.
LEMMA HandedEffect == TypeInv /\ [Next]_vars => HandedStep
<1>. SUFFICES ASSUME TypeInv, [Next]_vars PROVE HandedStep
  OBVIOUS
<1>1. ASSUME NEW c \in Clients, HandshakeEnd(c)
      PROVE  HandedStep
  <2>. DEFINE k == ra[c].ga
              m == Head(toA[k])
  <2>1. k \in Keys /\ toA[k] # <<>> /\ Msg1Accepted(m, k, app[c].arg)
    BY <1>1 DEF HandshakeEnd, TypeInv, Blocked
  <2>2. toA[k] \in Seq(MsgsToA)
    BY <2>1 DEF TypeInv, TypeOK, MsgsToA
  <2>3. m \in Elems(toA[k])
    BY <2>1, <2>2, ElemsFacts
  <2>4. m.type = "msg1" /\ m.sig.ga = k
    BY <2>1 DEF Msg1Accepted, verify_ecdh_public_key_signature, Sign1
  <2>5. handed' = handed \cup {<<k, m.gv>>}
    BY <1>1 DEF HandshakeEnd, generate_anchor
  <2>. QED BY <1>1, <2>3, <2>4, <2>5 DEF HandedStep
<1>2. CASE UNCHANGED handed
  BY <1>2 DEF HandedStep
<1>3. ASSUME NEW c \in Clients,
             \/ AppCall(c)
             \/ HandshakeFail(c) \/ ReceiveEnd(c) \/ ReceiveFail(c) \/ AppEnd(c) \/ AppKilled(c)
      PROVE  UNCHANGED handed
  BY <1>3 DEF AppCall, HandshakeBegin, HandshakeRefused, CollectQuote, SendQuote, ReceiveBegin,
              Dispose, DisposeQuote, HandshakeFail, ReceiveEnd, ReceiveFail, AppEnd,
              AppKilled, CloseInstance, history
<1>4. CASE Start \/ VerifierKilled \/ Verifier \/ UNCHANGED vars
  BY <1>2, <1>4
  DEF Start, VerifierKilled, Verifier, Accept, HandleMsg0, PrepareMsg1, HandleMsg2,
      PrepareMsg3, Terminate, CloseProcess, vars, history
<1>. QED BY <1>1, <1>2, <1>3, <1>4 DEF Next, AppReturn

\* What a step can do to a handshake of an attester.
LEMMA RaEffect == TypeInv /\ [Next]_vars => RaStep
<1>. SUFFICES ASSUME TypeInv, [Next]_vars PROVE RaStep
  OBVIOUS
<1>a. ra \in [Clients -> Contexts] /\ nkey \in Nat /\ owner \in [Keys -> Clients \cup {None}]
  BY ConstantsAssumption DEF TypeInv, TypeOK
<1>1. ASSUME NEW c \in Clients, NEW pin \in Pins, HandshakeBegin(c, pin)
      PROVE  RaStep
  <2>1. nkey + 1 \in Keys /\ nkey' = nkey + 1 /\ owner'[nkey + 1] = c
    BY <1>1, <1>a, PointsFacts DEF HandshakeBegin
  <2>2. ra' = [ra EXCEPT ![c] = [NoContext EXCEPT !.ga = nkey + 1]]
    BY <1>1 DEF HandshakeBegin
  <2>3. /\ ra'[c].ga = nkey + 1 /\ ra'[c].mac = NoMac /\ ~ra'[c].inUse
        /\ \A d \in Clients \ {c} : ra'[d] = ra[d]
    BY <1>a, <2>2 DEF NoContext
  <2>. QED BY <2>1, <2>3 DEF RaStep
<1>2. ASSUME NEW c \in Clients, HandshakeRefused(c)
      PROVE  RaStep
  <2>1. ra'[c] = NoContext /\ \A d \in Clients \ {c} : ra'[d] = ra[d]
    BY <1>2, <1>a DEF HandshakeRefused
  <2>. QED BY <2>1 DEF RaStep, NoContext
<1>3. ASSUME NEW c \in Clients, HandshakeEnd(c)
      PROVE  RaStep
  <2>. DEFINE g == Head(toA[ra[c].ga]).gv
  <2>1. ra' = [ra EXCEPT ![c].inUse = TRUE, ![c].gv = g]
    BY <1>3 DEF HandshakeEnd
  <2>2. /\ ra'[c].ga = ra[c].ga /\ ra'[c].mac = ra[c].mac /\ ra'[c].gv = g
        /\ \A d \in Clients \ {c} : ra'[d] = ra[d]
    BY <1>a, <2>1 DEF Contexts
  <2>3. generate_anchor(ra[c].ga, g) \in handed'
    BY <1>3 DEF HandshakeEnd
  <2>. QED BY <2>2, <2>3 DEF RaStep
<1>4. ASSUME NEW c \in Clients, SendQuote(c)
      PROVE  RaStep
  <2>1. PICK mac \in prepare_msg2(c) : ra' = [ra EXCEPT ![c].mac = mac]
    BY <1>4 DEF SendQuote
  <2>2. ra[c].inUse
    BY <1>4 DEF SendQuote
  <2>3. /\ ra'[c].ga = ra[c].ga /\ ra'[c].gv = ra[c].gv /\ ra'[c].inUse = ra[c].inUse
        /\ ra'[c].mac = mac
        /\ \A d \in Clients \ {c} : ra'[d] = ra[d]
    BY <1>a, <2>1 DEF Contexts
  <2>. QED BY <1>4, <2>2, <2>3 DEF RaStep
<1>5. ASSUME NEW c \in Clients, Dispose(c)
      PROVE  RaStep
  <2>1. ra' = [ra EXCEPT ![c].inUse = FALSE]
    BY <1>5 DEF Dispose
  <2>2. /\ ra'[c].ga = ra[c].ga /\ ra'[c].mac = ra[c].mac /\ ra'[c].gv = ra[c].gv /\ ~ra'[c].inUse
        /\ \A d \in Clients \ {c} : ra'[d] = ra[d]
    BY <1>a, <2>1 DEF Contexts
  <2>. QED BY <2>2 DEF RaStep
<1>6. CASE UNCHANGED ra
  BY <1>6 DEF RaStep
<1>7. ASSUME NEW c \in Clients,
             \/ \E anchor \in KnownAnchors(c) : CollectQuote(c, anchor)
             \/ \E size \in DataSizes : ReceiveBegin(c, size)
             \/ DisposeQuote(c)
             \/ HandshakeFail(c) \/ ReceiveEnd(c) \/ ReceiveFail(c) \/ AppEnd(c) \/ AppKilled(c)
      PROVE  UNCHANGED ra
  BY <1>7 DEF CollectQuote, ReceiveBegin, DisposeQuote, HandshakeFail, ReceiveEnd,
              ReceiveFail, AppEnd, AppKilled, CloseInstance
<1>8. CASE Start \/ VerifierKilled \/ Verifier \/ UNCHANGED vars
  BY <1>6, <1>8
  DEF Start, VerifierKilled, Verifier, Accept, HandleMsg0, PrepareMsg1, HandleMsg2,
      PrepareMsg3, Terminate, CloseProcess, vars, clientVars
<1>. QED
  BY <1>1, <1>2, <1>3, <1>4, <1>5, <1>6, <1>7, <1>8 DEF Next, AppCall, AppReturn

\* What a step can do to the verifier.
LEMMA VEffect == TypeInv /\ [Next]_vars => VStep
<1>. SUFFICES ASSUME TypeInv, [Next]_vars PROVE VStep
  OBVIOUS
<1>a. v \in VerifierStates /\ nkey \in Nat
  BY ConstantsAssumption DEF TypeInv, TypeOK
<1>1. CASE Start
  BY <1>1 DEF Start, VStep
<1>2. CASE HandleMsg0
  <2>1. PICK m : \/ v' = [v EXCEPT !.pc = "msg1", !.ga = m.ga, !.gv = nkey + 1]
                 \/ v' = [v EXCEPT !.pc = "exit"]
    BY <1>2 DEF HandleMsg0, HostFails, generate_ecdh_keypair
  <2>2. \/ v'.gv = nkey + 1
        \/ v'.ga = v.ga /\ v'.gv = v.gv
    BY <1>a, <2>1 DEF VerifierStates
  <2>. QED BY <1>2, <1>a, <2>2, PointsFacts DEF HandleMsg0, VStep, history
<1>3. CASE (\E k \in Keys : Accept(k)) \/ PrepareMsg1 \/ HandleMsg2 \/ PrepareMsg3 \/ CloseProcess
  <2>1. \E pc, k, b : \/ v' = [v EXCEPT !.pc = pc]
                      \/ v' = [v EXCEPT !.pc = pc, !.conn = k]
                      \/ v' = [v EXCEPT !.pc = pc, !.valid = b]
    BY <1>3 DEF Accept, PrepareMsg1, HandleMsg2, PrepareMsg3, CloseProcess, HostFails
  <2>2. v'.ga = v.ga /\ v'.gv = v.gv
    BY <1>a, <2>1 DEF VerifierStates
  <2>. QED BY <2>2 DEF VStep
<1>4. CASE UNCHANGED v
  BY <1>4 DEF VStep
<1>5. ASSUME NEW c \in Clients, AppCall(c) \/ AppReturn(c) \/ AppEnd(c) \/ AppKilled(c)
      PROVE  UNCHANGED v
  BY <1>5 DEF AppCall, HandshakeBegin, HandshakeRefused, CollectQuote, SendQuote, ReceiveBegin,
              Dispose, DisposeQuote, AppReturn, HandshakeEnd, HandshakeFail, ReceiveEnd,
              ReceiveFail, AppEnd, AppKilled, CloseInstance
<1>6. CASE UNCHANGED vars
  BY <1>4, <1>6 DEF vars
<1>. QED
  BY <1>1, <1>2, <1>3, <1>4, <1>5, <1>6 DEF Next, Verifier, Terminate, VerifierKilled

-----------------------------------------------------------------------------
(***************************************************************************)
(* The inductive invariant, part by part.                                  *)
(***************************************************************************)

\* Keys keep their role once they are drawn.
LEMMA KeysPersist ==
  ASSUME TypeInv, KeysDrawn, Monotone, nkey' \in Nat
  PROVE  /\ \A g : VerifierKey(g) => VerifierKey(g)'
         /\ \A k : AttesterKey(k) => AttesterKey(k)' /\ owner'[k] = owner[k]
<1>1. nkey \in 0..MaxKeys /\ nkey \in Nat /\ Keys = 1..MaxKeys
  BY ConstantsAssumption DEF TypeInv, TypeOK, Keys
<1>2. ASSUME NEW g, VerifierKey(g)
      PROVE  VerifierKey(g)'
  <2>1. g \in Keys /\ g <= nkey
    BY <1>1, <1>2, ConstantsAssumption DEF VerifierKey
  <2>2. owner'[g] = owner[g] /\ nkey <= nkey'
    BY <2>1 DEF Monotone
  <2>. QED BY <1>1, <1>2, <2>2 DEF VerifierKey
<1>3. ASSUME NEW k, AttesterKey(k)
      PROVE  AttesterKey(k)' /\ owner'[k] = owner[k]
  <2>1. k \in Keys /\ owner[k] # None
    BY <1>3, ConstantsAssumption DEF AttesterKey
  <2>2. k <= nkey
    BY <1>1, <2>1 DEF KeysDrawn
  <2>3. owner'[k] = owner[k]
    BY <2>1, <2>2 DEF Monotone
  <2>. QED BY <1>3, <2>3 DEF AttesterKey
<1>. QED BY <1>2, <1>3

\* Every step keeps the roles of the keys.
LEMMA KeysNext == TypeInv /\ TypeInv' /\ KeysDrawn /\ [Next]_vars => KeysDrawn'
<1>. SUFFICES ASSUME TypeInv, TypeInv', KeysDrawn, [Next]_vars PROVE KeysDrawn'
  OBVIOUS
<1>a. /\ nkey \in Nat /\ nkey' \in Nat /\ Keys = 1..MaxKeys /\ Garbage = 0
      /\ \A c \in Clients : ra[c].ga \in Points
      /\ \A c \in Clients : ra'[c].ga \in Points
      /\ Points = Keys \cup {Garbage}
  BY ConstantsAssumption DEF TypeInv, TypeOK, Keys, Garbage, Points, Contexts
<1>b. Monotone /\ ToAStep /\ HandedStep /\ RaStep /\ VStep
  BY MonotoneEffect, ToAEffect, HandedEffect, RaEffect, VEffect
<1>c. /\ \A g : VerifierKey(g) => VerifierKey(g)'
      /\ \A k : AttesterKey(k) => AttesterKey(k)' /\ owner'[k] = owner[k]
  BY <1>a, <1>b, KeysPersist
<1>1. \A k \in Keys : k > nkey' => owner'[k] = None
  BY <1>a, <1>b DEF Monotone, KeysDrawn
<1>2. ASSUME NEW c \in Clients, ra'[c].ga # Garbage
      PROVE  owner'[ra'[c].ga] = c
  <2>1. CASE ra'[c].ga = ra[c].ga
    <3>1. AttesterKey(ra[c].ga) /\ owner[ra[c].ga] = c
      BY <1>2, <1>a, <2>1 DEF KeysDrawn, AttesterKey
    <3>. QED BY <2>1, <3>1, <1>c
  <2>2. CASE ra'[c].ga = nkey + 1 /\ owner'[nkey + 1] = c
    BY <2>2
  <2>. QED BY <1>2, <1>b, <2>1, <2>2 DEF RaStep
<1>3. (v.gv # Garbage => VerifierKey(v.gv))'
  <2>1. CASE v'.gv = v.gv
    BY <1>c, <2>1 DEF KeysDrawn, VerifierKey
  <2>2. CASE v'.gv = nkey + 1 /\ nkey' = nkey + 1 /\ nkey + 1 \in Keys /\ owner' = owner
    <3>1. owner[nkey + 1] = None
      BY <1>a, <2>2 DEF KeysDrawn
    <3>. QED BY <1>a, <2>2, <3>1 DEF VerifierKey
  <2>. QED BY <1>b, <2>1, <2>2 DEF VStep
<1>4. ASSUME NEW s \in handed'
      PROVE  AttesterKey(s[1])' /\ VerifierKey(s[2])'
  <2>1. CASE s \in handed
    BY <1>c, <2>1 DEF KeysDrawn
  <2>2. ASSUME NEW c \in Clients, HandshakeEnd(c), s[1] = ra[c].ga,
               NEW m \in Elems(toA[ra[c].ga]), m.type = "msg1", m.gv = s[2]
        PROVE  AttesterKey(s[1])' /\ VerifierKey(s[2])'
    <3>1. ra[c].ga \in Keys
      BY <2>2 DEF HandshakeEnd, TypeInv, Blocked
    <3>2. AttesterKey(ra[c].ga)
      BY <3>1, <1>a DEF KeysDrawn, AttesterKey
    <3>3. VerifierKey(m.gv)
      BY <2>2, <3>1 DEF KeysDrawn
    <3>. QED BY <2>2, <3>2, <3>3, <1>c
  <2>. QED BY <1>b, <2>1, <2>2 DEF HandedStep
<1>5. ASSUME NEW k \in Keys, NEW m \in Elems(toA'[k]), m.type = "msg1"
      PROVE  VerifierKey(m.gv)'
  <2>1. CASE m \in Elems(toA[k])
    BY <1>5, <1>c, <2>1 DEF KeysDrawn
  <2>2. CASE PrepareMsg1 /\ m = Msg1(v.ga, v.gv, v.run)
    <3>1. v.gv \in Keys /\ m.gv = v.gv
      BY <2>2 DEF PrepareMsg1, TypeInv, Serving, Msg1
    <3>2. VerifierKey(v.gv)
      BY <3>1, PointsFacts DEF KeysDrawn
    <3>. QED BY <3>1, <3>2, <1>c
  <2>3. CASE m = Msg3(v.ga, v.gv, v.run)
    BY <1>5, <2>3 DEF Msg3
  <2>. QED BY <1>b, <2>1, <2>2, <2>3 DEF ToAStep
<1>. QED BY <1>1, <1>2, <1>3, <1>4, <1>5 DEF KeysDrawn

\* The quote of an application is kept, zeroed, or freshly signed for it.
QuoteStep ==
  \A c \in Clients :
    \/ quote'[c] = quote[c]
    \/ quote'[c] = NoQuote
    \/ \E a : quote'[c] = generate_quote(c, a) /\ generate_quote(c, a) \in issued'

\* Every step treats quotes as QuoteStep says.
LEMMA QuoteEffect == TypeInv /\ [Next]_vars => QuoteStep
<1>. SUFFICES ASSUME TypeInv, [Next]_vars PROVE QuoteStep
  OBVIOUS
<1>a. quote \in [Clients -> Quotes]
  BY DEF TypeInv, TypeOK
<1>1. ASSUME NEW c \in Clients, NEW a \in KnownAnchors(c), CollectQuote(c, a)
      PROVE  QuoteStep
  BY <1>1, <1>a DEF CollectQuote, QuoteStep
<1>2. ASSUME NEW c \in Clients, DisposeQuote(c)
      PROVE  QuoteStep
  BY <1>2, <1>a DEF DisposeQuote, QuoteStep
<1>3. CASE UNCHANGED quote
  BY <1>3 DEF QuoteStep
<1>4. ASSUME NEW c \in Clients,
             \/ \E pin \in Pins : HandshakeBegin(c, pin)
             \/ \E size \in DataSizes : ReceiveBegin(c, size)
             \/ HandshakeRefused(c) \/ SendQuote(c) \/ Dispose(c)
             \/ AppReturn(c) \/ AppEnd(c) \/ AppKilled(c)
      PROVE  UNCHANGED quote
  BY <1>4 DEF HandshakeBegin, ReceiveBegin, HandshakeRefused, SendQuote, Dispose, AppReturn,
              HandshakeEnd, HandshakeFail, ReceiveEnd, ReceiveFail, AppEnd, AppKilled, CloseInstance
<1>5. CASE Start \/ VerifierKilled \/ Verifier \/ UNCHANGED vars
  BY <1>3, <1>5
  DEF Start, VerifierKilled, Verifier, Accept, HandleMsg0, PrepareMsg1, HandleMsg2,
      PrepareMsg3, Terminate, CloseProcess, vars, clientVars
<1>. QED BY <1>1, <1>2, <1>3, <1>4, <1>5 DEF Next, AppCall

\* Tags and quotes, once good, stay good.
LEMMA EvidencePersists ==
  ASSUME TypeInv, KeysDrawn, Monotone, nkey' \in Nat
  PROVE  /\ \A c, q : QuoteOf(c, q) => QuoteOf(c, q)'
         /\ \A k, mac : MacOf(k, mac) => MacOf(k, mac)'
<1>1. ASSUME NEW c, NEW q, QuoteOf(c, q)
      PROVE  QuoteOf(c, q)'
  BY <1>1 DEF QuoteOf, Monotone
<1>2. ASSUME NEW k, NEW mac, MacOf(k, mac)
      PROVE  MacOf(k, mac)'
  <2>1. CASE mac = NoMac
    BY <2>1 DEF MacOf
  <2>2. CASE mac # NoMac
    <3>1. PICK g \in Points : generate_anchor(k, g) \in handed /\ mac.key = ECDH(k, g)
      BY <1>2, <2>2 DEF MacOf
    <3>2. owner'[k] = owner[k]
      BY <3>1, KeysPersist DEF KeysDrawn, generate_anchor
    <3>3. QuoteOf(owner[k], mac.quote)'
      BY <1>2, <2>2, <3>2 DEF MacOf, QuoteOf, Monotone
    <3>4. generate_anchor(k, g) \in handed' /\ mac.ga = k
      BY <1>2, <2>2, <3>1 DEF Monotone, MacOf
    <3>. QED BY <3>1, <3>3, <3>4 DEF MacOf
  <2>. QED BY <2>1, <2>2
<1>. QED BY <1>1, <1>2

\* Every step keeps tags and quotes good.
LEMMA EvidenceNext ==
  TypeInv /\ TypeInv' /\ KeysDrawn /\ KeysDrawn' /\ Evidence /\ [Next]_vars => Evidence'
<1>. SUFFICES ASSUME TypeInv, TypeInv', KeysDrawn, KeysDrawn', Evidence, [Next]_vars
              PROVE  Evidence'
  OBVIOUS
<1>a. nkey' \in Nat
  BY ConstantsAssumption DEF TypeInv, TypeOK
<1>b. Monotone /\ ToVStep /\ RaStep /\ QuoteStep
  BY MonotoneEffect, ToVEffect, RaEffect, QuoteEffect
<1>c. /\ \A c, q : QuoteOf(c, q) => QuoteOf(c, q)'
      /\ \A k, mac : MacOf(k, mac) => MacOf(k, mac)'
  BY <1>a, <1>b, EvidencePersists
<1>1. ASSUME NEW c \in Clients
      PROVE  QuoteOf(c, quote[c])'
  <2>1. CASE quote'[c] = quote[c]
    <3>1. QuoteOf(c, quote[c])
      BY DEF Evidence
    <3>. QED BY <3>1, <2>1, <1>b DEF QuoteOf, Monotone
  <2>2. CASE quote'[c] = NoQuote
    BY <2>2 DEF QuoteOf
  <2>3. ASSUME NEW a, quote'[c] = generate_quote(c, a), generate_quote(c, a) \in issued'
        PROVE  QuoteOf(c, quote[c])'
    BY <2>3 DEF QuoteOf, generate_quote
  <2>. QED BY <1>b, <2>1, <2>2, <2>3 DEF QuoteStep
<1>2. ASSUME NEW c \in Clients, SendQuote(c), NEW mac \in prepare_msg2(c)
      PROVE  MacOf(ra[c].ga, mac)
  <2>1. /\ ra[c].inUse /\ ra[c].ga \in Keys /\ ra[c].gv \in Points
        /\ generate_anchor(ra[c].ga, ra[c].gv) \in handed
    BY <1>2 DEF SendQuote, Evidence, TypeInv, TypeOK, Blocked, Contexts
  <2>2. owner[ra[c].ga] = c
    BY <2>1, PointsFacts DEF KeysDrawn
  <2>3. MacOf(ra[c].ga, [key |-> ECDH(ra[c].ga, ra[c].gv), ga |-> ra[c].ga, quote |-> quote[c]])
    BY <2>1, <2>2 DEF MacOf, Evidence
  <2>4. MacOf(ra[c].ga, ra[c].mac)
    BY DEF Evidence
  <2>. QED BY <1>2, <2>3, <2>4 DEF prepare_msg2
<1>3. ASSUME NEW k, NEW mac, mac = NoMac
      PROVE  MacOf(k, mac)'
  BY <1>3 DEF MacOf
<1>4. ASSUME NEW c \in Clients, NEW k, NEW mac, k = ra'[c].ga, mac = ra'[c].mac
      PROVE  MacOf(k, mac)'
  <2>1. CASE ra'[c].mac = NoMac
    BY <1>4, <2>1, <1>3
  <2>2. CASE ra'[c].ga = ra[c].ga /\ ra'[c].mac = ra[c].mac
    BY <1>4, <2>2, <1>c DEF Evidence
  <2>3. CASE SendQuote(c) /\ ra'[c].ga = ra[c].ga /\ ra'[c].mac \in prepare_msg2(c)
    BY <1>4, <2>3, <1>2, <1>c
  <2>. QED BY <1>b, <2>1, <2>2, <2>3 DEF RaStep
<1>5. ASSUME NEW k \in Keys, NEW m \in Elems(toV'[k])
      PROVE  MacOf(k, m.mac)'
  <2>1. CASE m \in Elems(toV[k])
    BY <2>1, <1>c DEF Evidence
  <2>2. CASE m.mac = NoMac
    BY <2>2, <1>3
  <2>3. ASSUME NEW c \in Clients, SendQuote(c), ra[c].ga = k, m.mac = ra'[c].mac
        PROVE  MacOf(k, m.mac)'
    <3>1. ra' \in [Clients -> Contexts] /\ ra \in [Clients -> Contexts]
      BY DEF TypeInv, TypeOK
    <3>2. PICK mac \in prepare_msg2(c) : ra' = [ra EXCEPT ![c].mac = mac]
      BY <2>3 DEF SendQuote
    <3>3. ra'[c].mac = mac
      BY <3>1, <3>2 DEF Contexts
    <3>. QED BY <2>3, <3>3, <1>2, <1>c
  <2>. QED BY <1>b, <2>1, <2>2, <2>3 DEF ToVStep
<1>6. ASSUME NEW c \in Clients
      PROVE  MacOf(ra[c].ga, ra[c].mac)'
  <2>1. PICK k, mac : k = ra'[c].ga /\ mac = ra'[c].mac
    OBVIOUS
  <2>2. MacOf(k, mac)'
    BY <1>4, <2>1
  <2>. QED BY <2>1, <2>2 DEF MacOf
<1>7. ASSUME NEW c \in Clients
      PROVE  (ra[c].inUse => generate_anchor(ra[c].ga, ra[c].gv) \in handed)'
  <2>1. ra[c].inUse => generate_anchor(ra[c].ga, ra[c].gv) \in handed'
    BY <1>b DEF Evidence, Monotone
  <2>. QED BY <1>b, <2>1 DEF RaStep, generate_anchor
<1>. QED BY <1>1, <1>5, <1>6, <1>7 DEF Evidence

\* A session that deserves the secret keeps deserving it.
LEMMA GenuinePersists ==
  ASSUME TypeInv, KeysDrawn, Monotone, nkey' \in Nat, NEW ga, NEW gv, Genuine(ga, gv)
  PROVE  Genuine(ga, gv)'
<1>1. AttesterKey(ga)
  BY DEF Genuine, AttesterKey
<1>2. owner'[ga] = owner[ga]
  BY <1>1, KeysPersist
<1>. QED BY <1>2 DEF Genuine, Monotone

\* The heart of the argument: a msg2 that the verifier accepts carries a tag
\* that only the owner of Ga makes, for a session it was handed, over a quote
\* that was signed for it.
LEMMA AcceptedIsGenuine ==
  ASSUME TypeInv, KeysDrawn, Evidence, v.conn \in Keys, NEW m, Read(v.conn, m), Msg2Accepted(m)
  PROVE  Genuine(v.ga, v.gv)
<1>. DEFINE k == v.conn
<1>1. /\ m.mac = [key |-> ECDH(v.ga, v.gv), ga |-> m.ga, quote |-> m.quote]
      /\ m.ga = v.ga
      /\ m.quote.signer = Endorsed
      /\ m.quote.anchor = generate_anchor(v.ga, v.gv)
  BY DEF Msg2Accepted, QuoteValid, verify_mac_msg2, verify_public_key_msg2_matches_msg0,
         verify_quote_signature, verify_anchor
<1>2. m.quote # NoQuote
  BY <1>1, ConstantsAssumption DEF NoQuote
<1>3. m # Frag
  BY <1>2 DEF Frag
<1>4. m \in Elems(toV[k])
  <2>1. toV[k] \in Seq(MsgsToV)
    BY DEF TypeInv, TypeOK
  <2>2. toV[k] # <<>> /\ m = Head(toV[k])
    BY <1>3 DEF Read
  <2>. QED BY <2>1, <2>2, ElemsFacts
<1>5. MacOf(k, m.mac)
  BY <1>4 DEF Evidence
<1>6. m.mac # NoMac /\ m.mac.ga = v.ga /\ m.mac.quote = m.quote /\ m.mac.key = ECDH(v.ga, v.gv)
  BY <1>1, <1>2 DEF NoMac
<1>7. v.ga = k /\ QuoteOf(owner[v.ga], m.quote)
  BY <1>5, <1>6 DEF MacOf
<1>8. PICK g \in Points : generate_anchor(k, g) \in handed /\ m.mac.key = ECDH(k, g)
  BY <1>5, <1>6 DEF MacOf
<1>9. g = v.gv
  BY <1>6, <1>7, <1>8 DEF ECDH
<1>10. generate_anchor(v.ga, v.gv) \in handed
  BY <1>7, <1>8, <1>9
<1>11. AttesterKey(v.ga)
  BY <1>10 DEF KeysDrawn, generate_anchor
<1>12. m.quote \in issued /\ m.quote = generate_quote(owner[v.ga], m.quote.anchor)
  BY <1>2, <1>7 DEF QuoteOf
<1>13. DeviceOf[owner[v.ga]] = Endorsed
  BY <1>1, <1>12 DEF generate_quote
<1>. QED BY <1>1, <1>10, <1>11, <1>12, <1>13 DEF Genuine, AttesterKey

\* Every step keeps what the verifier accepted genuine.
LEMMA AppraisedNext ==
  TypeInv /\ TypeInv' /\ KeysDrawn /\ Evidence /\ Appraised /\ [Next]_vars => Appraised'
<1>. SUFFICES ASSUME TypeInv, TypeInv', KeysDrawn, Evidence, Appraised, [Next]_vars
              PROVE  Appraised'
  OBVIOUS
<1>a. Monotone /\ nkey' \in Nat /\ v \in VerifierStates
  BY MonotoneEffect, ConstantsAssumption DEF TypeInv, TypeOK
<1>1. CASE UNCHANGED v
  <2>. SUFFICES ASSUME v'.pc = "msg3" PROVE Genuine(v.ga, v.gv)'
    BY DEF Appraised
  <2>1. Genuine(v.ga, v.gv)
    BY <1>1 DEF Appraised
  <2>2. PICK ga, gv : ga = v.ga /\ gv = v.gv
    OBVIOUS
  <2>3. Genuine(ga, gv)'
    BY <1>a, <2>1, <2>2, GenuinePersists
  <2>. QED BY <1>1, <2>2, <2>3 DEF Genuine
<1>2. CASE HandleMsg2
  <2>1. v.conn \in Keys
    BY <1>2 DEF HandleMsg2, TypeInv, Serving
  <2>2. PICK m : /\ Read(v.conn, m)
                 /\ \/ Msg2Accepted(m) /\ v' = [v EXCEPT !.pc = "msg3", !.valid = TRUE]
                    \/ v' = [v EXCEPT !.pc = "exit", !.valid = (BuffSize >= SizeofMsg2 /\ QuoteValid(m))]
    BY <1>2 DEF HandleMsg2
  <2>3. CASE Msg2Accepted(m) /\ v' = [v EXCEPT !.pc = "msg3", !.valid = TRUE]
    <3>1. Genuine(v.ga, v.gv)
      BY <2>1, <2>2, <2>3, AcceptedIsGenuine
    <3>2. PICK ga, gv : ga = v.ga /\ gv = v.gv
      OBVIOUS
    <3>3. Genuine(ga, gv)'
      BY <1>a, <3>1, <3>2, GenuinePersists
    <3>4. v'.ga = ga /\ v'.gv = gv
      BY <1>a, <2>3, <3>2 DEF VerifierStates
    <3>. QED BY <3>3, <3>4 DEF Appraised, Genuine
  <2>4. CASE v' = [v EXCEPT !.pc = "exit", !.valid = (BuffSize >= SizeofMsg2 /\ QuoteValid(m))]
    <3>1. PICK b : v' = [v EXCEPT !.pc = "exit", !.valid = b]
      BY <2>4
    <3>2. v'.pc = "exit"
      BY <1>a, <3>1 DEF VerifierStates
    <3>. QED BY <3>2 DEF Appraised
  <2>. QED BY <2>2, <2>3, <2>4
<1>3. CASE Start \/ (\E k \in Keys : Accept(k)) \/ HandleMsg0 \/ PrepareMsg1 \/ PrepareMsg3 \/ CloseProcess
  <2>1. \/ v'.pc = "listen"
        \/ \E pc \in {"msg0", "msg2", "exit", "down"} : \E k :
             v' = [v EXCEPT !.pc = pc] \/ v' = [v EXCEPT !.pc = pc, !.conn = k]
        \/ \E m, g : v' = [v EXCEPT !.pc = "msg1", !.ga = m, !.gv = g]
    <3>1. CASE Start
      BY <3>1 DEF Start
    <3>2. ASSUME NEW k \in Keys, Accept(k)
          PROVE  v' = [v EXCEPT !.pc = "msg0", !.conn = k]
      BY <3>2 DEF Accept
    <3>3. CASE HandleMsg0
      BY <3>3 DEF HandleMsg0, HostFails
    <3>4. CASE PrepareMsg1
      BY <3>4 DEF PrepareMsg1, HostFails
    <3>5. CASE PrepareMsg3
      BY <3>5 DEF PrepareMsg3
    <3>6. CASE CloseProcess
      BY <3>6 DEF CloseProcess
    <3>. QED BY <1>3, <3>1, <3>2, <3>3, <3>4, <3>5, <3>6
  <2>2. v'.pc # "msg3"
    BY <1>a, <2>1 DEF VerifierStates
  <2>. QED BY <2>2 DEF Appraised
<1>4. ASSUME NEW c \in Clients, AppCall(c) \/ AppReturn(c) \/ AppEnd(c) \/ AppKilled(c)
      PROVE  UNCHANGED v
  BY <1>4 DEF AppCall, HandshakeBegin, HandshakeRefused, CollectQuote, SendQuote, ReceiveBegin,
              Dispose, DisposeQuote, AppReturn, HandshakeEnd, HandshakeFail, ReceiveEnd,
              ReceiveFail, AppEnd, AppKilled, CloseInstance
<1>5. CASE UNCHANGED vars
  BY <1>1, <1>5 DEF vars
<1>. QED
  BY <1>1, <1>2, <1>3, <1>4, <1>5 DEF Next, Verifier, Terminate, VerifierKilled

\* Only prepare_msg3 releases, in the session and the run of the verifier.
ReleasedStep ==
  \A x \in released' :
    x \in released \/ (PrepareMsg3 /\ x = [ga |-> v.ga, gv |-> v.gv, run |-> v.run])

\* Only tee_ra_prepare_msg3 releases the secret.
LEMMA ReleasedEffect == TypeInv /\ [Next]_vars => ReleasedStep
<1>. SUFFICES ASSUME [Next]_vars PROVE ReleasedStep
  OBVIOUS
<1>1. CASE PrepareMsg3
  BY <1>1 DEF PrepareMsg3, ReleasedStep
<1>2. CASE UNCHANGED released
  BY <1>2 DEF ReleasedStep
<1>3. ASSUME NEW c \in Clients, AppCall(c) \/ AppReturn(c) \/ AppEnd(c) \/ AppKilled(c)
      PROVE  UNCHANGED released
  BY <1>3 DEF AppCall, HandshakeBegin, HandshakeRefused, CollectQuote, SendQuote, ReceiveBegin,
              Dispose, DisposeQuote, AppReturn, HandshakeEnd, HandshakeFail, ReceiveEnd,
              ReceiveFail, AppEnd, AppKilled, CloseInstance, history
<1>4. CASE \/ Start \/ VerifierKilled \/ UNCHANGED vars \/ Terminate
           \/ (\E k \in Keys : Accept(k)) \/ HandleMsg0 \/ PrepareMsg1 \/ HandleMsg2
  BY <1>2, <1>4 DEF Start, VerifierKilled, Terminate, CloseProcess, vars, Accept, HandleMsg0,
                    PrepareMsg1, HandleMsg2, history
<1>. QED BY <1>1, <1>2, <1>3, <1>4 DEF Next, Verifier

\* Every step releases to attested sessions only.
LEMMA ReleasedNext ==
  TypeInv /\ TypeInv' /\ KeysDrawn /\ Appraised /\ ReleasedOnlyToAttested /\ [Next]_vars
    => ReleasedOnlyToAttested'
<1>. SUFFICES ASSUME TypeInv, TypeInv', KeysDrawn, Appraised, ReleasedOnlyToAttested, [Next]_vars,
                     NEW x \in released'
              PROVE  Genuine(x.ga, x.gv)'
  BY DEF ReleasedOnlyToAttested, Genuine
<1>a. Monotone /\ nkey' \in Nat
  BY MonotoneEffect, ConstantsAssumption DEF TypeInv, TypeOK
<1>1. CASE x \in released
  <2>1. Genuine(x.ga, x.gv)
    BY <1>1 DEF ReleasedOnlyToAttested, Genuine
  <2>. QED BY <1>a, <2>1, GenuinePersists
<1>2. CASE PrepareMsg3 /\ x = [ga |-> v.ga, gv |-> v.gv, run |-> v.run]
  <2>1. Genuine(x.ga, x.gv)
    BY <1>2 DEF PrepareMsg3, Appraised
  <2>. QED BY <1>a, <2>1, GenuinePersists
<1>. QED BY <1>1, <1>2, ReleasedEffect DEF ReleasedStep

\* Every step keeps both sides agreed on their session.
LEMMA AgreementNext ==
  /\ TypeInv /\ TypeInv' /\ KeysDrawn /\ KeysDrawn' /\ Agreement /\ HandshakeAgreement /\ [Next]_vars
  => Agreement' /\ HandshakeAgreement'
<1>. SUFFICES ASSUME TypeInv, TypeInv', KeysDrawn, KeysDrawn', Agreement, HandshakeAgreement, [Next]_vars
              PROVE  Agreement' /\ HandshakeAgreement'
  OBVIOUS
<1>. DEFINE InA(m) == \E k \in Keys : m \in Elems(toA[k]) /\ m.type = "msg1"
<1>a. Monotone /\ ToAStep /\ HandedStep /\ VStep /\ nkey \in Nat /\ nkey' \in Nat
  BY MonotoneEffect, ToAEffect, HandedEffect, VEffect, ConstantsAssumption DEF TypeInv, TypeOK
<1>b. \A m : InA(m) => /\ VerifierKey(m.gv)
                       /\ m.gv = v.gv => m.sig.ga = v.ga
                       /\ \A s \in handed : s[2] = m.gv => s[1] = m.sig.ga
                       /\ \A n : InA(n) /\ n.gv = m.gv => n.sig.ga = m.sig.ga
  BY DEF Agreement, KeysDrawn
<1>c. \A s \in handed : VerifierKey(s[2]) /\ (v.gv = s[2] => v.ga = s[1])
  BY DEF HandshakeAgreement, KeysDrawn
\* a session handed out is that of a msg1
<1>d. \A s \in handed' : s \in handed \/ \E m : InA(m) /\ m.gv = s[2] /\ m.sig.ga = s[1]
  <2>1. \A c \in Clients : HandshakeEnd(c) => ra[c].ga \in Keys
    BY DEF HandshakeEnd, TypeInv, Blocked
  <2>. QED BY <1>a, <2>1 DEF HandedStep
\* a msg1 on its way was there, or tells the session of the verifier
<1>e. \A k \in Keys : \A m \in Elems(toA'[k]) :
        m.type = "msg1" => InA(m) \/ (m.gv = v.gv /\ m.sig.ga = v.ga /\ PrepareMsg1)
  <2>1. \A ga, gv, r : Msg3(ga, gv, r).type = "msg3"
    BY DEF Msg3
  <2>2. \A ga, gv, r : Msg1(ga, gv, r).gv = gv /\ Msg1(ga, gv, r).sig.ga = ga
    BY DEF Msg1, Sign1
  <2>. QED BY <1>a, <2>1, <2>2 DEF ToAStep
<1>f. \A g : VerifierKey(g) => g \in Nat /\ g <= nkey /\ g # Garbage
  BY <1>a DEF VerifierKey, Garbage
\* the pairs told by messages, sessions and the verifier agree
<1>. DEFINE Told(ga, gv) == \/ <<ga, gv>> \in handed
                            \/ \E m : InA(m) /\ m.gv = gv /\ m.sig.ga = ga
                            \/ ga = v.ga /\ gv = v.gv
<1>1. ASSUME NEW g, NEW ga, NEW gb, Told(ga, g), Told(gb, g)
      PROVE  ga = gb
  <2>1. \A x, y : <<x, g>> \in handed /\ <<y, g>> \in handed => x = y
    BY DEF HandshakeAgreement
  <2>2. \A x : <<x, g>> \in handed => (v.gv = g => v.ga = x) /\ \A m : InA(m) /\ m.gv = g => x = m.sig.ga
    BY <1>b, <1>c
  <2>3. \A m, n : InA(m) /\ InA(n) /\ m.gv = g /\ n.gv = g => m.sig.ga = n.sig.ga
    BY <1>b
  <2>4. \A m : InA(m) /\ m.gv = g /\ g = v.gv => m.sig.ga = v.ga
    BY <1>b
  <2>. QED BY <1>1, <2>1, <2>2, <2>3, <2>4
<1>2. \A s \in handed' : Told(s[1], s[2])
  <2>1. \A s \in handed : s = <<s[1], s[2]>>
    BY DEF TypeInv, TypeOK, Anchors
  <2>. QED BY <1>d, <2>1
<1>3. \A k \in Keys : \A m \in Elems(toA'[k]) : m.type = "msg1" => Told(m.sig.ga, m.gv)
  BY <1>e
\* the verifier's new session, if any, has a key told by none of them
<1>4. \A ga, g : Told(ga, g) /\ g # Garbage /\ g = v'.gv => ga = v'.ga \/ v'.gv = nkey + 1
  <2>1. CASE v'.ga = v.ga /\ v'.gv = v.gv
    BY <1>1, <2>1
  <2>2. CASE v'.gv = Garbage \/ v'.gv = nkey + 1
    BY <2>2
  <2>. QED BY <1>a, <2>1, <2>2 DEF VStep
<1>5. ASSUME v'.gv = nkey + 1, NEW s \in handed'
      PROVE  s[2] # v'.gv \/ s[1] = v'.ga
  <2>1. CASE v'.ga = v.ga /\ v'.gv = v.gv
    BY <1>1, <1>2, <2>1
  <2>2. CASE handed' = handed
    BY <1>a, <1>c, <1>f, <1>5, <2>2
  <2>. QED BY <1>a, <1>5, <2>1, <2>2 DEF VStep, Garbage
<1>6. ASSUME v'.gv = nkey + 1, NEW k \in Keys, NEW m \in Elems(toA'[k]), m.type = "msg1"
      PROVE  m.gv # v'.gv \/ m.sig.ga = v'.ga
  <2>1. CASE v'.ga = v.ga /\ v'.gv = v.gv
    BY <1>1, <1>3, <1>6, <2>1
  <2>2. CASE toA' = toA
    <3>1. VerifierKey(m.gv)
      BY <1>6, <2>2 DEF KeysDrawn
    <3>. QED BY <1>a, <1>f, <1>6, <3>1
  <2>. QED BY <1>a, <1>6, <2>1, <2>2 DEF VStep, Garbage
<1>7. \A s \in handed' : s[2] # Garbage /\ s = <<s[1], s[2]>>
  <2>1. \A s \in handed' : s = <<s[1], s[2]>>
    BY DEF TypeInv, TypeOK, Anchors
  <2>2. \A s \in handed' : s[2] # Garbage
    BY <1>a DEF KeysDrawn, VerifierKey, Garbage
  <2>. QED BY <2>1, <2>2
<1>8. \A k \in Keys : \A m \in Elems(toA'[k]) : m.type = "msg1" => m.gv # Garbage
  BY <1>a DEF KeysDrawn, VerifierKey, Garbage
<1>9. HandshakeAgreement'
  <2>1. \A s, t \in handed' : s[2] = t[2] => s = t
    BY <1>1, <1>2, <1>7
  <2>2. \A s \in handed' : v'.gv = s[2] => v'.ga = s[1]
    BY <1>2, <1>4, <1>5, <1>7
  <2>. QED BY <2>1, <2>2 DEF HandshakeAgreement
<1>10. Agreement'
  <2>. SUFFICES ASSUME NEW k \in Keys, NEW m \in Elems(toA'[k]), m.type = "msg1"
                PROVE  /\ m.gv = v'.gv => m.sig.ga = v'.ga
                       /\ \A s \in handed' : s[2] = m.gv => s[1] = m.sig.ga
                       /\ \A j \in Keys : \A n \in Elems(toA'[j]) :
                            n.type = "msg1" /\ n.gv = m.gv => n.sig.ga = m.sig.ga
    BY DEF Agreement
  <2>1. m.gv = v'.gv => m.sig.ga = v'.ga
    BY <1>3, <1>4, <1>6, <1>8, ZenonT(30)
  <2>a. Told(m.sig.ga, m.gv)
    BY <1>3
  <2>2. ASSUME NEW s \in handed', s[2] = m.gv
        PROVE  s[1] = m.sig.ga
    <3>1. Told(s[1], m.gv)
      BY <1>2, <2>2
    <3>. HIDE DEF Told
    <3>. QED BY <1>1, <2>a, <3>1
  <2>3. ASSUME NEW j \in Keys, NEW n \in Elems(toA'[j]), n.type = "msg1", n.gv = m.gv
        PROVE  n.sig.ga = m.sig.ga
    <3>1. Told(n.sig.ga, m.gv)
      BY <1>3, <2>3
    <3>. HIDE DEF Told
    <3>. QED BY <1>1, <2>a, <3>1
  <2>. QED BY <2>1, <2>2, <2>3
<1>. QED BY <1>9, <1>10

\* A run that is over stays over: serving goes on only where it was going on,
\* or in a new run; and the step that releases ends it.
Active == {"listen", "msg0", "msg1", "msg2", "msg3"}
RunStep ==
  \/ v'.run = v.run + 1 /\ released' = released
  \/ /\ v'.run = v.run
     /\ v'.pc \in Active => v.pc \in Active /\ released' = released

\* What a step can do to the run of the verifier.
LEMMA RunEffect == TypeInv /\ [Next]_vars => RunStep
<1>. SUFFICES ASSUME TypeInv, [Next]_vars PROVE RunStep
  OBVIOUS
<1>a. v \in VerifierStates
  BY DEF TypeInv, TypeOK
<1>1. CASE Start
  BY <1>1 DEF Start, RunStep, history
<1>2. CASE HandleMsg0
  <2>1. PICK m, g : \/ v' = [v EXCEPT !.pc = "msg1", !.ga = m, !.gv = g]
                    \/ v' = [v EXCEPT !.pc = "exit"]
    BY <1>2 DEF HandleMsg0, HostFails
  <2>2. v'.run = v.run
    BY <1>a, <2>1 DEF VerifierStates
  <2>3. v.pc \in Active /\ released' = released
    BY <1>2 DEF HandleMsg0, Active, history
  <2>. QED BY <2>2, <2>3 DEF RunStep
<1>3. CASE (\E k \in Keys : Accept(k)) \/ PrepareMsg1 \/ HandleMsg2
  <2>1. PICK pc, k, b : \/ v' = [v EXCEPT !.pc = pc]
                        \/ v' = [v EXCEPT !.pc = pc, !.conn = k]
                        \/ v' = [v EXCEPT !.pc = pc, !.valid = b]
    BY <1>3 DEF Accept, PrepareMsg1, HandleMsg2, HostFails
  <2>2. v'.run = v.run
    BY <1>a, <2>1 DEF VerifierStates
  <2>3. v.pc \in Active /\ released' = released
    BY <1>3 DEF Accept, PrepareMsg1, HandleMsg2, Active, history
  <2>. QED BY <2>2, <2>3 DEF RunStep
<1>4. CASE PrepareMsg3 \/ CloseProcess
  <2>1. PICK pc \in {"exit", "down"} : v' = [v EXCEPT !.pc = pc]
    BY <1>4 DEF PrepareMsg3, CloseProcess
  <2>2. v'.run = v.run /\ v'.pc \notin Active
    BY <1>a, <2>1 DEF VerifierStates, Active
  <2>. QED BY <2>2 DEF RunStep
<1>5. ASSUME UNCHANGED <<v, released>>
      PROVE  RunStep
  BY <1>5 DEF RunStep
<1>6. ASSUME NEW c \in Clients, AppCall(c) \/ AppReturn(c) \/ AppEnd(c) \/ AppKilled(c)
      PROVE  UNCHANGED <<v, released>>
  <2>1. CASE AppCall(c)
    BY <2>1 DEF AppCall, HandshakeBegin, HandshakeRefused, CollectQuote, SendQuote, ReceiveBegin,
                Dispose, DisposeQuote, history
  <2>2. CASE AppReturn(c)
    BY <2>2 DEF AppReturn, HandshakeEnd, HandshakeFail, ReceiveEnd, ReceiveFail, history
  <2>3. CASE AppEnd(c) \/ AppKilled(c)
    BY <2>3 DEF AppEnd, AppKilled, CloseInstance, history
  <2>. QED BY <1>6, <2>1, <2>2, <2>3
<1>7. CASE UNCHANGED vars
  BY <1>5, <1>7 DEF vars, history
<1>. QED
  BY <1>1, <1>2, <1>3, <1>4, <1>5, <1>6, <1>7 DEF Next, Verifier, Terminate, VerifierKilled

\* Every step keeps the secrets of different runs apart.
LEMMA ReleasedRunsNext ==
  TypeInv /\ TypeInv' /\ ReleasedRuns /\ OneSessionPerSecret /\ [Next]_vars
    => ReleasedRuns' /\ OneSessionPerSecret'
<1>. SUFFICES ASSUME TypeInv, TypeInv', ReleasedRuns, OneSessionPerSecret, [Next]_vars
              PROVE  ReleasedRuns' /\ OneSessionPerSecret'
  OBVIOUS
<1>a. RunStep /\ ReleasedStep
  BY RunEffect, ReleasedEffect
<1>b. v.run \in Nat /\ v'.run \in Nat /\ \A x \in released' : x.run \in Nat
  <2>1. MaxRuns \in Nat /\ v \in VerifierStates /\ v' \in VerifierStates /\ released' \subseteq Sessions
    BY ConstantsAssumption DEF TypeInv, TypeOK
  <2>2. v.run \in 0..MaxRuns /\ v'.run \in 0..MaxRuns
    BY <2>1 DEF VerifierStates
  <2>3. \A x \in released' : x.run \in Runs
    BY <2>1 DEF Sessions
  <2>. QED BY <2>1, <2>2, <2>3 DEF Runs
<1>c. \A x \in released : x.run <= v.run /\ (v.pc \in Active => x.run < v.run)
  BY DEF ReleasedRuns, Active
<1>d. PrepareMsg3 => v.pc \in Active
  BY DEF PrepareMsg3, Active
<1>1. \A x \in released' : x.run <= v'.run /\ (v'.pc \in Active => x.run < v'.run)
  <2>1. CASE v'.run = v.run + 1 /\ released' = released
    BY <1>b, <1>c, <2>1
  <2>2. CASE v'.run = v.run /\ (v'.pc \in Active => v.pc \in Active /\ released' = released)
    BY <1>a, <1>b, <1>c, <2>2 DEF ReleasedStep
  <2>. QED BY <1>a, <2>1, <2>2 DEF RunStep
<1>2. ASSUME NEW x \in released', NEW y \in released', x.run = y.run
      PROVE  x = y
  <2>1. CASE x \in released /\ y \in released
    BY <1>2, <2>1 DEF OneSessionPerSecret
  <2>2. CASE PrepareMsg3 /\ (x \notin released \/ y \notin released)
    <3>1. \A z \in released : z.run < v.run
      BY <1>c, <1>d, <2>2
    <3>2. \A z \in released' : z \in released \/ z = [ga |-> v.ga, gv |-> v.gv, run |-> v.run]
      BY <1>a DEF ReleasedStep
    <3>. QED BY <1>2, <1>b, <2>2, <3>1, <3>2
  <2>. QED BY <1>a, <2>1, <2>2 DEF ReleasedStep
<1>. QED BY <1>1, <1>2 DEF ReleasedRuns, OneSessionPerSecret, Active

\* A msg3 on its way was released.
LEMMA Msg3ReleasedNext ==
  TypeInv /\ Msg3Released /\ [Next]_vars => Msg3Released'
<1>. SUFFICES ASSUME TypeInv, Msg3Released, [Next]_vars,
                     NEW k \in Keys, NEW m \in Elems(toA'[k]), m.type = "msg3"
              PROVE  \E x \in released' : m = Msg3(x.ga, x.gv, x.run)
  BY DEF Msg3Released
<1>a. Monotone /\ ToAStep
  BY MonotoneEffect, ToAEffect
<1>1. CASE m \in Elems(toA[k])
  BY <1>1, <1>a DEF Msg3Released, Monotone
<1>2. CASE m = Msg1(v.ga, v.gv, v.run)
  BY <1>2 DEF Msg1
<1>3. CASE m = Msg3(v.ga, v.gv, v.run) /\ [ga |-> v.ga, gv |-> v.gv, run |-> v.run] \in released'
  BY <1>3
<1>. QED BY <1>a, <1>1, <1>2, <1>3 DEF ToAStep

\* Only receive_data delivers, what a msg3 on its connection holds.
DeliveredStep ==
  \A x \in delivered' :
    \/ x \in delivered
    \/ \E c \in Clients :
         /\ ra[c].ga \in Keys /\ ra[c].gv \in Points
         /\ \E m \in Elems(toA[ra[c].ga]) :
              /\ m.type = "msg3" /\ m.key = ECDH(ra[c].ga, ra[c].gv)
              /\ x = [ga |-> ra[c].ga, gv |-> ra[c].gv, run |-> m.secret]

\* Every step delivers as DeliveredStep says.
LEMMA DeliveredEffect == TypeInv /\ [Next]_vars => DeliveredStep
<1>. SUFFICES ASSUME TypeInv, [Next]_vars PROVE DeliveredStep
  OBVIOUS
<1>1. ASSUME NEW c \in Clients, ReceiveEnd(c)
      PROVE  DeliveredStep
  <2>. DEFINE k == ra[c].ga
              m == Head(toA[k])
  <2>1. k \in Keys /\ ra[c].gv \in Points
    BY <1>1 DEF ReceiveEnd, TypeInv, TypeOK, Blocked, Contexts
  <2>2. toA[k] \in Seq(MsgsToA)
    BY <2>1 DEF TypeInv, TypeOK, MsgsToA
  <2>3. toA[k] # <<>> /\ decrypt_msg3(c, m)
    BY <1>1 DEF ReceiveEnd, Msg3Complete
  <2>4. m \in Elems(toA[k])
    BY <2>2, <2>3, ElemsFacts
  <2>5. delivered' = delivered \cup {[ga |-> k, gv |-> ra[c].gv, run |-> m.secret]}
    BY <1>1 DEF ReceiveEnd
  <2>. QED BY <2>1, <2>3, <2>4, <2>5 DEF DeliveredStep, decrypt_msg3
<1>2. CASE UNCHANGED delivered
  BY <1>2 DEF DeliveredStep
<1>3. ASSUME NEW c \in Clients,
             \/ AppCall(c)
             \/ HandshakeEnd(c) \/ HandshakeFail(c) \/ ReceiveFail(c) \/ AppEnd(c) \/ AppKilled(c)
      PROVE  UNCHANGED delivered
  BY <1>3 DEF AppCall, HandshakeBegin, HandshakeRefused, CollectQuote, SendQuote, ReceiveBegin,
              Dispose, DisposeQuote, HandshakeEnd, HandshakeFail, ReceiveFail, AppEnd,
              AppKilled, CloseInstance, history
<1>4. CASE Start \/ VerifierKilled \/ Verifier \/ UNCHANGED vars
  BY <1>2, <1>4
  DEF Start, VerifierKilled, Verifier, Accept, HandleMsg0, PrepareMsg1, HandleMsg2,
      PrepareMsg3, Terminate, CloseProcess, vars, history
<1>. QED BY <1>1, <1>2, <1>3, <1>4 DEF Next, AppReturn

\* What a step delivers was released to the same session: the session key is
\* shared by two keys of different roles, so it names the session.
LEMMA DeliveredIsReleased ==
  ASSUME TypeInv, KeysDrawn, ReleasedOnlyToAttested, Msg3Released, DeliveredWasReleased, DeliveredStep
  PROVE  delivered' \subseteq released
<1>. SUFFICES ASSUME NEW x \in delivered', x \notin delivered
              PROVE  x \in released
  BY DEF DeliveredWasReleased
<1>1. PICK c \in Clients :
        /\ ra[c].ga \in Keys /\ ra[c].gv \in Points
        /\ \E m \in Elems(toA[ra[c].ga]) :
             /\ m.type = "msg3" /\ m.key = ECDH(ra[c].ga, ra[c].gv)
             /\ x = [ga |-> ra[c].ga, gv |-> ra[c].gv, run |-> m.secret]
  BY DEF DeliveredStep
<1>2. PICK m \in Elems(toA[ra[c].ga]) :
        /\ m.type = "msg3" /\ m.key = ECDH(ra[c].ga, ra[c].gv)
        /\ x = [ga |-> ra[c].ga, gv |-> ra[c].gv, run |-> m.secret]
  BY <1>1
<1>3. PICK y \in released : m = Msg3(y.ga, y.gv, y.run)
  BY <1>1, <1>2 DEF Msg3Released
<1>4. m.key = ECDH(y.ga, y.gv) /\ m.secret = y.run
  BY <1>3 DEF Msg3
<1>5. owner[ra[c].ga] = c
  BY <1>1, PointsFacts DEF KeysDrawn
<1>6. owner[y.gv] = None
  <2>1. generate_anchor(y.ga, y.gv) \in handed
    BY DEF ReleasedOnlyToAttested
  <2>. QED BY <2>1 DEF KeysDrawn, generate_anchor, VerifierKey
<1>7. ra[c].ga # y.gv
  BY <1>5, <1>6, ConstantsAssumption
<1>8. {ra[c].ga, ra[c].gv} = {y.ga, y.gv}
  BY <1>2, <1>4 DEF ECDH
<1>9. ra[c].ga = y.ga /\ ra[c].gv = y.gv
  BY <1>7, <1>8
<1>10. y = [ga |-> y.ga, gv |-> y.gv, run |-> y.run]
  BY DEF TypeInv, TypeOK, Sessions
<1>. QED BY <1>2, <1>4, <1>9, <1>10

-----------------------------------------------------------------------------
\* The inductive invariant holds at the start,
LEMMA InvInit == Init => IInv
<1>. SUFFICES ASSUME Init PROVE IInv
  OBVIOUS
<1>1. TypeInv
  BY TypeInit
<1>2. \A k \in Keys : Elems(toA[k]) = {} /\ Elems(toV[k]) = {}
  BY DEF Init, Elems
<1>3. KeysDrawn
  BY <1>2 DEF Init, KeysDrawn, NoContext
<1>4. Evidence
  BY <1>2 DEF Init, Evidence, QuoteOf, MacOf, NoContext
<1>5. Agreement /\ Msg3Released
  BY <1>2 DEF Agreement, Msg3Released
<1>6. Appraised /\ ReleasedOnlyToAttested /\ HandshakeAgreement /\ ReleasedRuns
        /\ OneSessionPerSecret /\ DeliveredWasReleased
  BY DEF Init, Appraised, ReleasedOnlyToAttested, HandshakeAgreement, ReleasedRuns,
         OneSessionPerSecret, DeliveredWasReleased
<1>. QED BY <1>1, <1>3, <1>4, <1>5, <1>6 DEF IInv

\* and every step keeps it.
LEMMA InvNext == IInv /\ [Next]_vars => IInv'
<1>. SUFFICES ASSUME IInv, [Next]_vars PROVE IInv'
  OBVIOUS
<1>. USE DEF IInv
<1>1. TypeInv'
  BY TypeNext
<1>2. KeysDrawn'
  BY <1>1, KeysNext
<1>3. Evidence'
  BY <1>1, <1>2, EvidenceNext
<1>4. Appraised'
  BY <1>1, AppraisedNext
<1>5. ReleasedOnlyToAttested'
  BY <1>1, ReleasedNext
<1>6. Agreement' /\ HandshakeAgreement'
  BY <1>1, <1>2, AgreementNext
<1>7. ReleasedRuns' /\ OneSessionPerSecret'
  BY <1>1, ReleasedRunsNext
<1>8. Msg3Released'
  BY Msg3ReleasedNext
<1>9. DeliveredWasReleased'
  BY DeliveredEffect, DeliveredIsReleased, MonotoneEffect DEF DeliveredWasReleased, Monotone
<1>. QED BY <1>1, <1>2, <1>3, <1>4, <1>5, <1>6, <1>7, <1>8, <1>9

\* The secret leaves the verifier only for a session that an application on the
\* endorsed device completed and was quoted for (prepare_msg3 after handle_msg2).
THEOREM ReleaseIsAttested == Spec => []ReleasedOnlyToAttested
<1>1. IInv => ReleasedOnlyToAttested
  BY DEF IInv
<1>. QED BY InvInit, InvNext, <1>1, PTL DEF Spec

\* No verifier key is shared by two sessions, and the verifier and the attester
\* that completed a handshake agree on the session.
THEOREM SessionsAgree == Spec => []HandshakeAgreement
<1>1. IInv => HandshakeAgreement
  BY DEF IInv
<1>. QED BY InvInit, InvNext, <1>1, PTL DEF Spec

\* The secret of a run of the verifier goes to at most one session.
THEOREM SecretReleasedOnce == Spec => []OneSessionPerSecret
<1>1. IInv => OneSessionPerSecret
  BY DEF IInv
<1>. QED BY InvInit, InvNext, <1>1, PTL DEF Spec

\* What receive_data returns was released to that very session.
THEOREM DeliveryIsReleased == Spec => []DeliveredWasReleased
<1>1. IInv => DeliveredWasReleased
  BY DEF IInv
<1>. QED BY InvInit, InvNext, <1>1, PTL DEF Spec

-----------------------------------------------------------------------------
(***************************************************************************)
(* The system implements SecretRelease.                                    *)
(***************************************************************************)

\* Evidence is never lost: sessions stay handed out, quotes stay signed, and
\* the owner of a key does not change.
LEMMA AttestedGrows ==
  ASSUME IInv, Monotone, nkey' \in Nat, NEW s,
         \A t \in handed' : t \in handed \/ t = s,
         \A q \in issued' : q \in issued \/ q.anchor = s
  PROVE  Attested' = Attested \/ Attested' = Attested \cup {s}
<1>1. ASSUME NEW t \in handed
      PROVE  owner'[t[1]] = owner[t[1]]
  BY KeysPersist DEF IInv, KeysDrawn
<1>2. Attested \subseteq Attested'
  BY <1>1 DEF Attested, Monotone
<1>3. ASSUME NEW t \in Attested', t # s
      PROVE  t \in Attested
  <2>1. PICK q \in issued' : q.signer = Endorsed /\ q.anchor = t /\ q.claim = owner'[t[1]]
    BY DEF Attested
  <2>2. t \in handed /\ q \in issued
    BY <1>3, <2>1 DEF Attested
  <2>. QED BY <1>1, <2>1, <2>2 DEF Attested
<1>. QED BY <1>2, <1>3

\* Steps that keep the session keep it attested.
LEMMA AttestedSame ==
  ASSUME IInv, Monotone, nkey' \in Nat, UNCHANGED <<handed, issued>>
  PROVE  Attested' = Attested
<1>1. ASSUME NEW t \in handed
      PROVE  owner'[t[1]] = owner[t[1]]
  BY KeysPersist DEF IInv, KeysDrawn
<1>. QED BY <1>1 DEF Attested

\* Every step is one of SecretRelease, or changes nothing it speaks of.
LEMMA StepImplements == IInv /\ [Next]_vars => [Promise!Next]_(Promise!vars)
<1>. SUFFICES ASSUME IInv, [Next]_vars
              PROVE  Promise!Next \/ UNCHANGED <<Attested, released, delivered>>
  BY DEF Promise!vars
<1>a. Monotone /\ TypeInv' /\ nkey' \in Nat
  BY MonotoneEffect, TypeNext, ConstantsAssumption DEF IInv, TypeInv, TypeOK
<1>b. handed' \subseteq Anchors
  BY <1>a DEF TypeInv, TypeOK
<1>1. ASSUME UNCHANGED <<handed, issued, released, delivered>>
      PROVE  UNCHANGED <<Attested, released, delivered>>
  BY <1>1, <1>a, AttestedSame
<1>2. ASSUME NEW s \in Anchors, UNCHANGED <<released, delivered>>,
             \A t \in handed' : t \in handed \/ t = s,
             \A q \in issued' : q \in issued \/ q.anchor = s
      PROVE  Promise!Next \/ UNCHANGED <<Attested, released, delivered>>
  <2>1. Attested' = Attested \/ Attested' = Attested \cup {s}
    BY <1>2, <1>a, AttestedGrows
  <2>. QED BY <1>2, <2>1 DEF Promise!Next, Promise!Attest
<1>3. ASSUME NEW c \in Clients, HandshakeEnd(c)
      PROVE  Promise!Next \/ UNCHANGED <<Attested, released, delivered>>
  <2>. DEFINE s == generate_anchor(ra[c].ga, Head(toA[ra[c].ga]).gv)
  <2>1. handed' = handed \cup {s} /\ UNCHANGED <<issued, released, delivered>>
    BY <1>3 DEF HandshakeEnd
  <2>2. s \in Anchors
    BY <1>b, <2>1
  <2>. HIDE DEF s
  <2>. QED BY <1>2, <2>1, <2>2
<1>4. ASSUME NEW c \in Clients, NEW anchor \in KnownAnchors(c), CollectQuote(c, anchor)
      PROVE  Promise!Next \/ UNCHANGED <<Attested, released, delivered>>
  <2>1. anchor \in Anchors
    BY PointsFacts DEF KnownAnchors, generate_anchor, Anchors, Contexts, IInv, TypeInv, TypeOK
  <2>2. generate_quote(c, anchor).anchor = anchor
    BY DEF generate_quote
  <2>3. UNCHANGED <<handed, released, delivered>>
          /\ (issued' = issued \cup {generate_quote(c, anchor)} \/ issued' = issued)
    BY <1>4 DEF CollectQuote
  <2>. QED BY <1>2, <2>1, <2>2, <2>3
<1>5. CASE PrepareMsg3
  <2>1. UNCHANGED <<handed, issued, delivered>>
    BY <1>5 DEF PrepareMsg3
  <2>2. Attested' = Attested
    BY <1>a, <2>1, AttestedSame
  <2>3. CASE UNCHANGED released
    BY <2>1, <2>2, <2>3
  <2>4. CASE released' = released \cup {[ga |-> v.ga, gv |-> v.gv, run |-> v.run]}
    <3>1. Genuine(v.ga, v.gv) /\ v.pc = "msg3"
      BY <1>5 DEF PrepareMsg3, IInv, Appraised
    <3>2. <<v.ga, v.gv>> \in Attested
      BY <3>1 DEF Genuine, Attested, generate_anchor, generate_quote
    <3>3. <<v.ga, v.gv>> \in Anchors /\ v.run \in Runs
      BY <3>1 DEF IInv, TypeInv, TypeOK, VerifierStates, Anchors, Serving
    <3>4. \A x \in released : x.run # v.run
      <4>1. v.run \in Nat
        BY <3>3, PointsFacts
      <4>2. \A x \in released : x.run \in Nat /\ x.run < v.run
        BY <3>1, PointsFacts DEF IInv, TypeInv, TypeOK, Sessions, ReleasedRuns
      <4>. QED BY <4>1, <4>2
    <3>5. Promise!Release(<<v.ga, v.gv>>, v.run)
      BY <2>1, <2>2, <2>4, <3>2, <3>4 DEF Promise!Release
    <3>. QED BY <3>3, <3>5 DEF Promise!Next
  <2>. QED BY <1>5, <2>3, <2>4 DEF PrepareMsg3
<1>6. ASSUME NEW c \in Clients, ReceiveEnd(c)
      PROVE  Promise!Next
  <2>. DEFINE x == [ga |-> ra[c].ga, gv |-> ra[c].gv, run |-> Head(toA[ra[c].ga]).secret]
  <2>1. delivered' = delivered \cup {x} /\ UNCHANGED <<handed, issued, released>>
    BY <1>6 DEF ReceiveEnd
  <2>2. delivered' \subseteq released
    BY DeliveredEffect, DeliveredIsReleased DEF IInv
  <2>3. x \in released /\ Attested' = Attested
    BY <1>a, <2>1, <2>2, AttestedSame
  <2>. HIDE DEF x
  <2>. QED BY <2>1, <2>3 DEF Promise!Next, Promise!Deliver
<1>7. ASSUME NEW c \in Clients,
             \/ HandshakeRefused(c) \/ SendQuote(c) \/ Dispose(c) \/ DisposeQuote(c)
             \/ \E pin \in Pins : HandshakeBegin(c, pin)
             \/ \E size \in DataSizes : ReceiveBegin(c, size)
      PROVE  UNCHANGED <<Attested, released, delivered>>
  BY <1>1, <1>7 DEF HandshakeBegin, HandshakeRefused, SendQuote, ReceiveBegin, Dispose,
                    DisposeQuote, history
<1>8. ASSUME NEW c \in Clients,
             HandshakeFail(c) \/ ReceiveFail(c) \/ AppEnd(c) \/ AppKilled(c)
      PROVE  UNCHANGED <<Attested, released, delivered>>
  BY <1>1, <1>8 DEF HandshakeFail, ReceiveFail, AppEnd, AppKilled, CloseInstance, history
<1>9. CASE \/ Start \/ VerifierKilled \/ UNCHANGED vars \/ Terminate
           \/ (\E k \in Keys : Accept(k)) \/ HandleMsg0 \/ PrepareMsg1 \/ HandleMsg2
  BY <1>1, <1>9 DEF Start, VerifierKilled, Terminate, CloseProcess, vars, Accept, HandleMsg0,
                    PrepareMsg1, HandleMsg2, history
<1>. QED BY <1>3, <1>4, <1>5, <1>6, <1>7, <1>8, <1>9 DEF Next, AppCall, AppReturn, Verifier

\* The whole system, under every fault it models, implements SecretRelease: each
\* secret is released once, to an attested session, and delivered nowhere else.
THEOREM Implements == Spec => ReleaseRefinement
<1>1. Init => Promise!Init
  BY DEF Init, Promise!Init, Attested
<1>. QED BY InvInit, InvNext, StepImplements, <1>1, PTL DEF Spec, ReleaseRefinement, Promise!Spec
==============================================================================
