-------------------------------- MODULE WasiRa --------------------------------
(***************************************************************************)
(* WASI-RA inside one attester TA instance (ra_wasi.c over                 *)
(* remote_attestation.c): the two slots, the quote, the connections and    *)
(* the msg3 buffer of the context, and the sessions with pseudo TAs behind *)
(* them, with the numbers OP-TEE gives them (tee_ta_manager.c).            *)
(*                                                                         *)
(* The TA runs one command at a time, so a call is one step; send_quote    *)
(* changes nothing of this state, unless it panics.  A call that reaches   *)
(* the network or the attestation service may fail there.  The runtime     *)
(* maps the AOT code through the system pseudo TA before main runs         *)
(* (os_mmap), so session 1 is always open.                                 *)
(***************************************************************************)
EXTENDS Naturals, Sequences, FiniteSets, SequencesExt, PtaSessions

CONSTANTS MaxConns,  \* bound: connections opened
          MaxBufs    \* bound: msg3 buffers allocated and not freed

ASSUME WasiRaAssumption == MaxConns \in Nat /\ MaxBufs \in Nat

VARIABLES
  sessions,   \* open_sessions of the instance, in order of opening
  attestation_session,  \* handle, 0 for TEE_HANDLE_NULL
  socket_session,       \* the static of invoke_socket_pta
  is_ra_context_available, is_ra_quote_available,
  quote,      \* ra_quote_singleton: "zero" or "signed"
  conns,      \* connections tee-supplicant holds open for the instance
  conn,       \* the connection of ra_context_singleton, 0 for none
  nconn,      \* connections opened so far
  bufs,       \* msg3 buffers on the heap
  msg3,       \* the context has a buffer (msg3_size > 0)
  alive,      \* the TA has not panicked
  past        \* history: what the application did

slots   == <<is_ra_context_available, is_ra_quote_available, quote>>
context == <<conns, conn, nconn, bufs, msg3>>
handles == <<sessions, attestation_session, socket_session>>
vars    == <<slots, context, handles, alive, past>>

Ptas == {"system", "attestation", "socket"}

(***************************************************************************)
(* Sessions.                                                               *)
(***************************************************************************)
Ids(ss) == {ss[i].id : i \in DOMAIN ss}
Named(ss, id) == {ss[i].pta : i \in {j \in DOMAIN ss : ss[j].id = id}}

\* Mutant: numbers are never given twice while the instance lives.
FreshSessionId(ss) == 2 + nconn + Len(ss) + Cardinality(past)

\* new_session_id: the first number that is free after the one of the session
\* opened last, 1 when there is none.
new_session_id(ss) ==
  LET from == IF ss = <<>> THEN 1 ELSE Last(ss).id + 1 IN
  CHOOSE i \in from..(from + Len(ss)) :
    i \notin Ids(ss) /\ \A j \in from..(i - 1) : j \in Ids(ss)

OpenSession(ss, pta) == Append(ss, [id |-> new_session_id(ss), pta |-> pta])
CloseSession(ss, id) ==
  IF id \in Ids(ss) THEN RemoveAt(ss, CHOOSE i \in DOMAIN ss : ss[i].id = id) ELSE ss

Reaches(ss, id, pta) == Named(ss, id) = {pta}
Dangling(ss, id) == Named(ss, id) = {}

Init ==
  /\ sessions = <<[id |-> 1, pta |-> "system"]>>
  /\ attestation_session = 0 /\ socket_session = 0
  /\ is_ra_context_available = TRUE /\ is_ra_quote_available = TRUE
  /\ quote = "zero"
  /\ conns = {} /\ conn = 0 /\ nconn = 0
  /\ bufs = 0 /\ msg3 = FALSE
  /\ alive = TRUE
  /\ past = {}

\* TEE_InvokeTACommand and TEE_CloseTASession panic when the handle names no
\* session.  Whatever the slots are, some call uses either handle.  The instance
\* is gone, its sessions and connections with it.
Panics ==
  /\ \E h \in {attestation_session, socket_session} \ {0} : Dangling(sessions, h)
  /\ alive' = FALSE
  /\ sessions' = <<>>
  /\ conns' = {}
  /\ UNCHANGED <<slots, conn, nconn, bufs, msg3, attestation_session, socket_session, past>>

\* invoke_socket_pta: the session is opened the first time.
SocketHandle == IF socket_session = 0 THEN new_session_id(sessions) ELSE socket_session
WithSocketSession == IF socket_session = 0 THEN OpenSession(sessions, "socket") ELSE sessions

-----------------------------------------------------------------------------
(***************************************************************************)
(* wasi_ra_collect_quote.                                                  *)
(***************************************************************************)
AttestationHandle ==
  IF attestation_session = 0 THEN new_session_id(sessions) ELSE attestation_session
WithAttestationSession ==
  IF attestation_session = 0 THEN OpenSession(sessions, "attestation") ELSE sessions

\* Mutant: a handle is left behind when the session cannot be opened.
RefusedKeepsHandle ==
  /\ is_ra_quote_available
  /\ attestation_session = 0
  /\ is_ra_quote_available' = FALSE
  /\ attestation_session' = AttestationHandle
  /\ past' = past \cup {"collect_failed"}
  /\ UNCHANGED <<is_ra_context_available, quote, context, sessions, socket_session, alive>>

\* The session cannot be opened: the handle stays null, the slot is taken.
CollectRefused ==
  /\ is_ra_quote_available
  /\ attestation_session = 0
  /\ is_ra_quote_available' = FALSE
  /\ past' = past \cup {"collect_failed"}
  /\ UNCHANGED <<is_ra_context_available, quote, context, handles, alive>>

\* The command reaches a pseudo TA: the attestation service signs or fails,
\* any other refuses the parameters.
CollectQuote ==
  /\ is_ra_quote_available
  /\ ~Dangling(WithAttestationSession, AttestationHandle)
  /\ is_ra_quote_available' = FALSE
  /\ attestation_session' = AttestationHandle
  /\ sessions' = WithAttestationSession
  /\ \/ /\ Reaches(WithAttestationSession, AttestationHandle, "attestation")
        /\ quote' = "signed"
        /\ past' = past \cup (IF socket_session = 0 THEN {"early_collect"} ELSE {})
     \/ /\ quote' = quote
        /\ past' = past \cup {"collect_failed"}
                        \cup (IF socket_session = 0 THEN {"early_collect"} ELSE {})
  /\ UNCHANGED <<is_ra_context_available, context, socket_session, alive>>

\* wasi_ra_net_dispose_quote: what the handle names is closed, the handle stays.
\* The socket pseudo TA closes every connection of the instance.
DisposeQuote ==
  /\ ~is_ra_quote_available
  /\ attestation_session # 0 => ~Dangling(sessions, attestation_session)
  /\ sessions' = CloseSession(sessions, attestation_session)
  /\ conns' = IF Reaches(sessions, attestation_session, "socket") THEN {} ELSE conns
  /\ quote' = "zero"
  /\ is_ra_quote_available' = TRUE
  /\ past' = past \cup {"disposed"}
  /\ UNCHANGED <<is_ra_context_available, conn, nconn, bufs, msg3, attestation_session,
                 socket_session, alive>>

(***************************************************************************)
(* wasi_ra_net_handshake: the context is zeroed first; a connection or a   *)
(* buffer it had is not released.                                          *)
(***************************************************************************)
\* No keypair, or no socket session.
HandshakeRefused ==
  /\ is_ra_context_available
  /\ conn' = 0 /\ msg3' = FALSE
  /\ past' = past \cup {"handshake_failed"}
  /\ UNCHANGED <<slots, conns, nconn, bufs, handles, alive>>

\* The socket pseudo TA is reached and nobody listens.
NotConnected ==
  /\ is_ra_context_available
  /\ ~Dangling(WithSocketSession, SocketHandle)
  /\ socket_session' = SocketHandle /\ sessions' = WithSocketSession
  /\ conn' = 0 /\ msg3' = FALSE
  /\ past' = past \cup {"handshake_failed"}
  /\ UNCHANGED <<slots, conns, nconn, bufs, attestation_session, alive>>

\* The connection is made; what follows succeeds or fails.
Handshake ==
  /\ is_ra_context_available
  /\ nconn < MaxConns
  /\ Reaches(WithSocketSession, SocketHandle, "socket")
  /\ socket_session' = SocketHandle /\ sessions' = WithSocketSession
  /\ nconn' = nconn + 1
  /\ conn' = nconn + 1
  /\ conns' = conns \cup {nconn + 1}
  /\ msg3' = FALSE
  /\ \/ is_ra_context_available' = FALSE /\ UNCHANGED past
     \/ past' = past \cup {"handshake_failed"} /\ UNCHANGED is_ra_context_available
  /\ UNCHANGED <<is_ra_quote_available, quote, bufs, attestation_session, alive>>

\* wasi_ra_net_receive_data: a buffer is allocated, over the one there was; if
\* the stream ends before a byte arrived, msg3_size is 0 and the buffer forgotten.
ReceiveData ==
  /\ ~is_ra_context_available
  /\ bufs < MaxBufs
  /\ Reaches(sessions, socket_session, "socket")
  /\ bufs' = bufs + 1
  /\ \/ msg3' = TRUE /\ past' = past \cup (IF msg3 THEN {"received_twice"} ELSE {})
     \/ msg3' = FALSE /\ past' = past \cup {"received_nothing"}
  /\ UNCHANGED <<slots, conns, conn, nconn, handles, alive>>

\* Mutants: free_ra_context forgets the connection, or the slot is not made
\* available.
DisposeLeaks ==
  /\ ~is_ra_context_available
  /\ Reaches(sessions, socket_session, "socket")
  /\ bufs' = IF msg3 THEN bufs - 1 ELSE bufs
  /\ msg3' = FALSE
  /\ is_ra_context_available' = TRUE
  /\ UNCHANGED <<is_ra_quote_available, quote, conns, conn, nconn, handles, alive, past>>
DisposeKeepsSlot ==
  /\ ~is_ra_context_available
  /\ Reaches(sessions, socket_session, "socket")
  /\ bufs' = IF msg3 THEN bufs - 1 ELSE bufs
  /\ msg3' = FALSE
  /\ conns' = conns \ {conn}
  /\ UNCHANGED <<slots, conn, nconn, handles, alive, past>>

\* wasi_ra_net_dispose: free_ra_context.
Dispose ==
  /\ ~is_ra_context_available
  /\ Reaches(sessions, socket_session, "socket")
  /\ bufs' = IF msg3 THEN bufs - 1 ELSE bufs
  /\ msg3' = FALSE
  /\ conns' = conns \ {conn}
  /\ is_ra_context_available' = TRUE
  /\ UNCHANGED <<is_ra_quote_available, quote, conn, nconn, handles, alive, past>>

Next ==
  /\ alive
  /\ \/ CollectRefused \/ CollectQuote
     \/ DisposeQuote
     \/ HandshakeRefused \/ NotConnected \/ Handshake
     \/ ReceiveData \/ Dispose
     \/ Panics

Spec == Init /\ [][Next]_vars

-----------------------------------------------------------------------------
(***************************************************************************)
(* Properties.                                                             *)
(***************************************************************************)

\* A TA panics on a session handle only in an application that disposed of a
\* quote before: dispose_quote leaves attestation_session as it was, and with
\* it the slot is available again.
PanicsOnlyAfterDispose == ~alive => "disposed" \in past

\* The connection of a context in use is open, unless dispose_quote closed the
\* socket session in place of the attestation session: that takes a quote
\* collected before the first handshake, and a later collect_quote that failed.
ContextConnected ==
  alive /\ ~is_ra_context_available =>
    conn \in conns \/ {"early_collect", "disposed", "collect_failed"} \subseteq past

\* Connections stay open without a context only after a failed handshake, msg3
\* buffers stay allocated only after a second receive_data in one session or one
\* that met the end of the stream.
NothingLeaks ==
  is_ra_context_available =>
    /\ "handshake_failed" \notin past => conns = {}
    /\ {"received_twice", "received_nothing"} \cap past = {} => bufs = 0

\* The view of the sessions that the protocol model has: what a handle names.
View ==
  [att  |-> IF attestation_session = 0 THEN "null"
            ELSE IF Reaches(sessions, attestation_session, "attestation") THEN "open"
            ELSE IF Reaches(sessions, attestation_session, "socket") THEN "socket"
            ELSE "closed",
   sock |-> IF socket_session = 0 THEN "null"
            ELSE IF Reaches(sessions, socket_session, "socket") THEN "open" ELSE "closed"]

\* As long as the TA runs, the handles behave as PtaSessions says, and so as
\* RaProtocol assumes: OP-TEE's numbers add nothing.
SessionsAsViewed ==
  /\ View = NoSessions
  /\ [][alive' => View' = View \/ View' \in SessionSteps(View)]_vars
===============================================================================
