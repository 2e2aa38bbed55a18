-------------------------- MODULE CryptoHandlesProofs --------------------------
(***************************************************************************)
(* For any size of the pool, whatever calls fail and in any number of      *)
(* handshakes: no handle is freed twice, a handle that was never set is    *)
(* freed only after a failure of the API, and a handshake loses two        *)
(* handles, or at most eight when it fails.                                *)
(***************************************************************************)
EXTENDS CryptoHandles, FiniteSetTheorems, SequenceTheorems, TLAPS

------------------------------------------------------------------------------
(* The functions                                                             *)

HandshakeFunctions ==
  {generate_ecdh_keypair, receive_msg1, import_verifier_attestation_key,
   verify_ecdh_public_key_signature, derive_shared_key, derive_shared_mac_key("mac_key"),
   derive_shared_mac_key("session_key"), verify_msg1_mac, generate_anchor}
Functions == HandshakeFunctions \cup {prepare_msg2, receive_msg3, decrypt_msg3}

Slots == ContextSlots \cup LocalSlots \cup {"none"}
StepKinds == [kind : {"alloc", "api", "input"}, slot : Slots, exit : {"out", "return"}]

\* The function f has allocated the slot s before its step n.
SetBefore(f, n, s) == \E i \in 1 .. (n - 1) : f.steps[i].kind = "alloc" /\ f.steps[i].slot = s

\* A function frees what it allocates: every handle it frees is allocated when it comes to
\* its end, and when a check of what came from outside sends it to out.
WellFormed(f) ==
  /\ f.steps \in Seq(StepKinds)
  /\ f.frees \in Seq(LocalSlots)
  /\ \A i \in 1 .. Len(f.steps) : f.steps[i].kind = "alloc" <=> f.steps[i].slot # "none"
  /\ \A j \in 1 .. Len(f.frees) : SetBefore(f, Len(f.steps) + 1, f.frees[j])
  /\ \A i \in 1 .. Len(f.steps) :
       f.steps[i].kind = "input" /\ f.steps[i].exit = "out" =>
         \A j \in 1 .. Len(f.frees) : SetBefore(f, i, f.frees[j])
  /\ \A i \in 1 .. Len(f.steps) : f.steps[i].slot \in LocalSlots =>
       \E j \in 1 .. Len(f.frees) : f.frees[j] = f.steps[i].slot

\* All functions are written that way.
LEMMA FunctionsWellFormed == \A f \in Functions : WellFormed(f)
<1> SUFFICES ASSUME NEW f \in Functions PROVE WellFormed(f)
  OBVIOUS
<1> USE DEF WellFormed, Function, Alloc, Api, Input, StepKinds, Slots, SetBefore, ContextSlots, LocalSlots
<1>1. CASE f = generate_ecdh_keypair
  BY <1>1 DEF generate_ecdh_keypair
<1>2. CASE f = receive_msg1
  BY <1>2 DEF receive_msg1
<1>3. CASE f = import_verifier_attestation_key
  BY <1>3 DEF import_verifier_attestation_key
<1>4. CASE f = verify_ecdh_public_key_signature
  BY <1>4 DEF verify_ecdh_public_key_signature
<1>5. CASE f = derive_shared_key
  <2>1. /\ f.steps \in Seq(StepKinds) /\ Len(f.steps) = 10
        /\ f.frees \in Seq(LocalSlots) /\ Len(f.frees) = 3
    BY <1>5 DEF derive_shared_key
  <2>2. /\ f.steps[1] = Alloc("operation", "out") /\ f.steps[2] = Api("out")
        /\ f.steps[3] = Alloc("secret", "out")    /\ f.steps[4] = Api("return")
        /\ f.steps[5] = Alloc("key", "out")       /\ f.steps[6] = Api("out")
        /\ f.steps[7] = Alloc("operation", "out") /\ f.steps[8] = Api("out")
        /\ f.steps[9] = Alloc("kdk", "out")       /\ f.steps[10] = Api("out")
    BY <1>5 DEF derive_shared_key
  <2> DEFINE r == f.frees
  <2>8. r[1] = "key" /\ r[2] = "operation" /\ r[3] = "secret"
    BY <1>5 DEF derive_shared_key
  <2> DEFINE k(i) == f.steps[i].kind
             l(i) == f.steps[i].slot
  <2>3. /\ k(1) = "alloc" /\ k(2) = "api" /\ k(3) = "alloc" /\ k(4) = "api" /\ k(5) = "alloc"
        /\ k(6) = "api" /\ k(7) = "alloc" /\ k(8) = "api" /\ k(9) = "alloc" /\ k(10) = "api"
        /\ l(1) = "operation" /\ l(2) = "none" /\ l(3) = "secret" /\ l(4) = "none" /\ l(5) = "key"
        /\ l(6) = "none" /\ l(7) = "operation" /\ l(8) = "none" /\ l(9) = "kdk" /\ l(10) = "none"
    BY <2>2
  <2> HIDE DEF k, l, r
  <2>4. \A i \in 1 .. 10 : (k(i) = "alloc" <=> l(i) # "none") /\ k(i) # "input"
                            /\ l(i) \in {"operation", "secret", "key", "kdk", "none"}
    BY <2>3
  <2>5. SetBefore(f, 11, "key") /\ SetBefore(f, 11, "operation") /\ SetBefore(f, 11, "secret")
    BY <2>3 DEF k, l
  <2>6. \A j \in 1 .. 3 : SetBefore(f, 11, r[j])
    <3> HIDE DEF SetBefore
    <3> QED BY <2>8, <2>5
  <2>7. \A i \in 1 .. 10 : l(i) \in LocalSlots => \E j \in 1 .. 3 : r[j] = l(i)
    BY <2>8, <2>4
  <2> QED
    <3> HIDE DEF SetBefore, StepKinds, LocalSlots
    <3>1. \A i \in 1 .. Len(f.steps) : (f.steps[i].kind = "alloc" <=> f.steps[i].slot # "none")
                                        /\ f.steps[i].kind # "input"
      BY <2>1, <2>4 DEF k, l
    <3>2. \A j \in 1 .. Len(f.frees) : SetBefore(f, Len(f.steps) + 1, f.frees[j])
      BY <2>1, <2>6 DEF r
    <3>3. \A i \in 1 .. Len(f.steps) : f.steps[i].slot \in LocalSlots =>
            \E j \in 1 .. Len(f.frees) : f.frees[j] = f.steps[i].slot
      BY <2>1, <2>7 DEF l, r
    <3> QED BY <2>1, <3>1, <3>2, <3>3, Zenon
<1>6. CASE f = derive_shared_mac_key("mac_key")
  BY <1>6 DEF derive_shared_mac_key
<1>12. CASE f = derive_shared_mac_key("session_key")
  BY <1>12 DEF derive_shared_mac_key
<1>7. CASE f = verify_msg1_mac
  BY <1>7 DEF verify_msg1_mac
<1>8. CASE f = generate_anchor
  BY <1>8 DEF generate_anchor
<1>9. CASE f = prepare_msg2
  BY <1>9 DEF prepare_msg2
<1>10. CASE f = receive_msg3
  BY <1>10 DEF receive_msg3
<1>11. CASE f = decrypt_msg3
  BY <1>11 DEF decrypt_msg3
<1> QED BY <1>1, <1>2, <1>3, <1>4, <1>5, <1>6, <1>7, <1>8, <1>9, <1>10, <1>11, <1>12 DEF Functions, HandshakeFunctions

------------------------------------------------------------------------------
(* The invariant, part by part                                               *)

\* The types.
Typed ==
  /\ available \in BOOLEAN
  /\ ctx \in [ContextSlots -> 0 .. Pool]
  /\ local \in [LocalSlots -> 1 .. (Pool + 1)]
  /\ call \in Seq(Functions)
  /\ at \in Nat \ {0}
  /\ live \subseteq 1 .. Pool
  /\ completed \in Nat /\ failed \in Nat
  /\ apiFailed \in BOOLEAN
  /\ faults \subseteq {"undefined", "freed_twice"}

\* The handles of the running function are those its steps have allocated.
Allocated ==
  /\ call = << >> => local = NoLocals
  /\ Running =>
       /\ at <= Len(Steps) + 1
       /\ \A s \in LocalSlots : local[s] # Unset <=> SetBefore(Head(call), at, s)

\* They are live and nobody else's; those of the context are live while it is built and
\* until it is disposed of.
Held ==
  /\ \A s \in LocalSlots : local[s] # Unset => local[s] \in live
  /\ \A s \in ContextSlots, r \in LocalSlots : ctx[s] # local[r]
  /\ ~available \/ Running => \A s \in ContextSlots : ctx[s] # Null => ctx[s] \in live

CInv == Typed /\ Allocated /\ Held /\ FreedOnce /\ UndefinedNeedsApiFailure

\* What a function is made of, for the one that runs.
LEMMA RunningFunction ==
  ASSUME Typed, Running
  PROVE  /\ Head(call) \in Functions /\ WellFormed(Head(call))
         /\ Tail(call) \in Seq(Functions)
         /\ Steps \in Seq(StepKinds) /\ Len(Steps) \in Nat
         /\ at <= Len(Steps) => Steps[at] \in StepKinds
<1>1. call \in Seq(Functions) /\ call # << >>
  BY DEF Typed, Running
<1>2. Head(call) \in Functions /\ Tail(call) \in Seq(Functions)
  BY <1>1, HeadTailProperties
<1>3. WellFormed(Head(call))
  BY <1>2, FunctionsWellFormed
<1>4. Steps \in Seq(StepKinds)
  BY <1>3 DEF Steps, WellFormed
<1>5. Len(Steps) \in Nat
  BY <1>4, LenProperties
<1>6. at <= Len(Steps) => Steps[at] \in StepKinds
  <2>1. at <= Len(Steps) => at \in 1 .. Len(Steps)
    BY <1>5 DEF Typed
  <2> QED BY <1>4, <2>1, ElementOfSeq
<1> QED BY <1>2, <1>3, <1>4, <1>5, <1>6

\* A fresh instance.
LEMMA InitInvariant == Init => CInv
<1> SUFFICES ASSUME Init PROVE CInv
  OBVIOUS
<1>1. Typed
  <2>1. call \in Seq(Functions)
    BY DEF Init
  <2>2. ctx \in [ContextSlots -> 0 .. Pool] /\ local \in [LocalSlots -> 1 .. (Pool + 1)]
    BY CryptoHandlesAssumption DEF Init, NoLocals, Null, Unset
  <2>3. available \in BOOLEAN /\ apiFailed \in BOOLEAN /\ live \subseteq 1 .. Pool
        /\ faults \subseteq {"undefined", "freed_twice"}
    BY Zenon DEF Init
  <2>4. at \in Nat \ {0} /\ completed \in Nat /\ failed \in Nat
    BY DEF Init
  <2> QED BY <2>1, <2>2, <2>3, <2>4, Zenon DEF Typed
<1>2. Allocated
  BY DEF Init, Allocated, Running
<1>3. Held
  BY CryptoHandlesAssumption DEF Init, Held, NoLocals, Null, Unset, Running
<1> QED BY <1>1, <1>2, <1>3 DEF Init, CInv, FreedOnce, UndefinedNeedsApiFailure

\* The lists of functions a call runs.
LEMMA CallsAreFunctions ==
  /\ ra_net_handshake \in Seq(Functions) /\ Len(ra_net_handshake) = 9
  /\ ra_net_send_quote \in Seq(Functions) /\ ra_net_receive_data \in Seq(Functions)
<1>1. ra_net_handshake \in Seq(Functions) /\ Len(ra_net_handshake) = 9
  BY DEF ra_net_handshake, Functions, HandshakeFunctions
<1>2. ra_net_send_quote \in Seq(Functions)
  BY DEF ra_net_send_quote, Functions
<1>3. ra_net_receive_data \in Seq(Functions)
  BY DEF ra_net_receive_data, Functions
<1> QED BY <1>1, <1>2, <1>3

\* A function starts without handles of its own.
LEMMA EnterKeeps ==
  ASSUME Typed', NEW functions \in Seq(Functions), Enter(functions), UNCHANGED faults
  PROVE  Allocated'
<1>1. (call = << >> => local = NoLocals)'
  BY DEF Enter, NoLocals, Unset
<1>2. ASSUME Running' PROVE Len(Steps)' \in Nat
  <2>1. call' \in Seq(Functions) /\ call' # << >>
    BY <1>2 DEF Typed, Running
  <2>2. Head(call') \in Functions
    BY <2>1, HeadTailProperties
  <2>3. Head(call').steps \in Seq(StepKinds)
    BY <2>2, FunctionsWellFormed DEF WellFormed
  <2> QED BY <2>3, LenProperties DEF Steps
<1>3. \A s \in LocalSlots : local'[s] = Unset'
  BY DEF Enter, NoLocals, Unset
<1>4. \A s : ~SetBefore(Head(call)', at', s)
  BY DEF Enter, SetBefore
<1>5. Running' => at' <= Len(Steps)' + 1
  BY <1>2 DEF Enter
<1> QED BY <1>1, <1>3, <1>4, <1>5 DEF Allocated

\* A call begins, with no handles but those of the context.
LEMMA CallsKeep ==
  ASSUME CInv, Handshake \/ SendQuote \/ ReceiveData
  PROVE  CInv'
<1> USE CryptoHandlesAssumption
<1>1. PICK functions \in Seq(Functions) : Enter(functions)
  BY CallsAreFunctions DEF Handshake, SendQuote, ReceiveData
<1>2. Typed'
  <2>1. call' \in Seq(Functions) /\ at' = 1 /\ local' = NoLocals
    BY <1>1 DEF Enter
  <2>2. ctx' \in [ContextSlots -> 0 .. Pool]
    BY DEF Handshake, SendQuote, ReceiveData, CInv, Typed, Null
  <2>3. local' \in [LocalSlots -> 1 .. (Pool + 1)]
    BY <2>1 DEF NoLocals, Unset
  <2>4. UNCHANGED <<available, live, completed, failed, apiFailed, faults>>
    BY DEF Handshake, SendQuote, ReceiveData
  <2>5. at' \in Nat \ {0}
    BY <2>1
  <2> QED BY <2>1, <2>2, <2>3, <2>4, <2>5 DEF CInv, Typed
<1>3. Allocated'
  BY <1>1, <1>2, EnterKeeps DEF Handshake, SendQuote, ReceiveData
<1>4. Held'
  <2>1. \A s \in LocalSlots : local'[s] = Unset'
    BY <1>1 DEF Enter, NoLocals, Unset
  <2>2. \A s \in ContextSlots, r \in LocalSlots : ctx'[s] # local'[r]
    BY <2>1, <1>2 DEF Typed, Unset
  <2>3. \A s \in ContextSlots : ctx'[s] # Null => ctx'[s] \in live'
    BY DEF Handshake, SendQuote, ReceiveData, CInv, Held, Null
  <2> QED BY <2>1, <2>2, <2>3 DEF Held, Null
<1> QED BY <1>2, <1>3, <1>4
     DEF CInv, FreedOnce, UndefinedNeedsApiFailure, Handshake, SendQuote, ReceiveData

\* The handles of a context in use are live or TEE_HANDLE_NULL.
LEMMA DisposeKeeps ==
  ASSUME CInv, Dispose
  PROVE  CInv'
<1> USE CryptoHandlesAssumption
<1> DEFINE freed == {ctx[s] : s \in ContextSlots}
<1>1. freed \subseteq live \cup {Null}
  BY DEF CInv, Held, Dispose, Null
<1>2. Unset \notin freed
  BY DEF CInv, Typed, Unset
<1>3. BadFrees(freed) = {}
  BY <1>1, <1>2 DEF BadFrees
<1>4. live' = live \ freed /\ faults' = faults /\ available' = TRUE
      /\ UNCHANGED <<ctx, local, call, at, completed, failed, apiFailed>>
  BY <1>3 DEF Dispose
<1> HIDE DEF freed
<1>5. call = << >>
  BY DEF Dispose, Idle
<1>6. Typed'
  BY <1>4 DEF CInv, Typed
<1>7. Allocated'
  BY <1>4, <1>5 DEF CInv, Allocated, Running, NoLocals, Unset
<1>8. Held'
  <2>1. \A s \in LocalSlots : local'[s] = Unset'
    BY <1>4, <1>5 DEF CInv, Allocated, NoLocals, Unset
  <2>2. \A s \in ContextSlots, r \in LocalSlots : ctx'[s] # local'[r]
    BY <1>4 DEF CInv, Held
  <2>3. ~Running' /\ available'
    BY <1>4, <1>5 DEF Running
  <2> QED BY <2>1, <2>2, <2>3 DEF Held
<1> QED BY <1>4, <1>6, <1>7, <1>8 DEF CInv, FreedOnce, UndefinedNeedsApiFailure

\* One more step of a function is done.
LEMMA OneMoreStep ==
  ASSUME Typed, Running, at <= Len(Steps), NEW s
  PROVE  SetBefore(Head(call), at + 1, s) <=>
           SetBefore(Head(call), at, s) \/ (Steps[at].kind = "alloc" /\ Steps[at].slot = s)
<1>1. at \in Nat \ {0}
  BY DEF Typed
<1>2. \A i : i \in 1 .. ((at + 1) - 1) <=> i \in 1 .. (at - 1) \/ i = at
  BY <1>1
<1> QED BY <1>2 DEF SetBefore, Steps

\* A fresh handle goes to one slot.
LEMMA AllocateKeeps ==
  ASSUME CInv, Allocate
  PROVE  CInv'
<1> USE CryptoHandlesAssumption
<1> DEFINE slot == Steps[at].slot
<1>1. PICK h \in (1 .. Pool) \ live :
        /\ live' = live \cup {h}
        /\ IF slot \in ContextSlots
           THEN ctx' = [ctx EXCEPT ![slot] = h] /\ UNCHANGED local
           ELSE local' = [local EXCEPT ![slot] = h] /\ UNCHANGED ctx
  BY DEF Allocate
<1>2. Running /\ at <= Len(Steps) /\ Steps[at].kind = "alloc"
  BY DEF Allocate, InStep
<1>3. at' = at + 1 /\ UNCHANGED <<available, call, completed, failed, apiFailed, faults>>
  BY DEF Allocate
<1>4. /\ WellFormed(Head(call)) /\ Steps \in Seq(StepKinds) /\ Len(Steps) \in Nat
      /\ Steps[at] \in StepKinds
  BY <1>2, RunningFunction DEF CInv
<1>5. slot \in ContextSlots \cup LocalSlots /\ ContextSlots \cap LocalSlots = {}
  <2>1. at \in 1 .. Len(Steps)
    BY <1>2, <1>4 DEF CInv, Typed
  <2>2. slot # "none"
    BY <2>1, <1>2, <1>4 DEF WellFormed, Steps
  <2>3. slot \in Slots
    BY <1>4 DEF StepKinds
  <2> QED BY <2>2, <2>3 DEF Slots, ContextSlots, LocalSlots
<1>6. Running' /\ Steps' = Steps /\ Head(call)' = Head(call)
  BY <1>2, <1>3 DEF Running, Steps
<1>7. \A s : SetBefore(Head(call), at', s) <=> SetBefore(Head(call), at, s) \/ slot = s
  <2>1. ASSUME NEW s PROVE SetBefore(Head(call), at', s) <=> SetBefore(Head(call), at, s) \/ slot = s
    BY <1>2, <1>3, OneMoreStep DEF CInv
  <2> QED BY <2>1
<1> HIDE DEF slot
<1>8. h # Unset /\ h # Null
  BY DEF Unset, Null
<1>9. CASE slot \in ContextSlots
  <2>1. ctx' = [ctx EXCEPT ![slot] = h] /\ local' = local /\ slot \notin LocalSlots
    BY <1>1, <1>5, <1>9
  <2>2. Typed'
    <3>1. ctx' \in [ContextSlots -> 0 .. Pool]
      BY <2>1, <1>9 DEF CInv, Typed
    <3> QED BY <3>1, <2>1, <1>1, <1>3 DEF CInv, Typed
  <2>3. Allocated'
    <3>1. \A s \in LocalSlots : local'[s] # Unset <=> SetBefore(Head(call), at', s)
      BY <2>1, <1>2, <1>7 DEF CInv, Allocated
    <3>2. at' <= Len(Steps) + 1
      BY <1>2, <1>3, <1>4 DEF CInv, Typed
    <3>3. Unset' = Unset
      BY DEF Unset
    <3> QED BY <3>1, <3>2, <3>3, <1>6 DEF Allocated, Running
  <2>4. Held'
    <3>1. \A s \in ContextSlots : ctx'[s] = h \/ ctx'[s] = ctx[s]
      BY <2>1, <1>9 DEF CInv, Typed
    <3>2. \A r \in LocalSlots : local[r] # h
      BY <1>8 DEF CInv, Held
    <3>3. \A s \in ContextSlots, r \in LocalSlots : ctx'[s] # local'[r]
      BY <3>1, <3>2, <2>1 DEF CInv, Held
    <3>4. \A s \in ContextSlots : ctx'[s] # Null => ctx'[s] \in live'
      BY <3>1, <1>1, <1>2 DEF CInv, Held
    <3> QED BY <3>3, <3>4, <2>1, <1>1 DEF CInv, Held, Unset, Null
  <2> QED BY <2>2, <2>3, <2>4, <1>3 DEF CInv, FreedOnce, UndefinedNeedsApiFailure
<1>10. CASE slot \in LocalSlots
  <2>1. local' = [local EXCEPT ![slot] = h] /\ ctx' = ctx
    BY <1>1, <1>5, <1>10
  <2>0. \A s \in LocalSlots : local'[s] = IF s = slot THEN h ELSE local[s]
    BY <2>1, <1>10 DEF CInv, Typed
  <2>2. Typed'
    <3>1. local' \in [LocalSlots -> 1 .. (Pool + 1)]
      BY <2>1, <1>10 DEF CInv, Typed
    <3> QED BY <3>1, <2>1, <1>1, <1>3 DEF CInv, Typed
  <2>3. Allocated'
    <3>1. \A s \in LocalSlots : local[s] # Unset <=> SetBefore(Head(call), at, s)
      BY <1>2 DEF CInv, Allocated
    <3>2. \A s \in LocalSlots : local'[s] # Unset <=> SetBefore(Head(call), at', s)
      BY <3>1, <2>0, <1>8, <1>7
    <3>3. at' <= Len(Steps) + 1
      BY <1>2, <1>3, <1>4 DEF CInv, Typed
    <3>4. Unset' = Unset
      BY DEF Unset
    <3> QED BY <3>2, <3>3, <3>4, <1>6 DEF Allocated, Running
  <2>4. Held'
    <3>2. \A s \in ContextSlots : ctx[s] # h
      BY <1>8, <1>2 DEF CInv, Held
    <3>3. \A s \in ContextSlots, r \in LocalSlots : ctx'[s] # local'[r]
      BY <3>2, <2>0, <2>1 DEF CInv, Held
    <3>4. \A s \in ContextSlots : ctx'[s] # Null => ctx'[s] \in live'
      BY <2>1, <1>1, <1>2 DEF CInv, Held
    <3>5. \A s \in LocalSlots : local'[s] # Unset => local'[s] \in live'
      BY <2>0, <1>1 DEF CInv, Held
    <3> QED BY <3>3, <3>4, <3>5 DEF Held, Unset, Null
  <2> QED BY <2>2, <2>3, <2>4, <1>3 DEF CInv, FreedOnce, UndefinedNeedsApiFailure
<1> QED BY <1>5, <1>9, <1>10

\* A step without handles.
LEMMA SucceedKeeps ==
  ASSUME CInv, Succeed
  PROVE  CInv'
<1>1. Running /\ at <= Len(Steps) /\ Steps[at].kind # "alloc"
  BY DEF Succeed, InStep
<1>2. at' = at + 1 /\ UNCHANGED <<available, ctx, local, call, live, completed, failed, apiFailed, faults>>
  BY DEF Succeed
<1>3. Len(Steps) \in Nat
  BY <1>1, RunningFunction DEF CInv
<1>4. \A s : SetBefore(Head(call), at', s) <=> SetBefore(Head(call), at, s)
  <2>1. ASSUME NEW s PROVE SetBefore(Head(call), at', s) <=> SetBefore(Head(call), at, s)
    BY <1>1, <1>2, OneMoreStep DEF CInv
  <2> QED BY <2>1
<1>5. Typed'
  BY <1>2 DEF CInv, Typed
<1>6. Allocated'
  <2>1. \A s \in LocalSlots : local[s] # Unset <=> SetBefore(Head(call), at, s)
    BY <1>1 DEF CInv, Allocated
  <2>2. \A s \in LocalSlots : local'[s] # Unset' <=> SetBefore(Head(call)', at', s)
    BY <2>1, <1>2, <1>4 DEF Unset
  <2>3. at' <= Len(Steps)' + 1 /\ Running'
    BY <1>1, <1>2, <1>3 DEF CInv, Typed, Steps, Running
  <2> QED BY <2>2, <2>3 DEF Allocated, Running
<1>7. Held'
  BY <1>2 DEF CInv, Held, Unset, Null, Running
<1> QED BY <1>2, <1>5, <1>6, <1>7 DEF CInv, FreedOnce, UndefinedNeedsApiFailure

\* The call ends or goes on with its next function, without local handles.
LEMMA ReturnKeeps ==
  ASSUME Typed, Running, NEW ok \in BOOLEAN, Return(ok)
  PROVE  /\ call' \in Seq(Functions) /\ at' = 1 /\ local' = NoLocals
         /\ available' \in BOOLEAN /\ completed' \in Nat /\ failed' \in Nat
         /\ ~available' \/ Running' => ~available \/ Running
<1>1. Tail(call) \in Seq(Functions)
  BY RunningFunction
<1>2. call' = (IF ok THEN Tail(call) ELSE << >>) /\ at' = 1 /\ local' = NoLocals
  BY DEF Return
<1>3. << >> \in Seq(Functions)
  OBVIOUS
<1>4. call' \in Seq(Functions)
  BY <1>1, <1>2, <1>3
<1>5. available' \in BOOLEAN
  BY Zenon DEF Return, Typed
<1>6. completed' \in Nat /\ failed' \in Nat
  BY DEF Return, Typed
<1> QED BY <1>2, <1>4, <1>5, <1>6

\* Where a function ends, its own handles that were freed are gone, and no other.
LEMMA EndKeeps ==
  ASSUME CInv, Running, NEW ok \in BOOLEAN, Return(ok), UNCHANGED ctx,
         NEW freed, freed \subseteq {local[s] : s \in LocalSlots}, live' = live \ freed,
         faults' = faults \cup BadFrees(freed),
         apiFailed' \in BOOLEAN, apiFailed => apiFailed', Unset \in freed => apiFailed'
  PROVE  CInv'
<1> USE CryptoHandlesAssumption
<1>1. /\ call' \in Seq(Functions) /\ at' = 1 /\ local' = NoLocals
      /\ available' \in BOOLEAN /\ completed' \in Nat /\ failed' \in Nat
  BY ReturnKeeps DEF CInv
<1>2. freed \subseteq live \cup {Unset}
  BY DEF CInv, Held
<1>3. faults' = faults \cup (IF Unset \in freed THEN {"undefined"} ELSE {})
  BY <1>2 DEF BadFrees
<1>4. \A s \in LocalSlots : local'[s] = Unset
  BY <1>1 DEF NoLocals
<1>5. Typed'
  <2>1. ctx' \in [ContextSlots -> 0 .. Pool] /\ live' \subseteq 1 .. Pool
    BY DEF CInv, Typed
  <2>2. local' \in [LocalSlots -> 1 .. (Pool + 1)]
    BY <1>1 DEF NoLocals, Unset
  <2>3. faults' \subseteq {"undefined", "freed_twice"}
    BY <1>3 DEF CInv, Typed
  <2>4. at' \in Nat \ {0}
    BY <1>1
  <2> QED BY <1>1, <2>1, <2>2, <2>3, <2>4 DEF Typed
<1>6. Allocated'
  <2>1. (call = << >> => local = NoLocals)'
    BY <1>1 DEF NoLocals, Unset
  <2>2. ASSUME Running' PROVE Len(Steps)' \in Nat
    <3>1. call' # << >>
      BY <2>2 DEF Running
    <3>2. Head(call') \in Functions
      BY <3>1, <1>1, HeadTailProperties
    <3>3. Head(call').steps \in Seq(StepKinds)
      BY <3>2, FunctionsWellFormed DEF WellFormed
    <3> QED BY <3>3, LenProperties DEF Steps
  <2>3. \A s : ~SetBefore(Head(call)', at', s)
    BY <1>1 DEF SetBefore
  <2>4. Running' => at' <= Len(Steps)' + 1
    BY <1>1, <2>2
  <2> QED BY <1>4, <2>1, <2>3, <2>4 DEF Allocated, Unset
<1>7. Held'
  <2>1. \A s \in ContextSlots, r \in LocalSlots : ctx'[s] # local'[r]
    BY <1>4 DEF CInv, Typed, Unset
  <2>2. \A s \in ContextSlots : ctx[s] # Null => ctx[s] \in live
    BY DEF CInv, Held
  <2>3. \A s \in ContextSlots : ctx[s] \notin freed
    BY DEF CInv, Held
  <2>4. \A s \in ContextSlots : ctx'[s] # Null => ctx'[s] \in live'
    BY <2>2, <2>3
  <2> QED BY <1>4, <2>1, <2>4 DEF Held, Unset, Null
<1>8. FreedOnce'
  BY <1>3 DEF CInv, FreedOnce
<1>9. UndefinedNeedsApiFailure'
  BY <1>3 DEF CInv, UndefinedNeedsApiFailure
<1> QED BY <1>5, <1>6, <1>7, <1>8, <1>9 DEF CInv

\* The handles freed at the label out, and when one of them was never set.
LEMMA OutFrees ==
  ASSUME CInv, Running
  PROVE  /\ {local[Head(call).frees[i]] : i \in 1 .. Len(Head(call).frees)}
              \subseteq {local[s] : s \in LocalSlots}
         /\ at > Len(Steps) \/ (at <= Len(Steps) /\ Steps[at].kind = "input" /\ Steps[at].exit = "out") =>
              Unset \notin {local[Head(call).frees[i]] : i \in 1 .. Len(Head(call).frees)}
<1> DEFINE frees == Head(call).frees
<1>1. WellFormed(Head(call)) /\ Len(Steps) \in Nat
  BY RunningFunction DEF CInv
<1>2. frees \in Seq(LocalSlots)
  BY <1>1 DEF WellFormed
<1>3. \A i \in 1 .. Len(frees) : frees[i] \in LocalSlots
  BY <1>2, ElementOfSeq
<1>4. \A s \in LocalSlots : local[s] # Unset <=> SetBefore(Head(call), at, s)
  BY DEF CInv, Allocated
<1>5. at \in 1 .. (Len(Steps) + 1)
  BY <1>1 DEF CInv, Typed, Allocated
<1>6. ASSUME at > Len(Steps)
      PROVE  \A i \in 1 .. Len(frees) : local[frees[i]] # Unset
  <2>1. at = Len(Steps) + 1
    BY <1>1, <1>5, <1>6
  <2>2. \A i \in 1 .. Len(frees) : SetBefore(Head(call), at, frees[i])
    BY <2>1, <1>1 DEF WellFormed, Steps
  <2> QED BY <2>2, <1>3, <1>4
<1>7. ASSUME at <= Len(Steps), Steps[at].kind = "input", Steps[at].exit = "out"
      PROVE  \A i \in 1 .. Len(frees) : local[frees[i]] # Unset
  <2>1. at \in 1 .. Len(Steps)
    BY <1>1, <1>5, <1>7
  <2>2. \A i \in 1 .. Len(frees) : SetBefore(Head(call), at, frees[i])
    BY <2>1, <1>1, <1>7 DEF WellFormed, Steps
  <2> QED BY <2>2, <1>3, <1>4
<1>8. {local[frees[i]] : i \in 1 .. Len(frees)} \subseteq {local[s] : s \in LocalSlots}
  BY <1>3
<1> QED BY <1>6, <1>7, <1>8

\* A function that ran to its end has set every handle it frees.
LEMMA LeaveKeeps ==
  ASSUME CInv, Leave
  PROVE  CInv'
<1> DEFINE freed == {local[Head(call).frees[i]] : i \in 1 .. Len(Head(call).frees)}
<1>1. /\ Running /\ at > Len(Steps) /\ Return(TRUE) /\ live' = live \ freed
      /\ faults' = faults \cup BadFrees(freed) /\ UNCHANGED <<ctx, apiFailed>>
  BY DEF Leave, Out
<1>2. freed \subseteq {local[s] : s \in LocalSlots} /\ Unset \notin freed
  BY <1>1, OutFrees
<1>3. apiFailed' \in BOOLEAN /\ (apiFailed => apiFailed')
  BY <1>1, Zenon DEF CInv, Typed
<1> HIDE DEF freed
<1> QED BY <1>1, <1>2, <1>3, EndKeeps

\* A function that fails frees a handle it has not set only after a failure of the API.
LEMMA FailKeeps ==
  ASSUME CInv, Fail
  PROVE  CInv'
<1> DEFINE freed == {local[Head(call).frees[i]] : i \in 1 .. Len(Head(call).frees)}
<1>1. Running /\ at <= Len(Steps) /\ UNCHANGED ctx
  BY DEF Fail, InStep
<1>2. apiFailed' \in BOOLEAN /\ (apiFailed => apiFailed') /\ (~InStep("input") => apiFailed')
  BY Zenon DEF Fail, CInv, Typed
<1>3. InStep("input") => Steps[at].kind = "input"
  BY DEF InStep
<1>4. CASE Steps[at].exit = "out"
  <2>1. Return(FALSE) /\ live' = live \ freed /\ faults' = faults \cup BadFrees(freed)
    BY <1>4 DEF Fail, Out
  <2>2. freed \subseteq {local[s] : s \in LocalSlots}
    BY <1>1, OutFrees
  <2>3. Unset \in freed => apiFailed'
    BY <1>1, <1>2, <1>3, <1>4, OutFrees
  <2> HIDE DEF freed
  <2> QED BY <1>1, <1>2, <2>1, <2>2, <2>3, EndKeeps
<1>5. CASE Steps[at].exit # "out"
  <2> DEFINE none == {}
  <2>1. Return(FALSE) /\ live' = live \ none
    BY <1>5 DEF Fail
  <2>2. BadFrees(none) = {}
    BY DEF BadFrees
  <2>3. faults' = faults \cup BadFrees(none)
    BY <1>5, <2>2 DEF Fail
  <2>4. none \subseteq {local[s] : s \in LocalSlots} /\ Unset \notin none
    OBVIOUS
  <2> HIDE DEF none
  <2> QED BY <1>1, <1>2, <2>1, <2>3, <2>4, EndKeeps
<1> QED BY <1>4, <1>5

\* Every step keeps the invariant.
LEMMA StepKeeps == CInv /\ [Next]_vars => CInv'
<1> SUFFICES ASSUME CInv, [Next]_vars PROVE CInv'
  OBVIOUS
<1>1. CASE Next
  BY <1>1, CallsKeep, DisposeKeeps, AllocateKeeps, SucceedKeeps, LeaveKeeps, FailKeeps DEF Next
<1>2. CASE UNCHANGED vars
  <2>1. Typed' /\ FreedOnce' /\ UndefinedNeedsApiFailure'
    BY <1>2 DEF vars, CInv, Typed, FreedOnce, UndefinedNeedsApiFailure
  <2>2. Allocated'
    BY <1>2 DEF vars, CInv, Allocated, Running, Steps, NoLocals, Unset, SetBefore
  <2>3. Held'
    BY <1>2 DEF vars, CInv, Held, Running, Unset, Null
  <2> QED BY <2>1, <2>2, <2>3 DEF CInv
<1> QED BY <1>1, <1>2

\* The invariant holds.
THEOREM HandlesInvariant == Spec => []CInv
  BY InitInvariant, StepKeeps, PTL DEF Spec

\* No handle is freed twice or after it went to somebody else: local handles are reset with
\* each function and never those of the context, and the stale handles that dispose or a
\* failed handshake leave in the context are zeroed before they are used again.
THEOREM HandlesFreedOnce == Spec => []FreedOnce
<1>1. CInv => FreedOnce
  BY DEF CInv
<1> QED BY <1>1, HandlesInvariant, PTL

\* Whatever the verifier or the application sends, a handle that was never set is freed only
\* after an allocation or another call of the API has failed.
THEOREM OnlyApiFailuresUndefine == Spec => []UndefinedNeedsApiFailure
<1>1. CInv => UndefinedNeedsApiFailure
  BY DEF CInv
<1> QED BY <1>1, HandlesInvariant, PTL

------------------------------------------------------------------------------
(* What a handshake loses                                                    *)

\* The functions of a handshake run in their order, n of them being left.
OtherFunctions == {prepare_msg2, receive_msg3, decrypt_msg3}
Placed ==
  /\ available => /\ Len(call) <= 9
                  /\ \A i \in 1 .. Len(call) : call[i] = ra_net_handshake[9 - Len(call) + i]
  /\ ~available => call \in Seq(OtherFunctions)

\* Where each handle of the context is allocated: with how many functions left, and the step.
Turn  == [keypair |-> 9, verifier_key |-> 7, kdk |-> 5, mac_key |-> 4, session_key |-> 3]
Place == [keypair |-> 1, verifier_key |-> 1, kdk |-> 9, mac_key |-> 5, session_key |-> 5]

\* Handles are overwritten in two places only: no handle of the context is set before its
\* turn, and no local handle is another's.
Due(s) == Len(call) > Turn[s] \/ (Len(call) = Turn[s] /\ at <= Place[s])
Apart ==
  /\ \A s, r \in LocalSlots : s # r /\ local[s] # Unset => local[s] # local[r]
  /\ available /\ Running => \A s \in ContextSlots : Due(s) => ctx[s] = Null

\* Live handles that nothing points to; and those this handshake has made, with n functions
\* left and at step i: the digest's when the signature is verified, the key agreement's when
\* the MAC is computed.
CtxHandles   == {ctx[s] : s \in ContextSlots}
LocalHandles == {local[s] : s \in LocalSlots}
Orphans == live \ (CtxHandles \cup LocalHandles)
Extra(n, i) ==
  IF n > 6 \/ (n = 6 /\ i <= 3) THEN 0 ELSE IF n = 6 \/ (n = 5 /\ i <= 7) THEN 1 ELSE 2
Spent == IF available /\ Running THEN Extra(Len(call), at) ELSE 0

Counts ==
  "undefined" \notin faults =>
    /\ Cardinality(Orphans) \in (2 * completed + Spent) .. (2 * completed + 8 * failed + Spent)
    /\ available /\ ~Running => Cardinality(live) <= 2 * completed + 8 * failed

LInv == CInv /\ Placed /\ Apart /\ Counts

\* The function f of the handshake, with n functions left, allocates what is said above.
InPlace(f, n) ==
  /\ \A i \in 1 .. Len(f.steps) : f.steps[i].slot \in ContextSlots =>
       n = Turn[f.steps[i].slot] /\ i = Place[f.steps[i].slot]
  /\ \A i \in 1 .. Len(f.steps) :
       Extra(n, i + 1) =
         IF f.steps[i].slot \in LocalSlots /\ SetBefore(f, i, f.steps[i].slot)
         THEN Extra(n, i) + 1 ELSE Extra(n, i)
  /\ \A i \in 1 .. Len(f.steps) : f.steps[i].exit = "return" =>
       ~SetBefore(f, i, "key") /\ (Extra(n, i) = 2 => ~SetBefore(f, i, "secret"))
  /\ Extra(n, Len(f.steps) + 1) = IF n = 1 THEN 2 ELSE Extra(n - 1, 1)

\* The nine functions, one by one.
LEMMA HandshakeInPlace == \A n \in 1 .. 9 : InPlace(ra_net_handshake[10 - n], n)
<1> USE DEF Function, Alloc, Api, Input, SetBefore, ContextSlots, LocalSlots, Turn, Place, Extra, InPlace
<1>1. InPlace(generate_ecdh_keypair, 9)
  BY DEF generate_ecdh_keypair
<1>2. InPlace(receive_msg1, 8)
  BY DEF receive_msg1
<1>3. InPlace(import_verifier_attestation_key, 7)
  BY DEF import_verifier_attestation_key
<1>4. InPlace(verify_ecdh_public_key_signature, 6)
  BY DEF verify_ecdh_public_key_signature
<1>5. InPlace(derive_shared_key, 5)
  BY DEF derive_shared_key
<1>6. InPlace(derive_shared_mac_key("mac_key"), 4)
  BY DEF derive_shared_mac_key
<1>7. InPlace(derive_shared_mac_key("session_key"), 3)
  BY DEF derive_shared_mac_key
<1>8. InPlace(verify_msg1_mac, 2)
  BY DEF verify_msg1_mac
<1>9. InPlace(generate_anchor, 1)
  BY DEF generate_anchor
<1> HIDE DEF InPlace
<1>10. /\ ra_net_handshake[1] = generate_ecdh_keypair /\ ra_net_handshake[2] = receive_msg1
       /\ ra_net_handshake[3] = import_verifier_attestation_key
       /\ ra_net_handshake[4] = verify_ecdh_public_key_signature
       /\ ra_net_handshake[5] = derive_shared_key
       /\ ra_net_handshake[6] = derive_shared_mac_key("mac_key")
       /\ ra_net_handshake[7] = derive_shared_mac_key("session_key")
       /\ ra_net_handshake[8] = verify_msg1_mac /\ ra_net_handshake[9] = generate_anchor
  BY DEF ra_net_handshake
<1> QED BY <1>1, <1>2, <1>3, <1>4, <1>5, <1>6, <1>7, <1>8, <1>9, <1>10

\* send_quote and receive_data allocate one handle, once, and free it.
Simple(f) ==
  /\ \A i \in 1 .. Len(f.steps) : f.steps[i].slot \notin ContextSlots
  /\ \A i \in 1 .. Len(f.steps) : f.steps[i].slot \in LocalSlots => ~SetBefore(f, i, f.steps[i].slot)
  /\ \A i \in 1 .. Len(f.steps) : f.steps[i].exit = "return" => \A s \in LocalSlots : ~SetBefore(f, i, s)

\* The three of them.
LEMMA OthersSimple == \A f \in OtherFunctions : Simple(f)
<1> USE DEF Function, Alloc, Api, Input, SetBefore, ContextSlots, LocalSlots, Simple
<1>1. Simple(prepare_msg2)
  BY DEF prepare_msg2
<1>2. Simple(receive_msg3)
  BY DEF receive_msg3
<1>3. Simple(decrypt_msg3)
  BY DEF decrypt_msg3
<1> QED BY <1>1, <1>2, <1>3 DEF OtherFunctions

\* The place of the function that runs.
LEMMA RunningInPlace ==
  ASSUME LInv, Running
  PROVE  /\ Len(call) \in Nat \ {0}
         /\ available => Len(call) \in 1 .. 9 /\ InPlace(Head(call), Len(call))
         /\ ~available => Simple(Head(call))
<1>1. call \in Seq(Functions) /\ call # << >>
  BY DEF LInv, CInv, Typed, Running
<1>2. Len(call) \in Nat \ {0}
  BY <1>1, EmptySeq
<1>3. Head(call) = call[1]
  BY <1>1
<1>4. ASSUME available PROVE Len(call) \in 1 .. 9 /\ InPlace(Head(call), Len(call))
  <2>0. Len(call) <= 9
    BY <1>4, Zenon DEF LInv, Placed
  <2>1. Len(call) \in 1 .. 9
    <3> DEFINE n == Len(call)
    <3>1. n \in Nat \ {0} /\ n <= 9
      BY <1>2, <2>0
    <3> HIDE DEF n
    <3>2. n \in 1 .. 9
      BY <3>1
    <3> QED BY <3>2 DEF n
  <2>2. call[1] = ra_net_handshake[9 - Len(call) + 1]
    BY <1>4, <2>1 DEF LInv, Placed
  <2>3. 9 - Len(call) + 1 = 10 - Len(call)
    BY <2>1
  <2> QED BY <1>3, <2>1, <2>2, <2>3, HandshakeInPlace
<1>5. ASSUME ~available PROVE Simple(Head(call))
  <2>1. call \in Seq(OtherFunctions)
    BY <1>5 DEF LInv, Placed
  <2>2. Head(call) \in OtherFunctions
    BY <2>1, <1>1, HeadTailProperties
  <2> QED BY <2>2, OthersSimple
<1> QED BY <1>2, <1>4, <1>5

\* There are finitely many handles.
LEMMA Finite ==
  ASSUME Typed
  PROVE  /\ IsFiniteSet(live) /\ IsFiniteSet(Orphans)
         /\ Cardinality(live) \in Nat /\ Cardinality(Orphans) \in Nat
         /\ Cardinality(Orphans) <= Cardinality(live)
<1>1. IsFiniteSet(1 .. Pool)
  BY CryptoHandlesAssumption, FS_Interval
<1>2. IsFiniteSet(live)
  BY <1>1, FS_Subset DEF Typed
<1>3. Orphans \in SUBSET live
  BY DEF Orphans
<1>4. IsFiniteSet(Orphans) /\ Cardinality(Orphans) <= Cardinality(live)
  BY <1>2, <1>3, FS_Subset
<1> QED BY <1>2, <1>4, FS_CardinalityType

\* A few more elements.
LEMMA OneMore ==
  ASSUME NEW A, IsFiniteSet(A), NEW x
  PROVE  IsFiniteSet(A \cup {x}) /\ Cardinality(A \cup {x}) \in Nat
         /\ Cardinality(A) \in Nat /\ Cardinality(A \cup {x}) <= Cardinality(A) + 1
<1>1. IsFiniteSet(A \cup {x}) /\ Cardinality(A \cup {x}) = IF x \in A THEN Cardinality(A) ELSE Cardinality(A) + 1
  BY FS_AddElement
<1>2. Cardinality(A) \in Nat /\ Cardinality(A \cup {x}) \in Nat
  BY <1>1, FS_CardinalityType
<1> QED BY <1>1, <1>2

\* And five.
LEMMA FiveMore ==
  ASSUME NEW A, IsFiniteSet(A), NEW a, NEW b, NEW c, NEW d, NEW e
  PROVE  IsFiniteSet(A \cup {a, b, c, d, e}) /\ Cardinality(A \cup {a, b, c, d, e}) \in Nat
         /\ Cardinality(A) \in Nat /\ Cardinality(A \cup {a, b, c, d, e}) <= Cardinality(A) + 5
<1> DEFINE A1 == A \cup {a}
           A2 == A1 \cup {b}
           A3 == A2 \cup {c}
           A4 == A3 \cup {d}
           A5 == A4 \cup {e}
<1>0. A \cup {a, b, c, d, e} = A5
  OBVIOUS
<1>1. IsFiniteSet(A1) /\ Cardinality(A1) \in Nat /\ Cardinality(A) \in Nat /\ Cardinality(A1) <= Cardinality(A) + 1
  BY OneMore
<1> HIDE DEF A1
<1>2. IsFiniteSet(A2) /\ Cardinality(A2) \in Nat /\ Cardinality(A2) <= Cardinality(A1) + 1
  BY <1>1, OneMore
<1> HIDE DEF A2
<1>3. IsFiniteSet(A3) /\ Cardinality(A3) \in Nat /\ Cardinality(A3) <= Cardinality(A2) + 1
  BY <1>2, OneMore
<1> HIDE DEF A3
<1>4. IsFiniteSet(A4) /\ Cardinality(A4) \in Nat /\ Cardinality(A4) <= Cardinality(A3) + 1
  BY <1>3, OneMore
<1> HIDE DEF A4
<1>5. IsFiniteSet(A5) /\ Cardinality(A5) \in Nat /\ Cardinality(A5) <= Cardinality(A4) + 1
  BY <1>4, OneMore
<1> HIDE DEF A5
<1>6. Cardinality(A5) <= Cardinality(A) + 5
  BY <1>1, <1>2, <1>3, <1>4, <1>5
<1> QED BY <1>0, <1>1, <1>5, <1>6

\* The handles of the context are at most five.
LEMMA ContextIsFive ==
  ASSUME NEW A, IsFiniteSet(A)
  PROVE  /\ IsFiniteSet(A \cup CtxHandles) /\ Cardinality(A \cup CtxHandles) \in Nat
         /\ Cardinality(A) \in Nat /\ Cardinality(A \cup CtxHandles) <= Cardinality(A) + 5
<1>1. CtxHandles = {ctx["keypair"], ctx["verifier_key"], ctx["kdk"], ctx["mac_key"], ctx["session_key"]}
  BY DEF CtxHandles, ContextSlots
<1> HIDE DEF CtxHandles
<1> QED BY <1>1, FiveMore

\* Idle, nothing is held but by the context.
LEMMA IdleLocals ==
  ASSUME CInv, call = << >>
  PROVE  LocalHandles = {Unset} /\ Orphans = live \ CtxHandles
<1>1. local = NoLocals
  BY DEF CInv, Allocated
<1>2. LocalHandles = {Unset}
  BY <1>1 DEF NoLocals, LocalHandles, LocalSlots
<1>3. Unset \notin live
  BY CryptoHandlesAssumption DEF CInv, Typed, Unset
<1> QED BY <1>2, <1>3 DEF Orphans

\* A call begins: what a failed handshake left in the context is lost now.
LEMMA CallsKeepLoss ==
  ASSUME LInv, CInv', Handshake \/ SendQuote \/ ReceiveData
  PROVE  LInv'
<1>1. call = << >> /\ "undefined" \notin faults /\ ~Running
  BY DEF Handshake, SendQuote, ReceiveData, Idle, Running
<1>2. Orphans = live \ CtxHandles /\ LocalHandles = {Unset}
  BY <1>1, IdleLocals DEF LInv
<1>3. local' = NoLocals /\ at' = 1
  BY DEF Handshake, SendQuote, ReceiveData, Enter
<1>4. LocalHandles' = {Unset}
  BY <1>3 DEF LocalHandles, NoLocals, LocalSlots, Unset
<1>5. \A s \in LocalSlots : local'[s] = Unset'
  BY <1>3 DEF NoLocals, Unset
<1>6. Unset \notin live /\ Null \notin live
  BY CryptoHandlesAssumption DEF LInv, CInv, Typed, Unset, Null
<1>7. UNCHANGED <<available, live, completed, failed, faults>>
  BY DEF Handshake, SendQuote, ReceiveData
<1>8. /\ Cardinality(live) \in Nat /\ Cardinality(Orphans) \in Nat
      /\ Cardinality(Orphans) <= Cardinality(live)
  BY Finite DEF LInv, CInv
<1>9. Spent = 0
  BY <1>1 DEF Spent
<1>10. completed \in Nat /\ failed \in Nat
  BY DEF LInv, CInv, Typed
<1>11. /\ 2 * completed <= Cardinality(Orphans) /\ Cardinality(Orphans) <= 2 * completed + 8 * failed
       /\ available => Cardinality(live) <= 2 * completed + 8 * failed
  BY <1>1, <1>8, <1>9, <1>10 DEF LInv, Counts
<1>12. CASE Handshake
  <2>1. available /\ available' /\ call' = ra_net_handshake /\ ctx' = [s \in ContextSlots |-> Null]
    BY <1>12 DEF Handshake, Enter
  <2>2. Len(call') = 9
    BY <2>1, CallsAreFunctions
  <2>3. Placed'
    <3>1. \A i \in 1 .. 9 : 9 - 9 + i = i
      OBVIOUS
    <3>2. \A i \in 1 .. Len(call') : call'[i] = ra_net_handshake[9 - Len(call') + i]
      BY <2>1, <2>2, <3>1
    <3> QED BY <2>1, <2>2, <3>2 DEF Placed
  <2>4. Apart'
    <3>1. \A s \in ContextSlots : ctx'[s] = Null'
      BY <2>1 DEF Null
    <3> QED BY <1>5, <3>1 DEF Apart
  <2>5. CtxHandles' = {Null}
    BY <2>1 DEF CtxHandles, ContextSlots
  <2>6. Orphans' = live
    BY <1>4, <1>6, <1>7, <2>5 DEF Orphans
  <2>7. Spent' = 0
    BY <2>1, <2>2, <1>3 DEF Spent, Extra
  <2>8. Running'
    BY <2>2 DEF Running
  <2>9. Counts'
    BY <1>7, <1>8, <1>10, <1>11, <2>1, <2>6, <2>7, <2>8 DEF Counts
  <2> QED BY <2>3, <2>4, <2>9 DEF LInv
<1>13. CASE SendQuote \/ ReceiveData
  <2>1. ~available /\ ~available' /\ ctx' = ctx
    BY <1>13, <1>7 DEF SendQuote, ReceiveData
  <2>2. call' \in Seq(OtherFunctions)
    <3>1. ra_net_send_quote \in Seq(OtherFunctions) /\ ra_net_receive_data \in Seq(OtherFunctions)
      BY DEF ra_net_send_quote, ra_net_receive_data, OtherFunctions
    <3> QED BY <3>1, <1>13 DEF SendQuote, ReceiveData, Enter
  <2>3. Placed' /\ Apart'
    BY <2>1, <2>2, <1>5 DEF Placed, Apart
  <2>4. Orphans' = Orphans
    BY <1>2, <1>4, <1>6, <1>7, <2>1 DEF Orphans, CtxHandles
  <2>5. Spent' = 0
    BY <2>1 DEF Spent
  <2>6. Counts'
    BY <1>7, <1>8, <1>10, <1>11, <2>1, <2>4, <2>5 DEF Counts
  <2> QED BY <2>3, <2>6 DEF LInv
<1> QED BY <1>12, <1>13

\* free_ra_context frees all of it.
LEMMA DisposeKeepsLoss ==
  ASSUME LInv, CInv', Dispose
  PROVE  LInv'
<1>1. call = << >> /\ "undefined" \notin faults /\ ~Running /\ ~available
  BY DEF Dispose, Idle, Running
<1>2. live' = live \ CtxHandles /\ available' /\ UNCHANGED <<ctx, local, call, at, completed, failed>>
  BY DEF Dispose, CtxHandles
<1>3. Orphans = live \ CtxHandles
  BY <1>1, IdleLocals DEF LInv
<1>4. Orphans' = Orphans /\ live' = Orphans
  BY <1>2, <1>3 DEF Orphans, CtxHandles, LocalHandles
<1>5. Spent = 0 /\ Spent' = 0
  BY <1>1, <1>2 DEF Spent, Running
<1>6. completed \in Nat /\ failed \in Nat /\ Cardinality(Orphans) \in Nat
  BY Finite DEF LInv, CInv, Typed
<1>7. Cardinality(Orphans) \in (2 * completed) .. (2 * completed + 8 * failed)
  BY <1>1, <1>5, <1>6 DEF LInv, Counts
<1>8. Counts'
  <2>1. /\ Cardinality(Orphans') \in (2 * completed' + Spent') .. (2 * completed' + 8 * failed' + Spent')
        /\ Cardinality(live') <= 2 * completed' + 8 * failed'
    <3>1. completed' = completed /\ failed' = failed /\ Orphans' = Orphans /\ live' = Orphans /\ Spent' = 0
      BY <1>2, <1>4, <1>5
    <3> HIDE DEF Orphans
    <3>2. 2 * completed + 0 = 2 * completed /\ 2 * completed + 8 * failed + 0 = 2 * completed + 8 * failed
      BY <1>6
    <3>3. Cardinality(Orphans) \in (2 * completed + 0) .. (2 * completed + 8 * failed + 0)
          /\ Cardinality(Orphans) <= 2 * completed + 8 * failed
      BY <1>6, <1>7, <3>2
    <3> QED BY <3>1, <3>3
  <2> QED BY <2>1, Zenon DEF Counts
<1>9. call' = << >> /\ ~Running'
  BY <1>1, <1>2 DEF Running
<1>10. Placed'
  BY <1>2, <1>9 DEF Placed
<1>11. Apart'
  BY <1>2, <1>9 DEF LInv, Apart, Unset
<1> QED BY <1>8, <1>10, <1>11 DEF LInv

\* What a step of a function adds to the loss.
LEMMA StepSpends ==
  ASSUME LInv, Running, at <= Len(Steps)
  PROVE  LET slot == Steps[at].slot
         IN  /\ slot \in ContextSlots => available /\ Len(call) = Turn[slot] /\ at = Place[slot]
             /\ slot \in LocalSlots /\ local[slot] # Unset => available
             /\ available => Extra(Len(call), at + 1) =
                  IF slot \in LocalSlots /\ local[slot] # Unset THEN Extra(Len(call), at) + 1
                                                                ELSE Extra(Len(call), at)
<1> DEFINE slot == Steps[at].slot
<1>1. Len(Steps) \in Nat
  BY RunningFunction DEF LInv, CInv
<1>2. at \in 1 .. Len(Steps)
  BY <1>1 DEF LInv, CInv, Typed
<1>3. slot \in LocalSlots => (local[slot] # Unset <=> SetBefore(Head(call), at, slot))
  BY DEF LInv, CInv, Allocated
<1>4. available \in BOOLEAN
  BY DEF LInv, CInv, Typed
<1>5. ASSUME available
      PROVE  /\ slot \in ContextSlots => Len(call) = Turn[slot] /\ at = Place[slot]
             /\ Extra(Len(call), at + 1) =
                  IF slot \in LocalSlots /\ SetBefore(Head(call), at, slot) THEN Extra(Len(call), at) + 1
                                                                            ELSE Extra(Len(call), at)
  <2>1. InPlace(Head(call), Len(call))
    BY <1>5, RunningInPlace
  <2> HIDE DEF Extra, SetBefore, Turn, Place, ContextSlots, LocalSlots
  <2> QED BY <2>1, <1>2 DEF InPlace, Steps
<1>6. ASSUME ~available
      PROVE  slot \notin ContextSlots /\ (slot \in LocalSlots => ~SetBefore(Head(call), at, slot))
  <2>1. Simple(Head(call))
    BY <1>6, RunningInPlace
  <2> QED BY <2>1, <1>2 DEF Simple, Steps
<1> HIDE DEF slot
<1>7. /\ slot \in ContextSlots => available /\ Len(call) = Turn[slot] /\ at = Place[slot]
      /\ slot \in LocalSlots /\ local[slot] # Unset => available
  BY <1>3, <1>5, <1>6
<1>8. available => Extra(Len(call), at + 1) =
                  IF slot \in LocalSlots /\ local[slot] # Unset THEN Extra(Len(call), at) + 1
                                                                ELSE Extra(Len(call), at)
  BY <1>3, <1>5
<1> QED BY <1>7, <1>8 DEF slot

\* The count follows the place when the function goes on.
LEMMA CountsMove ==
  ASSUME LInv, Running, Running', NEW d \in Nat, UNCHANGED <<available, completed, failed, faults>>,
         Spent' = Spent + d, Cardinality(Orphans') = Cardinality(Orphans) + d
  PROVE  Counts'
<1>1. completed \in Nat /\ failed \in Nat /\ Cardinality(Orphans) \in Nat
  BY Finite DEF LInv, CInv, Typed
<1>2. Spent \in Nat
  BY DEF Spent, Extra
<1>3. "undefined" \notin faults =>
        Cardinality(Orphans) \in (2 * completed + Spent) .. (2 * completed + 8 * failed + Spent)
  BY DEF LInv, Counts
<1>4. \A c, f, o, p, k \in Nat : o \in (2 * c + p) .. (2 * c + 8 * f + p) =>
        (o + k) \in (2 * c + (p + k)) .. (2 * c + 8 * f + (p + k))
  OBVIOUS
<1>5. "undefined" \notin faults =>
        Cardinality(Orphans) + d \in (2 * completed + (Spent + d)) .. (2 * completed + 8 * failed + (Spent + d))
  BY <1>1, <1>2, <1>3, <1>4
<1> QED BY <1>5 DEF Counts

\* A handle that is set again orphans the one that was there.
LEMMA AllocateKeepsLoss ==
  ASSUME LInv, CInv', Allocate
  PROVE  LInv'
<1> USE CryptoHandlesAssumption
<1> DEFINE slot == Steps[at].slot
<1>1. PICK h \in (1 .. Pool) \ live :
        /\ live' = live \cup {h}
        /\ IF slot \in ContextSlots
           THEN ctx' = [ctx EXCEPT ![slot] = h] /\ UNCHANGED local
           ELSE local' = [local EXCEPT ![slot] = h] /\ UNCHANGED ctx
  BY DEF Allocate
<1>2. Running /\ at <= Len(Steps) /\ Steps[at].kind = "alloc"
  BY DEF Allocate, InStep
<1>3. at' = at + 1 /\ UNCHANGED <<available, call, completed, failed, faults>>
  BY DEF Allocate
<1>4. slot \in ContextSlots \cup LocalSlots /\ ContextSlots \cap LocalSlots = {}
  <2>1. WellFormed(Head(call)) /\ Steps[at] \in StepKinds /\ Len(Steps) \in Nat
    BY <1>2, RunningFunction DEF LInv, CInv
  <2>2. at \in 1 .. Len(Steps)
    BY <1>2, <2>1 DEF LInv, CInv, Typed
  <2>3. slot # "none"
    BY <2>1, <2>2, <1>2 DEF WellFormed, Steps
  <2>4. slot \in Slots
    BY <2>1 DEF StepKinds
  <2> QED BY <2>3, <2>4 DEF Slots, ContextSlots, LocalSlots
<1>5. /\ slot \in ContextSlots => available /\ Len(call) = Turn[slot] /\ at = Place[slot]
      /\ slot \in LocalSlots /\ local[slot] # Unset => available
      /\ available => Extra(Len(call), at + 1) =
           IF slot \in LocalSlots /\ local[slot] # Unset THEN Extra(Len(call), at) + 1
                                                         ELSE Extra(Len(call), at)
  BY <1>2, StepSpends
<1> HIDE DEF slot
<1>6. Running'
  BY <1>2, <1>3 DEF Running
<1>7. h # Unset /\ h # Null /\ Unset \notin live /\ Null \notin live
  BY DEF Unset, Null, LInv, CInv, Typed
<1>8. Placed'
  BY <1>3 DEF LInv, Placed
<1>9. at \in Nat /\ \A s \in ContextSlots : Place[s] \in Nat
  BY DEF LInv, CInv, Typed, Place, ContextSlots
<1>10. \A s \in ContextSlots : Due(s)' => Due(s) /\ (Len(call) = Turn[s] => at < Place[s])
  BY <1>3, <1>9 DEF Due
<1>11. CASE slot \in ContextSlots
  <2>1. ctx' = [ctx EXCEPT ![slot] = h] /\ local' = local /\ slot \notin LocalSlots
    BY <1>1, <1>4, <1>11
  <2>2. \A s \in ContextSlots : ctx'[s] = IF s = slot THEN h ELSE ctx[s]
    BY <2>1, <1>11 DEF LInv, CInv, Typed
  <2>3. ctx[slot] = Null
    <3>1. Due(slot)
      BY <1>5, <1>9, <1>11 DEF Due
    <3> QED BY <3>1, <1>2, <1>5, <1>11 DEF LInv, Apart
  <2>4. Apart'
    <3>1. \A s \in ContextSlots : Due(s)' => s # slot
      BY <1>5, <1>9, <1>10, <1>11
    <3>2. \A s \in ContextSlots : Due(s) => ctx[s] = Null
      BY <1>2, <1>5, <1>11 DEF LInv, Apart
    <3>3. \A s \in ContextSlots : Due(s)' => ctx'[s] = Null'
      BY <3>1, <3>2, <2>2, <1>10 DEF Null
    <3> QED BY <3>3, <2>1 DEF LInv, Apart, Unset
  <2>5. Orphans' = Orphans
    <3>1. LocalHandles' = LocalHandles
      BY <2>1 DEF LocalHandles
    <3>2. h \in CtxHandles'
      BY <2>2, <1>11 DEF CtxHandles
    <3>3. \A x \in live : x \in CtxHandles' <=> x \in CtxHandles
      BY <2>2, <2>3, <1>7 DEF CtxHandles
    <3> QED BY <3>1, <3>2, <3>3, <1>1 DEF Orphans
  <2>6. Spent' = Spent + 0
    <3>1. Spent' = Extra(Len(call), at + 1) /\ Spent = Extra(Len(call), at)
      BY <1>2, <1>3, <1>5, <1>6, <1>11 DEF Spent
    <3>2. Spent' = Spent
      BY <3>1, <2>1, <1>5, <1>11
    <3> QED BY <3>1, <3>2 DEF Extra
  <2>7. Cardinality(Orphans') = Cardinality(Orphans) + 0
    <3>1. Cardinality(Orphans) \in Nat
      BY Finite DEF LInv, CInv
    <3> HIDE DEF Orphans
    <3> QED BY <3>1, <2>5
  <2>8. Counts'
    BY <1>2, <1>3, <1>6, <2>6, <2>7, CountsMove
  <2> QED BY <1>8, <2>4, <2>8 DEF LInv
<1>12. CASE slot \in LocalSlots
  <2>1. local' = [local EXCEPT ![slot] = h] /\ ctx' = ctx /\ slot \notin ContextSlots
    BY <1>1, <1>4, <1>12
  <2>2. \A s \in LocalSlots : local'[s] = IF s = slot THEN h ELSE local[s]
    BY <2>1, <1>12 DEF LInv, CInv, Typed
  <2>3. \A s \in LocalSlots : local[s] # h
    BY <1>7 DEF LInv, CInv, Held
  <2>4. Apart'
    <3>1. \A s, r \in LocalSlots : s # r /\ local'[s] # Unset' => local'[s] # local'[r]
      BY <2>2, <2>3 DEF LInv, Apart, Unset
    <3>2. \A s \in ContextSlots : Due(s)' => Due(s)
      BY <1>10
    <3>3. available' /\ Running' => \A s \in ContextSlots : Due(s)' => ctx'[s] = Null'
      BY <3>2, <2>1, <1>2, <1>3 DEF LInv, Apart, Null
    <3> QED BY <3>1, <3>3 DEF Apart
  <2>5. CtxHandles' = CtxHandles /\ h \in LocalHandles'
    BY <2>1, <2>2, <1>12 DEF CtxHandles, LocalHandles
  <2>6. Cardinality(Orphans) \in Nat /\ IsFiniteSet(Orphans)
    BY Finite DEF LInv, CInv
  <2>7. CASE local[slot] = Unset
    <3>1. \A x \in live : x \in LocalHandles' <=> x \in LocalHandles
      BY <2>2, <2>7, <1>7, <1>12 DEF LocalHandles
    <3>2. Orphans' = Orphans
      BY <3>1, <2>5, <1>1 DEF Orphans
    <3>3. Spent' = Spent + 0
      <4>1. available => Extra(Len(call), at + 1) = Extra(Len(call), at)
        BY <1>5, <2>7
      <4>2. Spent' = Spent
        BY <4>1, <1>2, <1>3, <1>6 DEF Spent
      <4>3. Spent \in Nat
        BY DEF Spent, Extra
      <4> QED BY <4>2, <4>3
    <3>4. Cardinality(Orphans') = Cardinality(Orphans) + 0
      <4> HIDE DEF Orphans
      <4> QED BY <3>2, <2>6
    <3>5. Counts'
      BY <1>2, <1>3, <1>6, <3>3, <3>4, CountsMove
    <3> QED BY <1>8, <2>4, <3>5 DEF LInv
  <2>8. CASE local[slot] # Unset
    <3> DEFINE old == local[slot]
    <3>1. old \in live /\ old \notin CtxHandles /\ old \in LocalHandles
      BY <2>8, <1>12 DEF LInv, CInv, Held, CtxHandles, LocalHandles
    <3>2. \A s \in LocalSlots : s # slot => local[s] # old
      BY <2>8, <1>12 DEF LInv, Apart
    <3>3. old # h
      BY <3>1
    <3>4. old \notin LocalHandles'
      BY <2>2, <3>2, <3>3 DEF LocalHandles
    <3>5. \A x \in live : x # old => (x \in LocalHandles' <=> x \in LocalHandles)
      BY <2>2, <1>12 DEF LocalHandles
    <3> HIDE DEF old
    <3>6. Orphans' = Orphans \cup {old} /\ old \notin Orphans
      BY <3>1, <3>3, <3>4, <3>5, <2>5, <1>1 DEF Orphans
    <3>7. Cardinality(Orphans') = Cardinality(Orphans) + 1
      <4> HIDE DEF Orphans
      <4>1. Cardinality(Orphans \cup {old}) = Cardinality(Orphans) + 1
        BY <3>6, <2>6, FS_AddElement
      <4> QED BY <4>1, <3>6
    <3>8. Spent' = Spent + 1
      <4>1. available
        BY <1>5, <1>12, <2>8
      <4>2. Extra(Len(call), at + 1) = Extra(Len(call), at) + 1
        BY <4>1, <1>5, <1>12, <2>8
      <4> QED BY <4>1, <4>2, <1>2, <1>3, <1>6 DEF Spent
    <3>9. Counts'
      BY <1>2, <1>3, <1>6, <3>7, <3>8, CountsMove
    <3> QED BY <1>8, <2>4, <3>9 DEF LInv
  <2> QED BY <2>7, <2>8
<1> QED BY <1>4, <1>11, <1>12

\* A step without handles.
LEMMA SucceedKeepsLoss ==
  ASSUME LInv, CInv', Succeed
  PROVE  LInv'
<1>1. Running /\ at <= Len(Steps) /\ Steps[at].kind # "alloc"
  BY DEF Succeed, InStep
<1>2. at' = at + 1 /\ UNCHANGED <<available, ctx, local, call, live, completed, failed, faults>>
  BY DEF Succeed
<1>3. Steps[at].slot \notin ContextSlots \cup LocalSlots
  <2>1. WellFormed(Head(call)) /\ Len(Steps) \in Nat
    BY <1>1, RunningFunction DEF LInv, CInv
  <2>2. at \in 1 .. Len(Steps)
    BY <1>1, <2>1 DEF LInv, CInv, Typed
  <2>3. Steps[at].slot = "none"
    BY <2>1, <2>2, <1>1 DEF WellFormed, Steps
  <2> QED BY <2>3 DEF ContextSlots, LocalSlots
<1>4. available => Extra(Len(call), at + 1) = Extra(Len(call), at)
  BY <1>1, <1>3, StepSpends
<1>5. Running'
  BY <1>1, <1>2 DEF Running
<1>6. Spent' = Spent + 0
  <2>1. Spent' = Spent
    BY <1>1, <1>2, <1>4, <1>5 DEF Spent
  <2>2. Spent \in Nat
    BY DEF Spent, Extra
  <2> QED BY <2>1, <2>2
<1>7. Cardinality(Orphans') = Cardinality(Orphans) + 0
  <2>1. Orphans' = Orphans
    BY <1>2 DEF Orphans, CtxHandles, LocalHandles
  <2>2. Cardinality(Orphans) \in Nat
    BY Finite DEF LInv, CInv
  <2> HIDE DEF Orphans
  <2> QED BY <2>1, <2>2
<1>8. Counts'
  BY <1>1, <1>2, <1>5, <1>6, <1>7, CountsMove
<1>9. Placed'
  BY <1>2 DEF LInv, Placed
<1>10. Apart'
  <2>1. at \in Nat /\ \A s \in ContextSlots : Place[s] \in Nat
    BY DEF LInv, CInv, Typed, Place, ContextSlots
  <2>2. \A s \in ContextSlots : Due(s)' => Due(s)
    BY <2>1, <1>2 DEF Due
  <2> QED BY <2>2, <1>1, <1>2 DEF LInv, Apart, Null, Unset
<1> QED BY <1>8, <1>9, <1>10 DEF LInv

\* At the label out every handle the function has set is freed.
LEMMA OutOrphansNone ==
  ASSUME LInv, Running, UNCHANGED ctx, local' = NoLocals,
         live' = live \ {local[Head(call).frees[i]] : i \in 1 .. Len(Head(call).frees)}
  PROVE  Orphans' = Orphans /\ live' \subseteq Orphans \cup CtxHandles
<1> DEFINE freed == {local[Head(call).frees[i]] : i \in 1 .. Len(Head(call).frees)}
<1>1. WellFormed(Head(call)) /\ Len(Steps) \in Nat
  BY RunningFunction DEF LInv, CInv
<1>2. Unset \notin live
  BY CryptoHandlesAssumption DEF LInv, CInv, Typed, Unset
<1>3. ASSUME NEW s \in LocalSlots, local[s] # Unset PROVE local[s] \in freed
  <2>1. SetBefore(Head(call), at, s)
    BY <1>3 DEF LInv, CInv, Allocated
  <2>2. PICK i \in 1 .. (at - 1) : Head(call).steps[i].slot = s
    BY <2>1 DEF SetBefore
  <2>3. i \in 1 .. Len(Steps)
    BY <1>1 DEF LInv, CInv, Typed, Allocated
  <2>4. PICK j \in 1 .. Len(Head(call).frees) : Head(call).frees[j] = s
    BY <1>1, <1>3, <2>2, <2>3 DEF WellFormed, Steps
  <2> QED BY <2>4
<1>4. freed \subseteq LocalHandles
  BY OutFrees DEF LInv, LocalHandles
<1>5. live' = live \ LocalHandles
  BY <1>2, <1>3, <1>4 DEF LocalHandles
<1>6. LocalHandles' = {Unset}
  BY DEF NoLocals, LocalHandles, LocalSlots
<1>7. CtxHandles' = CtxHandles
  BY DEF CtxHandles
<1> HIDE DEF freed
<1> QED BY <1>2, <1>5, <1>6, <1>7 DEF Orphans

\* A function hands over to the next one; the last one of a handshake completes it.
LEMMA LeaveKeepsLoss ==
  ASSUME LInv, CInv', Leave
  PROVE  LInv'
<1>1. /\ Running /\ at > Len(Steps) /\ Return(TRUE) /\ UNCHANGED ctx
      /\ live' = live \ {local[Head(call).frees[i]] : i \in 1 .. Len(Head(call).frees)}
      /\ "undefined" \notin faults
  BY DEF Leave, Out
<1>2. /\ call' = Tail(call) /\ at' = 1 /\ local' = NoLocals
      /\ available' = IF available /\ Tail(call) = << >> THEN FALSE ELSE available
      /\ completed' = IF available /\ Tail(call) = << >> THEN completed + 1 ELSE completed
      /\ failed' = failed
  BY <1>1 DEF Return, Handshaking
<1>3. Orphans' = Orphans
  BY <1>1, <1>2, OutOrphansNone
<1>4. call \in Seq(Functions) /\ call # << >>
  BY <1>1 DEF LInv, CInv, Typed, Running
<1>5. /\ Tail(call) \in Seq(Functions) /\ Len(Tail(call)) = Len(call) - 1
      /\ \A i \in 1 .. Len(Tail(call)) : Tail(call)[i] = call[i + 1]
  BY <1>4, HeadTailProperties
<1>6. completed \in Nat /\ failed \in Nat /\ Cardinality(Orphans) \in Nat
  BY Finite DEF LInv, CInv, Typed
<1>7. \A s \in LocalSlots : local'[s] = Unset'
  BY <1>2 DEF NoLocals, Unset
<1>8. Len(call) \in Nat \ {0}
  BY <1>1, RunningInPlace
<1>9. Cardinality(Orphans) \in (2 * completed + Spent) .. (2 * completed + 8 * failed + Spent)
  BY <1>1 DEF LInv, Counts
<1> HIDE DEF Orphans
<1>10. CASE available
  <2>1. Len(call) \in 1 .. 9 /\ InPlace(Head(call), Len(call))
    BY <1>1, <1>10, RunningInPlace
  <2>2. at = Len(Steps) + 1
    <3>1. Len(Steps) \in Nat
      BY <1>1, RunningFunction DEF LInv, CInv
    <3> DEFINE n == Len(Steps)
    <3>2. at \in Nat /\ at <= n + 1 /\ at > n /\ n \in Nat
      BY <1>1, <3>1 DEF LInv, CInv, Typed, Allocated
    <3> HIDE DEF n
    <3>3. at = n + 1
      BY <3>2
    <3> QED BY <3>3 DEF n
  <2>3. Spent = IF Len(call) = 1 THEN 2 ELSE Extra(Len(call) - 1, 1)
    BY <1>1, <1>10, <2>1, <2>2 DEF Spent, InPlace, Steps
  <2>4. CASE Len(call) = 1
    <3>1. Len(Tail(call)) = 0
      BY <1>5, <2>4
    <3>2. Tail(call) = << >>
      BY <1>5, <3>1, EmptySeq
    <3>3. ~available' /\ completed' = completed + 1 /\ call' = << >> /\ failed' = failed
      BY <1>2, <1>10, <3>2
    <3>4. Spent = 2 /\ Spent' = 0
      BY <2>3, <2>4, <3>3 DEF Spent
    <3>5. \A c, f, o \in Nat : o \in (2 * c + 2) .. (2 * c + 8 * f + 2) =>
            o \in (2 * (c + 1) + 0) .. (2 * (c + 1) + 8 * f + 0)
      OBVIOUS
    <3>6. Cardinality(Orphans) \in (2 * (completed + 1) + 0) .. (2 * (completed + 1) + 8 * failed + 0)
      BY <1>6, <1>9, <3>4, <3>5
    <3>7. Counts'
      BY <3>3, <3>4, <3>6, <1>3 DEF Counts
    <3>8. Placed' /\ Apart'
      <4>1. call' \in Seq(OtherFunctions)
        BY <3>3
      <4> QED BY <4>1, <3>3, <1>7 DEF Placed, Apart
    <3> QED BY <3>7, <3>8 DEF LInv
  <2>5. CASE Len(call) # 1
    <3>0. Len(call) - 1 \in 1 .. 8
      <4> DEFINE n == Len(call)
      <4>1. n \in 1 .. 9 /\ n # 1
        BY <2>1, <2>5
      <4> HIDE DEF n
      <4>2. n - 1 \in 1 .. 8
        BY <4>1
      <4> QED BY <4>2 DEF n
    <3>1. Len(call') = Len(call) - 1 /\ Len(call) - 1 \in 1 .. 8
      BY <1>2, <1>5, <3>0
    <3>2. Tail(call) # << >>
      <4> DEFINE t == Tail(call)
      <4>1. Len(t) \in 1 .. 8
        BY <1>5, <3>0
      <4> HIDE DEF t
      <4>2. Len(<< >>) = 0 /\ 0 \notin 1 .. 8
        OBVIOUS
      <4>3. t # << >>
        BY <4>1, <4>2, Zenon
      <4> QED BY <4>3 DEF t
    <3>3. available' /\ completed' = completed /\ failed' = failed
      BY <1>2, <1>10, <3>2
    <3>4. Running'
      BY <1>2, <3>2 DEF Running
    <3>5. Spent' = Spent
      BY <1>2, <2>3, <2>5, <3>1, <3>3, <3>4 DEF Spent
    <3>6. Cardinality(Orphans') \in (2 * completed' + Spent') .. (2 * completed' + 8 * failed' + Spent')
      BY <1>3, <1>9, <3>3, <3>5
    <3>7. Counts'
      BY <3>4, <3>6 DEF Counts
    <3>8. Placed'
      <4>1. \A i \in 1 .. Len(call) : call[i] = ra_net_handshake[9 - Len(call) + i]
        BY <1>10 DEF LInv, Placed
      <4>2. ASSUME NEW i \in 1 .. Len(call') PROVE call'[i] = ra_net_handshake[9 - Len(call') + i]
        <5>1. i + 1 \in 1 .. Len(call) /\ 9 - Len(call) + (i + 1) = 9 - Len(call') + i
          BY <2>1, <3>1, <4>2
        <5>2. call'[i] = call[i + 1]
          BY <1>2, <1>5, <4>2
        <5> QED BY <5>1, <5>2, <4>1
      <4>3. Len(call') <= 9
        BY <2>1, <3>1
      <4> QED BY <4>2, <4>3, <3>3 DEF Placed
    <3>9. Apart'
      <4>1. \A s \in ContextSlots : Turn[s] \in Nat
        BY DEF Turn, ContextSlots
      <4>2. \A s \in ContextSlots : Due(s)' => Due(s)
        BY <4>1, <3>1, <2>1 DEF Due
      <4>3. \A s \in ContextSlots : Due(s)' => ctx'[s] = Null'
        BY <4>2, <1>1, <1>10 DEF LInv, Apart, Null
      <4> QED BY <4>3, <1>7 DEF Apart
    <3> QED BY <3>7, <3>8, <3>9 DEF LInv
  <2> QED BY <2>4, <2>5
<1>11. CASE ~available
  <2>1. ~available' /\ completed' = completed /\ failed' = failed /\ Spent = 0
    BY <1>2, <1>11 DEF Spent
  <2>2. Spent' = 0
    BY <2>1 DEF Spent
  <2>3. call' \in Seq(OtherFunctions)
    <3>1. call \in Seq(OtherFunctions)
      BY <1>11 DEF LInv, Placed
    <3> QED BY <1>2, <1>4, <3>1, HeadTailProperties
  <2>4. Cardinality(Orphans') \in (2 * completed' + Spent') .. (2 * completed' + 8 * failed' + Spent')
    BY <1>3, <1>9, <2>1, <2>2
  <2>5. Counts'
    BY <2>1, <2>4 DEF Counts
  <2>6. Placed' /\ Apart'
    BY <2>1, <2>3, <1>7 DEF Placed, Apart
  <2> QED BY <2>5, <2>6 DEF LInv
<1> QED BY <1>10, <1>11

\* What is left when a function goes straight back to its caller.
LEMMA ReturnOrphans ==
  ASSUME LInv, Running, at <= Len(Steps), Steps[at].exit = "return", "undefined" \notin faults,
         UNCHANGED <<ctx, live>>, local' = NoLocals
  PROVE  /\ Orphans \subseteq Orphans' /\ (~available => Orphans' = Orphans)
         /\ available => Cardinality(live) <= 2 * completed + 8 * failed + 8
<1>1. Unset \notin live
  BY CryptoHandlesAssumption DEF LInv, CInv, Typed, Unset
<1>2. LocalHandles' = {Unset} /\ CtxHandles' = CtxHandles
  BY DEF NoLocals, LocalHandles, LocalSlots, CtxHandles
<1>3. Orphans' = live \ CtxHandles
  BY <1>1, <1>2 DEF Orphans
<1>4. at \in 1 .. Len(Steps)
  <2>1. Len(Steps) \in Nat
    BY RunningFunction DEF LInv, CInv
  <2> QED BY <2>1 DEF LInv, CInv, Typed
<1>5. \A s \in LocalSlots : local[s] # Unset <=> SetBefore(Head(call), at, s)
  BY DEF LInv, CInv, Allocated
<1>6. Orphans \subseteq Orphans'
  BY <1>3 DEF Orphans
<1>7. ASSUME ~available PROVE Orphans' = Orphans
  <2>1. \A s \in LocalSlots : ~SetBefore(Head(call), at, s)
    BY <1>4, <1>7, RunningInPlace DEF Simple, Steps
  <2>2. \A s \in LocalSlots : local[s] = Unset
    BY <2>1, <1>5
  <2> QED BY <2>2, <1>1, <1>3 DEF Orphans, LocalHandles
<1>8. ASSUME available PROVE Cardinality(live) <= 2 * completed + 8 * failed + 8
  <2> DEFINE p == Extra(Len(call), at)
             A == Orphans \cup {local["operation"]}
             B == A \cup {local["secret"]}
  <2>1. ~SetBefore(Head(call), at, "key") /\ (p = 2 => ~SetBefore(Head(call), at, "secret"))
    BY <1>4, <1>8, RunningInPlace DEF InPlace, Steps
  <2>2. local["key"] = Unset /\ (p = 2 => local["secret"] = Unset)
    BY <2>1, <1>5 DEF LocalSlots
  <2>3. p \in 0 .. 2 /\ Spent = p
    BY <1>8 DEF Extra, Spent
  <2>4. LocalHandles = {local["operation"], local["secret"], local["key"]}
    BY DEF LocalHandles, LocalSlots
  <2>5. IsFiniteSet(live) /\ IsFiniteSet(Orphans) /\ Cardinality(live) \in Nat /\ completed \in Nat /\ failed \in Nat
    BY Finite DEF LInv, CInv, Typed
  <2>6. live \subseteq B \cup CtxHandles /\ (p = 2 => live \subseteq A \cup CtxHandles)
    BY <1>1, <2>2, <2>4 DEF Orphans
  <2>7. Cardinality(Orphans) \in (2 * completed + p) .. (2 * completed + 8 * failed + p)
    BY <2>3 DEF LInv, Counts
  <2> HIDE DEF Orphans
  <2>8. IsFiniteSet(A) /\ Cardinality(A) \in Nat /\ Cardinality(A) <= Cardinality(Orphans) + 1 /\ Cardinality(Orphans) \in Nat
    BY <2>5, OneMore
  <2> HIDE DEF A
  <2>9. IsFiniteSet(B) /\ Cardinality(B) \in Nat /\ Cardinality(B) <= Cardinality(A) + 1
    BY <2>8, OneMore
  <2> HIDE DEF B
  <2>10. /\ IsFiniteSet(A \cup CtxHandles) /\ Cardinality(A \cup CtxHandles) \in Nat
         /\ Cardinality(A \cup CtxHandles) <= Cardinality(A) + 5
    BY <2>8, ContextIsFive
  <2>11. /\ IsFiniteSet(B \cup CtxHandles) /\ Cardinality(B \cup CtxHandles) \in Nat
         /\ Cardinality(B \cup CtxHandles) <= Cardinality(B) + 5
    BY <2>9, ContextIsFive
  <2>12. /\ Cardinality(live) <= Cardinality(B \cup CtxHandles)
         /\ p = 2 => Cardinality(live) <= Cardinality(A \cup CtxHandles)
    BY <2>6, <2>10, <2>11, FS_Subset
  <2> HIDE DEF p
  <2>13. CASE p = 2
    BY <2>5, <2>7, <2>8, <2>10, <2>12, <2>13
  <2>14. CASE p \in 0 .. 1
    BY <2>5, <2>7, <2>8, <2>9, <2>11, <2>12, <2>14
  <2> QED BY <2>3, <2>13, <2>14
<1> QED BY <1>6, <1>7, <1>8

\* A handshake fails and leaves at most the five handles of the context, the two orphans and
\* the operation of verify_msg1_mac.
LEMMA FailKeepsLoss ==
  ASSUME LInv, CInv', Fail
  PROVE  LInv'
<1>1. Running /\ at <= Len(Steps) /\ UNCHANGED ctx
  BY DEF Fail, InStep
<1>2. Return(FALSE)
  BY DEF Fail, Out
<1>3. /\ call' = << >> /\ local' = NoLocals /\ available' = available /\ completed' = completed
      /\ failed' = IF available THEN failed + 1 ELSE failed
  BY <1>2 DEF Return, Handshaking
<1>4. Steps[at].exit \in {"out", "return"}
  BY <1>1, RunningFunction DEF LInv, CInv, StepKinds
<1>5. \A s \in LocalSlots : local'[s] = Unset'
  BY <1>3 DEF NoLocals, Unset
<1>6. ~Running' /\ Spent' = 0
  BY <1>3 DEF Running, Spent
<1>7. Placed'
  <2>1. call' \in Seq(OtherFunctions) /\ Len(call') = 0
    BY <1>3
  <2> QED BY <2>1 DEF Placed
<1>8. Apart'
  BY <1>5, <1>6 DEF Apart
<1>9. faults \subseteq faults'
  BY DEF Fail, Out
<1>10. completed \in Nat /\ failed \in Nat /\ Cardinality(Orphans) \in Nat /\ IsFiniteSet(Orphans)
  BY Finite DEF LInv, CInv, Typed
<1>11. /\ IsFiniteSet(live') /\ IsFiniteSet(Orphans') /\ Cardinality(live') \in Nat
       /\ Cardinality(Orphans') \in Nat /\ Cardinality(Orphans') <= Cardinality(live')
  <2>1. Typed'
    BY DEF CInv
  <2>2. (/\ IsFiniteSet(live) /\ IsFiniteSet(Orphans)
         /\ Cardinality(live) \in Nat /\ Cardinality(Orphans) \in Nat
         /\ Cardinality(Orphans) <= Cardinality(live))'
    BY <2>1, Finite, PTL
  <2> QED BY <2>2
<1>12. Spent \in 0 .. 2 /\ (~available => Spent = 0)
  BY DEF Spent, Extra
<1>13. ASSUME "undefined" \notin faults'
       PROVE  /\ Orphans \subseteq Orphans' /\ (~available => Orphans' = Orphans)
              /\ available => Cardinality(live') <= 2 * completed + 8 * failed + 8
              /\ Cardinality(Orphans) \in (2 * completed + Spent) .. (2 * completed + 8 * failed + Spent)
  <2>1. "undefined" \notin faults
    BY <1>9, <1>13
  <2>2. Cardinality(Orphans) \in (2 * completed + Spent) .. (2 * completed + 8 * failed + Spent)
    BY <2>1 DEF LInv, Counts
  <2>3. CASE Steps[at].exit = "out"
    <3>1. live' = live \ {local[Head(call).frees[i]] : i \in 1 .. Len(Head(call).frees)}
      BY <2>3 DEF Fail, Out
    <3>2. Orphans' = Orphans /\ live' \subseteq Orphans \cup CtxHandles
      BY <1>1, <1>3, <3>1, OutOrphansNone
    <3> HIDE DEF Orphans, CtxHandles
    <3>3. /\ IsFiniteSet(Orphans \cup CtxHandles) /\ Cardinality(Orphans \cup CtxHandles) \in Nat
          /\ Cardinality(Orphans \cup CtxHandles) <= Cardinality(Orphans) + 5
      BY <1>10, ContextIsFive
    <3>4. Cardinality(live') <= Cardinality(Orphans \cup CtxHandles)
      BY <3>2, <3>3, FS_Subset
    <3>5. Cardinality(live') <= 2 * completed + 8 * failed + 8
      BY <1>10, <1>11, <1>12, <2>2, <3>3, <3>4
    <3> QED BY <2>2, <3>2, <3>5
  <2>4. CASE Steps[at].exit = "return"
    <3>1. UNCHANGED live
      BY <2>4 DEF Fail
    <3>2. /\ Orphans \subseteq Orphans' /\ (~available => Orphans' = Orphans)
          /\ available => Cardinality(live) <= 2 * completed + 8 * failed + 8
      BY <1>1, <1>3, <2>1, <2>4, <3>1, ReturnOrphans
    <3> QED BY <2>2, <3>1, <3>2
  <2> QED BY <1>4, <2>3, <2>4
<1> HIDE DEF Orphans
<1>14. Counts'
  <2> SUFFICES ASSUME "undefined" \notin faults'
               PROVE  /\ Cardinality(Orphans') \in (2 * completed' + Spent') .. (2 * completed' + 8 * failed' + Spent')
                      /\ available' => Cardinality(live') <= 2 * completed' + 8 * failed'
    BY <1>6 DEF Counts
  <2>1. Cardinality(Orphans) <= Cardinality(Orphans')
    BY <1>11, <1>13, FS_Subset
  <2>2. CASE available
    <3>1. completed' = completed /\ failed' = failed + 1 /\ Spent' = 0
      BY <1>3, <1>6, <2>2
    <3>2. Cardinality(live') <= 2 * completed + 8 * failed + 8
      BY <1>13, <2>2
    <3>3. Cardinality(Orphans) \in (2 * completed + Spent) .. (2 * completed + 8 * failed + Spent)
      BY <1>13
    <3>4. /\ Cardinality(Orphans') \in (2 * completed + 0) .. (2 * completed + 8 * (failed + 1) + 0)
          /\ Cardinality(live') <= 2 * completed + 8 * (failed + 1)
      BY <1>10, <1>11, <1>12, <2>1, <3>2, <3>3
    <3> QED BY <3>1, <3>4
  <2>3. CASE ~available
    <3>1. completed' = completed /\ failed' = failed /\ Spent' = 0 /\ Spent = 0 /\ ~available' /\ Orphans' = Orphans
      BY <1>3, <1>6, <1>12, <1>13, <2>3
    <3>2. Cardinality(Orphans) \in (2 * completed + Spent) .. (2 * completed + 8 * failed + Spent)
      BY <1>13
    <3> QED BY <3>1, <3>2
  <2> QED BY <2>2, <2>3
<1> QED BY <1>7, <1>8, <1>14 DEF LInv

\* Every step keeps the count.
LEMMA LossKept == LInv /\ [Next]_vars => LInv'
<1> SUFFICES ASSUME LInv, [Next]_vars PROVE LInv'
  OBVIOUS
<1>1. CInv'
  BY StepKeeps DEF LInv
<1>2. CASE Next
  BY <1>1, <1>2, CallsKeepLoss, DisposeKeepsLoss, AllocateKeepsLoss, SucceedKeepsLoss, LeaveKeepsLoss,
     FailKeepsLoss DEF Next
<1>3. CASE UNCHANGED vars
  <2>1. Placed'
    BY <1>3 DEF vars, LInv, Placed
  <2>2. Apart'
    BY <1>3 DEF vars, LInv, Apart, Due, Running, Unset, Null
  <2>3. Counts'
    BY <1>3 DEF vars, LInv, Counts, Orphans, CtxHandles, LocalHandles, Spent, Running
  <2> QED BY <1>1, <2>1, <2>2, <2>3 DEF LInv
<1> QED BY <1>2, <1>3

\* A handshake that succeeds loses the two operations that are overwritten, one that fails at
\* most eight handles, and send_quote, receive_data and dispose lose none.
THEOREM LossIsBounded == Spec => []LossPerHandshake
<1>1. Init => LInv
  <2> SUFFICES ASSUME Init PROVE LInv
    OBVIOUS
  <2>1. call = << >> /\ live = {} /\ completed = 0 /\ failed = 0 /\ available = TRUE
    BY DEF Init
  <2>2. Placed
    BY <2>1 DEF Placed
  <2>3. Apart
    BY <2>1 DEF Init, Apart, Running, NoLocals
  <2>4. Orphans = {}
    BY <2>1 DEF Orphans
  <2>5. Spent = 0
    BY <2>1 DEF Spent, Running
  <2>6. Cardinality(Orphans) = 0 /\ Cardinality(live) = 0
    BY <2>1, <2>4, FS_EmptySet
  <2>7. Counts
    BY <2>1, <2>5, <2>6 DEF Counts
  <2> QED BY <2>2, <2>3, <2>7, InitInvariant DEF LInv
<1>2. LInv => LossPerHandshake
  <2> SUFFICES ASSUME LInv, Idle PROVE Cardinality(Lost) \in (2 * completed) .. (2 * completed + 8 * failed)
    BY DEF LossPerHandshake
  <2>1. call = << >> /\ "undefined" \notin faults
    BY DEF Idle
  <2>2. Lost = Orphans
    BY <2>1, IdleLocals DEF LInv, Lost, CtxHandles
  <2>3. Spent = 0
    BY <2>1 DEF Spent, Running
  <2>4. completed \in Nat /\ failed \in Nat /\ Cardinality(Orphans) \in Nat
    BY Finite DEF LInv, CInv, Typed
  <2>5. Cardinality(Orphans) \in (2 * completed + 0) .. (2 * completed + 8 * failed + 0)
    BY <2>1, <2>3 DEF LInv, Counts
  <2> HIDE DEF Orphans, Lost
  <2> QED BY <2>2, <2>4, <2>5
<1> QED BY <1>1, <1>2, LossKept, PTL DEF Spec
==============================================================================
