----------------------- MODULE AttestationServiceProofs -----------------------
(***************************************************************************)
(* The properties of the attestation service for any number of instances   *)
(* and sessions.                                                           *)
(***************************************************************************)
EXTENDS AttestationService, Integers, SequenceTheorems, FiniteSetTheorems, TLAPS

-----------------------------------------------------------------------------
(***************************************************************************)
(* The inductive invariant AInv.                                         *)
(***************************************************************************)
Labels == Entered \cup {"idle", "load", "open", "ready", "invoke", "served", "close", "release"}

Keypairs == {"zero", "allocated", "generated", "exported"}

Shape ==
  /\ tee_ctxes \in Seq([ref_count : Int, busy : BOOLEAN])
  /\ lock \in Instances \cup {NoInstance}
  /\ pc \in [Instances -> Labels]
  /\ ctx \in [Instances -> 0..Len(tee_ctxes)]
  /\ failed \in [Instances -> BOOLEAN]
  /\ keypair \in Keypairs
  /\ signed \in [Instances -> Keypairs \cup {"none"}]
  /\ allocs \in Nat /\ failures \in Nat

\* The holder of the lock is the instance in an entry point, and its context is
\* the one that is busy.
LockHeld ==
  /\ \A t \in Instances : pc[t] \in Entered <=> lock = t
  /\ \A t \in Instances : ctx[t] = 0 <=> pc[t] \in {"idle", "load"}
  /\ \A c \in 1..Len(tee_ctxes) : tee_ctxes[c].busy => lock \in Instances /\ ctx[lock] = c

\* A derivation in progress is the first that will succeed.
Deriving ==
  /\ \A t \in Instances : pc[t] \in {"generate", "export"} => ~Derived
  /\ Derived => keypair = "exported"

\* As long as there is no keypair and no race, every session has a context of
\* its own, which counts it, and no session gets past its open.
Unraced ==
  ~raced /\ ~Derived =>
    /\ \A t, u \in Instances : ctx[t] = ctx[u] /\ ctx[t] # 0 => t = u
    /\ \A t \in Instances : ctx[t] # 0 => tee_ctxes[ctx[t]].ref_count = 1
    /\ \A c \in 1..Len(tee_ctxes) :
         (\A t \in Instances : ctx[t] # c) => tee_ctxes[c].ref_count = 0
    /\ \A t \in Instances : pc[t] \notin {"ready", "invoke", "served", "signing"}
    /\ \A t \in Instances : pc[t] = "opened" => failed[t]

AInv == Shape /\ LockHeld /\ Deriving /\ AllocatedOnce /\ Unraced /\ DerivedUnlessRaced

-----------------------------------------------------------------------------

Ctx == [ref_count : Int, busy : BOOLEAN]

\* A context keeps its place and its fields when one field of one is assigned.
LEMMA AssignBusy ==
  ASSUME NEW s \in Seq(Ctx), NEW i \in 1..Len(s), NEW b \in BOOLEAN
  PROVE  /\ [s EXCEPT ![i].busy = b] \in Seq(Ctx)
         /\ Len([s EXCEPT ![i].busy = b]) = Len(s)
         /\ \A c \in 1..Len(s) : [s EXCEPT ![i].busy = b][c].ref_count = s[c].ref_count
         /\ \A c \in 1..Len(s) : [s EXCEPT ![i].busy = b][c].busy = IF c = i THEN b ELSE s[c].busy
<1>. DEFINE e == [s[i] EXCEPT !.busy = b]
<1>1. \A c \in 1..Len(s) : s[c] \in Ctx
  BY ElementOfSeq
<1>2. e \in Ctx /\ e.ref_count = s[i].ref_count /\ e.busy = b
  BY <1>1 DEF Ctx
<1>3. [s EXCEPT ![i].busy = b] = [s EXCEPT ![i] = e]
  OBVIOUS
<1>. HIDE DEF e
<1>4. /\ [s EXCEPT ![i] = e] \in Seq(Ctx)
      /\ Len([s EXCEPT ![i] = e]) = Len(s)
      /\ \A j \in 1..Len(s) : [s EXCEPT ![i] = e][j] = IF j = i THEN e ELSE s[j]
  BY <1>2, ExceptSeq
<1>. QED BY <1>2, <1>3, <1>4

\* The same for the count.
LEMMA AssignCount ==
  ASSUME NEW s \in Seq(Ctx), NEW i \in 1..Len(s), NEW n \in Int
  PROVE  /\ [s EXCEPT ![i].ref_count = n] \in Seq(Ctx)
         /\ Len([s EXCEPT ![i].ref_count = n]) = Len(s)
         /\ \A c \in 1..Len(s) : [s EXCEPT ![i].ref_count = n][c].busy = s[c].busy
         /\ \A c \in 1..Len(s) :
              [s EXCEPT ![i].ref_count = n][c].ref_count = IF c = i THEN n ELSE s[c].ref_count
<1>. DEFINE e == [s[i] EXCEPT !.ref_count = n]
<1>1. \A c \in 1..Len(s) : s[c] \in Ctx
  BY ElementOfSeq
<1>2. e \in Ctx /\ e.busy = s[i].busy /\ e.ref_count = n
  BY <1>1 DEF Ctx
<1>3. [s EXCEPT ![i].ref_count = n] = [s EXCEPT ![i] = e]
  OBVIOUS
<1>. HIDE DEF e
<1>4. /\ [s EXCEPT ![i] = e] \in Seq(Ctx)
      /\ Len([s EXCEPT ![i] = e]) = Len(s)
      /\ \A j \in 1..Len(s) : [s EXCEPT ![i] = e][j] = IF j = i THEN e ELSE s[j]
  BY <1>2, ExceptSeq
<1>. QED BY <1>2, <1>3, <1>4

\* tee_ta_set_busy takes the lock and marks the context of the session.
LEMMA SetBusyEffect ==
  ASSUME NEW t \in Instances, Shape, ctx[t] # 0, SetBusy(t)
  PROVE  /\ tee_ctxes' \in Seq(Ctx) /\ Len(tee_ctxes') = Len(tee_ctxes)
         /\ \A c \in 1..Len(tee_ctxes) : tee_ctxes'[c].ref_count = tee_ctxes[c].ref_count
         /\ \A c \in 1..Len(tee_ctxes) : tee_ctxes'[c].busy => tee_ctxes[c].busy \/ c = ctx[t]
         /\ lock = NoInstance /\ lock' = t
<1>1. tee_ctxes \in Seq(Ctx) /\ ctx[t] \in 1..Len(tee_ctxes)
  BY DEF Shape, Ctx
<1>. DEFINE s == [tee_ctxes EXCEPT ![ctx[t]].busy = TRUE]
<1>2. /\ s \in Seq(Ctx)
      /\ Len(s) = Len(tee_ctxes)
      /\ \A c \in 1..Len(tee_ctxes) : s[c].ref_count = tee_ctxes[c].ref_count
      /\ \A c \in 1..Len(tee_ctxes) : s[c].busy = IF c = ctx[t] THEN TRUE ELSE tee_ctxes[c].busy
  BY <1>1, AssignBusy
<1>3. tee_ctxes' = s /\ lock = NoInstance /\ lock' = t
  BY DEF SetBusy
<1>. HIDE DEF s
<1>. QED BY <1>2, <1>3

\* tee_ta_clear_busy undoes it.
LEMMA ClearBusyEffect ==
  ASSUME NEW t \in Instances, Shape, ctx[t] # 0, ClearBusy(t)
  PROVE  /\ tee_ctxes' \in Seq(Ctx) /\ Len(tee_ctxes') = Len(tee_ctxes)
         /\ \A c \in 1..Len(tee_ctxes) : tee_ctxes'[c].ref_count = tee_ctxes[c].ref_count
         /\ \A c \in 1..Len(tee_ctxes) : tee_ctxes'[c].busy => tee_ctxes[c].busy /\ c # ctx[t]
         /\ lock' = NoInstance
<1>1. tee_ctxes \in Seq(Ctx) /\ ctx[t] \in 1..Len(tee_ctxes)
  BY DEF Shape, Ctx
<1>. DEFINE s == [tee_ctxes EXCEPT ![ctx[t]].busy = FALSE]
<1>2. /\ s \in Seq(Ctx)
      /\ Len(s) = Len(tee_ctxes)
      /\ \A c \in 1..Len(tee_ctxes) : s[c].ref_count = tee_ctxes[c].ref_count
      /\ \A c \in 1..Len(tee_ctxes) : s[c].busy = IF c = ctx[t] THEN FALSE ELSE tee_ctxes[c].busy
  BY <1>1, AssignBusy
<1>3. tee_ctxes' = s /\ lock' = NoInstance
  BY DEF ClearBusy
<1>. HIDE DEF s
<1>. QED BY <1>2, <1>3

Act(t) == Lookup(t) \/ Invoke(t) \/ Close(t) \/ Step(t)

\* Steps that leave the contexts and the lock alone.
Quiet(t) ==
  \/ LoadFails(t) \/ EnterOpen(t) \/ DeriveSeed(t) \/ AllocKeypair(t)
  \/ GenerateKeypair(t) \/ ExportPublicKey(t) \/ SignPanics(t) \/ Invoke(t) \/ Close(t)

\* The label an instance goes to.
Moves(t) == pc' = [pc EXCEPT ![t] = pc'[t]] /\ pc'[t] \in Labels

\* They move one instance, and neither in nor out of the service.
LEMMA QuietEffect ==
  ASSUME NEW t \in Instances, Shape, LockHeld, Quiet(t)
  PROVE  /\ UNCHANGED <<tee_ctxes, lock, ctx, raced>>
         /\ Moves(t)
         /\ pc[t] \in Entered <=> pc'[t] \in Entered
         /\ pc[t] \in {"idle", "load"} <=> pc'[t] \in {"idle", "load"}
<1>1. CASE LoadFails(t)
  BY <1>1 DEF LoadFails, Goto, Shape, Moves, Labels, Entered
<1>2. CASE EnterOpen(t)
  BY <1>2 DEF EnterOpen, Goto, Shape, Moves, Labels, Entered
<1>3. CASE DeriveSeed(t)
  BY <1>3 DEF DeriveSeed, Fail, Goto, Shape, Moves, Labels, Entered
<1>4. CASE AllocKeypair(t)
  BY <1>4 DEF AllocKeypair, Fail, Goto, Shape, Moves, Labels, Entered
<1>5. CASE GenerateKeypair(t)
  BY <1>5 DEF GenerateKeypair, Fail, Goto, Shape, Moves, Labels, Entered
<1>6. CASE ExportPublicKey(t)
  BY <1>6 DEF ExportPublicKey, Fail, Goto, Shape, Moves, Labels, Entered
<1>7. CASE SignPanics(t)
  BY <1>7 DEF SignPanics, Shape, Moves, Labels, Entered
<1>8. CASE Close(t)
  BY <1>8 DEF Close, Goto, Shape, Moves, Labels, Entered
<1>9. CASE Invoke(t)
  BY <1>9 DEF Invoke, Goto, Shape, Moves, Labels, Entered
<1>. QED BY <1>1, <1>2, <1>3, <1>4, <1>5, <1>6, <1>7, <1>8, <1>9 DEF Quiet

\* Steps that take the lock.
Locks(t) == OpenBusy(t) \/ InvokeBusy(t) \/ CloseBusy(t)

\* They need a session and a free lock, and enter an entry point.
LEMMA LocksEffect ==
  ASSUME NEW t \in Instances, Shape, LockHeld, Locks(t)
  PROVE  /\ ctx[t] # 0 /\ SetBusy(t)
         /\ UNCHANGED <<ctx, raced, statics, failed, signed, panicked>>
         /\ Moves(t)
         /\ pc'[t] \in {"entered", "signing", "closing"}
         /\ pc'[t] = "signing" => pc[t] = "invoke"
<1>1. CASE OpenBusy(t)
  BY <1>1 DEF OpenBusy, Goto, Shape, LockHeld, Moves, Labels, Entered
<1>2. CASE InvokeBusy(t)
  BY <1>2 DEF InvokeBusy, Goto, Shape, LockHeld, Moves, Labels, Entered
<1>3. CASE CloseBusy(t)
  BY <1>3 DEF CloseBusy, Goto, Shape, LockHeld, Moves, Labels, Entered
<1>. QED BY <1>1, <1>2, <1>3 DEF Locks

\* Steps that release it.
Unlocks(t) == LeaveOpen(t) \/ GenerateQuote(t) \/ LeaveClose(t)

\* They are steps of the holder of the lock, and leave the entry point.
LEMMA UnlocksEffect ==
  ASSUME NEW t \in Instances, Shape, LockHeld, Unlocks(t)
  PROVE  /\ ctx[t] # 0 /\ lock = t /\ ClearBusy(t)
         /\ UNCHANGED <<ctx, raced, statics, panicked>>
         /\ Moves(t)
         /\ pc'[t] \in {"close", "ready", "served", "release"}
         /\ failed' = failed \/ failed' = [failed EXCEPT ![t] = FALSE]
<1>1. CASE LeaveOpen(t)
  BY <1>1 DEF LeaveOpen, Goto, Shape, LockHeld, Moves, Labels, Entered
<1>2. CASE GenerateQuote(t)
  BY <1>2 DEF GenerateQuote, Goto, Shape, LockHeld, Moves, Labels, Entered
<1>3. CASE LeaveClose(t)
  BY <1>3 DEF LeaveClose, Goto, Shape, LockHeld, Moves, Labels, Entered
<1>. QED BY <1>1, <1>2, <1>3 DEF Unlocks

\* A lookup that finds no context, and one that finds the first.
Miss(t) == UNCHANGED <<tee_ctxes, ctx, raced>> /\ pc' = [pc EXCEPT ![t] = "load"]
Hit(t) ==
  /\ 1 \in 1..Len(tee_ctxes)
  /\ tee_ctxes' \in Seq(Ctx) /\ Len(tee_ctxes') = Len(tee_ctxes)
  /\ \A c \in 1..Len(tee_ctxes) : tee_ctxes'[c].busy = tee_ctxes[c].busy
  /\ \A c \in 1..Len(tee_ctxes) :
       tee_ctxes'[c].ref_count =
         IF c = 1 THEN tee_ctxes[c].ref_count + 1 ELSE tee_ctxes[c].ref_count
  /\ ctx' = [ctx EXCEPT ![t] = 1]
  /\ raced' = (raced \/ (tee_ctxes[1].ref_count > 0 /\ ~Derived))
  /\ pc' = [pc EXCEPT ![t] = "open"]

\* tee_ta_init_session takes a reference on the first context, or finds none.
LEMMA LookupEffect ==
  ASSUME NEW t \in Instances, Shape, Lookup(t)
  PROVE  /\ pc[t] = "idle"
         /\ UNCHANGED <<lock, failed, statics, signed, panicked>>
         /\ Miss(t) \/ Hit(t)
<1>1. CASE tee_ctxes = <<>>
  BY <1>1 DEF Lookup, Goto, Miss
<1>2. CASE tee_ctxes # <<>>
  <2>1. tee_ctxes \in Seq(Ctx) /\ 1 \in 1..Len(tee_ctxes)
    BY <1>2, EmptySeq DEF Shape, Ctx
  <2>2. tee_ctxes[1].ref_count + 1 \in Int
    <3>1. tee_ctxes[1] \in Ctx
      BY <2>1, ElementOfSeq
    <3>. QED BY <3>1 DEF Ctx
  <2>. DEFINE s == [tee_ctxes EXCEPT ![1].ref_count = tee_ctxes[1].ref_count + 1]
  <2>3. /\ s \in Seq(Ctx)
        /\ Len(s) = Len(tee_ctxes)
        /\ \A c \in 1..Len(tee_ctxes) : s[c].busy = tee_ctxes[c].busy
        /\ \A c \in 1..Len(tee_ctxes) :
             s[c].ref_count = IF c = 1 THEN tee_ctxes[1].ref_count + 1 ELSE tee_ctxes[c].ref_count
    BY <2>1, <2>2, AssignCount
  <2>4. tee_ctxes' = s
    BY <1>2 DEF Lookup
  <2>. HIDE DEF s
  <2>5. Hit(t)
    BY <1>2, <2>1, <2>3, <2>4 DEF Lookup, Goto, Hit
  <2>. QED BY <2>5 DEF Lookup
<1>. QED BY <1>1, <1>2

\* tee_ta_init_pseudo_ta_session adds a context that counts one session.
LEMMA LoadEffect ==
  ASSUME NEW t \in Instances, Shape, Load(t)
  PROVE  /\ pc[t] = "load" /\ pc' = [pc EXCEPT ![t] = "open"]
         /\ tee_ctxes' \in Seq(Ctx) /\ Len(tee_ctxes') = Len(tee_ctxes) + 1
         /\ \A c \in 1..Len(tee_ctxes) : tee_ctxes'[c] = tee_ctxes[c]
         /\ tee_ctxes'[Len(tee_ctxes) + 1].ref_count = 1
         /\ ~tee_ctxes'[Len(tee_ctxes) + 1].busy
         /\ ctx' = [ctx EXCEPT ![t] = Len(tee_ctxes) + 1]
         /\ UNCHANGED <<lock, failed, statics, signed, panicked, raced>>
<1>. DEFINE e == [ref_count |-> 1, busy |-> FALSE]
<1>1. tee_ctxes \in Seq(Ctx) /\ e \in Ctx
  BY DEF Shape, Ctx
<1>2. e.ref_count = 1 /\ ~e.busy
  OBVIOUS
<1>3. tee_ctxes' = Append(tee_ctxes, e)
  BY DEF Load
<1>. HIDE DEF e
<1>4. /\ tee_ctxes' \in Seq(Ctx) /\ Len(tee_ctxes') = Len(tee_ctxes) + 1
      /\ \A c \in 1..Len(tee_ctxes) : tee_ctxes'[c] = tee_ctxes[c]
      /\ tee_ctxes'[Len(tee_ctxes) + 1] = e
  BY <1>1, <1>3, AppendProperties
<1>5. /\ pc[t] = "load" /\ pc' = [pc EXCEPT ![t] = "open"]
      /\ ctx' = [ctx EXCEPT ![t] = Len(tee_ctxes')]
      /\ UNCHANGED <<lock, failed, statics, signed, panicked, raced>>
  BY DEF Load, Goto
<1>. QED BY <1>2, <1>4, <1>5

\* The end of tee_ta_close_session counts the session down.
LEMMA ReleaseEffect ==
  ASSUME NEW t \in Instances, Shape, LockHeld, Release(t)
  PROVE  /\ pc[t] = "release" /\ pc' = [pc EXCEPT ![t] = "idle"]
         /\ ctx[t] \in 1..Len(tee_ctxes)
         /\ tee_ctxes' \in Seq(Ctx) /\ Len(tee_ctxes') = Len(tee_ctxes)
         /\ \A c \in 1..Len(tee_ctxes) : tee_ctxes'[c].busy = tee_ctxes[c].busy
         /\ \A c \in 1..Len(tee_ctxes) :
              tee_ctxes'[c].ref_count =
                IF c = ctx[t] THEN tee_ctxes[c].ref_count - 1 ELSE tee_ctxes[c].ref_count
         /\ ctx' = [ctx EXCEPT ![t] = 0]
         /\ signed' = [signed EXCEPT ![t] = "none"]
         /\ UNCHANGED <<lock, failed, statics, panicked, raced>>
<1>0. pc[t] = "release" /\ ctx[t] # 0
  BY DEF Release, LockHeld
<1>1. tee_ctxes \in Seq(Ctx) /\ ctx[t] \in 1..Len(tee_ctxes)
  BY <1>0 DEF Shape, Ctx
<1>2. tee_ctxes[ctx[t]].ref_count - 1 \in Int
  <2>1. tee_ctxes[ctx[t]] \in Ctx
    BY <1>1, ElementOfSeq
  <2>. QED BY <2>1 DEF Ctx
<1>. DEFINE s == [tee_ctxes EXCEPT ![ctx[t]].ref_count = tee_ctxes[ctx[t]].ref_count - 1]
<1>3. /\ s \in Seq(Ctx)
      /\ Len(s) = Len(tee_ctxes)
      /\ \A c \in 1..Len(tee_ctxes) : s[c].busy = tee_ctxes[c].busy
      /\ \A c \in 1..Len(tee_ctxes) :
           s[c].ref_count = IF c = ctx[t] THEN tee_ctxes[ctx[t]].ref_count - 1 ELSE tee_ctxes[c].ref_count
  BY <1>1, <1>2, AssignCount
<1>4. tee_ctxes' = s
  BY DEF Release
<1>. HIDE DEF s
<1>5. /\ pc[t] = "release" /\ pc' = [pc EXCEPT ![t] = "idle"]
      /\ ctx' = [ctx EXCEPT ![t] = 0]
      /\ signed' = [signed EXCEPT ![t] = "none"]
      /\ UNCHANGED <<lock, failed, statics, panicked, raced>>
  BY DEF Release, Goto
<1>. QED BY <1>1, <1>3, <1>4, <1>5

\* Every step is one of these.
LEMMA Kinds ==
  ASSUME NEW t \in Instances, Act(t)
  PROVE  Lookup(t) \/ Load(t) \/ Release(t) \/ Quiet(t) \/ Locks(t) \/ Unlocks(t)
BY DEF Act, Step, Quiet, Locks, Unlocks

\* The contexts, the lock and the places of the instances keep their shape.
LEMMA PlacesShape ==
  ASSUME NEW t \in Instances, Shape, LockHeld, Act(t)
  PROVE  /\ tee_ctxes' \in Seq(Ctx)
         /\ lock' \in Instances \cup {NoInstance}
         /\ pc' \in [Instances -> Labels]
         /\ ctx' \in [Instances -> 0..Len(tee_ctxes')]
<1>0. /\ tee_ctxes \in Seq(Ctx) /\ Len(tee_ctxes) \in Nat
      /\ lock \in Instances \cup {NoInstance}
      /\ pc \in [Instances -> Labels]
      /\ ctx \in [Instances -> 0..Len(tee_ctxes)]
  BY DEF Shape, Ctx
<1>1. CASE Lookup(t)
  <2>1. CASE Miss(t)
    BY <1>0, <1>1, <2>1, LookupEffect DEF Miss, Labels
  <2>2. CASE Hit(t)
    <3>1. /\ tee_ctxes' \in Seq(Ctx) /\ Len(tee_ctxes') = Len(tee_ctxes)
          /\ 1 \in 0..Len(tee_ctxes)
          /\ ctx' = [ctx EXCEPT ![t] = 1] /\ pc' = [pc EXCEPT ![t] = "open"]
      BY <1>0, <2>2 DEF Hit
    <3>2. lock' = lock
      BY <1>1, LookupEffect
    <3>. QED BY <1>0, <3>1, <3>2 DEF Labels
  <2>. QED BY <1>1, <2>1, <2>2, LookupEffect
<1>2. CASE Load(t)
  <2>1. /\ tee_ctxes' \in Seq(Ctx) /\ Len(tee_ctxes') = Len(tee_ctxes) + 1
        /\ ctx' = [ctx EXCEPT ![t] = Len(tee_ctxes) + 1] /\ pc' = [pc EXCEPT ![t] = "open"]
        /\ lock' = lock
    BY <1>2, LoadEffect
  <2>. QED BY <1>0, <2>1 DEF Labels
<1>3. CASE Release(t)
  <2>1. /\ tee_ctxes' \in Seq(Ctx) /\ Len(tee_ctxes') = Len(tee_ctxes)
        /\ ctx' = [ctx EXCEPT ![t] = 0] /\ pc' = [pc EXCEPT ![t] = "idle"]
        /\ lock' = lock
    BY <1>3, ReleaseEffect
  <2>. QED BY <1>0, <2>1 DEF Labels
<1>4. CASE Quiet(t)
  BY <1>0, <1>4, QuietEffect DEF Moves
<1>5. CASE Locks(t)
  <2>1. ctx[t] # 0 /\ SetBusy(t) /\ UNCHANGED ctx /\ Moves(t)
    BY <1>5, LocksEffect
  <2>2. tee_ctxes' \in Seq(Ctx) /\ Len(tee_ctxes') = Len(tee_ctxes) /\ lock' = t
    BY <2>1, SetBusyEffect
  <2>. QED BY <1>0, <2>1, <2>2 DEF Moves
<1>6. CASE Unlocks(t)
  <2>1. ctx[t] # 0 /\ ClearBusy(t) /\ UNCHANGED ctx /\ Moves(t)
    BY <1>6, UnlocksEffect
  <2>2. tee_ctxes' \in Seq(Ctx) /\ Len(tee_ctxes') = Len(tee_ctxes) /\ lock' = NoInstance
    BY <2>1, ClearBusyEffect
  <2>. QED BY <1>0, <2>1, <2>2 DEF Moves
<1>. QED BY <1>1, <1>2, <1>3, <1>4, <1>5, <1>6, Kinds

\* So do the keypair, the quotes and the counts of the service.
LEMMA ValuesShape ==
  ASSUME NEW t \in Instances, Shape, LockHeld, Act(t)
  PROVE  /\ failed' \in [Instances -> BOOLEAN]
         /\ keypair' \in Keypairs
         /\ signed' \in [Instances -> Keypairs \cup {"none"}]
         /\ allocs' \in Nat /\ failures' \in Nat
<1>0. /\ failed \in [Instances -> BOOLEAN]
      /\ keypair \in Keypairs
      /\ signed \in [Instances -> Keypairs \cup {"none"}]
      /\ allocs \in Nat /\ failures \in Nat
  BY DEF Shape
<1>1. CASE Lookup(t)
  BY <1>0, <1>1, LookupEffect DEF statics
<1>2. CASE Load(t)
  BY <1>0, <1>2, LoadEffect DEF statics
<1>3. CASE Release(t)
  <2>1. /\ signed' = [signed EXCEPT ![t] = "none"]
        /\ UNCHANGED <<failed, keypair, allocs, failures>>
    BY <1>3, ReleaseEffect DEF statics
  <2>. QED BY <1>0, <2>1 DEF Keypairs
<1>4. CASE Quiet(t)
  <2>1. CASE LoadFails(t) \/ EnterOpen(t) \/ SignPanics(t) \/ Invoke(t) \/ Close(t)
    BY <1>0, <2>1 DEF LoadFails, EnterOpen, SignPanics, Invoke, Close, statics
  <2>2. CASE DeriveSeed(t)
    BY <1>0, <2>2 DEF DeriveSeed, Fail
  <2>3. CASE AllocKeypair(t)
    <3>1. signed' = signed /\ failures' = failures /\ allocs' \in {allocs, allocs + 1}
      BY <2>3 DEF AllocKeypair
    <3>2. failed' \in [Instances -> BOOLEAN]
      BY <1>0, <2>3 DEF AllocKeypair, Fail
    <3>3. keypair' \in {keypair, "zero", "allocated"}
      BY <2>3 DEF AllocKeypair
    <3>. QED BY <1>0, <3>1, <3>2, <3>3 DEF Keypairs
  <2>4. CASE GenerateKeypair(t)
    <3>1. signed' = signed /\ allocs' = allocs /\ failures' \in {failures, failures + 1}
      BY <2>4 DEF GenerateKeypair
    <3>2. failed' \in [Instances -> BOOLEAN]
      BY <1>0, <2>4 DEF GenerateKeypair, Fail
    <3>3. keypair' \in {keypair, "generated"}
      BY <2>4 DEF GenerateKeypair
    <3>. QED BY <1>0, <3>1, <3>2, <3>3 DEF Keypairs
  <2>5. CASE ExportPublicKey(t)
    <3>1. signed' = signed /\ allocs' = allocs /\ failures' \in {failures, failures + 1}
      BY <2>5 DEF ExportPublicKey
    <3>2. failed' \in [Instances -> BOOLEAN]
      BY <1>0, <2>5 DEF ExportPublicKey, Fail
    <3>3. keypair' \in {keypair, "exported"}
      BY <2>5 DEF ExportPublicKey
    <3>. QED BY <1>0, <3>1, <3>2, <3>3 DEF Keypairs
  <2>. QED BY <1>4, <2>1, <2>2, <2>3, <2>4, <2>5 DEF Quiet
<1>5. CASE Locks(t)
  BY <1>0, <1>5, LocksEffect DEF statics
<1>6. CASE Unlocks(t)
  <2>1. CASE LeaveOpen(t)
    BY <1>0, <2>1 DEF LeaveOpen, statics
  <2>2. CASE GenerateQuote(t)
    BY <1>0, <2>2 DEF GenerateQuote, statics
  <2>3. CASE LeaveClose(t)
    BY <1>0, <2>3 DEF LeaveClose, statics
  <2>. QED BY <1>6, <2>1, <2>2, <2>3 DEF Unlocks
<1>. QED BY <1>1, <1>2, <1>3, <1>4, <1>5, <1>6, Kinds

\* Whoever is in an entry point of the service holds the lock.
LEMMA LockHeldStep ==
  ASSUME NEW t \in Instances, Shape, LockHeld, Act(t)
  PROVE  LockHeld'
<1>0. /\ Len(tee_ctxes) \in Nat /\ NoInstance \notin Instances
      /\ pc \in [Instances -> Labels]
      /\ ctx \in [Instances -> 0..Len(tee_ctxes)]
  BY ServiceAssumption DEF Shape
<1>1. CASE Lookup(t)
  <2>0. pc[t] = "idle" /\ lock' = lock /\ lock # t
    BY <1>1, LookupEffect DEF LockHeld, Entered
  <2>1. CASE Miss(t)
    BY <1>0, <2>0, <2>1 DEF Miss, LockHeld, Entered
  <2>2. CASE Hit(t)
    <3>1. /\ pc' = [pc EXCEPT ![t] = "open"]
          /\ Len(tee_ctxes') = Len(tee_ctxes)
          /\ \A c \in 1..Len(tee_ctxes) : tee_ctxes'[c].busy = tee_ctxes[c].busy
          /\ ctx' = [ctx EXCEPT ![t] = 1]
      BY <2>2 DEF Hit
    <3>2. \A u \in Instances : pc'[u] \in Entered <=> lock' = u
      BY <1>0, <2>0, <3>1 DEF LockHeld, Entered
    <3>3. \A u \in Instances : ctx'[u] = 0 <=> pc'[u] \in {"idle", "load"}
      BY <1>0, <2>0, <3>1 DEF LockHeld
    <3>4. \A c \in 1..Len(tee_ctxes') :
            tee_ctxes'[c].busy => lock' \in Instances /\ ctx'[lock'] = c
      BY <1>0, <2>0, <3>1 DEF LockHeld
    <3>. QED BY <3>2, <3>3, <3>4 DEF LockHeld
  <2>. QED BY <1>1, <2>1, <2>2, LookupEffect
<1>2. CASE Load(t)
  <2>0. pc[t] = "load" /\ lock' = lock /\ lock # t
    BY <1>2, LoadEffect DEF LockHeld, Entered
  <2>1. /\ pc' = [pc EXCEPT ![t] = "open"]
        /\ Len(tee_ctxes') = Len(tee_ctxes) + 1
        /\ \A c \in 1..Len(tee_ctxes) : tee_ctxes'[c] = tee_ctxes[c]
        /\ ~tee_ctxes'[Len(tee_ctxes) + 1].busy
        /\ ctx' = [ctx EXCEPT ![t] = Len(tee_ctxes) + 1]
    BY <1>2, LoadEffect
  <2>2. \A u \in Instances : pc'[u] \in Entered <=> lock' = u
    BY <1>0, <2>0, <2>1 DEF LockHeld, Entered
  <2>3. \A u \in Instances : ctx'[u] = 0 <=> pc'[u] \in {"idle", "load"}
    BY <1>0, <2>0, <2>1 DEF LockHeld
  <2>4. ASSUME NEW c \in 1..Len(tee_ctxes'), tee_ctxes'[c].busy
        PROVE  lock' \in Instances /\ ctx'[lock'] = c
    <3>1. c \in 1..Len(tee_ctxes) /\ tee_ctxes[c].busy
      BY <1>0, <2>1, <2>4
    <3>. QED BY <1>0, <2>0, <2>1, <3>1 DEF LockHeld
  <2>. QED BY <2>2, <2>3, <2>4 DEF LockHeld
<1>3. CASE Release(t)
  <2>0. pc[t] = "release" /\ lock' = lock /\ lock # t
    BY <1>3, ReleaseEffect DEF LockHeld, Entered
  <2>1. /\ pc' = [pc EXCEPT ![t] = "idle"]
        /\ Len(tee_ctxes') = Len(tee_ctxes)
        /\ \A c \in 1..Len(tee_ctxes) : tee_ctxes'[c].busy = tee_ctxes[c].busy
        /\ ctx' = [ctx EXCEPT ![t] = 0]
    BY <1>3, ReleaseEffect
  <2>2. \A u \in Instances : pc'[u] \in Entered <=> lock' = u
    BY <1>0, <2>0, <2>1 DEF LockHeld, Entered
  <2>3. \A u \in Instances : ctx'[u] = 0 <=> pc'[u] \in {"idle", "load"}
    BY <1>0, <2>0, <2>1 DEF LockHeld
  <2>4. \A c \in 1..Len(tee_ctxes') :
          tee_ctxes'[c].busy => lock' \in Instances /\ ctx'[lock'] = c
    BY <1>0, <2>0, <2>1 DEF LockHeld
  <2>. QED BY <2>2, <2>3, <2>4 DEF LockHeld
<1>4. CASE Quiet(t)
  BY <1>0, <1>4, QuietEffect DEF Moves, LockHeld
<1>5. CASE Locks(t)
  <2>1. /\ ctx[t] # 0 /\ SetBusy(t) /\ UNCHANGED ctx /\ Moves(t)
        /\ pc'[t] \in {"entered", "signing", "closing"}
    BY <1>5, LocksEffect
  <2>2. /\ Len(tee_ctxes') = Len(tee_ctxes) /\ lock = NoInstance /\ lock' = t
        /\ \A c \in 1..Len(tee_ctxes) : tee_ctxes'[c].busy => tee_ctxes[c].busy \/ c = ctx[t]
    BY <2>1, SetBusyEffect
  <2>. QED BY <1>0, <2>1, <2>2 DEF Moves, LockHeld, Entered
<1>6. CASE Unlocks(t)
  <2>1. /\ ctx[t] # 0 /\ lock = t /\ ClearBusy(t) /\ UNCHANGED ctx /\ Moves(t)
        /\ pc'[t] \in {"close", "ready", "served", "release"}
    BY <1>6, UnlocksEffect
  <2>2. /\ Len(tee_ctxes') = Len(tee_ctxes) /\ lock' = NoInstance
        /\ \A c \in 1..Len(tee_ctxes) : tee_ctxes'[c].busy => tee_ctxes[c].busy /\ c # ctx[t]
    BY <2>1, ClearBusyEffect
  <2>. QED BY <1>0, <2>1, <2>2 DEF Moves, LockHeld, Entered
<1>. QED BY <1>1, <1>2, <1>3, <1>4, <1>5, <1>6, Kinds

\* The shape is kept.
LEMMA ShapeStep ==
  ASSUME NEW t \in Instances, Shape, LockHeld, Act(t)
  PROVE  Shape'
BY PlacesShape, ValuesShape DEF Shape, Ctx

\* One instance at most is in an entry point, so a derivation in progress is
\* that instance's.
InProgress == \E t \in Instances : pc[t] \in {"generate", "export"}

\* Whether a derivation is in progress depends on the holder of the lock alone.
LEMMA InProgressOfHolder ==
  ASSUME NEW t \in Instances, LockHeld, pc[t] \in Entered
  PROVE  InProgress <=> pc[t] \in {"generate", "export"}
BY DEF InProgress, LockHeld, Entered

\* It is the same after a step of an instance that is not deriving before or after it.
LEMMA InProgressKept ==
  ASSUME NEW t \in Instances, Shape, Moves(t),
         pc[t] \notin {"generate", "export"}, pc'[t] \notin {"generate", "export"}
  PROVE  InProgress' <=> InProgress
<1>1. pc \in [Instances -> Labels]
  BY DEF Shape
<1>2. \A u \in Instances : u # t => pc'[u] = pc[u]
  BY <1>1 DEF Moves
<1>. QED BY <1>2 DEF InProgress

\* Every step moves one instance.
LEMMA MovesStep ==
  ASSUME NEW t \in Instances, Shape, LockHeld, Act(t)
  PROVE  Moves(t)
<1>0. pc \in [Instances -> Labels]
  BY DEF Shape
<1>1. CASE Lookup(t)
  BY <1>0, <1>1, LookupEffect DEF Miss, Hit, Moves, Labels
<1>2. CASE Load(t)
  <2>1. pc' = [pc EXCEPT ![t] = "open"]
    BY <1>2, LoadEffect
  <2>. QED BY <1>0, <2>1 DEF Moves, Labels
<1>3. CASE Release(t)
  <2>1. pc' = [pc EXCEPT ![t] = "idle"]
    BY <1>3, ReleaseEffect
  <2>. QED BY <1>0, <2>1 DEF Moves, Labels
<1>. QED BY <1>1, <1>2, <1>3, Kinds, QuietEffect, LocksEffect, UnlocksEffect

\* The steps of a derivation.
Derives(t) == AllocKeypair(t) \/ GenerateKeypair(t) \/ ExportPublicKey(t)

\* The other steps leave the keypair and its history alone, and neither start
\* nor end a derivation.
LEMMA NotDeriving ==
  ASSUME NEW t \in Instances, Shape, LockHeld, Act(t), ~Derives(t)
  PROVE  /\ UNCHANGED <<keypair, is_attestation_ecdsa_keypair_derived, allocs, failures>>
         /\ pc[t] \notin {"generate", "export"} /\ pc'[t] \notin {"generate", "export"}
<1>0. pc \in [Instances -> Labels]
  BY DEF Shape
<1>1. CASE Lookup(t)
  BY <1>0, <1>1 DEF Lookup, Goto, statics
<1>2. CASE Load(t)
  BY <1>0, <1>2 DEF Load, Goto, statics
<1>3. CASE Release(t)
  BY <1>0, <1>3 DEF Release, Goto, statics
<1>4. CASE Quiet(t)
  <2>1. CASE LoadFails(t)
    BY <1>0, <2>1 DEF LoadFails, Goto, statics
  <2>2. CASE EnterOpen(t)
    BY <1>0, <2>2 DEF EnterOpen, Goto, statics
  <2>3. CASE DeriveSeed(t)
    BY <1>0, <2>3 DEF DeriveSeed, Fail, Goto
  <2>4. CASE SignPanics(t)
    BY <1>0, <2>4 DEF SignPanics, statics
  <2>5. CASE Invoke(t) \/ Close(t)
    BY <1>0, <2>5 DEF Invoke, Close, Goto, statics
  <2>. QED BY <1>4, <2>1, <2>2, <2>3, <2>4, <2>5 DEF Quiet, Derives
<1>5. CASE Locks(t)
  BY <1>0, <1>5 DEF Locks, OpenBusy, InvokeBusy, CloseBusy, Goto, statics
<1>6. CASE Unlocks(t)
  BY <1>0, <1>6 DEF Unlocks, LeaveOpen, GenerateQuote, LeaveClose, Goto, statics
<1>. QED BY <1>1, <1>2, <1>3, <1>4, <1>5, <1>6, Kinds

\* A derivation ends before another begins, and the first to succeed is the last.
LEMMA DerivingStep ==
  ASSUME NEW t \in Instances, Shape, LockHeld, Deriving, Act(t)
  PROVE  Deriving'
<1>0. pc \in [Instances -> Labels]
  BY DEF Shape
<1>1. CASE ~Derives(t)
  <2>1. \A u \in Instances : pc'[u] \in {"generate", "export"} => pc[u] \in {"generate", "export"}
    BY <1>0, <1>1, NotDeriving, MovesStep DEF Moves
  <2>. QED BY <1>1, <2>1, NotDeriving DEF Deriving, Derived
<1>2. CASE AllocKeypair(t)
  BY <1>0, <1>2 DEF AllocKeypair, MustDerive, Fail, Goto, Deriving, Derived
<1>3. CASE GenerateKeypair(t)
  BY <1>0, <1>3 DEF GenerateKeypair, Fail, Goto, Deriving, Derived
<1>4. CASE ExportPublicKey(t)
  <2>1. \A u \in Instances : u # t => pc[u] \notin {"generate", "export"}
    BY <1>4 DEF ExportPublicKey, LockHeld, Entered
  <2>. QED BY <1>0, <1>4, <2>1 DEF ExportPublicKey, Fail, Goto, Deriving, Derived
<1>. QED BY <1>1, <1>2, <1>3, <1>4 DEF Derives

\* Keypairs are counted.
LEMMA AllocatedOnceStep ==
  ASSUME NEW t \in Instances, Shape, LockHeld, LockHeld', Deriving, AllocatedOnce, Act(t)
  PROVE  AllocatedOnce'
<1>0. /\ pc \in [Instances -> Labels] /\ allocs \in Nat /\ failures \in Nat
      /\ allocs = failures + (IF Derived \/ InProgress THEN 1 ELSE 0)
  BY DEF Shape, AllocatedOnce, InProgress
<1>. SUFFICES allocs' = failures' + (IF Derived' \/ InProgress' THEN 1 ELSE 0)
  BY DEF AllocatedOnce, InProgress
<1>1. CASE ~Derives(t)
  <2>1. InProgress' <=> InProgress
    BY <1>1, NotDeriving, MovesStep, InProgressKept
  <2>. QED BY <1>0, <1>1, <2>1, NotDeriving DEF Derived
<1>2. CASE Derives(t)
  <2>1. pc[t] \in Entered /\ pc'[t] \in Entered
    BY <1>0, <1>2 DEF Derives, AllocKeypair, GenerateKeypair, ExportPublicKey, Fail, Goto, Entered
  <2>2. InProgress <=> pc[t] \in {"generate", "export"}
    BY <2>1, InProgressOfHolder
  <2>3. InProgress' <=> pc'[t] \in {"generate", "export"}
    BY <2>1 DEF InProgress, LockHeld, Entered
  <2>4. CASE AllocKeypair(t)
    BY <1>0, <2>2, <2>3, <2>4 DEF AllocKeypair, MustDerive, Fail, Goto, Derived
  <2>5. CASE GenerateKeypair(t)
    BY <1>0, <2>2, <2>3, <2>5 DEF GenerateKeypair, Fail, Goto, Deriving, Derived
  <2>6. CASE ExportPublicKey(t)
    BY <1>0, <2>2, <2>3, <2>6 DEF ExportPublicKey, Fail, Goto, Deriving, Derived
  <2>. QED BY <1>2, <2>4, <2>5, <2>6 DEF Derives
<1>. QED BY <1>1, <1>2

\* A race is never forgotten, and neither is a keypair.
LEMMA Monotonic ==
  ASSUME NEW t \in Instances, Shape, LockHeld, Act(t)
  PROVE  (raced => raced') /\ (Derived => Derived')
<1>1. raced => raced'
  <2>1. CASE Lookup(t)
    BY <2>1, LookupEffect DEF Miss, Hit
  <2>2. CASE Load(t)
    BY <2>2, LoadEffect
  <2>3. CASE Release(t)
    BY <2>3, ReleaseEffect
  <2>. QED BY <2>1, <2>2, <2>3, Kinds, QuietEffect, LocksEffect, UnlocksEffect
<1>2. Derived => Derived'
  <2>1. CASE Derives(t)
    BY <2>1 DEF Derives, AllocKeypair, GenerateKeypair, ExportPublicKey, Derived
  <2>2. CASE ~Derives(t)
    BY <2>2, NotDeriving DEF Derived
  <2>. QED BY <2>1, <2>2
<1>. QED BY <1>1, <1>2

\* The two halves of Unraced: what the contexts count, and how far sessions get.
Own ==
  /\ \A t, u \in Instances : ctx[t] = ctx[u] /\ ctx[t] # 0 => t = u
  /\ \A t \in Instances : ctx[t] # 0 => tee_ctxes[ctx[t]].ref_count = 1
  /\ \A c \in 1..Len(tee_ctxes) :
       (\A t \in Instances : ctx[t] # c) => tee_ctxes[c].ref_count = 0
Unopened ==
  /\ \A t \in Instances : pc[t] \notin {"ready", "invoke", "served", "signing"}
  /\ \A t \in Instances : pc[t] = "opened" => failed[t]

\* The contexts and what they count are kept by a step that changes neither.
LEMMA OwnKept ==
  ASSUME Shape, Own, ctx' = ctx, Len(tee_ctxes') = Len(tee_ctxes),
         \A c \in 1..Len(tee_ctxes) : tee_ctxes'[c].ref_count = tee_ctxes[c].ref_count
  PROVE  Own'
<1>1. \A t \in Instances : ctx[t] # 0 => ctx[t] \in 1..Len(tee_ctxes)
  BY DEF Shape
<1>2. \A t, u \in Instances : ctx'[t] = ctx'[u] /\ ctx'[t] # 0 => t = u
  BY DEF Own
<1>3. \A t \in Instances : ctx'[t] # 0 => tee_ctxes'[ctx'[t]].ref_count = 1
  BY <1>1 DEF Own
<1>4. \A c \in 1..Len(tee_ctxes') :
        (\A t \in Instances : ctx'[t] # c) => tee_ctxes'[c].ref_count = 0
  BY DEF Own
<1>. QED BY <1>2, <1>3, <1>4 DEF Own

\* While nothing raced, every session keeps a context of its own.
LEMMA OwnStep ==
  ASSUME NEW t \in Instances, Shape, LockHeld, Own, ~Derived, ~raced', Act(t)
  PROVE  Own'
<1>0. /\ Len(tee_ctxes) \in Nat
      /\ ctx \in [Instances -> 0..Len(tee_ctxes)]
      /\ \A u \in Instances : ctx[u] # 0 => ctx[u] \in 1..Len(tee_ctxes)
  BY DEF Shape
<1>1. CASE Lookup(t)
  <2>1. CASE Miss(t)
    BY <2>1, OwnKept DEF Miss
  <2>2. CASE Hit(t)
    <3>1. /\ 1 \in 1..Len(tee_ctxes)
          /\ Len(tee_ctxes') = Len(tee_ctxes)
          /\ \A c \in 1..Len(tee_ctxes) :
               tee_ctxes'[c].ref_count =
                 IF c = 1 THEN tee_ctxes[c].ref_count + 1 ELSE tee_ctxes[c].ref_count
          /\ ctx' = [ctx EXCEPT ![t] = 1]
          /\ ~(tee_ctxes[1].ref_count > 0)
      BY <2>2 DEF Hit
    <3>2. \A u \in Instances : ctx[u] # 1
      BY <3>1 DEF Own
    <3>3. tee_ctxes[1].ref_count = 0
      BY <3>1, <3>2 DEF Own
    <3>4. tee_ctxes'[1].ref_count = 1
      BY <3>1, <3>3
    <3>5. \A u \in Instances : ctx'[u] = IF u = t THEN 1 ELSE ctx[u]
      BY <1>0, <3>1
    <3>6. \A u, w \in Instances : ctx'[u] = ctx'[w] /\ ctx'[u] # 0 => u = w
      BY <3>2, <3>5 DEF Own
    <3>7. \A u \in Instances : ctx'[u] # 0 => tee_ctxes'[ctx'[u]].ref_count = 1
      <4>. TAKE u \in Instances
      <4>1. CASE u = t
        BY <3>4, <3>5, <4>1
      <4>2. CASE u # t
        BY <1>0, <3>1, <3>2, <3>5, <4>2 DEF Own
      <4>. QED BY <4>1, <4>2
    <3>8. \A c \in 1..Len(tee_ctxes') :
            (\A u \in Instances : ctx'[u] # c) => tee_ctxes'[c].ref_count = 0
      <4>. SUFFICES ASSUME NEW c \in 1..Len(tee_ctxes), \A u \in Instances : ctx'[u] # c
                    PROVE  tee_ctxes'[c].ref_count = 0
        BY <3>1
      <4>1. c # 1
        BY <3>5
      <4>2. CASE ctx[t] = c
        <5>1. ctx[t] = 0
          BY <1>1, LookupEffect DEF LockHeld
        <5>. QED BY <1>0, <4>2, <5>1
      <4>3. CASE ctx[t] # c
        BY <3>1, <3>5, <4>1, <4>3 DEF Own
      <4>. QED BY <4>2, <4>3
    <3>. QED BY <3>6, <3>7, <3>8 DEF Own
  <2>. QED BY <1>1, <2>1, <2>2, LookupEffect
<1>2. CASE Load(t)
  <2>1. /\ Len(tee_ctxes') = Len(tee_ctxes) + 1
        /\ \A c \in 1..Len(tee_ctxes) : tee_ctxes'[c] = tee_ctxes[c]
        /\ tee_ctxes'[Len(tee_ctxes) + 1].ref_count = 1
        /\ ctx' = [ctx EXCEPT ![t] = Len(tee_ctxes) + 1]
        /\ pc[t] = "load"
    BY <1>2, LoadEffect
  <2>2. \A u \in Instances : ctx'[u] = IF u = t THEN Len(tee_ctxes) + 1 ELSE ctx[u]
    BY <1>0, <2>1
  <2>3. \A u \in Instances : ctx[u] # Len(tee_ctxes) + 1
    BY <1>0
  <2>4. \A u, w \in Instances : ctx'[u] = ctx'[w] /\ ctx'[u] # 0 => u = w
    BY <2>2, <2>3 DEF Own
  <2>5. \A u \in Instances : ctx'[u] # 0 => tee_ctxes'[ctx'[u]].ref_count = 1
    <3>. TAKE u \in Instances
    <3>1. CASE u = t
      BY <2>1, <2>2, <3>1
    <3>2. CASE u # t
      BY <1>0, <2>1, <2>2, <3>2 DEF Own
    <3>. QED BY <3>1, <3>2
  <2>6. \A c \in 1..Len(tee_ctxes') :
          (\A u \in Instances : ctx'[u] # c) => tee_ctxes'[c].ref_count = 0
    <3>. SUFFICES ASSUME NEW c \in 1..Len(tee_ctxes'), \A u \in Instances : ctx'[u] # c
                  PROVE  tee_ctxes'[c].ref_count = 0
      OBVIOUS
    <3>1. c \in 1..Len(tee_ctxes)
      BY <1>0, <2>1, <2>2
    <3>2. ctx[t] = 0
      BY <2>1 DEF LockHeld
    <3>3. \A u \in Instances : ctx[u] # c
      BY <1>0, <2>2, <3>1, <3>2
    <3>. QED BY <2>1, <3>1, <3>3 DEF Own
  <2>. QED BY <2>4, <2>5, <2>6 DEF Own
<1>3. CASE Release(t)
  <2>1. /\ ctx[t] \in 1..Len(tee_ctxes)
        /\ Len(tee_ctxes') = Len(tee_ctxes)
        /\ \A c \in 1..Len(tee_ctxes) :
             tee_ctxes'[c].ref_count =
               IF c = ctx[t] THEN tee_ctxes[c].ref_count - 1 ELSE tee_ctxes[c].ref_count
        /\ ctx' = [ctx EXCEPT ![t] = 0]
    BY <1>3, ReleaseEffect
  <2>2. \A u \in Instances : ctx'[u] = IF u = t THEN 0 ELSE ctx[u]
    BY <1>0, <2>1
  <2>3. \A u \in Instances : u # t => ctx[u] # ctx[t]
    BY <1>0, <2>1 DEF Own
  <2>4. tee_ctxes'[ctx[t]].ref_count = 0
    <3>1. tee_ctxes[ctx[t]].ref_count = 1
      BY <1>0, <2>1 DEF Own
    <3>. QED BY <2>1, <3>1
  <2>5. \A u, w \in Instances : ctx'[u] = ctx'[w] /\ ctx'[u] # 0 => u = w
    BY <2>2 DEF Own
  <2>6. \A u \in Instances : ctx'[u] # 0 => tee_ctxes'[ctx'[u]].ref_count = 1
    <3>. SUFFICES ASSUME NEW u \in Instances, ctx'[u] # 0
                  PROVE  tee_ctxes'[ctx'[u]].ref_count = 1
      OBVIOUS
    <3>1. u # t /\ ctx'[u] = ctx[u] /\ ctx[u] # ctx[t] /\ ctx[u] \in 1..Len(tee_ctxes)
      BY <1>0, <2>2, <2>3
    <3>. QED BY <2>1, <3>1 DEF Own
  <2>7. \A c \in 1..Len(tee_ctxes') :
          (\A u \in Instances : ctx'[u] # c) => tee_ctxes'[c].ref_count = 0
    <3>. SUFFICES ASSUME NEW c \in 1..Len(tee_ctxes), \A u \in Instances : ctx'[u] # c
                  PROVE  tee_ctxes'[c].ref_count = 0
      BY <2>1
    <3>1. CASE c = ctx[t]
      BY <2>4, <3>1
    <3>2. CASE c # ctx[t]
      BY <2>1, <2>2, <3>2 DEF Own
    <3>. QED BY <3>1, <3>2
  <2>. QED BY <2>5, <2>6, <2>7 DEF Own
<1>4. CASE Quiet(t)
  BY <1>4, QuietEffect, OwnKept
<1>5. CASE Locks(t)
  <2>1. ctx[t] # 0 /\ SetBusy(t) /\ ctx' = ctx
    BY <1>5, LocksEffect
  <2>. QED BY <2>1, SetBusyEffect, OwnKept
<1>6. CASE Unlocks(t)
  <2>1. ctx[t] # 0 /\ ClearBusy(t) /\ ctx' = ctx
    BY <1>6, UnlocksEffect
  <2>. QED BY <2>1, ClearBusyEffect, OwnKept
<1>. QED BY <1>1, <1>2, <1>3, <1>4, <1>5, <1>6, Kinds

\* An instance that has just opened a session has derived the keypair, or failed.
LEMMA UnopenedStep ==
  ASSUME NEW t \in Instances, Shape, LockHeld, Own, Unopened, ~Derived, ~Derived', Act(t)
  PROVE  Unopened'
<1>0. pc \in [Instances -> Labels] /\ failed \in [Instances -> BOOLEAN]
  BY DEF Shape
<1>1. SUFFICES /\ pc'[t] \notin {"ready", "invoke", "served", "signing"}
               /\ pc'[t] = "opened" => failed'[t]
               /\ \A u \in Instances : u # t => failed'[u] = failed[u]
  <2>1. \A u \in Instances : u # t => pc'[u] = pc[u]
    BY <1>0, MovesStep DEF Moves
  <2>. QED BY <1>1, <2>1 DEF Unopened
<1>2. pc[t] \notin {"ready", "invoke", "served", "signing"} /\ (pc[t] = "opened" => failed[t])
  BY DEF Unopened
<1>3. CASE Lookup(t)
  BY <1>0, <1>3 DEF Lookup, Goto
<1>4. CASE Load(t)
  BY <1>0, <1>4 DEF Load, Goto
<1>5. CASE Release(t)
  BY <1>0, <1>5 DEF Release, Goto
<1>6. CASE Quiet(t)
  <2>1. CASE LoadFails(t)
    BY <1>0, <2>1 DEF LoadFails, Goto
  <2>2. CASE EnterOpen(t)
    <3>1. MustCreate(t)
      BY <2>2 DEF EnterOpen, MustCreate, LockHeld, Own
    <3>. QED BY <1>0, <2>2, <3>1 DEF EnterOpen, Goto
  <2>3. CASE DeriveSeed(t)
    BY <1>0, <2>3 DEF DeriveSeed, Fail, Goto
  <2>4. CASE AllocKeypair(t)
    BY <1>0, <2>4 DEF AllocKeypair, MustDerive, Fail, Goto, Derived
  <2>5. CASE GenerateKeypair(t)
    BY <1>0, <2>5 DEF GenerateKeypair, Fail, Goto
  <2>6. CASE ExportPublicKey(t)
    BY <1>0, <2>6 DEF ExportPublicKey, Fail, Goto, Derived
  <2>7. CASE SignPanics(t) \/ Invoke(t) \/ Close(t)
    BY <1>2, <2>7 DEF SignPanics, Invoke, Close, Goto
  <2>. QED BY <1>6, <2>1, <2>2, <2>3, <2>4, <2>5, <2>6, <2>7 DEF Quiet
<1>7. CASE Locks(t)
  BY <1>0, <1>2, <1>7 DEF Locks, OpenBusy, InvokeBusy, CloseBusy, Goto
<1>8. CASE Unlocks(t)
  BY <1>0, <1>2, <1>8 DEF Unlocks, LeaveOpen, GenerateQuote, LeaveClose, Goto
<1>. QED BY <1>3, <1>4, <1>5, <1>6, <1>7, <1>8, Kinds

\* The quotes and the panic follow.
LEMMA SignedStep ==
  ASSUME NEW t \in Instances, Shape, LockHeld, Deriving, Unraced, DerivedUnlessRaced, Act(t)
  PROVE  DerivedUnlessRaced'
<1>0. signed \in [Instances -> Keypairs \cup {"none"}]
  BY DEF Shape
<1>. SUFFICES ASSUME ~raced'
              PROVE  ~panicked' /\ \A u \in Instances : signed'[u] \in {"none", "exported"}
  BY DEF DerivedUnlessRaced
<1>1. ~raced /\ ~panicked /\ \A u \in Instances : signed[u] \in {"none", "exported"}
  BY Monotonic DEF DerivedUnlessRaced
<1>2. pc[t] = "signing" => keypair = "exported"
  BY <1>1 DEF Unraced, Deriving
<1>3. CASE GenerateQuote(t)
  BY <1>0, <1>1, <1>2, <1>3 DEF GenerateQuote
<1>4. CASE SignPanics(t)
  BY <1>2, <1>4 DEF SignPanics
<1>5. CASE Release(t)
  BY <1>0, <1>1, <1>5 DEF Release
<1>6. CASE ~GenerateQuote(t) /\ ~SignPanics(t) /\ ~Release(t)
  <2>1. UNCHANGED <<signed, panicked>>
    BY <1>6 DEF Act, Step, Lookup, Invoke, InvokeBusy, Close, Load, LoadFails, OpenBusy, EnterOpen,
                DeriveSeed, AllocKeypair, GenerateKeypair, ExportPublicKey, LeaveOpen, CloseBusy,
                LeaveClose
  <2>. QED BY <1>1, <2>1
<1>. QED BY <1>3, <1>4, <1>5, <1>6

\* The inductive invariant holds initially and is kept by every step.
THEOREM ServiceInvariant == Spec => []AInv
<1>1. Init => AInv
  <2>. SUFFICES ASSUME Init PROVE AInv
    OBVIOUS
  <2>1. tee_ctxes = <<>> /\ tee_ctxes \in Seq(Ctx) /\ Len(tee_ctxes) = 0
    BY EmptySeq DEF Init
  <2>2. Shape
    BY <2>1 DEF Init, Shape, Ctx, Labels, Keypairs
  <2>3. LockHeld
    BY <2>1, ServiceAssumption DEF Init, LockHeld, Entered
  <2>4. Deriving /\ AllocatedOnce /\ DerivedUnlessRaced
    BY DEF Init, Deriving, Derived, AllocatedOnce, DerivedUnlessRaced
  <2>5. Unraced
    BY <2>1 DEF Init, Unraced
  <2>. QED BY <2>2, <2>3, <2>4, <2>5 DEF AInv
<1>2. AInv /\ [Next]_vars => AInv'
  <2>. SUFFICES ASSUME AInv, [Next]_vars PROVE AInv'
    OBVIOUS
  <2>1. Shape /\ LockHeld /\ Deriving /\ AllocatedOnce /\ Unraced /\ DerivedUnlessRaced
    BY DEF AInv
  <2>2. ASSUME NEW t \in Instances, Act(t) PROVE AInv'
    <3>1. Shape' /\ LockHeld'
      BY <2>1, <2>2, ShapeStep, LockHeldStep
    <3>2. Deriving' /\ AllocatedOnce'
      BY <2>1, <2>2, <3>1, DerivingStep, AllocatedOnceStep
    <3>3. Unraced'
      <4>1. CASE ~raced' /\ ~Derived'
        <5>1. ~raced /\ ~Derived
          BY <2>1, <2>2, <4>1, Monotonic
        <5>2. Own /\ Unopened
          BY <2>1, <5>1 DEF Unraced, Own, Unopened
        <5>3. Own' /\ Unopened'
          BY <2>1, <2>2, <4>1, <5>1, <5>2, OwnStep, UnopenedStep
        <5>. QED BY <5>3 DEF Unraced, Own, Unopened
      <4>2. CASE raced' \/ Derived'
        BY <4>2 DEF Unraced
      <4>. QED BY <4>1, <4>2
    <3>4. DerivedUnlessRaced'
      BY <2>1, <2>2, SignedStep
    <3>. QED BY <3>1, <3>2, <3>3, <3>4 DEF AInv
  <2>3. CASE UNCHANGED vars
    BY <2>1, <2>3 DEF vars, statics, AInv, Shape, LockHeld, Deriving, Derived, AllocatedOnce,
                      Unraced, DerivedUnlessRaced
  <2>4. CASE Next
    BY <2>2, <2>4 DEF Next, Act
  <2>. QED BY <2>3, <2>4
<1>. QED BY <1>1, <1>2, PTL DEF Spec

\* The statics of the service are used by one instance at a time: the entry points
\* run under the single-instance lock of OP-TEE, however many contexts there are.
THEOREM OneInstanceAtATime == Spec => []StaticsExclusive
<1>1. AInv => StaticsExclusive
  BY DEF AInv, LockHeld, StaticsExclusive
<1>. QED BY <1>1, ServiceInvariant, PTL

\* tee_ta_set_busy never finds the context of a session busy once it has the lock.
THEOREM SetBusyNeverPanics == Spec => []NeverBusy
<1>1. AInv => NeverBusy
  <2>. SUFFICES ASSUME AInv, lock = NoInstance PROVE \A c \in DOMAIN tee_ctxes : ~tee_ctxes[c].busy
    BY DEF NeverBusy
  <2>1. DOMAIN tee_ctxes = 1..Len(tee_ctxes)
    BY DEF AInv, Shape
  <2>. QED BY <2>1, ServiceAssumption DEF AInv, LockHeld
<1>. QED BY <1>1, ServiceInvariant, PTL

\* derive_attestation_ecdsa_keypair allocates one keypair, and one more for each
\* derivation that failed after its allocation.
THEOREM KeypairAllocatedOnce == Spec => []AllocatedOnce
<1>1. AInv => AllocatedOnce
  BY DEF AInv
<1>. QED BY <1>1, ServiceInvariant, PTL

\* Only a lookup that comes between the load of a context and its create lets a quote
\* be signed with a keypair that is not derived, or the core panic on it.
THEOREM OnlyRacesUnderive == Spec => []DerivedUnlessRaced
<1>1. AInv => DerivedUnlessRaced
  BY DEF AInv
<1>. QED BY <1>1, ServiceInvariant, PTL
-----------------------------------------------------------------------------
(***************************************************************************)
(* The reference counts.                                                   *)
(***************************************************************************)

\* The instances with a session in context c.
Users(c) == {t \in Instances : ctx[t] = c}

\* There are finitely many.
LEMMA UsersFinite ==
  ASSUME NEW c PROVE IsFiniteSet(Users(c)) /\ Cardinality(Users(c)) \in Nat
<1>1. IsFiniteSet(Users(c))
  BY ServiceAssumption, FS_Subset DEF Users
<1>. QED BY <1>1, FS_CardinalityType

\* One session more.
LEMMA UserJoins ==
  ASSUME NEW t \in Instances, NEW c, ctx[t] # c, Users(c)' = Users(c) \cup {t}
  PROVE  Cardinality(Users(c)') = Cardinality(Users(c)) + 1
<1>1. t \notin Users(c) /\ IsFiniteSet(Users(c))
  BY UsersFinite DEF Users
<1>. QED BY <1>1, FS_AddElement

\* And one less.
LEMMA UserLeaves ==
  ASSUME NEW t \in Instances, NEW c, ctx[t] = c, Users(c)' = Users(c) \ {t}
  PROVE  Cardinality(Users(c)') = Cardinality(Users(c)) - 1
<1>1. t \in Users(c) /\ IsFiniteSet(Users(c))
  BY UsersFinite DEF Users
<1>. QED BY <1>1, FS_RemoveElement

\* An instance that changes its context leaves the others where they are.
LEMMA UsersMove ==
  ASSUME NEW t \in Instances, NEW v, Shape, ctx' = [ctx EXCEPT ![t] = v]
  PROVE  \A c : Users(c)' = IF c = v THEN Users(c) \cup {t} ELSE Users(c) \ {t}
<1>1. \A u \in Instances : ctx'[u] = IF u = t THEN v ELSE ctx[u]
  BY DEF Shape
<1>. QED BY <1>1 DEF Users

\* What CountsSessions says, in the words of this module.
Counted == \A c \in 1..Len(tee_ctxes) : tee_ctxes[c].ref_count = Cardinality(Users(c))

\* A reference is taken with the session and given back with it, on every path.
LEMMA CountedStep ==
  ASSUME NEW t \in Instances, Shape, LockHeld, Counted, Act(t)
  PROVE  Counted'
<1>0. /\ tee_ctxes \in Seq(Ctx) /\ Len(tee_ctxes) \in Nat
      /\ ctx \in [Instances -> 0..Len(tee_ctxes)]
  BY DEF Shape, Ctx
<1>1. ASSUME Len(tee_ctxes') = Len(tee_ctxes), UNCHANGED ctx,
             \A c \in 1..Len(tee_ctxes) : tee_ctxes'[c].ref_count = tee_ctxes[c].ref_count
      PROVE  Counted'
  BY <1>1 DEF Counted, Users
<1>2. CASE Lookup(t)
  <2>1. CASE Miss(t)
    BY <1>1, <2>1 DEF Miss
  <2>2. CASE Hit(t)
    <3>1. ctx[t] = 0
      BY <1>2, LookupEffect DEF LockHeld
    <3>2. ctx' = [ctx EXCEPT ![t] = 1] /\ Len(tee_ctxes') = Len(tee_ctxes) /\ 1 \in 1..Len(tee_ctxes)
      BY <2>2 DEF Hit
    <3>3. ASSUME NEW c \in 1..Len(tee_ctxes)
          PROVE  tee_ctxes'[c].ref_count = Cardinality(Users(c)')
      <4>1. CASE c = 1
        <5>1. Users(c)' = Users(c) \cup {t}
          BY <3>2, <4>1, UsersMove
        <5>2. Cardinality(Users(c)') = Cardinality(Users(c)) + 1
          BY <3>1, <4>1, <5>1, UserJoins
        <5>3. tee_ctxes'[c].ref_count = tee_ctxes[c].ref_count + 1
          BY <2>2, <4>1 DEF Hit
        <5>. QED BY <5>2, <5>3 DEF Counted
      <4>2. CASE c # 1
        <5>1. Users(c)' = Users(c) \ {t}
          BY <3>2, <4>2, UsersMove
        <5>2. Users(c)' = Users(c)
          BY <3>1, <5>1 DEF Users
        <5>3. tee_ctxes'[c].ref_count = tee_ctxes[c].ref_count
          BY <2>2, <4>2 DEF Hit
        <5>. QED BY <5>2, <5>3 DEF Counted
      <4>. QED BY <4>1, <4>2
    <3>. QED BY <3>2, <3>3 DEF Counted
  <2>. QED BY <1>2, <2>1, <2>2, LookupEffect
<1>3. CASE Load(t)
  <2>. DEFINE new == Len(tee_ctxes) + 1
  <2>1. ctx[t] = 0
    BY <1>3, LoadEffect DEF LockHeld
  <2>2. /\ ctx' = [ctx EXCEPT ![t] = new] /\ Len(tee_ctxes') = new
        /\ tee_ctxes'[new].ref_count = 1
        /\ \A c \in 1..Len(tee_ctxes) : tee_ctxes'[c] = tee_ctxes[c]
    BY <1>3, LoadEffect
  <2>3. ASSUME NEW c \in 1..new PROVE tee_ctxes'[c].ref_count = Cardinality(Users(c)')
    <3>1. CASE c = new
      <4>1. Users(c) = {}
        BY <1>0, <3>1 DEF Users
      <4>2. Users(c)' = {t}
        BY <2>2, <3>1, <4>1, UsersMove
      <4>. QED BY <2>2, <3>1, <4>2, FS_Singleton
    <3>2. CASE c # new
      <4>1. c \in 1..Len(tee_ctxes)
        BY <1>0, <3>2
      <4>2. Users(c)' = Users(c)
        BY <2>1, <2>2, <3>2, UsersMove DEF Users
      <4>. QED BY <2>2, <4>1, <4>2 DEF Counted
    <3>. QED BY <3>1, <3>2
  <2>. QED BY <2>2, <2>3 DEF Counted
<1>4. CASE Release(t)
  <2>1. /\ ctx' = [ctx EXCEPT ![t] = 0] /\ Len(tee_ctxes') = Len(tee_ctxes)
        /\ ctx[t] \in 1..Len(tee_ctxes)
        /\ \A c \in 1..Len(tee_ctxes) :
             tee_ctxes'[c].ref_count =
               IF c = ctx[t] THEN tee_ctxes[c].ref_count - 1 ELSE tee_ctxes[c].ref_count
    BY <1>4, ReleaseEffect
  <2>2. ASSUME NEW c \in 1..Len(tee_ctxes)
        PROVE  tee_ctxes'[c].ref_count = Cardinality(Users(c)')
    <3>1. Users(c)' = Users(c) \ {t}
      <4>1. c # 0
        BY <1>0
      <4>. QED BY <2>1, <4>1, UsersMove
    <3>2. CASE c = ctx[t]
      <4>1. Cardinality(Users(c)') = Cardinality(Users(c)) - 1
        BY <3>1, <3>2, UserLeaves
      <4>. QED BY <2>1, <3>2, <4>1 DEF Counted
    <3>3. CASE c # ctx[t]
      <4>1. Users(c)' = Users(c)
        BY <3>1, <3>3 DEF Users
      <4>. QED BY <2>1, <3>3, <4>1 DEF Counted
    <3>. QED BY <3>2, <3>3
  <2>. QED BY <2>1, <2>2 DEF Counted
<1>5. CASE Quiet(t)
  BY <1>1, <1>5, QuietEffect
<1>6. CASE Locks(t)
  <2>1. ctx[t] # 0 /\ SetBusy(t) /\ UNCHANGED ctx
    BY <1>6, LocksEffect
  <2>. QED BY <1>1, <2>1, SetBusyEffect
<1>7. CASE Unlocks(t)
  <2>1. ctx[t] # 0 /\ ClearBusy(t) /\ UNCHANGED ctx
    BY <1>7, UnlocksEffect
  <2>. QED BY <1>1, <2>1, ClearBusyEffect
<1>. QED BY <1>2, <1>3, <1>4, <1>5, <1>6, <1>7, Kinds

\* The reference count of a context is the number of sessions that refer to it, so that
\* pseudo_ta_enter_open_session calls create again when, and only when, nobody has one.
THEOREM ContextsCountSessions == Spec => []CountsSessions
<1>1. Init => Counted
  <2>. SUFFICES ASSUME Init PROVE Counted
    OBVIOUS
  <2>1. Len(tee_ctxes) = 0
    BY DEF Init
  <2>. QED BY <2>1 DEF Counted
<1>2. AInv /\ Counted /\ [Next]_vars => Counted'
  <2>. SUFFICES ASSUME AInv, Counted, [Next]_vars PROVE Counted'
    OBVIOUS
  <2>1. CASE UNCHANGED vars
    BY <2>1 DEF vars, Counted, Users
  <2>2. ASSUME NEW t \in Instances, Act(t) PROVE Counted'
    BY <2>2, CountedStep DEF AInv
  <2>. QED BY <2>1, <2>2 DEF Next, Act
<1>3. AInv /\ Counted => CountsSessions
  <2>. SUFFICES ASSUME AInv, Counted PROVE CountsSessions
    OBVIOUS
  <2>1. DOMAIN tee_ctxes = 1..Len(tee_ctxes)
    BY DEF AInv, Shape
  <2>. QED BY <2>1 DEF Counted, Users, CountsSessions
<1>. QED BY <1>1, <1>2, <1>3, ServiceInvariant, PTL DEF Spec
===============================================================================
