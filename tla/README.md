# WaTZ: specification, model checking and proofs

WaTZ runs WebAssembly applications in ARM TrustZone and lets them prove to a
remote verifier what they are, so that the verifier hands them a secret. This
directory holds TLA+ specifications of the code that does so, TLC models that
check them on small instances, and TLAPS proofs that hold for all instances.

Paths below: `attester` is
`src/runtime/product-mini/platforms/linux-trustzone/vedliot_attester`, `verifier`
the `vedliot_verifier` beside it, `optee` is `src/optee_os`, `platform` is
`src/runtime/core/shared/platform/linux-trustzone`, `iwasm` is
`src/runtime/core/iwasm`.

## 1. The system

| Component | State it keeps | Operations | What makes it correct |
|---|---|---|---|
| WASI-RA, in the attester TA (`attester/ta/ra_wasi.c`, `remote_attestation.c`) | one attestation context, one quote, a flag for each that says whether it is free, the handle of the session with the attestation service | handshake, collect_quote, send_quote, receive_data, dispose, dispose_quote, called by the application in any order | a session is used only with the verifier whose msg1 was authenticated; a secret is returned only to the session it was sent to; handles name what they should; nothing leaks |
| Chunked receive (`remote_attestation.c:53-79`) | cursor, bytes received, chunk size | one loop around `recv` | the stream is assembled in order and completely |
| Attestation service, a pseudo TA (`optee/core/pta/attesting_service.c`) | seed and keypair of the device, static, with two flags | create (derives them once), generate_quote | quotes are signed with the derived key only |
| Pseudo-TA sessions of OP-TEE (`optee/core/kernel/tee_ta_manager.c`, `pseudo_ta.c`, `optee/lib/libutee/tee_api.c`, `tee_socket_pta.c`) | contexts with reference counts, sessions with numbers, the single-instance lock | open, invoke, close | create before the first session; mutual exclusion; no call waits for ever |
| Verifier process (`verifier/host/main.c`) | one connection, one buffer for all messages | main, accept, four message steps, exit | every accepted connection is served or the process ends |
| Verifier TA (`verifier/ta/main.c`, `verifier.c`) | context with both public keys, shared keys, is_quote_valid, the secret | handle_msg0, prepare_msg1, handle_msg2, prepare_msg3 | the secret is encrypted only for a session whose quote was appraised |
| OP-TEE session manager for user TAs (`optee/core/kernel/tee_ta_manager.c`, `user_ta.c`, `optee/core/tee/entry_std.c`) | sessions with a reference count and a lock, contexts with a count, a busy flag and an initialisation flag, condition variables | open, invoke, cancel, close, from several threads; a TA that panics | no assertion fails, nothing is freed while used, nothing stays behind, nobody waits for ever |
| OP-TEE mutex, condition variables and wait queue (`optee/core/kernel/mutex.c`, `wait_queue.c`) | state (-1, 0, readers), a queue of sleeping threads | lock, unlock, read and try forms, condvar wait, signal, broadcast | readers-writer exclusion; no wake-up is lost between the spin locks; no waiter is passed over for ever |
| Attester TA lifecycle (`attester/ta/main.c`, `wasm.c`) and the part of WAMR it drives (`iwasm/common`, `iwasm/aot`) | heap, private copy of the bytecode, its hash, the runtime, the list of natives, the loaded module, mapped regions | set heap size, run: copy, hash, initialise, load, instantiate, execute, tear down | the quote is of the module that runs; every error path undoes exactly what was done |
| Attester client (`attester/host/main.c`) | the output buffer and one for benchmarks | open, configure, run, print | it prints what the application wrote |
| TrustZone platform layer (`platform/tz_*.c`) | output buffer and room left in it, mapped memory | writev, os_mmap, os_munmap, clocks | output is captured in whole texts; mapped code is unmapped; a TA that cannot read a clock dies and leaves nothing behind |
| Crypto handles of the attester (`remote_attestation.c`, `optee/lib/libutee/tee_api_operations.c`) | five handles of the context, the locals of the running function | allocate and free in eleven functions with two kinds of exit | freed once, never freed unset because of what a peer sends, a known loss per handshake |

How they interact: an application calls WASI-RA; handshake opens a TCP
connection through the socket pseudo TA and tee-supplicant, sends msg0 (its
ephemeral key) and blocks for msg1 (the verifier's ephemeral key, signed and
tagged); collect_quote asks the attestation service to sign the application's
hash and the anchor of the session; send_quote sends it in msg2; the verifier TA
appraises it and answers with the secret in msg3, for which receive_data blocks.
The verifier process accepts one connection, serves it and exits.

What is hard: applications, verifier runs and connections interleave; all
receives are without timeout; reads may be short, connections are reset,
processes are killed and started again; the singletons of the attester survive
failed calls; session handles survive their sessions, whose numbers OP-TEE
reuses; the attestation service is opened by several TAs at once; sessions are
closed while other threads use them; the mutex below all this sleeps and wakes in
separate sections; the memory the bytecode comes in can be rewritten during the
call. The list, line
by line, is `hazards` in `PROJECT.json`.

## 2. Modules

| Module | What it is |
|---|---|
| `RaProtocol` | the protocol end to end: applications, attester TAs, connections, verifier process and TA |
| `SecretRelease` | what the protocol promises: attest, release once, deliver |
| `RaProtocolInv` | the inductive invariant, apart so that TLC can check it |
| `RaProtocolProofs` | the proofs about `RaProtocol` |
| `MCRaProtocol` | values of the constants of `RaProtocol` for TLC |
| `PtaSessions` | what the two session handles of an attester TA name, as `RaProtocol` sees them |
| `WasiRa`, `WasiRaProofs` | one attester TA with the session numbers of OP-TEE, its connections and its msg3 buffers; implements the view of `PtaSessions`; and its proofs |
| `SocketChunk`, `SocketChunkProofs` | the chunked receive, byte by byte, and its proofs |
| `KernelMutex`, `KernelMutexProofs` | a mutex of OP-TEE with its wait queue and condition variables, one step per section under a spin lock, and its proofs |
| `RwLock` | what the mutex promises |
| `TaSessions`, `MCTaSessions`, `TaSessionsProofs` | the session manager for user TAs, one step per section under `tee_ta_mutex`, the kinds of TA it is checked for, and its proofs |
| `WasmRun` | `COMMAND_RUN_WASM`: copy, measure, load, run, tear down |
| `OutputCapture` | the buffers of the client, what an application writes to one of them, what is printed |
| `AttesterRun`, `AttesterRunProofs` | the two composed: a client, its TA, the application, the normal world; and proofs about the command alone, the whole system and the output |
| `CryptoHandles`, `CryptoHandlesProofs` | the handles of crypto objects and operations in the attester, and its proofs |
| `AttestationService`, `AttestationServiceProofs` | the service and the OP-TEE code that opens, invokes and closes its sessions, thread by thread, and its proofs |

### RaProtocol

*State.* `app[c]` is where application `c` is (idle, or blocked in handshake or
receive_data) and how far it got. `ra[c]` is `ra_context_singleton` with
`is_ra_context_available` (`inUse` is its negation) and the last tag of msg2;
`quote[c]` and `slot[c]` are `ra_quote_singleton` and `is_ra_quote_available`;
`pta[c]` what the session handles name. `v` is the verifier process and the
`context_singleton` of its TA. A connection is named by the attester key it was
opened for; `toV`, `toA`, `aOpen` and `vEnd` are its two streams and its two ends.
`issued`, `handed`, `released` and `delivered` record what happened.

*Cryptography* is symbolic. An ephemeral keypair is a number drawn once; a
signature or tag is the record of what it covers and of the key, and verifies
only against the same record; `Garbage` is what a buffer holds that no complete
message was read into. The network does not forge messages (the adversary of the
Scyther model in `src/benchmarks/formal-verification` is not repeated here): what
is examined is the code, under any order of calls, exchange of anchors between
applications, partial failure and crash.

*Actions.* A call that blocks is two actions (`HandshakeBegin`, then
`HandshakeEnd` or `HandshakeFail`; `ReceiveBegin`, then `ReceiveEnd` or
`ReceiveFail`), every other call is one. `HandshakeRefused` is a handshake that
does not get as far as a connection. `CollectQuote` takes the slot first, as the
code does, and keeps it when the service fails. `SendQuote` sends whatever the
slot holds, with whatever tag `prepare_msg2` left. The verifier is `Start`,
`Accept`, `HandleMsg0`, `PrepareMsg1`, `HandleMsg2`, `PrepareMsg3`, `Terminate`; a
command that fails ends the process (`errx`). The sizes are the real ones, because
one buffer sized for msg3 has to hold all messages.

*Faults* is a set, so that each run asks one question: `api` (a GlobalPlatform
call fails), `short_read`, `reset`, `crash`, `any_order` (applications ignore the
order of the samples). The theorems hold for every set of faults.

### WasiRa and PtaSessions

`attestation_session` is never reset, and OP-TEE gives the number after the one of
the session opened last, so a closed session's number is reused by the next. After
collect, dispose, first handshake the attestation handle names the *socket*
session. `PtaSessions` says so in terms of names; `WasiRa` has the numbers
(`new_session_id`), the connections tee-supplicant holds and the msg3 buffers, and
the run and a proof show that the names behave as `PtaSessions` says (`SessionsAsViewed`),
which is what entitles `RaProtocol` to use them. `past` remembers which of the calls
that can lead to trouble were made, so that the properties say precisely which.
The attester is built for AOT only, so the runtime maps code through the system
pseudo TA before `main`, and session 1 is always open.

### SocketChunk

The loop of `receive_socket_per_chunk` with its three places (head, in `recv`,
returned). `chunk_size` is both what `recv` may return and what it returned.
`Deliver` is TCP, which hands over the stream in any pieces (external).

### AttestationService

One thread per attester TA instance. `Lookup` runs under `tee_ta_mutex`; `Load`,
after it was released, inserts a context with a reference count of 1. `SetBusy`
and `ClearBusy` are the single-instance lock, held in all entry points of the
service (it is not declared concurrent) and not in the lookup. `EnterOpen` decides
by the reference count whether to call create, whose steps fail one by one. An open, an
invoke and a close wait for the lock at a place of their own (`open`, `invoke`, `close`), so
that `Returns` speaks of them all. A
session is used for one quote: WASI-RA keeps the quote slot taken until
dispose_quote, which closes the session.

### KernelMutex and RwLock

A step is a section of the code under a spin lock (of the mutex or of the queue);
between two of them anything may happen. `pc` says where a thread is: in the loop of
`mutex_lock` or `mutex_read_lock`, holding, asleep in `wq_wait_final`, or in one of the
two halves of a turn of `wq_wake_next` (find and mark the next element; send the
wake-up). `elem` is the `wait_queue_elem` of each thread, `token` a wake-up the normal
world keeps for it, which may come before the sleep or belong to an earlier one; a
sleep may also return early. `CondvarWait` queues the thread, gives the mutex back and,
if it became free, wakes somebody before it sleeps. `RwLock` has only who holds the lock
and how; `ImplementsRwLock` maps `pc` to it.

### TaSessions

`sess` and `ctx` are the structures of the code in a fixed number of slots; `th` is each
thread with its call and its place in it; a `condvar_wait` ends a step and the code after
it is tried again when the thread was signalled. `StartOpen`, `FindAgain`, `LoadTa`,
`TaLoaded`, `TaNotLoaded`, `EnterOpen`, `Opened`, `CloseUnopened` are an open with its
failures; `Invoke`, `Invoked` a command; `Forget` and `DestroyContext` what follows a
panic; `Close`, `Unlink`, `Drain`, `Release` a close. Every assertion and panic of the
manager, and every use of a context or session after it was freed, is recorded in
`faults` and the step goes on. `Without` is `TAILQ_REMOVE` on the list of contexts. The flags of the TA are a variable, so that one run covers
the kinds of TA: the attester's and verifier's (a new instance per session), single
instance, shared, and kept alive. The two kinds whose instance outlives a session do not
panic in the run; see Observations.

### WasmRun, OutputCapture, AttesterRun

`WasmRun` follows `TA_RunWasm` through `TA_HashWasmBytecode`, the initialisation of
memory and natives, the sections of the AOT loader, instantiation, the start function,
`main`, `TA_TearDownWamrRuntime` and the final frees. Each step that can fail may fail
and goes where the code goes. A module is a model value; `HostWrites` changes the shared
buffer at any moment, and a copy that races with it is `Torn`. `faults` records a region
that is unmapped twice or a list node visited in a heap that was freed, `crash` why an
instance died. An application that writes may crash it because `writev` has no memory for
the text (`WritevNoMemory`), and so may any reading of a clock, by the application or by
WAMR for the time of a warning, because `TEE_GetREETime` panics when the normal world does
not tell the time; a reading that succeeds, or that `clock_gettime` refuses, leaves the run
as it was. `Reopen` is `tee_ta_close_session` and what it destroys, as `TaSessions` has it
in detail, followed by a new instance.

In `OutputCapture` a byte is the call it was written by and its position; `writev` stores a
text only if a byte stays free. The client clears neither of its buffers and prints the one
for benchmarks, which nobody writes without a profiling flag, in front of the output: `old`
is how many bytes of old data `malloc` left in each. Of old data only the first 0 matters
that no text covers, so bytes of it followed by zeros stand for every content. One byte
stands for what lies behind a buffer. `AttesterRun` composes the two: the client blocks in
the command, the application writes, reads clocks and collects quotes while it runs, from
its start function too, the next client gets a new instance.

### CryptoHandles

Each function of the handshake, of send_quote and of receive_data is the list of its
calls that can fail, with where it goes then: the label `out`, which frees the locals, or
straight back. A local handle is not initialised, an allocation overwrites what its slot
held, and freeing a handle that was never set is recorded and ends the trace, because
what OP-TEE does then is undefined.

## 3. Runs

| Run | Question | Result |
|---|---|---|
| `ra_misuse` | two applications on two devices, one of them endorsed, make any call at any time and exchange anchors | a secret is released only to an attested session; handshakes agree |
| `ra_faults` | applications follow the samples; everything fails that can, processes are killed; fair scheduling | the system implements `SecretRelease`; nothing is delivered that was not released; handshake and receive_data return, an accepting verifier ends |
| `ra_served` | nothing fails, two applications on the endorsed device, 256-byte secret | every accepted application gets the secret, and a run serves one of them |
| `ra_default_secret` | nothing fails, the compiled-in secret of 38 bytes | **violated**: msg1 does not fit the buffer, nobody is served |
| `wasi_ra` | one application, any order of calls, failures outside | panics only after dispose_quote; the connection is lost and memory leaks only as stated |
| `socket_chunk` | buffers and streams around one and two chunks | in order, never early, less than a chunk behind the buffer, always returns |
| `attestation_service` | three instances, four sessions, every step of create may fail | mutual exclusion, counts, one allocation, underived keys only after the race, every call returns |
| `service_create` | two first sessions at once | **violated**: both are opened and create was not called |
| `kernel_mutex` | three threads, two of them readers too, one condition variable, fair scheduling | a readers-writer lock, counted and queued right, no wake-up lost, every waiter chosen if the mutex keeps becoming free |
| `ta_sessions` | three threads, two sessions, three contexts, four kinds of TA | no assertion fails but for the origin of an error (below), counts right, nothing left behind, no instance shared that should not be, no wait without somebody to end it |
| `attester_run` | a client after another, every step of the command failing, the bytecode rewritten, three writes, any old data in the buffers | the quote is of the module that runs, everything goes exactly once, what was captured is printed in one piece |
| `crypto_handles` | three handshakes, any other calls, every call failing, a pool of 20 | freed once; unset handles are freed only after a failing allocation or API call; two handles lost per handshake and at most eight per failed one |

*Bounds.* `MaxKeys = 4` lets two attester and two verifier keys exist, enough for
a session of the first run to meet the second; `MaxRuns = 2` for a restart;
`MaxSends = 1` or `2` for a message behind another; `MaxQuotes = 2` for a quote of
the wrong session or device. `DataSizes` are one less than, equal to and one more
than the secret; pins are none, and the key of the second run only. In `WasiRa`
three connections and three buffers are one more than any property needs to be
violated. In `AttestationService` three instances allow a loader, one that races it
and one that comes later, and the fourth session a second attempt after a failure.
In `KernelMutex` two threads can meet in the queue while the third holds, signals or
scans. In `TaSessions` three threads are one that closes, one that waits for its lock and
one that opens or cancels; three contexts are one more than the sessions, for an instance
that outlives its session; threads, sessions and contexts are symmetric. In `AttesterRun`
the buffer has three bytes and so do the texts, so that a text fits, fills it and
overflows it, and old data is absent, shorter than the texts, longer, or fills a buffer;
two data sections let the loader fail between them. In `CryptoHandles` a pool of 20 can run
out in the third handshake.
`CHECK_DEADLOCK FALSE` is said where applications and verifiers end or a bound is
reached.

*Fairness.* In `RaProtocol` the verifier process is a sequence of system calls the
kernel schedules (`WF` of all its steps together), an application runs on until
it ends, and a blocked call returns when it can; nobody has to start the verifier,
and applications are the disciplined ones. With `any_order` there are real
mutual waits (receive_data without send_quote: both sides read), so no liveness
is claimed for it. In `SocketChunk` the peer's bytes arrive and it closes. In
`AttestationService` a thread runs on unless it waits for the lock; weak fairness
is enough because sessions are finitely many, so nobody can overtake for ever. In
`KernelMutex` a thread that can run does, wake-ups arrive and nobody keeps the mutex for
ever; it is not assumed that a particular thread wins the race for a free mutex, and
`EveryWaiterIsChosen` is claimed only if the mutex becomes free again and again, because
overlapping readers can keep it from a writer. In `TaSessions` no fairness is needed:
`SomebodyRuns` says in each state that whoever waits waits for a thread that can move.

## 4. Findings

1. *Default secret* (`verifier/host/main.c:206`). Started without an argument the
   verifier serves a secret of 38 bytes from a buffer of 106; `prepare_msg1`
   needs 224 and fails. Secrets below 220 bytes cannot be served.
2. *create skipped* (`optee/core/kernel/pseudo_ta.c:155`). Two instances that open
   the attestation service at the same time can get sessions with a service whose
   keypair was never derived.

*Observations*, met while modelling; no run shows them violating a document:

- `attester/ta/remote_attestation.c:61`: the check for a short buffer inside the loop
  contradicts the loop's condition and is never true. What bounds the write behind the
  buffer is the chunk (`OverrunBelowChunk`, proved).
- `optee/core/kernel/tee_ta_manager.c:765`: a failed open reads `err_origin` of the
  session it has just closed (`freed_session` in `NoAssertionFails`).
- `optee/core/kernel/user_ta.c:453`: two first sessions of a single-instance TA at the
  same time load it twice.
- `optee/core/kernel/tee_ta_manager.c:729`: when an instance that is shared or kept alive
  panics, a thread that waits for it is left with a destroyed context, and one that opens
  a session may wait for ever. Attester and verifier TA are neither.
- `platform/tz_file.c:234`: a text that does not fit is dropped, reported as written, and
  a later shorter one is captured behind the gap.
- `attester/host/main.c:149`: two buffers are printed that were never cleared, the one for
  benchmarks in front of the output. What `malloc` left in them is printed before and behind
  the texts of the application (`PrintsWhatWasCaptured`), and alone when there is no file to
  run.
- `platform/tz_time.c:22`: the comment at line 9 promises microseconds since 1970 in a
  `uint64` for time differences; the product is computed in 32 bits, wraps about every 71
  minutes, and a difference in 64 bits (`aot_runtime.c:2891`) is wrong across a wrap. Only
  the times in warnings and the profiling of WAMR use it, so it is not modelled.
- `attester/ta/wasm.c:122`: a start function that collects a quote kills the TA.
- `attester/ta/remote_attestation.c:376,599`: two operations are lost in every handshake
  (`LossPerHandshake`), so an application that attests again and again runs out of them.

## 5. Proofs

There is one module of proofs per component: `RaProtocolProofs`, `SocketChunkProofs`,
`AttestationServiceProofs`, `KernelMutexProofs`, `AttesterRunProofs`, `WasiRaProofs`,
`CryptoHandlesProofs` and `TaSessionsProofs`. Each states an inductive invariant in named
parts, shows each part preserved by each kind of step, and derives the properties from it.

`RaProtocolProofs` proves, for all applications, devices, sizes, faults and bounds
allowed by `ConstantsAssumption`: `TypeCorrect`, `ReleaseIsAttested`,
`SessionsAgree`, `SecretReleasedOnce`, `DeliveryIsReleased` and `Implements`
(`Spec => SecretRelease`). None of these invariants is inductive alone; `IInv` of
`RaProtocolInv` adds

- `Blocked`, `Serving`: a blocked call has a connection, a serving verifier a key;
- `KeysDrawn`: attester keys have an owner, verifier keys none, so an ECDH secret
  `{a, g}` determines which of the two is which;
- `Evidence`: a quote an application holds was signed for it, and a tag over a
  quote exists only for a session handed to the owner of its key;
- `Appraised`: a verifier about to send msg3 has a session that deserves it. This
  is where the argument is: the tag of msg2 ties the quote to the shared key, the
  key (with `KeysDrawn`) to the session, the anchor to both, the signature to the
  device and the claim to the owner;
- `Agreement`: all msg1 on their way, all sessions handed out and the verifier's
  context tell the same attester key for a verifier key;
- `ReleasedRuns`, `Msg3Released`: a run that is still serving has released
  nothing, and each msg3 on its way was released.

Each action has a lemma for its effect; each part of `IInv` is preserved by each
action that touches it. `Implements` uses that in a step `handed` or `issued` grows
by at most one session's worth, so `Attested` grows by one session or stays.

`SocketChunkProofs` proves `ChunkTypeCorrect`, `ReceivesInOrder`, `ReturnsWhole` and
`OverrunIsBounded` for every chunk size, buffer and stream: the cursor equals the bytes received and the bytes
received, arrived and on their way add up to the stream.

`AttestationServiceProofs` proves, for any number of instances and sessions,
`OneInstanceAtATime`, `SetBusyNeverPanics`, `KeypairAllocatedOnce`, `OnlyRacesUnderive`
and `ContextsCountSessions`, from `ServiceAssumption` alone. The inductive invariant `AInv`
adds `LockHeld` (the holder of the lock is the instance in an entry point and its
context is the busy one), `Deriving` (a derivation in progress is the first that
will succeed) and `Unraced`: as long as there is neither a keypair nor a race, each
session has a context of its own that counts exactly it, so every open calls create
and ends with a keypair or an error, and no session gets as far as signing. The
steps are sorted into six kinds by what they do to the lock and the contexts, each
with a lemma for its effect; every part of `AInv` is then shown kind by kind.
`ContextsCountSessions` counts: the reference count of a context is the cardinality of the
set of instances that use it, which a lookup or a load makes one larger and a release one
smaller. Cardinalities need a finite set, so `ServiceAssumption` says that the instances
are finitely many.

`KernelMutexProofs` proves, for any finite set of threads, any readers and any condition
variables, `MutexIsConsistent`, `WakeupsAreNotLost` and `MutexImplementsRwLock`.
`MutexInvariant` is not inductive: its `ChosenIsWoken` speaks of threads that sleep, and a
thread in `condvar_wait` can be chosen while it is still waking somebody else, so `Woken`
claims the wake-up for it too, and `KnowsWhom` that a wake-up about to be sent has an
addressee. `NoLostWakeup` needs `StateCountsHolders` (whoever gives the mutex back knows
whether it became free) and the consistency of the queue. The holders are counted kind by
kind: every step takes the mutex for writing or reading, gives it back, or leaves the
holders alone, and the same four kinds give the refinement; the queue needs what `Append`
and `SLIST_REMOVE` do to its members.

`AttesterRunProofs` proves, for any modules and any data sections, `QuoteIsOfWhatRuns` and
`RunLeavesNothing`. Neither property is inductive; `IInv` adds `Owned` (each mapped region
has one owner, and the text passes from the list of sections to the module when the loader
is done with it), `InHeap` (nodes of natives exist only while the heap buffer does),
`Remembered` (the TA points to its context from the return of the start function to the
tear-down) and `Measured` (from the measurement on, the hash is that of the private copy).
`WasmRunAssumption` says that the text is not one of the data sections. The composed
system implements `WasmRun` (`SystemImplementsWasmRun`): whatever client, normal world
and output do is a step of it or leaves its variables alone, so both properties
hold of the system (`SystemQuoteIsOfWhatRuns`, `SystemRunLeavesNothing`).
`OutputIsPrinted` holds for buffers of any size but 0, texts of any length and any amount of
old data (`OutputAssumption`, which also says that the byte 0 is neither one of those
applications write nor one of old data). It says that the texts are captured whole and in
order and printed in one piece, and where old data is printed around them. Its invariant
`OutInv` says what the buffer holds in every state: in front of the offset the bytes of the
calls that were not lost, each once and in order (`Filled`), behind it what `malloc` left
(`Untouched`), and always a free byte at the end (`LastByteFree`), which is the zero the
client stops at unless old data is longer than the texts. `StringEnds` says what `%s` prints
of a buffer, `OldString` and `OutputString` apply it to the two.

`WasiRaProofs` proves, for any number of connections and buffers, `OnlyDisposeMakesPanic`,
`ContextKeepsConnection`, `DisposeLeaksNothing` and, step by step, `SessionNumbersAreView`,
the refinement that `RaProtocol` rests on. The TA never has more than three sessions, and
the numbers OP-TEE gives it are known: `Held` lists the ten combinations of sessions and
handles it can be in, from `Fresh` (no call was made) to `Confused` (the attestation handle
names the socket session) and `BothClosed` (it was closed through that handle). Each call is followed through each
of them. The parts that relate them to the past are `HandlesPast` (which of the calls in
`past` lead to which combination), `Connected` (a context in use has its connection except
in `BothClosed`) and `Owned` (what is open or allocated belongs to the context in use or
is owed to a call that failed).

`CryptoHandlesProofs` proves, for any pool and any number of handshakes,
`HandlesFreedOnce`, `OnlyApiFailuresUndefine` and `LossIsBounded`. A first lemma goes
through the functions one by one: each is `WellFormed`, it frees only what it has allocated
when it comes to its end or a check of received data sends it to `out`, and all it
allocated. `CInv` then says that the locals that are set are those the steps so far
allocated (`Allocated`), and that they are live, distinct from the context's and nobody
else's (`Held`). Losses need more: `Placed` and `Apart` (where in the handshake the running
function is, and which handles of the context are fresh), and `Counts`: the handles that
are live but neither in the context nor local (`Orphans`) are two for each handshake that
succeeded, at most eight for each that failed, and `Extra` for the place the current one
has come to.

`TaSessionsProofs` proves, for any finite sets of threads and sessions and any contexts,
`AssertionsHold`, `SessionsAreConsistent`, `CallsLeaveNothing`, `InstancesAreNotShared` and
`NotEveryoneWaits`. Their hypothesis `KindsHandled` says that a single-instance TA that may panic has one
session at a time and is not kept alive: the case it leaves out is the one under
Observations that the code does not handle, and the four kinds of the run satisfy it.
`TaSessionsAssumption` says what the model needs of names, and that threads and sessions
are finitely many. None of the five is inductive. `TInv` adds

- `SessOk`: a session in the list belongs to a client or to the one thread that opens or
  closes it; its count is the number of threads that refer to it, its lock is held by the
  thread whose place says so, and it is marked for unlinking exactly while one drains it;
- `CtxOk`: the count of a context is the sessions in the list that point to it plus the
  threads that freed their session and have yet to release it; it is busy for the one
  thread inside; it is in the list, with a reason to be, until one thread takes it out to
  destroy it;
- `ThOk`: what a thread may rely on after it slept or released `tee_ta_mutex`: that its
  context is still the one of its session, is not destroyed, and is as it left it;
- `SingleOk`, `ListOk`: the single-instance lock is held by a thread inside an instance, and
  no context is twice in the list.

Most steps change one thread, one session and one context. The lemmas about frames
(`SameRole`, `SameUse`, `SameSession`, `SameView`) say once for all what the others keep,
so that each action only has to look at what it touched.

`NotEveryoneWaits` needs a second invariant on top of `TInv`. `WaitInv`
(`SleepersAreAwaited`) says why each thread sleeps: the lock of its session is held, or a
thread that was signalled is on its way to it (`WaitsForLock`); its session has other users
(`WaitsForUsers`); the instance or the single-instance lock is taken or about to be
(`WaitsForInstance`, `WaitsForSingle`); the context it found is being initialised, and
`LoaderOk` says that a thread is doing so (`WaitsForLoader`). It is preserved because what
is waited for is never given up without a signal, and a signal moves one sleeper to where
it tries again: `LockKept`, `UsersKept`, `InstanceKept`, `SingleKept` and `LoaderKept` name
what a step owes to each kind of sleeper, and each action is shown to pay. From `WaitInv`
the property follows by going from a sleeper to the thread it waits for: from a lock to its
holder, from there to the instance it wants to enter or to the users it lets finish, from a
user to the instance, and from an instance to the thread inside it, which runs.

*Only model-checked* is what needs fairness, which is out of the prover's reach: the
liveness of `ra_faults` and `ra_served`, the `Returns` properties and `EveryWaiterIsChosen`.
Every invariant and every action property of the passing runs is also proved.

## 6. Not modelled

- The adversary on the network and the mathematics of the cryptography.
- The profiling builds of both sides, and with them the contents of the buffer for
  benchmarks beyond what `malloc` left there.
- Of the mutex: the recursive form, `mutex_destroy`, the lock-order checker, and a
  `WAKEUP` that the normal world refuses (the code logs it and the thread sleeps on).
- Of the session manager: calls from one TA into another, the checks of parameters and of
  secure data paths, time-outs of cancelled commands, a client that closes a session twice.
- Of the platform layer: the functions that only report that they are not there, the
  values the clocks return, and an `os_munmap` that fails, which is only logged: the region
  would stay mapped until the instance goes.
- A client whose `malloc` fails.
- Crypto handles of the verifier TA: it serves one handshake and its handles go with the
  instance.
- The WebAssembly interpreter and the code of applications, libraries (mbedtls, libc,
  libtomcrypt), drivers, the boot of OP-TEE, tools and benchmarks. They are by far the
  largest part of the repository and all of it vendored: WaTZ uses it as it is, most of it
  is not in its build, and none of it keeps state that the parts above share beyond what
  their modules have.

## 7. What could come next

1. Calls from one TA into another in `TaSessions`: a thread then holds the instance of the
   caller while it waits for that of the callee, and `WaitInv` has to follow such chains.
2. The case that `KindsHandled` leaves out, once `tee_ta_manager.c` handles it.
3. Shorter proofs where two components need the same facts about cardinalities and lists.
