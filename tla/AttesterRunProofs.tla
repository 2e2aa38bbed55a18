--------------------------- MODULE AttesterRunProofs ---------------------------
(***************************************************************************)
(* For any modules and data sections: the quote is of the module that      *)
(* runs, and COMMAND_RUN_WASM undoes exactly what it did, whichever of its *)
(* steps fails and whenever the normal world rewrites the bytecode.  The   *)
(* client and its output leave the command as it is, so the same holds of  *)
(* the whole; and for buffers of any size, with any old data in them, the  *)
(* client prints what was captured.                                        *)
(***************************************************************************)
EXTENDS Integers, Sequences, AttesterRun, SequenceTheorems, TLAPS

------------------------------------------------------------------------------
(* The invariant, part by part                                               *)

\* The steps of the command, in the order in which they are taken when none fails.
Before  == {"idle", "hash", "memory_init", "native_init", "register", "create_module"}
Loading == {"create_sections", "rest_of_sections", "load_text"}
Loaded  == {"instantiate", "start", "main"}
Places  == Before \cup Loading \cup Loaded \cup {"teardown", "free", "crashed"}

\* Each mapped region has one owner: the text belongs to the list of sections until the
\* loader is done with it, and then to the module.
Owned ==
  /\ pc \in Places
  /\ module \in [exists : BOOLEAN, code : BOOLEAN, data : SUBSET DataSections]
  /\ section_list \in {"none", "text"}
  /\ pc # "crashed" => (section_list = "text" <=> pc \in {"rest_of_sections", "load_text"})
  /\ pc \in Loading => ~module.code
  /\ pc \in {"create_sections", "rest_of_sections"} => module.data = {}
  /\ maps = aot_unload(module) \cup destroy_sections(TRUE)
  /\ pc \in Before \cup {"free"} => module = NoModule

\* The pool and the nodes of the natives are in the heap buffer, which goes last.
InHeap ==
  /\ heap_buf \in BOOLEAN
  /\ natives \in Nat
  /\ natives # 0 => heap_buf
  /\ pc \in {"native_init", "register"} => heap_buf
  /\ pc \in {"idle", "hash", "memory_init", "free"} => natives = 0 /\ memory_mode = "unknown"
  /\ pc = "native_init" => natives = 0
  /\ pc = "idle" => ~heap_buf

\* The TA points to its context while main runs, and until the tear-down.
Remembered ==
  /\ module_inst \in BOOLEAN /\ singleton \in BOOLEAN
  /\ module_inst \/ singleton => pc \in {"main", "teardown", "crashed"}
  /\ pc = "main" => singleton

\* What was measured is the private copy, which nobody else can write.
Measured ==
  /\ bytecode \in Modules
  /\ pc = "idle" => trusted = None
  /\ pc = "hash" => trusted # None
  /\ pc \in {"memory_init", "native_init", "register", "create_module"} \cup Loading \cup Loaded =>
       hash = trusted /\ hash # None

IInv == Owned /\ InHeap /\ Remembered /\ Measured /\ AttestedIsExecuted /\ faults = {}

\* A new instance has nothing.
LEMMA InitInvariant == Init => IInv
<1> SUFFICES ASSUME Init PROVE IInv
  OBVIOUS
<1>1. Owned
  BY DEF Init, NewInstance, Owned, NoModule, aot_unload, destroy_sections, Places, Before, Loading, Loaded
<1>2. InHeap /\ Remembered
  BY DEF Init, NewInstance, InHeap, Remembered
<1>3. Measured
  BY DEF Init, NewInstance, Measured, Loading, Loaded
<1>4. AttestedIsExecuted /\ faults = {}
  BY DEF Init, NewInstance, AttestedIsExecuted
<1> QED BY <1>1, <1>2, <1>3, <1>4 DEF IInv

\* load failed: whatever the module m owned and the list of sections owned is unmapped once.
LEMMA FailedLoadUnmapsAll ==
  ASSUME NEW m \in [exists : BOOLEAN, code : BOOLEAN, data : SUBSET DataSections], ~m.code,
         section_list \in {"none", "text"}, faults = {},
         LoadFails(m, aot_unload(m) \cup destroy_sections(TRUE))
  PROVE  Owned' /\ faults' = {}
<1>1. Text \notin m.data
  BY WasmRunAssumption DEF Text
<1>2. destroy_sections(TRUE) \cap aot_unload(m) = {}
  BY <1>1 DEF destroy_sections, aot_unload
<1>3. maps' = {} /\ faults' = {} /\ module' = NoModule /\ section_list' = "none" /\ pc' = "teardown"
  BY <1>2 DEF LoadFails, Record, Goto
<1>4. aot_unload(NoModule) = {} /\ destroy_sections(TRUE)' = {}
  BY <1>3 DEF aot_unload, destroy_sections, NoModule
<1> QED BY <1>3, <1>4 DEF Owned, aot_unload, NoModule, Places, Before, Loading, Loaded

\* The three steps of the loader.
LEMMA LoaderKeeps ==
  ASSUME IInv, CreateSections \/ LoadInitData \/ LoadText
  PROVE  Owned' /\ faults' = {}
<1> USE DEF Places, Before, Loading, Loaded
<1>0. Owned /\ faults = {} /\ section_list \in {"none", "text"} /\ Text \notin DataSections
  BY WasmRunAssumption DEF IInv, Owned, Text
<1>1. CASE CreateSections
  <2>1. pc = "create_sections" /\ section_list = "none" /\ ~module.code /\ module.data = {}
    BY <1>0, <1>1 DEF CreateSections, Owned
  <2>2. CASE LoadFails(module, maps)
    <3>1. maps = aot_unload(module) \cup destroy_sections(TRUE)
      BY <1>0 DEF Owned
    <3>2. module \in [exists : BOOLEAN, code : BOOLEAN, data : SUBSET DataSections]
      BY <1>0 DEF Owned
    <3> QED BY <1>0, <2>1, <2>2, <3>1, <3>2, FailedLoadUnmapsAll
  <2>3. CASE /\ section_list' = "text" /\ maps' = maps \cup {Text} /\ pc' = "rest_of_sections"
             /\ UNCHANGED <<module, faults>>
    <3>1. maps' = {Text}
      BY <1>0, <2>1, <2>3 DEF Owned, aot_unload, destroy_sections
    <3> QED BY <1>0, <2>1, <2>3, <3>1 DEF Owned, aot_unload, destroy_sections
  <2> QED BY <1>1, <2>2, <2>3 DEF CreateSections, Goto
<1>2. CASE LoadInitData
  <2>1. pc = "rest_of_sections" /\ section_list = "text" /\ ~module.code /\ module.data = {}
        /\ module \in [exists : BOOLEAN, code : BOOLEAN, data : SUBSET DataSections]
    BY <1>0, <1>2 DEF LoadInitData, Owned
  <2>2. maps = {Text} /\ destroy_sections(TRUE) = {Text}
    BY <1>0, <2>1 DEF Owned, aot_unload, destroy_sections
  <2>3. ASSUME NEW D \in SUBSET DataSections, LoadFails([module EXCEPT !.data = D], maps \cup D)
        PROVE  Owned' /\ faults' = {}
    <3> DEFINE m == [module EXCEPT !.data = D]
    <3>1. /\ m \in [exists : BOOLEAN, code : BOOLEAN, data : SUBSET DataSections]
          /\ ~m.code /\ aot_unload(m) = D
      BY <2>1 DEF aot_unload
    <3>2. maps \cup D = aot_unload(m) \cup destroy_sections(TRUE)
      BY <2>2, <3>1
    <3>3. LoadFails(m, aot_unload(m) \cup destroy_sections(TRUE))
      BY <2>3, <3>2
    <3> HIDE DEF m
    <3> QED BY <1>0, <3>1, <3>3, FailedLoadUnmapsAll
  <2>4. CASE /\ maps' = maps \cup DataSections /\ module' = [module EXCEPT !.data = DataSections]
             /\ pc' = "load_text" /\ UNCHANGED <<section_list, faults>>
    <3>1. /\ module' \in [exists : BOOLEAN, code : BOOLEAN, data : SUBSET DataSections]
          /\ ~module'.code /\ module'.data = DataSections
      BY <2>1, <2>4
    <3>2. maps' = aot_unload(module') \cup {Text} /\ destroy_sections(TRUE)' = {Text}
      BY <2>1, <2>2, <2>4, <3>1 DEF aot_unload, destroy_sections
    <3> QED BY <1>0, <2>1, <2>4, <3>1, <3>2 DEF Owned, aot_unload
  <2> QED BY <1>2, <2>3, <2>4 DEF LoadInitData, Goto
<1>3. CASE LoadText
  <2>1. pc = "load_text" /\ section_list = "text" /\ ~module.code
        /\ module \in [exists : BOOLEAN, code : BOOLEAN, data : SUBSET DataSections]
        /\ maps = aot_unload(module) \cup destroy_sections(TRUE)
    BY <1>0, <1>3 DEF LoadText, Owned
  <2>2. maps = module.data \cup {Text}
    BY <2>1 DEF aot_unload, destroy_sections
  <2>3. CASE LoadFails([module EXCEPT !.code = FALSE], maps)
    <3>1. [module EXCEPT !.code = FALSE] = module
      BY <2>1
    <3> QED BY <1>0, <2>1, <2>3, <3>1, FailedLoadUnmapsAll
  <2>4. CASE /\ module' = [module EXCEPT !.code = TRUE] /\ section_list' = "none"
             /\ pc' = "instantiate" /\ UNCHANGED <<maps, faults>>
    <3>1. /\ module' \in [exists : BOOLEAN, code : BOOLEAN, data : SUBSET DataSections]
          /\ module'.code /\ module'.data = module.data
      BY <2>1, <2>4
    <3>2. maps' = aot_unload(module') /\ destroy_sections(TRUE)' = {}
      BY <2>2, <2>4, <3>1 DEF aot_unload, destroy_sections
    <3> QED BY <1>0, <2>4, <3>1, <3>2 DEF Owned, aot_unload
  <2> QED BY <1>3, <2>3, <2>4 DEF LoadText, Goto
<1> QED BY <1>1, <1>2, <1>3

\* Every region keeps one owner until it is unmapped.
LEMMA OwnedKept ==
  ASSUME IInv, Next
  PROVE  Owned'
<1> USE DEF IInv, Owned, aot_unload, destroy_sections, NoModule, loader, Goto, Places,
            Before, Loading, Loaded
<1>1. CASE CreateSections \/ LoadInitData \/ LoadText
  BY <1>1, LoaderKeeps
<1>2. CASE Reopen
  BY <1>2 DEF Reopen
<1>3. CASE CreateModule
  BY <1>3 DEF CreateModule
<1>4. CASE TA_TearDownWamrRuntime
  BY <1>4 DEF TA_TearDownWamrRuntime
<1>5. CASE HostWrites \/ TA_SetHeapSize \/ TA_RunWasm \/ TA_HashWasmBytecode \/ MemoryInit
            \/ NativeInit \/ RegisterNatives
  BY <1>5 DEF HostWrites, TA_SetHeapSize, TA_RunWasm, TA_HashWasmBytecode, MemoryInit,
         NativeInit, RegisterNatives, Crash
<1>6. CASE Instantiate \/ StartReturns \/ wasi_ra_collect_quote \/ TA_ExecuteWamrRuntime \/
            FreeBuffers
  BY <1>6 DEF Instantiate, StartReturns, wasi_ra_collect_quote, TA_ExecuteWamrRuntime,
         FreeBuffers, AppRuns, Crash
<1>7. CASE TEE_GetREETime \/ WritevNoMemory
  BY <1>7 DEF TEE_GetREETime, WritevNoMemory, AppRuns, Crash
<1> QED BY <1>1, <1>2, <1>3, <1>4, <1>5, <1>6, <1>7 DEF Next

\* The nodes are there only as long as the heap buffer is.
LEMMA InHeapKept ==
  ASSUME IInv, Next
  PROVE  InHeap'
<1> USE DEF IInv, InHeap, context, wamr, Goto
<1>1. CASE HostWrites \/ TA_SetHeapSize
  BY <1>1 DEF HostWrites, TA_SetHeapSize
<1>2. CASE Reopen
  BY <1>2 DEF Reopen
<1>3. CASE TA_RunWasm \/ TA_HashWasmBytecode \/ MemoryInit
  BY <1>3 DEF TA_RunWasm, TA_HashWasmBytecode, MemoryInit, Crash
<1>4. CASE NativeInit \/ RegisterNatives
  BY <1>4 DEF NativeInit, RegisterNatives, wasm_runtime_destroy
<1>5. CASE CreateModule \/ CreateSections \/ LoadInitData \/ LoadText
  BY <1>5 DEF CreateModule, CreateSections, LoadInitData, LoadText, LoadFails
<1>6. CASE Instantiate \/ StartReturns \/ wasi_ra_collect_quote \/ TA_ExecuteWamrRuntime
  BY <1>6 DEF Instantiate, StartReturns, wasi_ra_collect_quote, TA_ExecuteWamrRuntime, AppRuns,
         Crash
<1>7. CASE TA_TearDownWamrRuntime
  BY <1>7 DEF TA_TearDownWamrRuntime, wasm_runtime_destroy
<1>8. CASE FreeBuffers
  BY <1>8 DEF FreeBuffers
<1>9. CASE TEE_GetREETime \/ WritevNoMemory
  BY <1>9 DEF TEE_GetREETime, WritevNoMemory, AppRuns, Crash
<1> QED BY <1>1, <1>2, <1>3, <1>4, <1>5, <1>6, <1>7, <1>8, <1>9 DEF Next

\* The context is remembered when the start function has returned and forgotten in the
\* tear-down.
LEMMA RememberedKept ==
  ASSUME IInv, Next
  PROVE  Remembered'
<1> USE DEF IInv, Remembered, Goto
<1>1. CASE HostWrites \/ TA_SetHeapSize
  BY <1>1 DEF HostWrites, TA_SetHeapSize
<1>2. CASE Reopen
  BY <1>2 DEF Reopen
<1>3. CASE TA_RunWasm \/ TA_HashWasmBytecode \/ MemoryInit \/ NativeInit \/ RegisterNatives
  BY <1>3 DEF TA_RunWasm, TA_HashWasmBytecode, MemoryInit, NativeInit, RegisterNatives, Crash
<1>4. CASE CreateModule \/ Instantiate
  BY <1>4 DEF CreateModule, Instantiate
<1>5. CASE CreateSections
  BY <1>5 DEF CreateSections, LoadFails
<1>6. CASE LoadInitData
  BY <1>6 DEF LoadInitData, LoadFails
<1>7. CASE LoadText
  BY <1>7 DEF LoadText, LoadFails
<1>8. CASE StartReturns \/ wasi_ra_collect_quote \/ TA_ExecuteWamrRuntime
  BY <1>8 DEF StartReturns, wasi_ra_collect_quote, TA_ExecuteWamrRuntime, AppRuns, Crash
<1>9. CASE TA_TearDownWamrRuntime
  BY <1>9 DEF TA_TearDownWamrRuntime, wasm_runtime_destroy
<1>10. CASE FreeBuffers
  BY <1>10 DEF FreeBuffers
<1>11. CASE TEE_GetREETime \/ WritevNoMemory
  BY <1>11 DEF TEE_GetREETime, WritevNoMemory, AppRuns, Crash
<1> QED BY <1>1, <1>2, <1>3, <1>4, <1>5, <1>6, <1>7, <1>8, <1>9, <1>10, <1>11 DEF Next

\* Only the copy and the measurement change what the TA runs and what it says it runs.
LEMMA MeasuredKept ==
  ASSUME IInv, Next
  PROVE  Measured'
<1> USE DEF IInv, Measured, context, Loading, Loaded, Goto
<1>1. CASE HostWrites \/ TA_SetHeapSize
  BY <1>1 DEF HostWrites, TA_SetHeapSize
<1>2. CASE Reopen
  BY <1>2 DEF Reopen
<1>3. CASE TA_RunWasm
  BY <1>3, WasmRunAssumption DEF TA_RunWasm, Crash
<1>4. CASE TA_HashWasmBytecode \/ MemoryInit
  BY <1>4 DEF TA_HashWasmBytecode, MemoryInit, Crash
<1>5. CASE NativeInit \/ RegisterNatives \/ CreateModule
  BY <1>5 DEF NativeInit, RegisterNatives, CreateModule
<1>6. CASE CreateSections \/ LoadInitData \/ LoadText
  BY <1>6 DEF CreateSections, LoadInitData, LoadText, LoadFails
<1>7. CASE Instantiate \/ StartReturns \/ wasi_ra_collect_quote \/ TA_ExecuteWamrRuntime
  BY <1>7 DEF Instantiate, StartReturns, wasi_ra_collect_quote, TA_ExecuteWamrRuntime, AppRuns,
         Crash
<1>8. CASE TA_TearDownWamrRuntime
  BY <1>8 DEF TA_TearDownWamrRuntime, wasm_runtime_destroy
<1>9. CASE FreeBuffers
  BY <1>9 DEF FreeBuffers
<1>10. CASE TEE_GetREETime \/ WritevNoMemory
  BY <1>10 DEF TEE_GetREETime, WritevNoMemory, AppRuns, Crash
<1> QED BY <1>1, <1>2, <1>3, <1>4, <1>5, <1>6, <1>7, <1>8, <1>9, <1>10 DEF Next

\* A quote is collected by a module that was measured; in main the context is remembered.
LEMMA AttestedKept ==
  ASSUME IInv, Next
  PROVE  AttestedIsExecuted'
<1> USE DEF IInv, AttestedIsExecuted, ends
<1>1. CASE wasi_ra_collect_quote
  BY <1>1 DEF wasi_ra_collect_quote, Measured, Remembered, Loaded, AppRuns, Crash
<1>2. CASE HostWrites \/ TA_SetHeapSize
  BY <1>2 DEF HostWrites, TA_SetHeapSize
<1>3. CASE Reopen
  BY <1>3 DEF Reopen
<1>4. CASE TA_RunWasm \/ TA_HashWasmBytecode \/ MemoryInit \/ NativeInit \/ RegisterNatives
  BY <1>4 DEF TA_RunWasm, TA_HashWasmBytecode, MemoryInit, NativeInit, RegisterNatives, Crash
<1>5. CASE CreateModule \/ CreateSections \/ LoadInitData \/ LoadText \/ Instantiate
  BY <1>5 DEF CreateModule, CreateSections, LoadInitData, LoadText, Instantiate
<1>6. CASE StartReturns \/ TA_ExecuteWamrRuntime \/ TA_TearDownWamrRuntime \/ FreeBuffers
  BY <1>6 DEF StartReturns, TA_ExecuteWamrRuntime, TA_TearDownWamrRuntime, FreeBuffers
<1>7. CASE TEE_GetREETime \/ WritevNoMemory
  BY <1>7 DEF TEE_GetREETime, WritevNoMemory, Crash
<1> QED BY <1>1, <1>2, <1>3, <1>4, <1>5, <1>6, <1>7 DEF Next

\* Nothing is unmapped that is not mapped, and no node visited after its heap is gone.
LEMMA FaultsKept ==
  ASSUME IInv, Next
  PROVE  faults' = {}
<1> USE DEF IInv, ends
<1>1. CASE CreateSections \/ LoadInitData \/ LoadText
  BY <1>1, LoaderKeeps
<1>2. CASE RegisterNatives
  BY <1>2 DEF RegisterNatives, InHeap, DeadNodes, Record
<1>3. CASE TA_TearDownWamrRuntime
  BY <1>3 DEF TA_TearDownWamrRuntime, Owned, InHeap, DeadNodes, Record
<1>4. CASE HostWrites \/ TA_SetHeapSize \/ Reopen \/ TA_RunWasm \/ TA_HashWasmBytecode \/
            MemoryInit \/ NativeInit
  BY <1>4 DEF HostWrites, TA_SetHeapSize, Reopen, TA_RunWasm, TA_HashWasmBytecode, MemoryInit,
         NativeInit
<1>5. CASE CreateModule \/ Instantiate \/ StartReturns \/ wasi_ra_collect_quote \/
            TEE_GetREETime \/ WritevNoMemory \/ TA_ExecuteWamrRuntime \/ FreeBuffers
  BY <1>5 DEF CreateModule, Instantiate, StartReturns, wasi_ra_collect_quote, TEE_GetREETime,
         WritevNoMemory, TA_ExecuteWamrRuntime, FreeBuffers
<1> QED BY <1>1, <1>2, <1>3, <1>4, <1>5 DEF Next

------------------------------------------------------------------------------
(* The theorems                                                              *)

\* Every step keeps the invariant.
LEMMA StepKeeps == IInv /\ [Next]_vars => IInv'
<1> SUFFICES ASSUME IInv, [Next]_vars PROVE IInv'
  OBVIOUS
<1>1. CASE Next
  BY <1>1, OwnedKept, InHeapKept, RememberedKept, MeasuredKept, AttestedKept, FaultsKept DEF IInv
<1>2. CASE UNCHANGED vars
  BY <1>2 DEF vars, context, wamr, loader, ends, IInv, Owned, InHeap, Remembered, Measured,
              AttestedIsExecuted, aot_unload, destroy_sections
<1> QED BY <1>1, <1>2

\* A quote names the module that runs, and main can always collect one: TA_RunWasm measures
\* and loads the same private copy, whatever the normal world does to the buffer it came in.
THEOREM QuoteIsOfWhatRuns == Spec => []AttestedIsExecuted
<1>1. IInv => AttestedIsExecuted
  BY DEF IInv
<1> QED BY <1>1, InitInvariant, StepKeeps, PTL DEF Spec

\* Whichever step of TA_RunWasm fails, in the loader or elsewhere, it undoes exactly what was
\* done, once, and the next command finds the TA as the first one did.
THEOREM RunLeavesNothing == Spec => []NothingLeftBehind
<1>1. IInv => NothingLeftBehind
  <2> SUFFICES ASSUME IInv, pc = "idle"
               PROVE  /\ maps = {} /\ ~heap_buf /\ trusted = None
                      /\ memory_mode = "unknown" /\ natives = 0
                      /\ ~module.exists /\ ~module_inst /\ ~singleton
    BY DEF IInv, NothingLeftBehind
  <2>1. module = NoModule /\ section_list = "none"
    BY DEF IInv, Owned, Before
  <2>2. maps = {} /\ ~module.exists
    BY <2>1 DEF IInv, Owned, aot_unload, destroy_sections, NoModule
  <2> QED BY <2>2 DEF IInv, InHeap, Measured, Remembered
<1> QED BY <1>1, InitInvariant, StepKeeps, PTL DEF Spec

------------------------------------------------------------------------------
(* The command as part of the system                                         *)

\* Whatever the client and the application do is a step of the command, or none.
THEOREM SystemImplementsWasmRun == SystemSpec => Spec
<1>1. SystemInit => Init
  BY DEF SystemInit
<1>2. ASSUME [SystemNext]_<<vars, output>> PROVE [Next]_vars
  <2>1. CASE ConfigureHeap \/ RunCommand \/ CommandStep
    BY <2>1 DEF ConfigureHeap, RunCommand, CommandStep, Next
  <2>2. CASE NextClient \/ BufferChanges
    BY <2>2 DEF NextClient, BufferChanges, Next
  <2>3. CASE NoCommand \/ AppWrites \/ CommandReturns \/ PrintOutput
    BY <2>3 DEF NoCommand, AppWrites, CommandReturns, PrintOutput
  <2>4. CASE UNCHANGED <<vars, output>>
    BY <2>4
  <2> QED BY <1>2, <2>1, <2>2, <2>3, <2>4 DEF SystemNext
<1> QED BY <1>1, <1>2, PTL DEF SystemSpec, Spec

\* A quote names the module that runs, with a client that prints, an application that
\* writes and clients that follow one another.
THEOREM SystemQuoteIsOfWhatRuns == SystemSpec => []AttestedIsExecuted
  BY SystemImplementsWasmRun, QuoteIsOfWhatRuns, PTL

\* And a command leaves nothing to the next one, of the same client or of another.
THEOREM SystemRunLeavesNothing == SystemSpec => []NothingLeftBehind
  BY SystemImplementsWasmRun, RunLeavesNothing, PTL

------------------------------------------------------------------------------
(* The output                                                                *)

\* Byte k of call i was captured.
IsKept(i, k) == i \in (1 .. Len(writes)) \ lost /\ k \in 1 .. Len(writes[i])

\* What a byte of the buffer can be.
Bytes == {End, Stale} \cup (Nat \X Nat)

OutputTypes ==
  /\ old \in Client!OldData /\ memory \in [1 .. (Size + 1) -> Bytes]
  /\ at \in Nat /\ room \in Nat

\* The texts of the calls, of which some are lost.
Texts ==
  /\ writes \in Seq(Seq(Nat \X Nat))
  /\ \A i \in 1 .. Len(writes) : \A k \in 1 .. Len(writes[i]) : writes[i][k] = <<i, k>>
  /\ lost \subseteq 1 .. Len(writes)

\* writev leaves the last byte of the buffer.
LastByteFree ==
  /\ at < Size
  /\ host = "start" => at = 0
  /\ host = "running" => at + room = Size

\* The bytes before the offset are those that were captured, each once and in order.
Filled ==
  /\ \A p \in 1 .. at : memory[p] \in Nat \X Nat /\ IsKept(memory[p][1], memory[p][2])
  /\ \A i, k \in Nat : IsKept(i, k) => \E p \in 1 .. at : memory[p] = <<i, k>>
  /\ \A p, q \in 1 .. at : p < q => Client!Precedes(memory[p], memory[q])

\* The bytes behind it are as malloc left them.
Untouched == \A p \in (at + 1) .. (Size + 1) : memory[p] = Client!Allocated(old.output)[p]

\* The client has printed what was captured.
Printed == host = "printed" => Client!PrintedInOnePiece

OutInv == OutputTypes /\ Texts /\ LastByteFree /\ Filled /\ Untouched /\ Printed

\* The buffer has room for a byte.
LEMMA SizePositive == Size \in Nat /\ Size > 0
  BY OutputAssumption

\* What was captured, byte by byte.
LEMMA CapturedBytes ==
  ASSUME OutputTypes, LastByteFree
  PROVE  /\ Client!Captured \in Seq(Bytes) /\ Len(Client!Captured) = at
         /\ DOMAIN Client!Captured = 1 .. at
         /\ \A p \in 1 .. at : Client!Captured[p] = memory[p]
  BY SizePositive DEF OutputTypes, LastByteFree, Client!Captured

\* The bytes that were captured are those of the calls that were.
LEMMA KeptBytesAre ==
  ASSUME Texts
  PROVE  \A b : b \in Client!KeptBytes <=> \E i, k \in Nat : IsKept(i, k) /\ b = <<i, k>>
<1>1. /\ DOMAIN writes = 1 .. Len(writes) /\ Len(writes) \in Nat
      /\ \A i \in 1 .. Len(writes) : DOMAIN writes[i] = 1 .. Len(writes[i]) /\ Len(writes[i]) \in Nat
  BY DEF Texts
<1>2. \A i \in 1 .. Len(writes) : \A k \in 1 .. Len(writes[i]) : writes[i][k] = <<i, k>>
  BY DEF Texts
<1>3. ASSUME NEW b \in Client!KeptBytes PROVE \E i, k \in Nat : IsKept(i, k) /\ b = <<i, k>>
  <2>1. PICK i \in DOMAIN writes \ lost : b \in {writes[i][k] : k \in DOMAIN writes[i]}
    BY <1>3 DEF Client!KeptBytes
  <2>2. PICK k \in DOMAIN writes[i] : b = writes[i][k]
    BY <2>1
  <2> QED BY <1>1, <1>2, <2>1, <2>2 DEF IsKept
<1>4. ASSUME NEW i \in Nat, NEW k \in Nat, IsKept(i, k) PROVE <<i, k>> \in Client!KeptBytes
  <2>1. i \in DOMAIN writes \ lost /\ k \in DOMAIN writes[i] /\ <<i, k>> = writes[i][k]
    BY <1>1, <1>2, <1>4 DEF IsKept
  <2> QED BY <2>1 DEF Client!KeptBytes
<1> QED BY <1>3, <1>4

\* The invariant says of the buffer what the property says of what was captured.
LEMMA InvariantPrints == OutInv => PrintsWhatWasCaptured
<1> SUFFICES ASSUME OutInv PROVE PrintsWhatWasCaptured
  OBVIOUS
<1>1. OutputTypes /\ Texts /\ LastByteFree /\ Filled /\ Printed
  BY DEF OutInv
<1>2. /\ DOMAIN Client!Captured = 1 .. at
      /\ \A p \in 1 .. at : Client!Captured[p] = memory[p]
  BY <1>1, CapturedBytes
<1>3. \A b : b \in Client!KeptBytes <=> \E i, k \in Nat : IsKept(i, k) /\ b = <<i, k>>
  BY <1>1, KeptBytesAre
<1>4. ASSUME NEW b \in Client!ToSet(Client!Captured) PROVE b \in Client!KeptBytes
  <2>1. PICK p \in 1 .. at : b = memory[p]
    BY <1>2, <1>4 DEF Client!ToSet
  <2>2. b \in Nat \X Nat /\ IsKept(b[1], b[2])
    BY <1>1, <2>1 DEF Filled
  <2> QED BY <1>3, <2>2
<1>5. ASSUME NEW b \in Client!KeptBytes PROVE b \in Client!ToSet(Client!Captured)
  <2>1. PICK p \in 1 .. at : memory[p] = b
    BY <1>1, <1>3, <1>5 DEF Filled
  <2> QED BY <1>2, <2>1 DEF Client!ToSet
<1>6. \A p, q \in DOMAIN Client!Captured :
        p < q => Client!Precedes(Client!Captured[p], Client!Captured[q])
  BY <1>1, <1>2 DEF Filled
<1>7. Client!CapturesWholeTexts
  BY <1>4, <1>5, <1>6 DEF Client!CapturesWholeTexts
<1> QED BY <1>1, <1>7 DEF PrintsWhatWasCaptured, Client!PrintsWhatWasCaptured, Printed

\* A client that starts: the buffers are as malloc left them.
Fresh ==
  /\ old \in Client!OldData /\ memory = Client!Allocated(old.output)
  /\ at = 0 /\ room = 0 /\ writes = << >> /\ lost = {} /\ host = "start"

\* It has captured nothing.
LEMMA FreshEmpty == Fresh => OutInv
<1> SUFFICES ASSUME Fresh PROVE OutInv
  OBVIOUS
<1> USE OutputAssumption
<1>1. OutputTypes /\ Texts
  BY DEF Fresh, OutputTypes, Texts, Bytes, Client!Allocated
<1>2. LastByteFree /\ Untouched /\ Printed
  BY DEF Fresh, LastByteFree, Untouched, Printed, Client!Allocated
<1>3. Filled
  BY DEF Fresh, Filled, IsKept
<1> QED BY <1>1, <1>2, <1>3 DEF OutInv

\* The calls before the last one keep their bytes; those of the last one are kept if it is.
LEMMA CallAdds ==
  ASSUME Texts, NEW n \in Nat, n >= 1,
         writes' = Append(writes, [k \in 1 .. n |-> <<Len(writes) + 1, k>>]),
         lost' = lost \/ lost' = lost \cup {Len(writes) + 1}
  PROVE  /\ Texts'
         /\ \A i, k : IsKept(i, k)' <=>
              IsKept(i, k) \/ (lost' = lost /\ i = Len(writes) + 1 /\ k \in 1 .. n)
         /\ \A i, k : IsKept(i, k) => i \in Nat /\ i < Len(writes) + 1
<1> DEFINE call == Len(writes) + 1
           text == [k \in 1 .. n |-> <<call, k>>]
<1>1. Len(writes) \in Nat /\ lost \subseteq 1 .. Len(writes) /\ writes \in Seq(Seq(Nat \X Nat))
  BY DEF Texts
<1>2. \A i \in 1 .. Len(writes) : \A k \in 1 .. Len(writes[i]) : writes[i][k] = <<i, k>>
  BY DEF Texts
<1>3. /\ text \in Seq(Nat \X Nat) /\ Len(text) = n
      /\ \A k \in 1 .. n : text[k] = <<call, k>>
  BY <1>1
<1>4. writes' = Append(writes, text)
  OBVIOUS
<1> HIDE DEF text
<1>5. /\ writes' \in Seq(Seq(Nat \X Nat)) /\ Len(writes') = call
      /\ \A i \in 1 .. Len(writes) : writes'[i] = writes[i]
      /\ writes'[call] = text
  BY <1>1, <1>3, <1>4
<1>6. ASSUME NEW i \in 1 .. Len(writes') PROVE \A k \in 1 .. Len(writes'[i]) : writes'[i][k] = <<i, k>>
  <2>1. CASE i = call
    BY <1>3, <1>5, <2>1
  <2>2. CASE i \in 1 .. Len(writes)
    BY <1>2, <1>5, <2>2
  <2>3. Len(writes) \in Nat /\ Len(writes') = Len(writes) + 1
    BY <1>1, <1>5
  <2>4. i = call \/ i \in 1 .. Len(writes)
    BY <2>3
  <2> QED BY <2>1, <2>2, <2>4
<1>7. lost' \subseteq 1 .. Len(writes') /\ (call \in lost' <=> lost' # lost)
  <2>1. Len(writes) \in Nat /\ Len(writes') = Len(writes) + 1 /\ lost \subseteq 1 .. Len(writes)
    BY <1>1, <1>5
  <2>2. CASE lost' = lost
    BY <2>1, <2>2
  <2>3. CASE lost' = lost \cup {call}
    <3>1. call \in lost' /\ call \notin lost
      BY <2>1, <2>3
    <3>2. lost' # lost
      BY <3>1
    <3>3. ASSUME NEW i \in lost' PROVE i \in 1 .. Len(writes')
      <4>1. i \in 1 .. Len(writes) \/ i = Len(writes) + 1
        BY <2>1, <2>3, <3>3
      <4> QED BY <2>1, <4>1
    <3> QED BY <3>1, <3>2, <3>3
  <2> QED BY <2>2, <2>3
<1>8. Texts'
  BY <1>5, <1>6, <1>7 DEF Texts
<1>9. ASSUME NEW i, NEW k
      PROVE  /\ IsKept(i, k)' <=> IsKept(i, k) \/ (lost' = lost /\ i = call /\ k \in 1 .. n)
             /\ IsKept(i, k) => i \in Nat /\ i < call
  <2>1. CASE i = call
    BY <1>1, <1>3, <1>5, <1>7, <2>1 DEF IsKept
  <2>2. CASE i # call
    BY <1>1, <1>5, <2>2 DEF IsKept
  <2> QED BY <2>1, <2>2
<1> QED BY <1>8, <1>9

\* writev: the text is kept behind what was there, or its call is counted as lost.
LEMMA WritevKeeps ==
  ASSUME OutInv, Client!Writev
  PROVE  OutInv'
<1> USE OutputAssumption
<1>1. /\ OutputTypes /\ Texts /\ LastByteFree /\ Filled /\ Untouched
      /\ host = "running" /\ host' = host /\ old' = old /\ printed' = printed
  BY DEF OutInv, Client!Writev
<1>2. at \in Nat /\ room \in Nat /\ Len(writes) \in Nat /\ at + room = Size
  BY <1>1 DEF OutputTypes, Texts, LastByteFree
<1> DEFINE call == Len(writes) + 1
           text(n) == [k \in 1 .. n |-> <<call, k>>]
<1>3. PICK n \in 1 .. MaxWrite :
        /\ writes' = Append(writes, text(n))
        /\ \/ Client!Fits(n) /\ Client!Store(text(n)) /\ UNCHANGED lost
           \/ ~Client!Fits(n) /\ lost' = lost \cup {call} /\ UNCHANGED <<memory, at, room>>
  BY DEF Client!Writev
<1>4. n \in Nat /\ n >= 1 /\ text(n) \in Seq(Nat \X Nat) /\ Len(text(n)) = n
  BY <1>2, <1>3
<1>5. /\ Texts'
      /\ \A i, k : IsKept(i, k)' <=> IsKept(i, k) \/ (lost' = lost /\ i = call /\ k \in 1 .. n)
      /\ \A i, k : IsKept(i, k) => i \in Nat /\ i < call
  BY <1>1, <1>3, <1>4, CallAdds
<1>6. call \notin lost
  BY <1>1, <1>2 DEF Texts
<1> HIDE DEF IsKept
<1>7. Printed'
  BY <1>1 DEF Printed
<1>8. CASE ~Client!Fits(n) /\ lost' = lost \cup {call} /\ UNCHANGED <<memory, at, room>>
  <2>1. OutputTypes' /\ LastByteFree' /\ Untouched'
    BY <1>1, <1>8 DEF OutputTypes, LastByteFree, Untouched
  <2>2. \A i, k : IsKept(i, k)' <=> IsKept(i, k)
    BY <1>5, <1>6, <1>8
  <2>3. Filled'
    BY <1>1, <1>8, <2>2 DEF Filled, Client!Precedes
  <2> QED BY <1>5, <1>7, <2>1, <2>3 DEF OutInv
<1>9. CASE Client!Fits(n) /\ Client!Store(text(n)) /\ UNCHANGED lost
  <2>1. n < room /\ at' = at + n /\ room' = room - n
    BY <1>2, <1>4, <1>9 DEF Client!Fits, Client!Store
  <2>2. /\ memory' \in [1 .. (Size + 1) -> Bytes]
        /\ \A p \in 1 .. at : memory'[p] = memory[p]
        /\ \A p \in (at + 1) .. (at + n) : memory'[p] = <<call, p - at>>
        /\ \A p \in (at + n + 1) .. (Size + 1) : memory'[p] = memory[p]
    <3>1. memory' = [p \in 1 .. (Size + 1) |->
                       IF p \in (at + 1) .. (at + n) THEN text(n)[p - at] ELSE memory[p]]
      BY <1>4, <1>9 DEF Client!Store
    <3>2. \A p \in (at + 1) .. (at + n) :
            text(n)[p - at] = <<call, p - at>> /\ <<call, p - at>> \in Nat \X Nat
      BY <1>2, <1>4
    <3> HIDE DEF text, call
    <3>3. ASSUME NEW p \in 1 .. (Size + 1)
          PROVE  /\ memory'[p] \in Bytes
                 /\ IF p \in (at + 1) .. (at + n) THEN memory'[p] = <<call, p - at>>
                                                  ELSE memory'[p] = memory[p]
      BY <1>1, <3>1, <3>2, <3>3 DEF OutputTypes, Bytes
    <3>4. memory' \in [1 .. (Size + 1) -> Bytes]
      BY <3>1, <3>3
    <3>5. at + n <= Size /\ Size \in Nat
      BY <1>2, <1>4, <2>1, SizePositive
    <3> QED BY <1>2, <1>4, <3>3, <3>4, <3>5
  <2>3. OutputTypes' /\ LastByteFree'
    BY <1>1, <1>2, <1>4, <2>1, <2>2 DEF OutputTypes, LastByteFree
  <2>4. Untouched'
    BY <1>1, <1>2, <1>4, <2>1, <2>2 DEF Untouched
  <2>5. \A i, k : IsKept(i, k)' <=> IsKept(i, k) \/ (i = call /\ k \in 1 .. n)
    BY <1>5, <1>9
  <2>6. call \in Nat /\ \A i, k : IsKept(i, k) => i \in Nat /\ i < call
    BY <1>2, <1>5
  <2> HIDE DEF text, call
  <2>r. \A p \in 1 .. at' : p \in Nat /\ (p \in 1 .. at \/ p \in (at + 1) .. (at + n))
    BY <1>2, <1>4, <2>1
  <2>7. ASSUME NEW p \in 1 .. at'
        PROVE  memory'[p] \in Nat \X Nat /\ IsKept(memory[p][1], memory[p][2])'
    <3>1. CASE p \in 1 .. at
      <4>1. memory[p] \in Nat \X Nat /\ IsKept(memory[p][1], memory[p][2])
        BY <1>1, <3>1 DEF Filled
      <4> QED BY <2>2, <2>5, <3>1, <4>1
    <3>2. CASE p \in (at + 1) .. (at + n)
      <4>1. memory'[p] = <<call, p - at>> /\ p - at \in 1 .. n
        <5>1. p - at \in 1 .. n
          BY <1>2, <1>4, <3>2
        <5> QED BY <2>2, <3>2, <5>1
      <4>2. memory'[p][1] = call /\ memory'[p][2] = p - at /\ memory'[p] \in Nat \X Nat
        BY <1>4, <2>6, <4>1
      <4> QED BY <2>5, <4>1, <4>2
    <3> QED BY <2>r, <3>1, <3>2
  <2>8. ASSUME NEW i \in Nat, NEW k \in Nat, IsKept(i, k)'
        PROVE  \E p \in 1 .. at' : memory'[p] = <<i, k>>
    <3>1. CASE IsKept(i, k)
      <4>1. PICK p \in 1 .. at : memory[p] = <<i, k>>
        BY <1>1, <3>1 DEF Filled
      <4>2. p \in 1 .. at' /\ memory'[p] = memory[p]
        BY <1>2, <1>4, <2>1, <2>2, <4>1
      <4> QED BY <4>1, <4>2
    <3>2. CASE i = call /\ k \in 1 .. n
      <4>1. at + k \in (at + 1) .. (at + n) /\ at + k \in 1 .. at' /\ (at + k) - at = k
        BY <1>2, <1>4, <2>1, <3>2
      <4> QED BY <2>2, <3>2, <4>1
    <3> QED BY <2>5, <2>8, <3>1, <3>2
  <2>9. ASSUME NEW p \in 1 .. at', NEW q \in 1 .. at', p < q
        PROVE  Client!Precedes(memory[p], memory[q])'
    <3>1. CASE p \in 1 .. at /\ q \in 1 .. at
      <4>1. Client!Precedes(memory[p], memory[q])
        BY <1>1, <2>9, <3>1 DEF Filled
      <4> QED BY <2>2, <3>1, <4>1 DEF Client!Precedes
    <3>2. CASE p \in 1 .. at /\ q \in (at + 1) .. (at + n)
      <4>1. memory'[q] = <<call, q - at>>
        BY <2>2, <3>2
      <4>2. memory'[p] = memory[p] /\ IsKept(memory[p][1], memory[p][2])
        BY <1>1, <2>2, <3>2 DEF Filled
      <4>3. memory'[p][1] < call /\ memory'[q][1] = call
        BY <2>6, <4>1, <4>2
      <4> QED BY <4>3 DEF Client!Precedes
    <3>3. CASE p \in (at + 1) .. (at + n) /\ q \in (at + 1) .. (at + n)
      <4>1. memory'[p] = <<call, p - at>> /\ memory'[q] = <<call, q - at>> /\ p - at < q - at
        BY <1>2, <2>2, <2>9, <2>r, <3>3
      <4> QED BY <4>1 DEF Client!Precedes
    <3>4. ~(p \in (at + 1) .. (at + n) /\ q \in 1 .. at)
      BY <1>2, <2>9, <2>r
    <3> QED BY <2>r, <3>1, <3>2, <3>3, <3>4
  <2>10. Filled'
    BY <2>7, <2>8, <2>9 DEF Filled, Client!Precedes
  <2> QED BY <1>5, <1>7, <2>3, <2>4, <2>10 DEF OutInv
<1> QED BY <1>3, <1>8, <1>9

\* A step that leaves the buffer and what was written alone.
LEMMA SameOutput ==
  ASSUME UNCHANGED <<old, memory, at, writes, lost>>
  PROVE  /\ Texts => Texts'
         /\ Filled => Filled'
         /\ Untouched => Untouched'
         /\ Client!Captured' = Client!Captured
<1>1. \A i, k : IsKept(i, k)' <=> IsKept(i, k)
  BY DEF IsKept
<1>2. (Texts => Texts') /\ (Untouched => Untouched') /\ Client!Captured' = Client!Captured
  BY DEF Texts, Untouched, Client!Captured
<1> HIDE DEF IsKept
<1>3. Filled => Filled'
  BY <1>1 DEF Filled, Client!Precedes
<1> QED BY <1>2, <1>3

\* "%s" of a buffer whose first byte 0 follows byte m, or that has none.
LEMMA StringEnds ==
  ASSUME NEW b \in [1 .. (Size + 1) -> Bytes], NEW m \in 0 .. (Size + 1),
         \A p \in 1 .. m : b[p] # End,
         m = Size + 1 \/ b[m + 1] = End
  PROVE  Client!CString(b) = SubSeq(b, 1, m)
<1> DEFINE zeros == {i \in 1 .. (Size + 1) : b[i] = End}
<1>1. Client!CString(b) = SubSeq(b, 1, IF zeros = {} THEN Size + 1 ELSE Client!Min(zeros) - 1)
  BY DEF Client!CString
<1>2. CASE m = Size + 1
  <2>1. zeros = {}
    BY <1>2
  <2> QED BY <1>1, <1>2, <2>1
<1>3. CASE m # Size + 1
  <2>1. m \in Nat /\ m + 1 \in zeros /\ \A z \in zeros : z \in Nat /\ m + 1 <= z
    BY <1>3, SizePositive
  <2> HIDE DEF zeros
  <2>2. Client!Min(zeros) = m + 1
    BY <2>1 DEF Client!Min
  <2> QED BY <1>1, <2>1, <2>2
<1> QED BY <1>2, <1>3

\* A buffer as malloc left it: its bytes of old data, and the byte behind it if it is full.
LEMMA OldString ==
  ASSUME NEW n \in 0 .. Size
  PROVE  \E m \in 0 .. (Size + 1) :
           /\ Client!CString(Client!Allocated(n)) = Client!OldBytes(m)
           /\ n = 0 => m = 0
<1> USE OutputAssumption
<1> DEFINE b == Client!Allocated(n)
           m == IF n = Size THEN Size + 1 ELSE n
<1>1. m \in 0 .. (Size + 1) /\ (n = 0 => m = 0) /\ m \in Nat
  BY SizePositive
<1>2. /\ b \in [1 .. (Size + 1) -> Bytes]
      /\ \A p \in 1 .. m : b[p] = Stale
      /\ m = Size + 1 \/ b[m + 1] = End
  BY SizePositive DEF Client!Allocated, Bytes
<1> HIDE DEF b, m
<1>3. Client!CString(b) = SubSeq(b, 1, m)
  <2>1. \A p \in 1 .. m : b[p] # End
    BY <1>2
  <2> QED BY <1>1, <1>2, <2>1, StringEnds
<1>4. SubSeq(b, 1, m) = Client!OldBytes(m)
  BY <1>1, <1>2, SizePositive DEF Client!OldBytes
<1> QED BY <1>1, <1>3, <1>4 DEF b

\* The output buffer: what was captured, and the old data that is longer.
LEMMA OutputString ==
  ASSUME OutputTypes, LastByteFree, Filled, Untouched
  PROVE  \E m \in 0 .. (Size + 1) :
           /\ Client!CString(memory) = Client!Captured \o Client!OldBytes(m)
           /\ old.output <= at => m = 0
<1> USE OutputAssumption
<1> DEFINE n == old.output
           m == IF n = Size THEN Size + 1 - at ELSE IF n <= at THEN 0 ELSE n - at
<1>1. /\ at \in Nat /\ Size \in Nat /\ at < Size /\ n \in 0 .. Size
      /\ memory \in [1 .. (Size + 1) -> Bytes]
  BY SizePositive DEF OutputTypes, LastByteFree, Client!OldData
<1>2. /\ m \in 0 .. (Size + 1) /\ m \in Nat /\ (n <= at => m = 0)
      /\ at + m \in 0 .. (Size + 1) /\ at + m \in Nat
  BY <1>1
<1>3. \A p \in 1 .. at : memory[p] # End
  BY DEF Filled
<1>4. \A p \in (at + 1) .. (at + m) : memory[p] = Stale
  <2>1. \A p \in (at + 1) .. (at + m) : p \in (at + 1) .. (Size + 1) /\ (p <= n \/ p > Size)
    BY <1>1
  <2>2. \A p \in (at + 1) .. (Size + 1) : p \in 1 .. (Size + 1)
    BY <1>1
  <2> QED BY <2>1, <2>2 DEF Untouched, Client!Allocated
<1>5. at + m = Size + 1 \/ memory[at + m + 1] = End
  <2>1. CASE n = Size
    BY <1>1, <2>1
  <2>2. CASE n # Size
    <3>1. /\ at + m + 1 \in (at + 1) .. (Size + 1) /\ at + m + 1 \in 1 .. (Size + 1)
          /\ ~(at + m + 1 <= n \/ at + m + 1 > Size)
      BY <1>1, <2>2
    <3> QED BY <3>1 DEF Untouched, Client!Allocated
  <2> QED BY <2>1, <2>2
<1> HIDE DEF n, m
<1>6. \A p \in 1 .. (at + m) : memory[p] # End
  <2>1. \A p \in 1 .. (at + m) : p \in 1 .. at \/ p \in (at + 1) .. (at + m)
    BY <1>1, <1>2
  <2> QED BY <1>3, <1>4, <2>1
<1>7. Client!CString(memory) = SubSeq(memory, 1, at + m)
  BY <1>1, <1>2, <1>5, <1>6, StringEnds
<1>8. SubSeq(memory, 1, at + m) = Client!Captured \o Client!OldBytes(m)
  BY <1>1, <1>2, <1>4 DEF Client!Captured, Client!OldBytes
<1> QED BY <1>2, <1>7, <1>8 DEF n

\* print_buffers: the string of the buffer for benchmarks, then that of the output.
LEMMA PrintKeeps ==
  ASSUME OutInv, Client!PrintBuffers
  PROVE  OutInv'
<1>1. /\ UNCHANGED <<old, memory, at, room, writes, lost>> /\ host' = "printed"
      /\ printed' = Client!CString(Client!Allocated(old.benchmark)) \o Client!CString(memory)
  BY DEF Client!PrintBuffers
<1>2. OutputTypes /\ Texts /\ LastByteFree /\ Filled /\ Untouched
  BY DEF OutInv
<1>3. OutputTypes' /\ Texts' /\ LastByteFree' /\ Filled' /\ Untouched'
  BY <1>1, <1>2, SameOutput DEF OutputTypes, LastByteFree
<1>4. PICK before \in 0 .. (Size + 1) :
        /\ Client!CString(Client!Allocated(old.benchmark)) = Client!OldBytes(before)
        /\ old.benchmark = 0 => before = 0
  <2>1. old.benchmark \in 0 .. Size
    BY <1>2 DEF OutputTypes, Client!OldData
  <2> QED BY <2>1, OldString
<1>5. PICK after \in 0 .. (Size + 1) :
        /\ Client!CString(memory) = Client!Captured \o Client!OldBytes(after)
        /\ old.output <= at => after = 0
  BY <1>2, OutputString
<1>6. /\ Client!OldBytes(before) \in Seq(Bytes) /\ Client!OldBytes(after) \in Seq(Bytes)
      /\ Client!Captured \in Seq(Bytes)
  <2>1. before \in Nat /\ after \in Nat
    BY SizePositive
  <2> QED BY <1>2, <2>1, CapturedBytes DEF Client!OldBytes, Bytes
<1>7. printed' = Client!OldBytes(before) \o Client!Captured \o Client!OldBytes(after)
  <2>1. printed' = Client!OldBytes(before) \o (Client!Captured \o Client!OldBytes(after))
    BY <1>1, <1>4, <1>5, Zenon
  <2>2. \A s, t, u \in Seq(Bytes) : (s \o t) \o u = s \o (t \o u)
    BY ConcatAssociative
  <2>3. (Client!OldBytes(before) \o Client!Captured) \o Client!OldBytes(after)
          = Client!OldBytes(before) \o (Client!Captured \o Client!OldBytes(after))
    BY <1>6, <2>2, Zenon
  <2> QED BY <2>1, <2>3, Zenon
<1>8. Client!Captured' = Client!Captured
  BY <1>1 DEF Client!Captured
<1>9. Printed'
  BY <1>1, <1>4, <1>5, <1>7, <1>8 DEF Printed, Client!PrintedInOnePiece, Client!OldBytes
<1> QED BY <1>3, <1>9 DEF OutInv

\* Every step of the client, of the command and of the application keeps the output right.
LEMMA OutputKept == OutInv /\ [SystemNext]_<<vars, output>> => OutInv'
<1> SUFFICES ASSUME OutInv, [SystemNext]_<<vars, output>> PROVE OutInv'
  OBVIOUS
<1>1. ASSUME UNCHANGED <<old, memory, at, writes, lost, printed>>,
             OutputTypes', LastByteFree', host' = "printed" => host = "printed"
      PROVE  OutInv'
  <2>1. Texts' /\ Filled' /\ Untouched' /\ Client!Captured' = Client!Captured
    BY <1>1, SameOutput DEF OutInv
  <2>2. Printed'
    BY <1>1, <2>1 DEF OutInv, Printed, Client!PrintedInOnePiece, Client!OldBytes
  <2> QED BY <1>1, <2>1, <2>2 DEF OutInv
<1>2. CASE UNCHANGED output \/ Client!NoFile \/ Client!Return
  <2>1. /\ UNCHANGED <<old, memory, at, room, writes, lost, printed>>
        /\ host' = host \/ host' \in {"returned", "exit"}
    BY <1>2 DEF output, Client!NoFile, Client!Return
  <2>2. OutputTypes' /\ LastByteFree'
    BY <2>1 DEF OutInv, OutputTypes, LastByteFree
  <2> QED BY <1>1, <2>1, <2>2
<1>3. CASE Client!StartWasm
  <2>1. /\ UNCHANGED <<old, memory, at, writes, lost, printed>>
        /\ host' \in {"running", "exit"} /\ at = 0
        /\ room' \in {room, Size} /\ (host' = "running" => room' = Size)
    BY <1>3 DEF Client!StartWasm, OutInv, LastByteFree
  <2>2. OutputTypes' /\ LastByteFree'
    <3>1. OutputTypes'
      BY <2>1, SizePositive DEF OutInv, OutputTypes
    <3>2. LastByteFree'
      BY <2>1, SizePositive DEF LastByteFree
    <3> QED BY <3>1, <3>2
  <2> QED BY <1>1, <2>1, <2>2
<1>4. CASE Client!NextClient
  <2>1. Fresh'
    BY <1>4 DEF Client!NextClient, Fresh, Client!Allocated
  <2> QED BY <2>1, FreshEmpty, PTL
<1>5. UNCHANGED output \/ Client!StartWasm \/ Client!NoFile \/ Client!Writev \/ Client!Return
      \/ Client!PrintBuffers \/ Client!NextClient
  BY DEF SystemNext, ConfigureHeap, RunCommand, NoCommand, CommandStep, AppWrites,
         CommandReturns, PrintOutput, NextClient, BufferChanges
<1> QED BY <1>2, <1>3, <1>4, <1>5, WritevKeeps, PrintKeeps

\* For buffers of any size, texts of any length and any number of bytes of old data: the
\* client prints the whole texts that writev captured, in their order and in one piece.  Old
\* data comes before them only if the buffer for benchmarks has some, and behind them only if
\* it is longer than they are, because writev leaves the last byte of its buffer alone.
THEOREM OutputIsPrinted == SystemSpec => []PrintsWhatWasCaptured
<1>1. SystemInit => OutInv
  BY FreshEmpty DEF SystemInit, Client!Init, Fresh
<1> QED BY <1>1, OutputKept, InvariantPrints, PTL DEF SystemSpec
==============================================================================
