-------------------------------- MODULE WasmRun --------------------------------
(***************************************************************************)
(* COMMAND_RUN_WASM of the attester TA (main.c, wasm.c) down to what WAMR  *)
(* does for it (wasm_runtime_common.c, wasm_memory.c, wasm_native.c and    *)
(* the AOT loader): the bytecode is copied out of memory the normal world  *)
(* can write at any time, measured, loaded, instantiated and run, and      *)
(* whatever happens everything is torn down.  Every step that allocates or *)
(* maps may fail.  One instance of the TA runs one command at a time.      *)
(*                                                                         *)
(* The build loads AOT files only and has no threads (CMakeLists.txt).  A  *)
(* module is a model value; Torn is what a copy yields that races with a   *)
(* write of the normal world.  What a crash of the TA leaves is cleaned up *)
(* by OP-TEE: the next session finds a new instance.  os_munmap only logs  *)
(* a failure of tee_unmap; here it does not fail.                          *)
(***************************************************************************)
EXTENDS Naturals, FiniteSets

CONSTANTS Modules,       \* contents of the bytecode buffer
          Torn,
          DataSections,  \* object data sections of a module
          None

ASSUME WasmRunAssumption ==
  /\ Torn \notin Modules /\ None \notin Modules \cup {Torn}
  /\ "text" \notin DataSections

VARIABLES
  pc,
  bytecode,      \* the shared buffer of the normal world
  heap_size,     \* the static of main.c: "zero", "small" (below APP_HEAP_SIZE_MIN) or "fits"
  heap_buf,      \* global_heap_buf points to memory
  trusted,       \* content of trusted_wasm_bytecode, None for NULL
  hash,          \* wasm_bytecode_hash of the context: what was measured
  module,        \* the AOTModule: exists, code points to the text, its data sections
  module_inst,   \* context->module_inst is set
  singleton,     \* singleton_wamr_context points to the context
  memory_mode,   \* "unknown" or "pool"
  natives,       \* number of nodes in g_native_symbols_list
  section_list,  \* the list of create_sections: does it own a text section
  maps,          \* regions mapped by os_mmap
  crash,         \* why the instance died
  quotes,        \* history: quotes collected, with the module that was running
  faults         \* history: what was freed or unmapped wrongly

context == <<heap_buf, trusted, hash>>
wamr    == <<memory_mode, natives>>
loader  == <<module, section_list, maps>>
ends    == <<crash, quotes, faults>>
vars    == <<pc, bytecode, heap_size, context, wamr, loader, module_inst, singleton, ends>>

NoModule == [exists |-> FALSE, code |-> FALSE, data |-> {}]
Text == "text"

NewInstance ==
  /\ pc = "idle" /\ heap_size = "zero" /\ heap_buf = FALSE /\ trusted = None /\ hash = None
  /\ module = NoModule /\ module_inst = FALSE /\ singleton = FALSE
  /\ memory_mode = "unknown" /\ natives = 0
  /\ section_list = "none" /\ maps = {} /\ crash = "none"

Init ==
  /\ NewInstance
  /\ bytecode \in Modules
  /\ quotes = {}
  /\ faults = {}

Goto(label) == pc' = label
Crash(why) == pc' = "crashed" /\ crash' = why
Record(failures) == faults' = faults \cup failures

------------------------------------------------------------------------------
(* The normal world                                                          *)

\* The buffer is shared memory: the client may change it during the call.
HostWrites ==
  /\ \E m \in Modules \ {bytecode} : bytecode' = m
  /\ UNCHANGED <<pc, heap_size, context, wamr, loader, module_inst, singleton, ends>>

\* COMMAND_CONFIGURE_HEAP.
TA_SetHeapSize ==
  /\ pc = "idle"
  /\ heap_size' \in {"small", "fits"}
  /\ UNCHANGED <<pc, bytecode, context, wamr, loader, module_inst, singleton, ends>>

\* The session is closed, crash or not, and another client opens one: a new instance.
Reopen ==
  /\ pc \in {"idle", "crashed"}
  /\ pc' = "idle" /\ heap_size' = "zero" /\ heap_buf' = FALSE /\ trusted' = None /\ hash' = None
  /\ module' = NoModule /\ module_inst' = FALSE /\ singleton' = FALSE
  /\ memory_mode' = "unknown" /\ natives' = 0
  /\ section_list' = "none" /\ maps' = {} /\ crash' = "none"
  /\ UNCHANGED <<bytecode, quotes, faults>>

------------------------------------------------------------------------------
(* TA_RunWasm                                                                *)

\* Neither TEE_Malloc is checked: the copy goes to NULL when the second one failed.
TA_RunWasm ==
  /\ pc = "idle"
  /\ heap_buf' \in BOOLEAN
  /\ \/ trusted' \in {bytecode, Torn} /\ Goto("hash") /\ UNCHANGED crash
     \/ Crash("no_memory") /\ UNCHANGED trusted
  /\ UNCHANGED <<bytecode, heap_size, hash, wamr, loader, module_inst, singleton, quotes, faults>>

\* Mutant: the measurement is taken of the buffer that came with the call.
TA_HashShared ==
  /\ pc = "hash"
  /\ hash' = bytecode
  /\ Goto("memory_init")
  /\ UNCHANGED <<bytecode, heap_size, heap_buf, trusted, wamr, loader, module_inst, singleton, ends>>

\* When the operation cannot be allocated, TEE_FreeOperation gets a handle that was never
\* set: the TA crashes, or the call fails as it should.
TA_HashWasmBytecode ==
  /\ pc = "hash"
  /\ \/ hash' = trusted /\ Goto("memory_init") /\ UNCHANGED crash
     \/ Goto("teardown") /\ UNCHANGED <<hash, crash>>
     \/ Crash("no_memory") /\ UNCHANGED hash
  /\ UNCHANGED <<bytecode, heap_size, heap_buf, trusted, wamr, loader, module_inst, singleton,
                 quotes, faults>>

\* wasm_runtime_memory_init: the pool is built inside the heap buffer, NULL or not.
MemoryInit ==
  /\ pc = "memory_init"
  /\ \/ heap_size # "fits" /\ Goto("teardown") /\ UNCHANGED <<memory_mode, crash>>
     \/ heap_size = "fits" /\ ~heap_buf /\ Crash("no_memory") /\ UNCHANGED memory_mode
     \/ heap_size = "fits" /\ heap_buf /\ memory_mode' = "pool" /\ Goto("native_init") /\ UNCHANGED crash
  /\ UNCHANGED <<bytecode, heap_size, context, natives, loader, module_inst, singleton, quotes, faults>>

\* wasm_native_init registers the two WASI modules.  If that fails half way, the memory is
\* destroyed and the first node stays in the list.
NativeInit ==
  /\ pc = "native_init"
  /\ \/ natives' = natives + 2 /\ Goto("register") /\ UNCHANGED memory_mode
     \/ /\ natives' \in {natives, natives + 1}
        /\ memory_mode' = "unknown"
        /\ Goto("teardown")
  /\ UNCHANGED <<bytecode, heap_size, context, loader, module_inst, singleton, ends>>

\* wasm_native_destroy visits the nodes, which are in the heap buffer.
DeadNodes == IF natives = 0 \/ heap_buf THEN {} ELSE {"natives_in_freed_heap"}

\* wasm_runtime_destroy: the nodes are visited, then the pool goes.
wasm_runtime_destroy == natives' = 0 /\ memory_mode' = "unknown"

\* The end of wasm_runtime_full_init: the natives of WASI-RA.
RegisterNatives ==
  /\ pc = "register"
  /\ \/ natives' = natives + 1 /\ Goto("create_module") /\ UNCHANGED <<memory_mode, faults>>
     \/ wasm_runtime_destroy /\ Record(DeadNodes) /\ Goto("teardown")
  /\ UNCHANGED <<bytecode, heap_size, context, loader, module_inst, singleton, crash, quotes>>

------------------------------------------------------------------------------
(* wasm_runtime_load: aot_load_from_aot_file                                 *)

CreateModule ==
  /\ pc = "create_module"
  /\ \/ module' = [NoModule EXCEPT !.exists = TRUE] /\ Goto("create_sections")
     \/ Goto("teardown") /\ UNCHANGED module
  /\ UNCHANGED <<bytecode, heap_size, context, wamr, section_list, maps, module_inst, singleton, ends>>

\* destroy_sections: the regions it unmaps.
destroy_sections(destroy_aot_text) ==
  IF destroy_aot_text /\ section_list = "text" THEN {Text} ELSE {}

\* aot_unload: the regions it unmaps for a module m.
aot_unload(m) == m.data \cup (IF m.code THEN {Text} ELSE {})

\* load failed when the regions in mapped were there: the sections go, with the text if
\* there is one, and then the module.
LoadFails(m, mapped) ==
  LET text == destroy_sections(TRUE)
      rest == aot_unload(m)
  IN  /\ maps' = mapped \ (text \cup rest)
      /\ Record(IF text \cup rest \subseteq mapped /\ text \cap rest = {} THEN {} ELSE {"unmapped_twice"})
      /\ module' = NoModule
      /\ section_list' = "none"
      /\ Goto("teardown")

\* create_sections: the magic number, the sections one by one, a copy of the text.
CreateSections ==
  /\ pc = "create_sections"
  /\ \/ section_list' = "text" /\ maps' = maps \cup {Text} /\ Goto("rest_of_sections")
        /\ UNCHANGED <<module, faults>>
     \/ LoadFails(module, maps)
  /\ UNCHANGED <<bytecode, heap_size, context, wamr, module_inst, singleton, crash, quotes>>

\* The sections after the text; then load_from_sections up to the object data.
LoadInitData ==
  /\ pc = "rest_of_sections"
  /\ \E D \in SUBSET DataSections :
       \/ /\ D = DataSections
          /\ maps' = maps \cup D
          /\ module' = [module EXCEPT !.data = D]
          /\ Goto("load_text")
          /\ UNCHANGED <<section_list, faults>>
       \/ LoadFails([module EXCEPT !.data = D], maps \cup D)
  /\ UNCHANGED <<bytecode, heap_size, context, wamr, module_inst, singleton, crash, quotes>>

\* Text, function, export and relocation sections.  If one is bad, code is reset before
\* the module is unloaded; else the text passes from the list to the module.
LoadText ==
  /\ pc = "load_text"
  /\ \/ module' = [module EXCEPT !.code = TRUE] /\ section_list' = "none" /\ Goto("instantiate")
        /\ UNCHANGED <<maps, faults>>
     \/ LoadFails([module EXCEPT !.code = FALSE], maps)
  /\ UNCHANGED <<bytecode, heap_size, context, wamr, module_inst, singleton, crash, quotes>>

------------------------------------------------------------------------------
(* wasm_runtime_instantiate and the application                              *)

\* aot_instantiate up to the start function; what it allocates is in the pool.
Instantiate ==
  /\ pc = "instantiate"
  /\ Goto("start") \/ Goto("teardown")
  /\ UNCHANGED <<bytecode, heap_size, context, wamr, loader, module_inst, singleton, ends>>

\* The start function returned; only now the TA remembers the context.
StartReturns ==
  /\ pc = "start"
  /\ \/ module_inst' = TRUE /\ singleton' = TRUE /\ Goto("main")
     \/ Goto("teardown") /\ UNCHANGED <<module_inst, singleton>>
  /\ UNCHANGED <<bytecode, heap_size, context, wamr, loader, ends>>

\* The application, or its start function, runs.
AppRuns == pc \in {"start", "main"}

\* wasi_ra_collect_quote, from main or from the start function: it reads the hash through
\* the pointer to the context.
wasi_ra_collect_quote ==
  /\ AppRuns
  /\ \/ singleton /\ quotes' = quotes \cup {[hash |-> hash, code |-> trusted]} /\ UNCHANGED <<pc, crash>>
     \/ ~singleton /\ Crash(pc) /\ UNCHANGED quotes
  /\ UNCHANGED <<bytecode, heap_size, context, wamr, loader, module_inst, singleton, faults>>

\* A clock is read, by the application or by WAMR for the time of a warning it logs.
\* clock_gettime answers, or refuses a clock that is not monotonic, and the run is as it was;
\* when the normal world does not tell the time, the TA panics.
TEE_GetREETime ==
  /\ pc \notin {"idle", "hash", "free", "crashed"}
  /\ Crash("ree_time")
  /\ UNCHANGED <<bytecode, heap_size, context, wamr, loader, module_inst, singleton, quotes, faults>>

\* The application writes, and the pool has no memory for writev to put the text together in:
\* os_malloc is not checked, the text goes to NULL.
WritevNoMemory ==
  /\ AppRuns
  /\ Crash("no_memory")
  /\ UNCHANGED <<bytecode, heap_size, context, wamr, loader, module_inst, singleton, quotes, faults>>

\* The module returned from main, or a trap ended it.
TA_ExecuteWamrRuntime ==
  /\ pc = "main"
  /\ Goto("teardown")
  /\ UNCHANGED <<bytecode, heap_size, context, wamr, loader, module_inst, singleton, ends>>

------------------------------------------------------------------------------

\* Mutant: the memory of the runtime, and with it the module, goes before the module is
\* unloaded.
DestroyThenUnload ==
  /\ pc = "teardown"
  /\ singleton' = FALSE
  /\ module_inst' = FALSE
  /\ module' = NoModule
  /\ wasm_runtime_destroy
  /\ Record(DeadNodes)
  /\ Goto("free")
  /\ UNCHANGED <<bytecode, heap_size, context, section_list, maps, crash, quotes>>

\* TA_TearDownWamrRuntime, whatever of it was set up: deinstantiate, unload, destroy.
TA_TearDownWamrRuntime ==
  /\ pc = "teardown"
  /\ singleton' = FALSE
  /\ module_inst' = FALSE
  /\ module' = NoModule
  /\ maps' = maps \ aot_unload(module)
  /\ wasm_runtime_destroy
  /\ Record(DeadNodes \cup IF aot_unload(module) \subseteq maps THEN {} ELSE {"unmapped_twice"})
  /\ Goto("free")
  /\ UNCHANGED <<bytecode, heap_size, context, section_list, crash, quotes>>

\* The end of TA_RunWasm.
FreeBuffers ==
  /\ pc = "free"
  /\ heap_buf' = FALSE
  /\ trusted' = None
  /\ hash' = None
  /\ Goto("idle")
  /\ UNCHANGED <<bytecode, heap_size, wamr, loader, module_inst, singleton, ends>>

Next ==
  \/ HostWrites \/ TA_SetHeapSize \/ Reopen
  \/ TA_RunWasm \/ TA_HashWasmBytecode \/ MemoryInit \/ NativeInit \/ RegisterNatives
  \/ CreateModule \/ CreateSections \/ LoadInitData \/ LoadText
  \/ Instantiate \/ StartReturns \/ wasi_ra_collect_quote \/ TEE_GetREETime \/ WritevNoMemory
  \/ TA_ExecuteWamrRuntime \/ TA_TearDownWamrRuntime \/ FreeBuffers

Spec == Init /\ [][Next]_vars

------------------------------------------------------------------------------
(* Properties                                                                *)

\* A quote names the module that runs, whenever the normal world rewrites the buffer the
\* module came in: TA_RunWasm measures and loads the same private copy.  main can always
\* collect one; a start function, which runs before TA_InitializeWamrRuntime remembers the
\* context, cannot.
AttestedIsExecuted ==
  /\ \A q \in quotes : q.hash = q.code /\ q.hash # None
  /\ crash # "main"

\* When the command returns, whichever step of it failed, no region is mapped, no memory
\* allocated, no node in the list of natives, and nothing points to the dead context: the
\* next run starts as the first one did.  Nothing goes twice on the way: the text has one
\* owner, the list of sections or the module, and no node is visited in a heap that is gone.
NothingLeftBehind ==
  /\ faults = {}
  /\ pc = "idle" =>
       /\ maps = {} /\ ~heap_buf /\ trusted = None
       /\ memory_mode = "unknown" /\ natives = 0
       /\ ~module.exists /\ ~module_inst /\ ~singleton
==============================================================================
