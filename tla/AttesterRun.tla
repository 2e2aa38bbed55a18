------------------------------ MODULE AttesterRun ------------------------------
(***************************************************************************)
(* The attester client and its TA: main of host/main.c opens a session,    *)
(* configures the heap, sends COMMAND_RUN_WASM with a buffer for the       *)
(* output, waits, and prints the buffer.  WasmRun is the command, in which *)
(* the application writes (OutputCapture).                                 *)
(***************************************************************************)
EXTENDS WasmRun

CONSTANTS Size, MaxWrite, MaxWrites, End, Stale

\* main calls allocate_buffers with 5 KB; the byte 0 is none of those an application writes,
\* and old data has none.
ASSUME OutputAssumption ==
  Size \in Nat \ {0} /\ MaxWrite \in Nat /\ End \notin (Nat \X Nat) \cup {Stale}

VARIABLES host, old, memory, at, room, writes, lost, printed

Client == INSTANCE OutputCapture

output == <<host, old, memory, at, room, writes, lost, printed>>

SystemInit == Init /\ Client!Init

\* configure_heap_size, once, before the command.
ConfigureHeap ==
  /\ host = "start" /\ heap_size = "zero"
  /\ TA_SetHeapSize
  /\ UNCHANGED output

\* start_wasm, even if the heap could not be configured: the client blocks in the command
\* until it returns.
RunCommand ==
  /\ Client!StartWasm /\ host' = "running"
  /\ TA_RunWasm

\* errx, or no bytecode.
NoCommand ==
  /\ Client!NoFile \/ (Client!StartWasm /\ host' = "exit")
  /\ UNCHANGED vars

\* The steps of the command in the TA.
CommandStep ==
  /\ \/ TA_HashWasmBytecode \/ MemoryInit \/ NativeInit \/ RegisterNatives
     \/ CreateModule \/ CreateSections \/ LoadInitData \/ LoadText
     \/ Instantiate \/ StartReturns \/ wasi_ra_collect_quote \/ TEE_GetREETime \/ WritevNoMemory
     \/ TA_ExecuteWamrRuntime \/ TA_TearDownWamrRuntime \/ FreeBuffers
  /\ UNCHANGED output

\* The application, or its start function, writes.
AppWrites == AppRuns /\ Client!Writev /\ UNCHANGED vars

\* A TA that crashed makes the command fail.
CommandReturns ==
  /\ pc \in {"idle", "crashed"}
  /\ Client!Return
  /\ pc = "crashed" => host' = "exit"
  /\ UNCHANGED vars

PrintOutput == Client!PrintBuffers /\ UNCHANGED vars

NextClient == Client!NextClient /\ Reopen

\* Another process of the normal world writes the shared buffer of the bytecode.
BufferChanges == HostWrites /\ UNCHANGED output

SystemNext ==
  \/ ConfigureHeap \/ RunCommand \/ NoCommand \/ CommandStep \/ AppWrites
  \/ CommandReturns \/ PrintOutput \/ NextClient \/ BufferChanges

SystemSpec == SystemInit /\ [][SystemNext]_<<vars, output>>

------------------------------------------------------------------------------
(* Properties, of the command as stated in WasmRun, and of its output.      *)

\* Whenever the command ends and whatever it fails with, the buffer holds whole texts in the
\* order in which writev got them, and the client prints them in one piece.  It clears
\* neither of its buffers: old data of the one for benchmarks comes before the texts, old
\* data behind the texts after them; where malloc left zeros there is nothing, no byte of an
\* earlier run and none from behind the buffer.
PrintsWhatWasCaptured == Client!PrintsWhatWasCaptured
==============================================================================
