----------------------------- MODULE OutputCapture -----------------------------
(***************************************************************************)
(* How the standard output of an application reaches the terminal of the   *)
(* client: host/main.c of the attester gives the TA a buffer with          *)
(* COMMAND_RUN_WASM, writev of the TrustZone platform layer (tz_file.c)    *)
(* fills it, and when the command has returned the client prints a buffer  *)
(* for benchmarks and this one, as C strings.                              *)
(*                                                                         *)
(* A byte is the number of the call it was written by and its position in  *)
(* it; End is the byte 0, which an application does not write.  The client *)
(* clears neither buffer, and without a profiling flag nobody writes the   *)
(* one for benchmarks: what is printed of them may be old data of malloc.  *)
(* Of old data only the first 0 matters that no text covers, so a buffer   *)
(* starts with some bytes that are not 0, and has zeros behind them.       *)
(***************************************************************************)
EXTENDS Naturals, Sequences, SequencesExt

CONSTANTS Size,       \* bytes of a buffer: allocate_buffers
          MaxWrite,   \* bound: bytes of a call of writev
          MaxWrites,  \* bound: calls of writev
          End,
          Stale       \* a byte of old data, not 0

VARIABLES
  host,     \* where main of the client is
  old,      \* how many bytes of old data malloc left in each buffer
  memory,   \* output_buffer of the client and the byte after it
  at,       \* output_buffer of tz_file.c: offset of the next byte
  room,     \* output_buffer_size of tz_file.c
  writes,   \* history: the text of each writev
  lost,     \* history: the calls whose text was not captured
  printed   \* what the client printed

\* allocate_buffers: a buffer with n bytes of old data, and the byte after it.
Allocated(n) == [i \in 1 .. (Size + 1) |-> IF i <= n \/ i > Size THEN Stale ELSE End]

\* What malloc may have left in the two buffers.
OldData == [output : 0 .. Size, benchmark : 0 .. Size]

vars == <<host, old, memory, at, room, writes, lost, printed>>

Init ==
  /\ host = "start"
  /\ old \in OldData
  /\ memory = Allocated(old.output)
  /\ at = 0 /\ room = 0
  /\ writes = << >> /\ lost = {}
  /\ printed = << >>

\* prepare_tee_session, configure_heap_size, start_wasm up to the call; errx ends the
\* client when the session cannot be opened.
StartWasm ==
  /\ host = "start"
  /\ \/ host' = "running" /\ at' = 0 /\ room' = Size
     \/ host' = "exit" /\ UNCHANGED <<at, room>>
  /\ UNCHANGED <<old, memory, writes, lost, printed>>

\* The file with the bytecode is missing: no command is sent, the buffer is still printed.
NoFile ==
  /\ host = "start"
  /\ host' = "returned"
  /\ UNCHANGED <<old, memory, at, room, writes, lost, printed>>

\* Mutant: a text that fills the buffer to the last byte is taken.
FitsExactly(n) == room >= n

\* writev stores a text that leaves at least one byte.
Fits(n) == room > n

\* memcpy to output_buffer, which then moves on.
Store(text) ==
  /\ memory' = [i \in 1 .. (Size + 1) |->
                  IF i \in (at + 1) .. (at + Len(text)) THEN text[i - at] ELSE memory[i]]
  /\ at' = at + Len(text)
  /\ room' = room - Len(text)

\* writev to standard output or standard error: everything was written, it says.
Writev ==
  /\ host = "running"
  /\ Len(writes) < MaxWrites
  /\ \E n \in 1 .. MaxWrite :
       LET call == Len(writes) + 1
           text == [k \in 1 .. n |-> <<call, k>>]
       IN  /\ writes' = Append(writes, text)
           /\ \/ Fits(n) /\ Store(text) /\ UNCHANGED lost
              \/ ~Fits(n) /\ lost' = lost \cup {call} /\ UNCHANGED <<memory, at, room>>
  /\ UNCHANGED <<host, old, printed>>

\* The command returns; when it failed, or the TA crashed, errx ends the client.
Return ==
  /\ host = "running"
  /\ host' \in {"returned", "exit"}
  /\ UNCHANGED <<old, memory, at, room, writes, lost, printed>>

\* "%s" prints a buffer up to its first byte 0.
CString(buffer) ==
  LET zeros == {i \in 1 .. (Size + 1) : buffer[i] = End}
  IN  SubSeq(buffer, 1, IF zeros = {} THEN Size + 1 ELSE Min(zeros) - 1)

\* print_buffers: "%s%s" of the buffer for benchmarks, as malloc left it, and of the output.
PrintBuffers ==
  /\ host = "returned"
  /\ host' = "printed"
  /\ printed' = CString(Allocated(old.benchmark)) \o CString(memory)
  /\ UNCHANGED <<old, memory, at, room, writes, lost>>

\* The client is done; another one starts.
NextClient ==
  /\ host \in {"printed", "exit"}
  /\ host' = "start"
  /\ old' \in OldData
  /\ memory' = Allocated(old'.output)
  /\ writes' = << >> /\ lost' = {} /\ printed' = << >>
  /\ at' = 0 /\ room' = 0

Next == StartWasm \/ NoFile \/ Writev \/ Return \/ PrintBuffers \/ NextClient

Spec == Init /\ [][Next]_vars

------------------------------------------------------------------------------
(* Properties                                                                *)

Captured == SubSeq(memory, 1, at)

\* The bytes of the texts that were captured.
KeptBytes == UNION {{writes[i][k] : k \in DOMAIN writes[i]} : i \in DOMAIN writes \ lost}

\* Byte a comes before byte b: b was written by a later call, or later in the same one.
Precedes(a, b) == a[1] < b[1] \/ (a[1] = b[1] /\ a[2] < b[2])

\* Whatever is written, the buffer holds whole texts in the order of the calls: every byte of
\* them once and in its place, so that none is cut and none overwrites another.
CapturesWholeTexts ==
  /\ ToSet(Captured) = KeptBytes
  /\ \A i, j \in DOMAIN Captured : i < j => Precedes(Captured[i], Captured[j])

\* Some bytes of old data.
OldBytes(n) == [i \in 1 .. n |-> Stale]

\* What was captured is printed in one piece, between old data of the buffer for benchmarks
\* and old data behind the text.
PrintedInOnePiece ==
  \E before, after \in 0 .. (Size + 1) :
    /\ printed = OldBytes(before) \o Captured \o OldBytes(after)
    /\ old.benchmark = 0 => before = 0
    /\ old.output <= at => after = 0

\* The client prints what was captured in one piece.  There is no old data before it if the
\* buffer for benchmarks begins with a 0, and none behind it if a 0 follows the text: writev
\* never takes the last byte.
PrintsWhatWasCaptured == CapturesWholeTexts /\ (host = "printed" => PrintedInOnePiece)
==============================================================================
