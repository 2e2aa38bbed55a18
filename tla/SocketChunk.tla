----------------------------- MODULE SocketChunk -----------------------------
(***************************************************************************)
(* receive_socket_per_chunk of remote_attestation.c, which receives msg1   *)
(* and msg3: it asks for chunk_size bytes at a time and advances by what   *)
(* it got, until the buffer is full or the stream ends.  chunk_size is     *)
(* both the room offered to recv and the number of bytes recv returned, so *)
(* it never grows again after a short answer.                              *)
(*                                                                         *)
(* The peer sends total bytes and then closes the connection; TCP hands    *)
(* them over in segments of any size.                                      *)
(***************************************************************************)
EXTENDS Naturals

CONSTANTS ChunkSize,  \* the chunk_size of the caller
          DataSizes,  \* sizes of the caller's buffer, in bytes
          Totals      \* numbers of bytes the peer sends before it closes

ASSUME SizesAssumption ==
  ChunkSize \in Nat \ {0} /\ DataSizes \subseteq Nat /\ Totals \subseteq Nat

VARIABLES
  data_size, total, \* the caller's buffer, what the peer sends: they do not change
  pc,               \* "loop", "recv" or "done"
  res,              \* the result: "none", "success", "short_buffer", "error"
  chunk_size,
  transfered_data,
  data_cursor,      \* where the next bytes go, from the start of the buffer
  arrived,          \* bytes in the receive queue of the socket
  onTheWay,         \* bytes the peer sent or will send
  buffer            \* the bytes in the buffer: [position -> byte of the stream]

network == <<arrived, onTheWay>>
locals  == <<res, chunk_size, transfered_data, data_cursor, buffer>>
vars    == <<data_size, total, pc, locals, network>>

Init ==
  /\ data_size \in DataSizes /\ total \in Totals
  /\ pc = "loop" /\ res = "none"
  /\ chunk_size = ChunkSize
  /\ transfered_data = 0 /\ data_cursor = 0
  /\ arrived = 0 /\ onTheWay = total
  /\ buffer = [i \in {} |-> 0]

\* TCP delivers some more of the stream.
Deliver ==
  /\ \E n \in 1..onTheWay : arrived' = arrived + n /\ onTheWay' = onTheWay - n
  /\ UNCHANGED <<data_size, total, pc, locals>>

\* Mutants: the end of the stream is not noticed; a short answer ends the loop.
SpinsAtEnd == transfered_data < data_size
StopsAtShort == chunk_size = ChunkSize /\ transfered_data < data_size

\* Mutant: a full buffer does not end the loop.
ReceivesWhenFull == chunk_size > 0 /\ transfered_data <= data_size

\* The condition of the while loop.
LoopGuard == chunk_size > 0 /\ transfered_data < data_size

\* The head of the loop, with the check it makes before it receives.
Loop ==
  /\ pc = "loop"
  /\ IF ~LoopGuard
     THEN pc' = "done" /\ res' = "success"
     ELSE IF transfered_data > data_size
          THEN pc' = "done" /\ res' = "short_buffer"
          ELSE pc' = "recv" /\ UNCHANGED res
  /\ UNCHANGED <<data_size, total, chunk_size, transfered_data, data_cursor, buffer, network>>

\* Mutant: the cursor moves by what was asked for.
AdvanceByChunk(n) ==
  /\ chunk_size' = n
  /\ transfered_data' = transfered_data + n
  /\ data_cursor' = data_cursor + chunk_size

\* The bookkeeping after n bytes were received.
Advance(n) ==
  /\ chunk_size' = n
  /\ transfered_data' = transfered_data + n
  /\ data_cursor' = data_cursor + n

\* recv returns n bytes, at least one unless the stream has ended.
Recv(n) ==
  /\ pc = "recv"
  /\ n <= chunk_size /\ n <= arrived
  /\ n = 0 => arrived = 0 /\ onTheWay = 0
  /\ arrived' = arrived - n
  /\ Advance(n)
  /\ buffer' = [i \in DOMAIN buffer \cup data_cursor..(data_cursor + n - 1) |->
                  IF i >= data_cursor THEN total - arrived - onTheWay + (i - data_cursor)
                  ELSE buffer[i]]
  /\ pc' = "loop"
  /\ UNCHANGED <<data_size, total, res, onTheWay>>

\* recv fails: the connection was reset.
RecvFails ==
  /\ pc = "recv"
  /\ pc' = "done" /\ res' = "error"
  /\ UNCHANGED <<data_size, total, chunk_size, transfered_data, data_cursor, buffer, network>>

Next == Deliver \/ Loop \/ (\E n \in 0..ChunkSize : Recv(n)) \/ RecvFails

Spec == Init /\ [][Next]_vars

\* The peer's bytes arrive, and a TA that is not blocked in recv runs on.
FairSpec ==
  /\ Spec
  /\ WF_vars(Deliver)
  /\ WF_vars(Loop)
  /\ WF_vars(\E n \in 0..ChunkSize : Recv(n))

-----------------------------------------------------------------------------
\* Type invariant.
TypeOK ==
  /\ data_size \in DataSizes /\ total \in Totals
  /\ pc \in {"loop", "recv", "done"}
  /\ res \in {"none", "success", "short_buffer", "error"}
  /\ chunk_size \in 0..ChunkSize
  /\ transfered_data \in 0..total
  /\ arrived \in 0..total /\ onTheWay \in 0..total
  /\ data_cursor \in 0..total

\* The buffer holds the stream from its beginning, in order and without gaps,
\* however it was cut into segments and chunks.
InOrder ==
  /\ DOMAIN buffer = 0..(transfered_data - 1)
  /\ \A i \in DOMAIN buffer : buffer[i] = i

\* The loop reports success only with a full buffer or at the end of the stream:
\* it never returns in the middle of a message.
NoEarlyReturn ==
  pc = "done" /\ res = "success" =>
    transfered_data >= data_size \/ (arrived = 0 /\ onTheWay = 0)

\* Every call returns, in the presence of a peer that closes the connection.
Returns == <>(pc = "done")

\* The check for a short buffer cannot be reached, so it is the chunk that bounds what the
\* loop writes: always less than one chunk behind the end of the buffer.
OverrunBelowChunk ==
  /\ res # "short_buffer"
  /\ transfered_data = 0 \/ transfered_data < data_size + ChunkSize
==============================================================================
