-------------------------- MODULE SocketChunkProofs --------------------------
(***************************************************************************)
(* receive_socket_per_chunk is correct for every chunk, buffer and message *)
(* size.                                                                   *)
(***************************************************************************)
EXTENDS SocketChunk, TLAPS

\* The cursor is the number of bytes received, no byte is lost, recv left chunk_size
\* at 0 only because the stream had ended, and recv is called only with room left.
Progress ==
  /\ data_cursor = transfered_data
  /\ transfered_data + arrived + onTheWay = total
  /\ chunk_size = 0 => arrived = 0 /\ onTheWay = 0
  /\ pc = "recv" => transfered_data < data_size

IInv == TypeOK /\ Progress /\ InOrder /\ NoEarlyReturn /\ OverrunBelowChunk

\* The invariant holds when the loop is entered.
LEMMA InvInit == Init => IInv
<1>. SUFFICES ASSUME Init PROVE IInv
  OBVIOUS
<1>1. total \in Nat /\ ChunkSize \in Nat \ {0}
  BY SizesAssumption DEF Init
<1>2. TypeOK /\ Progress
  BY <1>1 DEF Init, TypeOK, Progress
<1>3. InOrder /\ NoEarlyReturn /\ OverrunBelowChunk
  BY DEF Init, InOrder, NoEarlyReturn, OverrunBelowChunk
<1>. QED BY <1>2, <1>3 DEF IInv

\* Every step keeps the invariant.
LEMMA InvNext == IInv /\ [Next]_vars => IInv'
<1>. SUFFICES ASSUME IInv, [Next]_vars PROVE IInv'
  OBVIOUS
<1>a. /\ total \in Nat /\ data_size \in Nat /\ ChunkSize \in Nat \ {0}
      /\ chunk_size \in Nat /\ transfered_data \in Nat /\ data_cursor \in Nat
      /\ arrived \in Nat /\ onTheWay \in Nat
  BY SizesAssumption DEF IInv, TypeOK
<1>1. CASE Deliver
  <2>1. PICK n \in 1..onTheWay : arrived' = arrived + n /\ onTheWay' = onTheWay - n
    BY <1>1 DEF Deliver
  <2>2. UNCHANGED <<data_size, total, pc, res, chunk_size, transfered_data, data_cursor, buffer>>
    BY <1>1 DEF Deliver, locals
  <2>3. TypeOK' /\ Progress'
    BY <1>a, <2>1, <2>2 DEF IInv, TypeOK, Progress
  <2>4. InOrder'
    BY <2>2 DEF IInv, InOrder
  <2>5. NoEarlyReturn'
    BY <1>a, <2>1, <2>2 DEF IInv, NoEarlyReturn
  <2>6. OverrunBelowChunk'
    BY <2>2 DEF IInv, OverrunBelowChunk
  <2>. QED BY <2>3, <2>4, <2>5, <2>6 DEF IInv
<1>2. CASE Loop
  <2>1. UNCHANGED <<data_size, total, chunk_size, transfered_data, data_cursor, buffer, arrived, onTheWay>>
    BY <1>2 DEF Loop, network
  <2>2. \/ pc' = "done" /\ res' = "success" /\ ~LoopGuard
        \/ pc' = "recv" /\ res' = res /\ transfered_data < data_size
    BY <1>2, <1>a DEF Loop, LoopGuard
  <2>3. TypeOK' /\ Progress'
    BY <2>1, <2>2 DEF IInv, TypeOK, Progress
  <2>4. InOrder'
    BY <2>1 DEF IInv, InOrder
  <2>5. NoEarlyReturn'
    <3>1. ~LoopGuard => chunk_size = 0 \/ transfered_data >= data_size
      BY <1>a DEF LoopGuard
    <3>. QED BY <2>1, <2>2, <3>1 DEF IInv, NoEarlyReturn, Progress
  <2>6. OverrunBelowChunk'
    BY <2>1, <2>2 DEF IInv, OverrunBelowChunk
  <2>. QED BY <2>3, <2>4, <2>5, <2>6 DEF IInv
<1>3. ASSUME NEW n \in 0..ChunkSize, Recv(n)
      PROVE  IInv'
  <2>. DEFINE upto == data_cursor..(data_cursor + n - 1)
  <2>1. /\ n \in Nat /\ n <= chunk_size /\ n <= arrived
        /\ n = 0 => arrived = 0 /\ onTheWay = 0
        /\ arrived' = arrived - n /\ onTheWay' = onTheWay
        /\ chunk_size' = n /\ transfered_data' = transfered_data + n /\ data_cursor' = data_cursor + n
        /\ pc' = "loop" /\ res' = res /\ data_size' = data_size /\ total' = total
    BY <1>3, <1>a DEF Recv, Advance
  <2>2. buffer' = [i \in DOMAIN buffer \cup upto |->
                     IF i >= data_cursor THEN total - arrived - onTheWay + (i - data_cursor)
                     ELSE buffer[i]]
    BY <1>3 DEF Recv
  <2>3. TypeOK' /\ Progress'
    BY <1>a, <2>1 DEF IInv, TypeOK, Progress
  <2>4. total - arrived - onTheWay = data_cursor /\ data_cursor = transfered_data
    BY <1>a DEF IInv, Progress
  <2>5. DOMAIN buffer = 0..(data_cursor - 1) /\ \A i \in DOMAIN buffer : buffer[i] = i
    BY <2>4 DEF IInv, InOrder
  <2>6. DOMAIN buffer \cup upto = 0..(transfered_data' - 1)
    BY <1>a, <2>1, <2>4, <2>5
  <2>7. ASSUME NEW i \in DOMAIN buffer \cup upto
        PROVE  buffer'[i] = i
    <3>1. i \in Nat
      BY <1>a, <2>1, <2>5
    <3>2. CASE i >= data_cursor
      BY <1>a, <2>2, <2>4, <3>1, <3>2
    <3>3. CASE ~(i >= data_cursor)
      BY <1>a, <2>2, <2>5, <3>1, <3>3
    <3>. QED BY <3>2, <3>3
  <2>8. InOrder'
    <3>1. DOMAIN buffer' = DOMAIN buffer \cup upto
      BY <2>2
    <3>. QED BY <2>6, <2>7, <3>1 DEF InOrder
  <2>9. NoEarlyReturn'
    BY <2>1 DEF NoEarlyReturn
  <2>10. OverrunBelowChunk'
    <3>1. transfered_data < data_size /\ n <= ChunkSize /\ pc = "recv"
      BY <1>3, <1>a DEF Recv, IInv, Progress
    <3>. QED BY <1>a, <2>1, <3>1 DEF IInv, OverrunBelowChunk
  <2>. QED BY <2>3, <2>8, <2>9, <2>10 DEF IInv
<1>4. CASE RecvFails
  BY <1>4 DEF RecvFails, network, IInv, TypeOK, Progress, InOrder, NoEarlyReturn, OverrunBelowChunk
<1>5. CASE UNCHANGED vars
  BY <1>5 DEF vars, locals, network, IInv, TypeOK, Progress, InOrder, NoEarlyReturn, OverrunBelowChunk
<1>. QED BY <1>1, <1>2, <1>3, <1>4, <1>5 DEF Next

\* However the stream is cut into segments, receive_socket_per_chunk puts it in
\* the buffer from the beginning, in order and without gaps.
THEOREM ReceivesInOrder == Spec => []InOrder
<1>1. IInv => InOrder
  BY DEF IInv
<1>. QED BY InvInit, InvNext, <1>1, PTL DEF Spec

\* It reports success only with a full buffer or at the end of the stream.
THEOREM ReturnsWhole == Spec => []NoEarlyReturn
<1>1. IInv => NoEarlyReturn
  BY DEF IInv
<1>. QED BY InvInit, InvNext, <1>1, PTL DEF Spec

\* The variables keep their types: no counter leaves 0..total.
THEOREM ChunkTypeCorrect == Spec => []TypeOK
<1>1. IInv => TypeOK
  BY DEF IInv
<1>. QED BY InvInit, InvNext, <1>1, PTL DEF Spec

\* Less than a chunk is written behind the buffer, whatever the peer sends.
THEOREM OverrunIsBounded == Spec => []OverrunBelowChunk
<1>1. IInv => OverrunBelowChunk
  BY DEF IInv
<1>. QED BY InvInit, InvNext, <1>1, PTL DEF Spec
==============================================================================
