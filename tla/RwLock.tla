-------------------------------- MODULE RwLock --------------------------------
(***************************************************************************)
(* What the mutex of OP-TEE promises: any number of readers or one writer. *)
(* A thread takes it one way and gives it back; how it waits does not show.*)
(***************************************************************************)
CONSTANT Threads

VARIABLE mode

Free(t) == mode[t] = "none"

Init == mode = [t \in Threads |-> "none"]

AcquireWrite(t) ==
  /\ \A u \in Threads : Free(u)
  /\ mode' = [mode EXCEPT ![t] = "write"]

AcquireRead(t) ==
  /\ Free(t)
  /\ \A u \in Threads : mode[u] # "write"
  /\ mode' = [mode EXCEPT ![t] = "read"]

Release(t) ==
  /\ ~Free(t)
  /\ mode' = [mode EXCEPT ![t] = "none"]

Next == \E t \in Threads : AcquireWrite(t) \/ AcquireRead(t) \/ Release(t)

Spec == Init /\ [][Next]_mode
==============================================================================
