----------------------------- MODULE MCTaSessions -----------------------------
\* The kinds of TA that TaSessions is checked for.
EXTENDS TaSessions, TLC

Kind(s, m, k, p) == [single |-> s, multi |-> m, keep |-> k, panics |-> p]

\* Attester and verifier; a TA with one instance and one session at a time; one whose
\* sessions share an instance; and one that stays loaded between its sessions.
FourKinds ==
  {Kind(FALSE, FALSE, FALSE, TRUE), Kind(TRUE, FALSE, FALSE, TRUE),
   Kind(TRUE, TRUE, FALSE, FALSE), Kind(TRUE, FALSE, TRUE, FALSE)}

\* Threads, sessions and contexts are interchangeable in every invariant of TaSessions.
Interchangeable == Permutations(Threads) \cup Permutations(Sessions) \cup Permutations(Contexts)
==============================================================================
