--------------------------- MODULE MCReplayGuard ----------------------------
(* Instances of ReplayGuard for TLC. *)
EXTENDS ReplayGuard, TLC

CONSTANTS t1, t2, n1, n2

MCThreads == {t1, t2}
MCNonces == {n1, n2}
ThreadSymmetry == Permutations(MCThreads)

\* Two requests whose windows overlap.
TwoRequests == {[nonce |-> n1, timestamp |-> 2], [nonce |-> n2, timestamp |-> 4]}

\* One request, to let the clock run through its whole window twice over.
OneRequest == {[nonce |-> n1, timestamp |-> 3]}

=============================================================================
