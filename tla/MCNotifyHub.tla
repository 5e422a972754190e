---------------------------- MODULE MCNotifyHub ----------------------------
(* Constant values for checking NotifyHub.                                 *)
EXTENDS NotifyHub, TLC

\* Flush goroutines are interchangeable: no definition names one.
Symmetry == Permutations(Flushers)

=============================================================================
