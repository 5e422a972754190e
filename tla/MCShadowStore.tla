--------------------------- MODULE MCShadowStore ---------------------------
(* Constant values for checking ShadowStore.                               *)
EXTENDS ShadowStore, TLC

\* Devices and workers are interchangeable: no definition names one.
Symmetry == Permutations(Devices) \cup Permutations(Workers)

\* Every base a client with up to four issued versions can claim, plus a
\* negative one, which the request decoder accepts.
Bases == -1..4

=============================================================================
