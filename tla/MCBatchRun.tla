----------------------------- MODULE MCBatchRun -----------------------------
(***************************************************************************)
(* TLC instances of BatchRun: one batch on one service.                    *)
(***************************************************************************)
EXTENDS BatchRun, TLC

\* The consumers are alike, and so are the requests before they are sent.
Symmetry == Permutations(Adapters) \cup Permutations(Requests)

=============================================================================
