---------------------------- MODULE MCRgiSender ----------------------------
(* TLC instances of RgiSender. *)
EXTENDS RgiSender, TLC

Symmetry == Permutations(Threads) \cup Permutations(Rcvids)
            \cup Permutations(Contexts)
=============================================================================
