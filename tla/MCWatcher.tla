----------------------------- MODULE MCWatcher -----------------------------
(* Small instances of Watcher. *)
EXTENDS Watcher, TLC

CONSTANTS r1, r2, h1, h2, h3

\* Goroutines are alike.  Rows are alike too where OwnInGroup tells none apart.
HandlerSymmetry == Permutations({h1, h2, h3} \cap Handlers)
Symmetry == Permutations({r1, r2}) \cup HandlerSymmetry
=============================================================================
