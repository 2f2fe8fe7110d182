--------------------------- MODULE MCEntitlements ---------------------------
(***************************************************************************)
(* Small instances of Entitlements.                                        *)
(***************************************************************************)
EXTENDS Entitlements, TLC

Symmetry == Permutations(App) \cup Permutations(Row) \cup Permutations(Thread)
=============================================================================
