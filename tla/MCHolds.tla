------------------------------ MODULE MCHolds ------------------------------
(***************************************************************************)
(* Small instances of Holds.                                               *)
(***************************************************************************)
EXTENDS Holds, TLC

\* Rows, the provider's identifiers and requests are interchangeable.
WalletSymmetry == Permutations(Method) \cup Permutations(Hold) \cup Permutations(Thread)
=============================================================================
