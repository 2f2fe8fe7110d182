------------------------------- MODULE MCMFA -------------------------------
(***************************************************************************)
(* Small instances of MFA.                                                 *)
(***************************************************************************)
EXTENDS MFAClaims, TLC

\* Recovery codes, sessions and worker threads are interchangeable.
RowSymmetry ==
    Permutations(Recovery) \cup Permutations(Session) \cup Permutations(Thread)
=============================================================================
