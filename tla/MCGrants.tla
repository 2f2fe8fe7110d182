------------------------------ MODULE MCGrants ------------------------------
(***************************************************************************)
(* Small instances of Grants.                                              *)
(***************************************************************************)
EXTENDS GrantsRefinement, GrantsClaims, TLC

\* Every client may ask for every scope.
AllScopes == [c \in Client |-> Scope]

\* Identifiers of rows and of worker threads are interchangeable.
RowSymmetry ==
    Permutations(Session) \cup Permutations(Code) \cup Permutations(Response)
        \cup Permutations(Thread)
=============================================================================
