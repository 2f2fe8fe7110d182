-------------------------------- MODULE MCLinks --------------------------------
\* Small instances of Links for TLC.
EXTENDS Links, TLC

CONSTANTS l1, l2, s1, s2, e1, e2, t1, t2, b1

OwnAddress == s1 :> e1 @@ s2 :> e2

\* An identity can only be exchanged for another together with its address.
SwapIdentities == s1 :> s2 @@ s2 :> s1 @@ e1 :> e2 @@ e2 :> e1
Symmetry       == Permutations(Local) \cup Permutations(Thread) \cup {SwapIdentities}
=============================================================================
