----------------------------- MODULE MCContact -----------------------------
(***************************************************************************)
(* Small instances of Contact.                                             *)
(***************************************************************************)
EXTENDS Contact, TLC

\* Nothing tells one of these from another.
Symmetry ==
    Permutations(User) \cup Permutations(Address) \cup Permutations(Number)
        \cup Permutations(Password) \cup Permutations(Link)
        \cup Permutations(Session) \cup Permutations(Thread)
=============================================================================
