------------------------------- MODULE MCSignIn -------------------------------
\* Small instances of SignIn for TLC.
EXTENDS SignIn, TLC

CONSTANTS r1, r2, c1, c2, a, b

\* A request that wants a new login, one that wants a second factor and not too
\* old a session, and one that must not bother its user.
NewLogin == [prompt |-> "login", maxAge |-> "any",  mfa |-> FALSE]
StepUp   == [prompt |-> "",      maxAge |-> "some", mfa |-> TRUE]
Silent   == [prompt |-> "none",  maxAge |-> "zero", mfa |-> FALSE]

OneAsk    == {NewLogin}
ThreeAsks == {NewLogin, StepUp, Silent}

Symmetry == Permutations(Request) \cup Permutations(Call)
=============================================================================
