---------------------------- MODULE GrantsClaims ----------------------------
(***************************************************************************)
(* What the comments and documents of TG11 Accounts say of its codes and   *)
(* tokens and Grants does not satisfy.                                     *)
(***************************************************************************)
EXTENDS Grants

DeadFor(r) == responses[r].access # "live" /\ responses[r].refresh # "live"

\* tg11/oidc.py:170: "replay: revoke everything minted from this code's session
\* for safety".  When a used code is presented again, no token that its client
\* holds for its session survives the request.
ReplayRevokesTokens ==
    [][\A k \in Code :
         Exists(codes[k]) /\ ~codes[k].replayed /\ codes'[k].replayed =>
           \A r \in Issued :
             /\ responses[r].session = codes[k].session
             /\ responses[r].client = codes[k].client
             => DeadFor(r)']_vars

\* docs/TG11_IDENTITY.md:111: "reuse of a rotated token revokes the chain".
\* When an exchanged refresh token is presented again, every token that
\* descends from the same code is dead after the request.
ReuseRevokesChain ==
    [][\A r \in Issued :
         ~responses[r].reused /\ responses'[r].reused =>
           \A n \in Issued : responses[n].code = responses[r].code => DeadFor(n)']_vars

\* tg11/web.py:737, the message of POST /connections/revoke: the application
\* "will have to ask for access again".  The consent on record holds only what
\* the user has allowed since the last withdrawal.
MustAskAgain ==
    \A u \in User, c \in Client :
        consents[u][c].status = "given" => consents[u][c].scope \subseteq asked[u][c].since

\* docs/TG11_IDENTITY.md:111: refresh tokens are "rotated on every use".  A
\* refresh token is exchanged for at most one successor.
RotatedOnce ==
    \A r1, r2 \in Issued :
        /\ responses[r1].parent # NoResponse
        /\ responses[r1].parent = responses[r2].parent
        => r1 = r2
=============================================================================
