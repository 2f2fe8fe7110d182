----------------------------- MODULE GrantLedger -----------------------------
(***************************************************************************)
(* What an authorization server promises, whatever its requests overlap    *)
(* with: the ledger of the grants it has made and of the tokens each one   *)
(* was turned into.                                                        *)
(*                                                                         *)
(*  - a grant holds only what its user has allowed (or its client is       *)
(*    trusted), and never changes hands;                                   *)
(*  - it is exchanged for tokens once, or becomes void, never both;        *)
(*  - tokens come from an exchange, or replace tokens of the same grant;   *)
(*  - a token that is dead stays dead.                                     *)
(*                                                                         *)
(* Grants implements it: see GrantsRefinement.                             *)
(***************************************************************************)
CONSTANTS User, Client, Trusted, Scope, Session, Code, Response

VARIABLES
    allowed,    \* allowed[u][c]: the scopes u has ever allowed c
    grants,     \* what each code stands for
    tokens      \* the tokens of each response

vars == <<allowed, grants, tokens>>

Nothing == [state |-> "none"]

Grant == [state: {"open", "void", "exchanged"}, user: User, client: Client,
          session: Session, scope: SUBSET Scope]
Token == [state: {"issued"}, grant: Code, access: {"live", "dead"},
          refresh: {"none", "live", "dead"}]

TypeOK ==
    /\ allowed \in [User -> [Client -> SUBSET Scope]]
    /\ grants \in [Code -> Grant \cup {Nothing}]
    /\ tokens \in [Response -> Token \cup {Nothing}]

Init ==
    /\ allowed = [u \in User |-> [c \in Client |-> {}]]
    /\ grants = [k \in Code |-> Nothing]
    /\ tokens = [r \in Response |-> Nothing]

\* The user allows the client more scopes.
Allow(u, c, sc) ==
    /\ allowed' = [allowed EXCEPT ![u][c] = @ \cup sc]
    /\ UNCHANGED <<grants, tokens>>

\* A new grant, within what is allowed.
MakeGrant(k, u, c, s, sc) ==
    /\ grants[k] = Nothing
    /\ c \in Trusted \/ sc \subseteq allowed[u][c]
    /\ grants' = [grants EXCEPT ![k] = [state |-> "open", user |-> u,
                                        client |-> c, session |-> s, scope |-> sc]]
    /\ UNCHANGED <<allowed, tokens>>

\* A grant that will never be exchanged.
Void(k) ==
    /\ grants[k].state = "open"
    /\ grants' = [grants EXCEPT ![k].state = "void"]
    /\ UNCHANGED <<allowed, tokens>>

Fresh(k, refresh) == [state |-> "issued", grant |-> k, access |-> "live",
                      refresh |-> refresh]

\* The one exchange of a grant for tokens.
Exchange(k, r, refresh) ==
    /\ grants[k].state = "open"
    /\ tokens[r] = Nothing
    /\ grants' = [grants EXCEPT ![k].state = "exchanged"]
    /\ tokens' = [tokens EXCEPT ![r] = Fresh(k, refresh)]
    /\ UNCHANGED allowed

\* New tokens in place of a refresh token, which dies.
Replace(old, r, refresh) ==
    /\ tokens[old].state = "issued"
    /\ tokens[old].refresh # "none"
    /\ tokens[r] = Nothing
    /\ tokens' = [tokens EXCEPT ![old].refresh = "dead",
                                ![r] = Fresh(tokens[old].grant, refresh)]
    /\ UNCHANGED <<allowed, grants>>

\* Some tokens die: they are revoked or they expire.
DiesAtMost(old, new) == new = old \/ (old = "live" /\ new = "dead")

Wither ==
    /\ tokens' \in [Response -> Token \cup {Nothing}]
    /\ \A r \in Response :
         \/ tokens'[r] = tokens[r]
         \/ /\ tokens[r] # Nothing /\ tokens'[r] # Nothing
            /\ tokens'[r].grant = tokens[r].grant
            /\ DiesAtMost(tokens[r].access, tokens'[r].access)
            /\ DiesAtMost(tokens[r].refresh, tokens'[r].refresh)
    /\ UNCHANGED <<allowed, grants>>

Next ==
    \/ \E u \in User, c \in Client, sc \in SUBSET Scope : Allow(u, c, sc)
    \/ \E k \in Code, u \in User, c \in Client, s \in Session,
          sc \in SUBSET Scope : MakeGrant(k, u, c, s, sc)
    \/ \E k \in Code : Void(k)
    \/ \E k \in Code, r \in Response, refresh \in {"none", "live"} :
         Exchange(k, r, refresh)
    \/ \E old, r \in Response, refresh \in {"none", "live"} :
         Replace(old, r, refresh)
    \/ Wither

Spec == Init /\ [][Next]_vars
=============================================================================
