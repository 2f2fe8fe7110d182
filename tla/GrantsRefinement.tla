-------------------------- MODULE GrantsRefinement --------------------------
(***************************************************************************)
(* Grants implements GrantLedger.  A code whose redemption has committed   *)
(* but whose tokens have not is still open in the ledger: it is exchanged  *)
(* when the tokens are committed, and void when that never happens.        *)
(***************************************************************************)
EXTENDS Grants

MintQueued(k) == [op |-> "mint", code |-> k] \in Queued

Exchanged(k) ==
    \E r \in Issued : responses[r].code = k /\ responses[r].parent = NoResponse

LedgerState(k) ==
    IF codes[k].status = "open" \/ MintQueued(k) THEN "open"
    ELSE IF Exchanged(k) THEN "exchanged" ELSE "void"

LedgerAllowed == [u \in User |-> [c \in Client |-> asked[u][c].ever]]

LedgerGrants ==
    [k \in Code |->
        IF Exists(codes[k])
        THEN [state |-> LedgerState(k), user |-> codes[k].user,
              client |-> codes[k].client, session |-> codes[k].session,
              scope |-> codes[k].scope]
        ELSE [state |-> "none"]]

Standing(status) == IF status \in {"expired", "revoked"} THEN "dead" ELSE status

LedgerTokens ==
    [r \in Response |->
        IF Exists(responses[r])
        THEN [state |-> "issued", grant |-> responses[r].code,
              access |-> Standing(responses[r].access),
              refresh |-> Standing(responses[r].refresh)]
        ELSE [state |-> "none"]]

Ledger == INSTANCE GrantLedger WITH
            allowed <- LedgerAllowed, grants <- LedgerGrants, tokens <- LedgerTokens

\* Every step of the server is a step of the ledger, or changes nothing in it.
ImplementsLedger == Ledger!Spec
=============================================================================
