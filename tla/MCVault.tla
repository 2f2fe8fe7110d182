-------------------------------- MODULE MCVault --------------------------------
\* Small instances of Vault for TLC.
EXTENDS Vault, TLC

CONSTANTS openai, custom_openai, k1, k2, x1, r1, r2, t1, t2, m1, m2

Symmetry == Permutations(Key) \cup Permutations(Material)

OfOpenai(key, extra) == [provider |-> openai, api_key |-> key, extra |-> extra]
OfCustom(key, extra) == [provider |-> custom_openai, api_key |-> key, extra |-> extra]

MCTyped == [p \in Provider |-> IF p = openai THEN Key \cup {None} ELSE {None}]

\* A key; nothing secret; both providers, one of which may have no secret.
MCPushes ==
    {{OfOpenai(k, None)} : k \in Key}
    \cup {{OfOpenai(None, None)}}
    \cup {{OfOpenai(None, x), OfCustom(None, x)} : x \in Extra}
    \cup {{OfOpenai(None, None), OfCustom(None, x)} : x \in Extra}
=============================================================================
