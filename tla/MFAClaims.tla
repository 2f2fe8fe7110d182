------------------------------ MODULE MFAClaims ------------------------------
(***************************************************************************)
(* What the comments of tg11/mfa.py say of second factors and MFA does not *)
(* satisfy.                                                                *)
(***************************************************************************)
EXTENDS MFA

\* tg11/mfa.py:105, of provision: "An existing confirmed device is left alone -
\* re-enrolling must go through `disable()` first".  Only a request to disable
\* takes a confirmed device away.
ConfirmedLeftAlone ==
    [][\A d \in Confirmed : devices'[d].status # "confirmed" =>
         \E t \in Thread : threads[t].op = "disable" /\ threads'[t] = Idle]_vars

\* tg11/mfa.py:13: "the accepted step is recorded: replaying the same code inside
\* its own window is refused", and 16: each recovery code "is single use".  No
\* two sessions rest on the same code.
AcceptedOnce ==
    \A s1, s2 \in Session :
        sessions[s1] = sessions[s2] /\ sessions[s1] \in Proof => s1 = s2
=============================================================================
