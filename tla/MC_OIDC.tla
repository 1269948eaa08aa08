------------------------------- MODULE MC_OIDC -------------------------------
(* Model-checking instance of OIDC: two state tokens, so that a code of    *)
(* one login can be replayed against the other; two callback requests, so  *)
(* that a state can be called back twice; one OIDCStateToEmail call.       *)
EXTENDS OIDC, TLC

CONSTANTS s1, s2, n1, n2, r1, r2, w1

MCSessions == {s1, s2}
MCNonces == {n1, n2}
MCRequests == {r1, r2}
MCWaiters == {w1}

\* One callback request: no state token is called back twice.
MCOneRequest == {r1}

MCSymmetry == Permutations(MCSessions) \cup Permutations(MCNonces)
                \cup Permutations(MCRequests)
=============================================================================
