--------------------------- MODULE OIDCSessionAbs ---------------------------
(***************************************************************************)
(* What the login-session protocol promises (spec.md 3, 4.5, 8), without  *)
(* etcd, watches or HTTP. Each state token is unused, live (its record    *)
(* exists) or gone, and has at most one outcome, decided while it is      *)
(* live. An OIDCStateToEmail call on a token returns an e-mail only for a *)
(* succeeded login, "Authorization failed" only for a failed one, the    *)
(* expiry error only once the record is gone, and may fail transiently.   *)
(***************************************************************************)
CONSTANTS Sessions, Waiters, NoSession

VARIABLES phase, outcome, target, result

Results == {"none", "email", "authFailed", "tokenDeleted", "error"}

Init ==
    /\ phase = [s \in Sessions |-> "unused"]
    /\ outcome = [s \in Sessions |-> "none"]
    /\ target = [w \in Waiters |-> NoSession]
    /\ result = [w \in Waiters |-> "none"]

Create(s) ==
    /\ phase[s] = "unused"
    /\ phase' = [phase EXCEPT ![s] = "live"]
    /\ UNCHANGED <<outcome, target, result>>

Decide(s) ==
    /\ phase[s] = "live"
    /\ outcome[s] = "none"
    /\ \E o \in {"succeeded", "failed"} : outcome' = [outcome EXCEPT ![s] = o]
    /\ UNCHANGED <<phase, target, result>>

Expire(s) ==
    /\ phase[s] = "live"
    /\ phase' = [phase EXCEPT ![s] = "gone"]
    /\ UNCHANGED <<outcome, target, result>>

Start(w, s) ==
    /\ target[w] = NoSession
    /\ phase[s] # "unused"
    /\ target' = [target EXCEPT ![w] = s]
    /\ UNCHANGED <<phase, outcome, result>>

Return(w, r) ==
    LET s == target[w] IN
    /\ s # NoSession
    /\ result[w] = "none"
    /\ r = "email"        => outcome[s] = "succeeded"
    /\ r = "authFailed"   => outcome[s] = "failed"
    /\ r = "tokenDeleted" => phase[s] = "gone"
    /\ result' = [result EXCEPT ![w] = r]
    /\ UNCHANGED <<phase, outcome, target>>

Next ==
    \/ \E s \in Sessions : Create(s) \/ Decide(s) \/ Expire(s)
    \/ \E w \in Waiters :
          \/ \E s \in Sessions : Start(w, s)
          \/ \E r \in Results \ {"none"} : Return(w, r)

Spec == Init /\ [][Next]_<<phase, outcome, target, result>>
=============================================================================
