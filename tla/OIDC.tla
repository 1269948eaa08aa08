-------------------------------- MODULE OIDC --------------------------------
(***************************************************************************)
(* The OIDC login-session protocol of src/server/auth/server/oidc.go.      *)
(*                                                                         *)
(* Three kinds of actor share nothing but the etcd collection `States`:    *)
(*   - GetOIDCLoginURL puts a pending SessionInfo under a fresh state      *)
(*     token, with a three-minute TTL;                                     *)
(*   - handleOIDCExchange (the /authorization-code/callback handler)       *)
(*     exchanges the code with the ID provider, then, in one etcd STM      *)
(*     transaction, checks the nonce and writes the outcome;               *)
(*   - OIDCStateToEmail watches the state key inside a backoff loop until  *)
(*     it sees an access token, a conversion error or a deletion, and then *)
(*     asks the provider for the user's e-mail.                            *)
(* The etcd collection, its TTL and its watch are modelled from spec.md    *)
(* (4.2, 5): the record disappears when its lease runs out, and a watch    *)
(* delivers the current value when it is opened, then one event per       *)
(* change, in order, until a transport error ends it.                     *)
(*                                                                         *)
(* Data is abstracted: an access token is identified by the login whose   *)
(* code produced it and by the callback request that exchanged it; a     *)
(* nonce is a model value drawn fresh at login.                           *)
(***************************************************************************)
EXTENDS Naturals, Sequences, FiniteSets

CONSTANTS
    Sessions,        \* OIDC state tokens (CryptoString(30) in GetOIDCLoginURL)
    Nonces,          \* nonces (CryptoString(30)), at least one per session
    Requests,        \* callback requests reaching /authorization-code/callback
    Waiters,         \* concurrent OIDCStateToEmail calls
    Ceiling,         \* New60sBackOff's MaxElapsedTime (60s), in clock ticks
    MaxWatchErrors,  \* watch transport errors the environment may inject
    MaxDuplicates,   \* duplicated watch deliveries per OIDCStateToEmail call
    Absent,          \* model value: no key in etcd
    NoToken          \* model value: SessionInfo.AccessToken == ""

ASSUME Cardinality(Nonces) >= Cardinality(Sessions)
ASSUME Ceiling \in Nat /\ MaxWatchErrors \in Nat /\ MaxDuplicates \in Nat

VARIABLES
    configured,  \* a.getOIDCSP() != nil
    login,       \* per state token: has GetOIDCLoginURL created it?
    store,       \* the etcd collection States: state token -> SessionInfo
    req,         \* the callback requests and the handler's progress on each
    waiter,      \* the OIDCStateToEmail calls
    nonceOf,     \* the nonce GetOIDCLoginURL generated for each state token
    watchErrs,   \* watch and WatchOne errors injected so far
    committed    \* history: <<state, token>> committed by a callback txn,
                 \* NoToken standing for a committed conversion error

vars == <<configured, login, store, req, waiter, nonceOf, watchErrs, committed>>

Tokens == [login : Sessions, req : Requests]

\* auth.SessionInfo: Nonce, AccessToken, ConversionErr
SessionInfo == [nonce : Nonces, accessToken : Tokens \cup {NoToken},
                conversionErr : BOOLEAN]

Events == [type : {"put"}, val : SessionInfo]
            \cup [type : {"delete", "error", "closed"}, val : {Absent}]

(* What OIDCStateToEmail can return: the package's sentinel errors        *)
(* authFailed, watchFailed and tokenDeleted (lines 29-34), the watch's own *)
(* error once the backoff gives up, and UserInfo's error.                  *)
Results == {"authFailed", "watchFailed", "tokenDeleted", "watchErr", "userInfoErr"}

Responses == {"none", "200", "400", "401", "409", "500", "aborted"}

\* Query parameters of the callback: both present, one empty, one missing.
Params == {"ok", "empty", "missing"}

Pending(si) == si.accessToken = NoToken /\ ~si.conversionErr

\* Result of handleOIDCExchangeInternal: the error, the ID token's nonce
\* and the access token (both "" on error; abstracted as irrelevant then).
Exchanges == [err : BOOLEAN, nonce : Nonces, token : Tokens]

-----------------------------------------------------------------------------
(* The mutator passed to States.ReadWrite(stm).Update (lines 304-319):    *)
(* si is the record read inside the transaction, ex the result of        *)
(* handleOIDCExchangeInternal. Returns the record written back and        *)
(* whether conversionErr is set when the transaction ends.               *)

MutateNoNonceCheck(si, ex) ==
    [rec |-> IF ~ex.err THEN [si EXCEPT !.accessToken = ex.token]
                        ELSE [si EXCEPT !.conversionErr = TRUE],
     convErr |-> ex.err]

Mutate(si, ex) ==
    LET convErr == ex.err \/ ex.nonce # si.nonce
    IN  [rec |-> IF ~convErr THEN [si EXCEPT !.accessToken = ex.token]
                             ELSE [si EXCEPT !.conversionErr = TRUE],
         convErr |-> convErr]

(* The switch choosing the one HTTP response (lines 323-338).            *)

ResponseIgnoringEtcd(convErr, etcdErr) ==
    IF convErr THEN "401" ELSE "200"

Response(convErr, etcdErr) ==
    CASE convErr -> "401"
      [] etcdErr -> "500"
      [] OTHER   -> "200"

(* How the watch loop of OIDCStateToEmail classifies one event           *)
(* (lines 199-219).                                                       *)

ClassifyPutAnyUnsetAsFailed(si) ==
    IF si.accessToken # NoToken THEN "success" ELSE "authFailed"

ClassifyPut(si) ==
    CASE si.accessToken # NoToken -> "success"
      [] si.conversionErr         -> "authFailed"
      [] OTHER                    -> "pending"

HandleEventNoDelete(e) ==
    CASE e.type = "error" -> "retry"
      [] e.type = "delete" -> "pending"
      [] e.type = "closed" -> "closed"
      [] OTHER -> ClassifyPut(e.val)

HandleEventIgnoreClose(e) ==
    CASE e.type = "error"  -> "retry"
      [] e.type = "delete" -> "deleted"
      [] e.type = "closed" -> "pending"
      [] OTHER             -> ClassifyPut(e.val)

\* "closed": the channel of watcher.Watch() is closed, the range loop ends.
HandleEvent(e) ==
    CASE e.type = "error"  -> "retry"
      [] e.type = "delete" -> "deleted"
      [] e.type = "closed" -> "closed"
      [] OTHER             -> ClassifyPut(e.val)

(* RetryNotify with New60sBackOff: after a failed attempt NextBackOff   *)
(* grants a sleep unless the time elapsed since RetryNotify started (its *)
(* Reset) exceeds MaxElapsedTime. Elapsed is wall-clock time: the time   *)
(* spent blocked in the watch counts as much as the sleeps.              *)
BackoffUnbounded(elapsed) == TRUE

BackoffGrants(elapsed) == elapsed <= Ceiling

\* A store change reaches every open, unbroken watch on that key.
Notify(s, ev) ==
    [w \in Waiters |->
        IF waiter[w].phase = "watching" /\ waiter[w].state = s
           /\ waiter[w].live
        THEN [waiter[w] EXCEPT !.chan = Append(@, ev)]
        ELSE waiter[w]]

-----------------------------------------------------------------------------
InitReq == [phase |-> "idle", state |-> CHOOSE s \in Sessions : TRUE,
            params |-> "ok", ex |-> CHOOSE x \in Exchanges : TRUE,
            resp |-> "none", wrote |-> "none"]

InitWaiter == [phase |-> "idle", state |-> CHOOSE s \in Sessions : TRUE,
               chan |-> <<>>, live |-> FALSE, elapsed |-> 0, waited |-> 0, dups |-> 0,
               token |-> NoToken, result |-> "none", cancelled |-> FALSE]

Init ==
    /\ configured \in BOOLEAN
    /\ login = [s \in Sessions |-> "none"]
    /\ store = [s \in Sessions |-> Absent]
    /\ req = [i \in Requests |-> InitReq]
    /\ waiter = [w \in Waiters |-> InitWaiter]
    /\ nonceOf = [s \in Sessions |-> Absent]
    /\ watchErrs = 0
    /\ committed = {}

-----------------------------------------------------------------------------
(* GetOIDCLoginURL: fresh state and nonce, then an STM that PutTTLs a     *)
(* pending SessionInfo. If the STM fails nothing is stored and the        *)
(* caller gets an error instead of the state token.                      *)
GetOIDCLoginURL(s) ==
    /\ configured
    /\ login[s] = "none"
    /\ \E n \in Nonces \ {nonceOf[x] : x \in Sessions} :
         /\ nonceOf' = [nonceOf EXCEPT ![s] = n]
         /\ \/ /\ store' = [store EXCEPT ![s] =
                     [nonce |-> n, accessToken |-> NoToken, conversionErr |-> FALSE]]
               /\ login' = [login EXCEPT ![s] = "issued"]
            \/ /\ login' = [login EXCEPT ![s] = "failed"]
               /\ UNCHANGED store
    /\ UNCHANGED <<configured, req, waiter, watchErrs, committed>>

(* The ID provider redirects a browser to the callback with a state and  *)
(* a code issued for the login URL of session l (an honest redirect has  *)
(* l = s; a replayed, forged or mixed-up one need not). The handler      *)
(* reads its config, indexes the query parameters, rejects empty ones,   *)
(* then exchanges the code outside any transaction; the exchange yields  *)
(* the nonce of l's login URL, or fails. Indexing a missing parameter    *)
(* ([0] of a nil slice) panics; net/http recovers the panic and drops    *)
(* the connection without writing a response.                            *)
HandleOIDCExchange(i) ==
    /\ req[i].phase = "idle"
    /\ \E s \in Sessions, l \in {x \in Sessions : login[x] = "issued"},
          p \in Params, err \in BOOLEAN :
         LET r == [req[i] EXCEPT !.state = s, !.params = p,
                       !.ex = [err |-> err, nonce |-> nonceOf[l],
                               token |-> [login |-> l, req |-> i]]]
         IN  req' = [req EXCEPT ![i] =
                 CASE ~configured  -> [r EXCEPT !.phase = "done", !.resp = "409"]
                   [] p = "missing" -> [r EXCEPT !.phase = "done", !.resp = "aborted"]
                   [] p = "empty"  -> [r EXCEPT !.phase = "done", !.resp = "400"]
                   [] OTHER        -> [r EXCEPT !.phase = "exchanged"]]
    /\ UNCHANGED <<configured, login, store, waiter, nonceOf, watchErrs, committed>>

(* The STM running the Update mutator, then the single HTTP response.    *)
(* The transaction fails (etcdErr) when etcd is unavailable or the state *)
(* key is gone (Update's Get finds nothing), and conversionErr is then    *)
(* the exchange's own error; or the mutator ran, set conversionErr on a  *)
(* nonce mismatch, and the commit failed, and the answer is still 401.   *)
CommitExchange(i) ==
    LET r == req[i]
        s == r.state
    IN
    /\ r.phase = "exchanged"
    /\ \/ \* the STM fails before the mutator runs (etcd unavailable, key
          \* gone) or after it ran and set conversionErr (commit fails)
          /\ \E mutated \in IF store[s] = Absent THEN {FALSE} ELSE BOOLEAN :
               LET convErr == IF mutated THEN Mutate(store[s], r.ex).convErr
                              ELSE r.ex.err
               IN  req' = [req EXCEPT ![i] = [r EXCEPT !.phase = "done",
                               !.resp = Response(convErr, TRUE)]]
          /\ UNCHANGED <<store, waiter, committed>>
       \/ /\ store[s] # Absent
          /\ LET m == Mutate(store[s], r.ex)
             IN  /\ store' = [store EXCEPT ![s] = m.rec]
                 /\ waiter' = Notify(s, [type |-> "put", val |-> m.rec])
                 /\ committed' = committed \cup
                        {<<s, IF m.convErr THEN NoToken ELSE r.ex.token>>}
                 /\ req' = [req EXCEPT ![i] = [r EXCEPT !.phase = "done",
                        !.resp = Response(m.convErr, FALSE),
                        !.wrote = IF m.convErr THEN "failure" ELSE "token"]]
    /\ UNCHANGED <<configured, login, nonceOf, watchErrs>>

(* The lease of a state key runs out (threeMinutes): etcd deletes it and *)
(* every watch on it sees a delete event.                                *)
Expire(s) ==
    /\ store[s] # Absent
    /\ store' = [store EXCEPT ![s] = Absent]
    /\ waiter' = Notify(s, [type |-> "delete", val |-> Absent])
    /\ UNCHANGED <<configured, login, req, nonceOf, watchErrs, committed>>

-----------------------------------------------------------------------------
(* OIDCStateToEmail. A caller that got state s back from GetOIDCLoginURL *)
(* calls it; RetryNotify runs the watch operation at once.               *)
StartOIDCStateToEmail(w, s) ==
    /\ waiter[w].phase = "idle"
    /\ login[s] = "issued"
    /\ waiter' = [waiter EXCEPT ![w].phase = "open", ![w].state = s]
    /\ UNCHANGED <<configured, login, store, req, nonceOf, watchErrs, committed>>

Finish(w, result) ==
    waiter' = [waiter EXCEPT ![w].phase = "done", ![w].result = result,
                             ![w].chan = <<>>, ![w].live = FALSE]

(* WatchOne: either it fails (watchFailed, which the notify function     *)
(* refuses to retry) or it opens a watch whose first events are the key's *)
(* current value, if the key exists.                                     *)
WatchOne(w) ==
    LET s == waiter[w].state IN
    /\ waiter[w].phase = "open"
    /\ \/ /\ waiter[w].cancelled   \* the initial read fails on the dead ctx
          /\ Finish(w, "watchFailed")
          /\ UNCHANGED watchErrs
       \/ /\ watchErrs < MaxWatchErrors
          /\ watchErrs' = watchErrs + 1
          /\ Finish(w, "watchFailed")
       \/ /\ ~waiter[w].cancelled
          /\ waiter' = [waiter EXCEPT ![w].phase = "watching", ![w].live = TRUE,
                 ![w].chan = IF store[s] = Absent THEN <<>>
                             ELSE <<[type |-> "put", val |-> store[s]]>>]
          /\ UNCHANGED watchErrs
    /\ UNCHANGED <<configured, login, store, req, nonceOf, committed>>

(* The watch connection breaks: one error event, then nothing more.      *)
WatchError(w) ==
    /\ waiter[w].phase = "watching"
    /\ waiter[w].live
    /\ watchErrs < MaxWatchErrors
    /\ watchErrs' = watchErrs + 1
    /\ waiter' = [waiter EXCEPT ![w].chan = Append(@, [type |-> "error", val |-> Absent]),
                                ![w].live = FALSE]
    /\ UNCHANGED <<configured, login, store, req, nonceOf, committed>>

(* The caller's context (the Authenticate RPC's) is cancelled. An open   *)
(* watch ends: the library either sends the context error as an error     *)
(* event or just closes the channel (spec.md 4.2 only says the stream is *)
(* cancelable, so both are allowed). Later WatchOne and UserInfo calls    *)
(* fail; the backoff sleep does not look at the context.                 *)
CancelContext(w) ==
    LET wr == waiter[w] IN
    /\ wr.phase \in {"open", "watching", "backoff", "userinfo"}
    /\ ~wr.cancelled
    /\ \E ev \in {"error", "closed"} :
         waiter' = [waiter EXCEPT ![w].cancelled = TRUE, ![w].live = FALSE,
                      ![w].chan = IF wr.phase = "watching" /\ wr.live
                                  THEN Append(@, [type |-> ev, val |-> Absent])
                                  ELSE @]
    /\ UNCHANGED <<configured, login, store, req, nonceOf, watchErrs, committed>>

(* One iteration of `for e := range watcher.Watch()`. An error event     *)
(* returns e.Err: RetryNotify sleeps and retries while New60sBackOff has *)
(* time left, or returns the error once it has run out. tokenDeleted and *)
(* authFailed stop the loop; an access token ends it with success. When   *)
(* the channel closes the loop ends and the operation returns nil, which *)
(* RetryNotify takes for success: UserInfo follows with whatever          *)
(* accessToken holds.                                                     *)
ReceiveEvent(w) ==
    LET wr == waiter[w] IN
    /\ wr.phase = "watching"
    /\ wr.chan # <<>>
    /\ LET e == Head(wr.chan) IN
       CASE HandleEvent(e) = "retry" ->
              IF BackoffGrants(wr.elapsed)
              THEN waiter' = [waiter EXCEPT ![w].phase = "backoff",
                                 ![w].chan = <<>>, ![w].live = FALSE]
              ELSE Finish(w, "watchErr")
         [] HandleEvent(e) = "deleted"    -> Finish(w, "tokenDeleted")
         [] HandleEvent(e) = "authFailed" -> Finish(w, "authFailed")
         [] HandleEvent(e) = "closed" ->
              waiter' = [waiter EXCEPT ![w].phase = "userinfo", ![w].chan = <<>>]
         [] HandleEvent(e) = "success" ->
              waiter' = [waiter EXCEPT ![w].phase = "userinfo",
                             ![w].token = e.val.accessToken, ![w].chan = <<>>,
                             ![w].live = FALSE]
         [] OTHER -> waiter' = [waiter EXCEPT ![w].chan = Tail(@)]
    /\ UNCHANGED <<configured, login, store, req, nonceOf, watchErrs, committed>>

(* The backoff sleep (one tick) ends and RetryNotify calls the operation *)
(* again.                                                                 *)
BackoffWake(w) ==
    /\ waiter[w].phase = "backoff"
    /\ waiter' = [waiter EXCEPT ![w].phase = "open", ![w].elapsed = @ + 1,
                                 ![w].waited = @ + 1]
    /\ UNCHANGED <<configured, login, store, req, nonceOf, watchErrs, committed>>

(* spec.md 5: a watcher must tolerate duplicate delivery of the same      *)
(* logical state. The watch delivers one of its queued events twice in a  *)
(* row.                                                                   *)
DuplicateEvent(w) ==
    LET ch == waiter[w].chan IN
    /\ waiter[w].phase = "watching"
    /\ waiter[w].dups < MaxDuplicates
    /\ \E i \in DOMAIN ch :
         waiter' = [waiter EXCEPT ![w].chan = SubSeq(ch, 1, i) \o SubSeq(ch, i, Len(ch)),
                                  ![w].dups = @ + 1]
    /\ UNCHANGED <<configured, login, store, req, nonceOf, watchErrs, committed>>

(* A clock tick while OIDCStateToEmail is blocked in its watch waiting   *)
(* for the user to log in. Past the ceiling more time changes nothing the *)
(* code can observe, so the clock stops there.                            *)
Tick(w) ==
    /\ waiter[w].phase = "watching"
    /\ waiter[w].chan = <<>>
    /\ waiter[w].elapsed <= Ceiling
    /\ waiter' = [waiter EXCEPT ![w].elapsed = @ + 1]
    /\ UNCHANGED <<configured, login, store, req, nonceOf, watchErrs, committed>>

(* Provider.UserInfo with the access token; its error is returned as is. *)
(* The provider rejects an empty token, and the call fails on a cancelled *)
(* context.                                                               *)
UserInfo(w) ==
    /\ waiter[w].phase = "userinfo"
    /\ \/ /\ waiter[w].token # NoToken
          /\ ~waiter[w].cancelled
          /\ Finish(w, "email")
       \/ Finish(w, "userInfoErr")
    /\ UNCHANGED <<configured, login, store, req, nonceOf, watchErrs, committed>>

-----------------------------------------------------------------------------
Next ==
    \/ \E s \in Sessions : GetOIDCLoginURL(s) \/ Expire(s)
    \/ \E i \in Requests : HandleOIDCExchange(i) \/ CommitExchange(i)
    \/ \E w \in Waiters :
          \/ \E s \in Sessions : StartOIDCStateToEmail(w, s)
          \/ WatchOne(w) \/ WatchError(w) \/ ReceiveEvent(w)
          \/ BackoffWake(w) \/ UserInfo(w) \/ CancelContext(w) \/ Tick(w)
          \/ DuplicateEvent(w)

(* The server's own steps are weakly fair: a handler that has started   *)
(* runs to its response, a waiter keeps consuming its watch, and etcd   *)
(* enforces the TTL. Logins, redirects, OIDCStateToEmail calls,         *)
(* transport errors, cancellations, duplicated deliveries and the passing *)
(* of time come from the environment and are not fair.                 *)
Fairness ==
    /\ \A s \in Sessions : WF_vars(Expire(s))
    /\ \A i \in Requests : WF_vars(CommitExchange(i))
    /\ \A w \in Waiters : WF_vars(WatchOne(w) \/ ReceiveEvent(w)
                                   \/ BackoffWake(w) \/ UserInfo(w))

Spec == Init /\ [][Next]_vars
FairSpec == Spec /\ Fairness

-----------------------------------------------------------------------------
Outcome(si) == <<si.accessToken, si.conversionErr>>

Terminal(s) == store[s] # Absent /\ ~Pending(store[s])

TypeOK ==
    /\ configured \in BOOLEAN
    /\ login \in [Sessions -> {"none", "issued", "failed"}]
    /\ store \in [Sessions -> SessionInfo \cup {Absent}]
    /\ nonceOf \in [Sessions -> Nonces \cup {Absent}]
    /\ req \in [Requests -> [phase : {"idle", "exchanged", "done"},
                             state : Sessions, params : Params,
                             ex : Exchanges, resp : Responses,
                             wrote : {"none", "token", "failure"}]]
    /\ waiter \in [Waiters -> [phase : {"idle", "open", "watching", "backoff",
                                         "userinfo", "done"},
                               state : Sessions, chan : Seq(Events),
                               live : BOOLEAN, elapsed : 0..Ceiling + 1,
                               waited : 0..Ceiling + 1,
                               dups : 0..MaxDuplicates,
                               token : Tokens \cup {NoToken},
                               result : {"none", "email"} \cup Results,
                               cancelled : BOOLEAN]]
    /\ watchErrs \in 0..MaxWatchErrors
    /\ committed \subseteq Sessions \X (Tokens \cup {NoToken})

(* Replay protection (handleOIDCExchange, nonce check in the Update       *)
(* mutator): whatever interleaving of honest, replayed and cross-session *)
(* callbacks, expiries and logins happens, the access token stored under *)
(* a state token was obtained with a code from that state's own login.   *)
NoForeignToken ==
    \A s \in Sessions :
        store[s] # Absent /\ store[s].accessToken # NoToken
            => store[s].accessToken.login = s

(* OIDCStateToEmail reports only what a callback transaction committed   *)
(* for its state: the access token it goes on to use was committed under *)
(* that state, and "Authorization failed" is returned only if a callback  *)
(* recorded a conversion error there (never for a still-pending record). *)
WaiterReportsCommittedOutcome ==
    \A w \in Waiters :
        /\ waiter[w].token # NoToken
              => <<waiter[w].state, waiter[w].token>> \in committed
        /\ waiter[w].result = "authFailed"
              => <<waiter[w].state, NoToken>> \in committed

(* The callback's HTTP answer tells the browser the truth about its own  *)
(* transaction: 200 only when that request's access token was written,   *)
(* 401 never when it was (etcd failures, expired keys and nonce          *)
(* mismatches all in play).                                              *)
ResponseReflectsCommit ==
    \A i \in Requests :
        /\ req[i].resp = "200" => req[i].wrote = "token"
        /\ req[i].resp = "401" => req[i].wrote # "token"

(* A watch that is open and unbroken on a key that still exists is       *)
(* eventually resolved: OIDCStateToEmail returns, or goes back to its    *)
(* backoff loop because the watch broke. Depends on the delete event of  *)
(* TTL expiry being handled, not skipped like a pending value.           *)
OpenWatchResolves ==
    \A w \in Waiters :
        (waiter[w].phase = "watching" /\ waiter[w].live
            /\ store[waiter[w].state] # Absent)
          ~> waiter[w].phase \in {"done", "backoff"}

(* spec.md 5: cancelling the context of OIDCStateToEmail makes it return *)
(* promptly, whichever way the open watch ends (error event or a closed *)
(* channel) and whichever step the loop is in (watch, backoff, UserInfo). *)
CancelledWaiterReturns ==
    \A w \in Waiters : waiter[w].cancelled ~> waiter[w].phase = "done"

(* The refinement mapping onto OIDCSessionAbs: a state token is live     *)
(* while its key exists and gone once it has expired; its outcome is what *)
(* the callback transactions committed; a waiter targets the state it    *)
(* was called with, and its transient errors are one abstract error.     *)
AbsPhase(s) ==
    IF store[s] # Absent THEN "live"
    ELSE IF login[s] = "issued" THEN "gone" ELSE "unused"

AbsOutcome(s) ==
    IF \E t \in Tokens : <<s, t>> \in committed THEN "succeeded"
    ELSE IF <<s, NoToken>> \in committed THEN "failed" ELSE "none"

AbsResult(w) ==
    IF waiter[w].result \in {"watchFailed", "watchErr", "userInfoErr"}
    THEN "error" ELSE waiter[w].result

Abs == INSTANCE OIDCSessionAbs WITH
           phase <- [s \in Sessions |-> AbsPhase(s)],
           outcome <- [s \in Sessions |-> AbsOutcome(s)],
           target <- [w \in Waiters |-> IF waiter[w].phase = "idle" THEN Absent
                                         ELSE waiter[w].state],
           result <- [w \in Waiters |-> AbsResult(w)],
           NoSession <- Absent

(* With one callback per state token, the protocol implements the        *)
(* abstract session: one outcome per state decided while its record       *)
(* lives, and waiter results that agree with it, whatever the watch      *)
(* errors, backoff retries, expiries and etcd failures.                  *)
RefinesAbstractSession == Abs!Spec

(* spec.md 4.5: identity attributes are fetched only once an access     *)
(* credential has been obtained: OIDCStateToEmail never reaches the      *)
(* UserInfo call with the empty accessToken.                              *)
UserInfoOnlyWithToken ==
    \A w \in Waiters : waiter[w].phase = "userinfo" => waiter[w].token # NoToken

(* spec.md 8 (Expiry): an OIDCStateToEmail call always returns, with     *)
(* tokenDeleted at worst, rather than hanging.                           *)
WaiterTerminates ==
    \A w \in Waiters : waiter[w].phase # "idle" ~> waiter[w].phase = "done"

(* spec.md 3 and 5: once a SessionInfo is terminal (access token set or *)
(* conversion failed) its outcome is never changed by another callback.  *)
TerminalOutcomeStable ==
    [][\A s \in Sessions :
         Terminal(s) /\ store'[s] # Absent => Outcome(store'[s]) = Outcome(store[s])
      ]_store

(* spec.md 4.5 and 7: a dropped watch is not evidence that the login     *)
(* failed. While the session record lives, the loop re-establishes it,    *)
(* and a WatchTransportError reaches the caller only once the retry       *)
(* budget, 60 seconds of cumulative wait in backoff sleeps, is exhausted. *)
(* (A cancelled caller gets its context error back through the same      *)
(* path; that is not a transport error.)                                  *)
TransportErrorOnlyAfterCumulativeWait ==
    \A w \in Waiters :
        /\ waiter[w].result = "watchErr"
        /\ ~waiter[w].cancelled
        /\ store[waiter[w].state] # Absent
        => waiter[w].waited > Ceiling

=============================================================================
