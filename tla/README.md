# TLA+ models of the OIDC login-session protocol, the log formatter and certificate generation

This directory holds TLA+ modules, TLC configurations and the project
description (`PROJECT.json`) for the repository under `src/`. The heart of the
repository is `src/src/server/auth/server/oidc.go`: the session protocol that
lets a `pachctl` login learn the result of an OpenID Connect redirect that
reaches a different HTTP handler.

## Inventory

### Components

| Component | Code | State | Operations |
|---|---|---|---|
| RandomTokenGenerator | `CryptoString` (oidc.go 88-100) | none (a loop counter) | grow `numBytes` until `EncodedLen(numBytes) > n`, read random bytes (panic on failure), encode |
| SessionStore | etcd collection `States` (`col.Collection`, library not under `src/`) | state token -> `SessionInfo{Nonce, AccessToken, ConversionErr}`, each key with a 3-minute lease | `PutTTL` in an STM, `Update` (read-modify-write in an STM), `WatchOne`, lease expiry |
| LoginSessionInitiator | `GetOIDCLoginURL` (137-176) | none of its own | fresh state and nonce, `PutTTL` a pending record; error if not configured or if the STM fails |
| CallbackExchanger | `handleOIDCExchange`, `handleOIDCExchangeInternal` (281-389) | per request: query parameters, exchange result | config check, parameter check, code exchange with the provider, `Update` with the nonce check, one HTTP response, logs |
| SessionWaiter | `OIDCStateToEmail` (182-245) | per call: the open watch, the backoff, the access token | `RetryNotify(New60sBackOff)` around `WatchOne` + event loop; `UserInfo` at the end |
| Provider configuration | `NewOIDCSP`, `getOIDCSP`, `serveOIDC` | the configured provider, or nil | discovery (external), serving the callback |
| Log formatting | `Pretty`, `GRPCLogWriter.Write` (`src/unnamed/part_000`) | mutates the logrus entry it formats | format an entry; map gRPC log prefixes to levels |
| Test harness | `dedent`, `BashCmd`, `PachctlBashCmd` (`part_001`) | temporary config file | build bash scripts |
| Certificates | `GenerateSelfSignedCert`, PEM helpers (`part_002`) | global atomic `serialNumber` | validate address/CommonName, parse IPs, generate and sign |
| clientsdk, envoy Makefile | | none | no code / build rules |

### How the parts interact

`pachctl` calls `GetOIDCLoginURL`, which writes a pending record under a fresh
state token, and then calls `OIDCStateToEmail(state)`, which watches that key.
The user's browser goes to the provider, which redirects it to
`/authorization-code/callback?code=..&state=..`; `handleOIDCExchange`
exchanges the code, then in one etcd transaction compares the ID token's
nonce with the record's and writes either the access token or
`ConversionErr`. The watch delivers that write to `OIDCStateToEmail`, which
fetches the e-mail with the access token. The actors share nothing but etcd:
the callback and the waiter run concurrently in different goroutines
(possibly different pachd replicas), the record can expire at any time, the
same callback can arrive twice, and a watch can break.

### What is hard

* Interleavings of callbacks (duplicates, codes from another login, failing
  exchanges) with expiry and with the waiter's watch.
* The nonce is only checked inside the transaction, after the exchange.
* The waiter's watch: the first event is always the pending record, events
  arrive in order, a transport error ends the watch and the backoff reopens
  it; the key may be gone by then.
* The backoff's 60 seconds are wall-clock time.
* The HTTP handler must answer exactly once and never leak detail.

### What makes each component correct

* CallbackExchanger: a stored access token comes from this state's login
  (nonce check); the response reflects what the transaction did; a terminal
  record is not rewritten (spec.md 3, 5).
* SessionWaiter: it reports only committed outcomes; it always returns
  (spec.md 8, Expiry); an open watch is resolved by a commit or by expiry; a
  dropped watch is retried until 60s of backoff wait are spent (spec.md 4.5,
  7).
* SessionWaiter under cancellation: it returns from any step (spec.md 5)
  and calls UserInfo only with an access token (spec.md 4.5).
* RandomTokenGenerator: smallest encodable length >= n (spec.md 4.1).
* Log formatting: every field of an entry printed once, whatever formats
  it; no gRPC log line lost.
* Certificates: the subject is the requested name; validation rejects only
  the caller's own bad arguments, also when a `pkix.Name` is reused.

## Modules

### `OIDC.tla` (composes store, initiator, exchanger and waiter)

Variables: `configured` (`getOIDCSP() != nil`), `login` (whether
`GetOIDCLoginURL` created the state), `store` (the `States` collection),
`nonceOf` (the nonce generated for each state, still known after the key
expires, because the provider embeds it in the ID token), `req` (each callback
request: phase, query, exchange result, response, what its transaction
wrote), `waiter` (each `OIDCStateToEmail` call: phase, open watch as a queue
of events, `live` while the watch is unbroken, `elapsed` (time since
`RetryNotify` started, in ticks), `waited` (the part of it spent in backoff
sleeps), token, result),
`watchErrs` (injected transport errors) and the history `committed`.

Actions, one per step of the code:

| Action | Code |
|---|---|
| `GetOIDCLoginURL(s)` | 139-141 (not configured) and 152-176: fresh nonce, `PutTTL` succeeds or fails; the `Provider == nil` branch at 145-151 is left out |
| `HandleOIDCExchange(i)` | 281-301, 355-389: 409, panic on missing parameter, 400 on empty one, exchange success/failure with the nonce of the code's login |
| `CommitExchange(i)` | 302-348: the transaction fails before the mutator runs (etcd down or key expired), fails at commit after `Mutate` set `conversionErr` (401 then), or commits `Mutate`'s record; response from `Response` |
| `Expire(s)` | lease expiry (spec.md 3, 5) |
| `StartOIDCStateToEmail(w, s)` | 182-189 |
| `WatchOne(w)` | 190-196: fails with `watchFailed` (not retried) or opens with the current value |
| `WatchError(w)` | a transport error event; the watch delivers nothing more |
| `CancelContext(w)` | the caller's context is cancelled: an open watch ends with an error event or a bare close; later `WatchOne`/`UserInfo` fail |
| `ReceiveEvent(w)` | 199-228: one event of the range loop (a closed channel ends the loop with `return nil`, line 221) and the notify function's verdict; an error is retried only while `BackoffGrants(elapsed)` (`elapsed <= Ceiling`, `NextBackOff`'s test against `MaxElapsedTime`) |
| `DuplicateEvent(w)` | the watch delivers one of its queued events twice in a row (spec.md 5 asks watchers to tolerate duplicates); at most `MaxDuplicates` per call |
| `Tick(w)` | time passes while the waiter is blocked on an empty watch channel (waiting for the user); stops one tick past the ceiling |
| `BackoffWake(w)` | the sleep of `RetryNotify` (one tick, counted in both `elapsed` and `waited`) |
| `UserInfo(w)` | 233-244: fails on an empty token or a cancelled context |

The decisions of the code are separate operators (`Mutate`, `Response`,
`ClassifyPut`, `HandleEvent`, and `BackoffGrants`, the backoff library's
elapsed-time test, modelled from its documented behaviour) so that each property can be
checked against a plausible bug in exactly that decision (the mutants in
`PROJECT.json`).

Abstractions: an access token is `[login, req]`, the login whose code was
exchanged and the request that exchanged it; nonces are model values drawn
fresh; log lines, URLs and messages are omitted. The etcd STM is one atomic
step (serializable; a conflict retry re-reads the same nonce, so the captured
`conversionErr` gives the same verdict). The library code of the collection,
its TTL and its watch is not under `src/` and is modelled from spec.md 4.2/5
and marked `spec_modelled` in the map.

`MC_OIDC.tla` instantiates it with two state tokens (so a code of one login
can be presented with the other's state), two nonces, two callback requests
(so a state can be called back twice), one waiter, `MaxWatchErrors = 2` (a
watch can break, be reopened and break or fail again), `MaxDuplicates = 1` in
the safety and liveness runs (0 in the violation runs, whose traces do not
need it) and `Ceiling = 0` (one
retry is granted if the waiter has not waited, none after a tick: the two
outcomes of `NextBackOff`). The budget run uses `Ceiling = 1`, the smallest
ceiling at which the waiter can wait for the user and still have budget
left in the reading of spec.md 4.5.
A second waiter was checked once (about two minutes) and added nothing the
single waiter does not show, since waiters do not interact with each other.
Symmetry over states, nonces and requests is used for safety runs only.

### `OIDCSessionAbs.tla` (abstract specification)

What the protocol promises, from spec.md 3, 4.5 and 8: per state token
`phase` (unused, live, gone) and one `outcome` decided while live; per waiter
a `target` and a `result` that agrees with the outcome (e-mail only for a
success, "Authorization failed" only for a failure, the expiry error only
once gone, transient errors always allowed). `OIDC` instantiates it with a
refinement mapping (`AbsPhase`, `AbsOutcome`, `AbsResult`) and checks
`RefinesAbstractSession == Abs!Spec`. It holds when each state token is
called back at most once (`MCOneRequest`); with two callbacks it fails on a
failed outcome later turned into a success, the same divergence as
`oidc_overwrite`.

### `LogFormat.tla` (src/unnamed/part_000)

`entry.Data` is a Go map, modelled as a function whose domain is the keys
present (`Get` returns "nil" for a missing key, as Go does). `Pretty` is
three operators in the code's order: `HasPrefix` (line 35), the in-place
deletes, `MarshalFields` (the in-place duration conversion with its type
assertion, then `json.Marshal` and its error). `Render` is each
`FormatterFunc.Format` call (lines 19-21) that logrus makes on one entry:
`HookFormats` times for hooks that render the entry, then once for the
writer. That logrus formats an entry more than once is an assumption about
the environment (a hook calling `entry.String()`), not code of this
repository. `GRPCLogWriter.Write` is `WriteEntries`: `SplitN` on the line's words,
`TrimSpace`, the level dispatch, and the malformed-line branch that logs the
`[]byte` itself (its `%v` is the decimal bytes) plus a note. Actions: `Log`
(server code logs an entry with service/method/duration/error fields),
`GRPCWrite`, `FormatEntry`. Bounds: one application entry (all 36 field
combinations), one gRPC line (every level prefix, up to four further words
including empty ones, so every `SplitN` boundary).

### `Cert.tla` and `MC_Cert.tla` (src/unnamed/part_002)

`GenerateSelfSignedCert` as a per-goroutine program counter: `Start`,
`ValidateName` (lines 56-68, the switch is `Validate`; it writes the
address into the caller's `pkix.Name`), `ParseIPs` (70-78), `GenerateKey`
(83-86, may fail), `Sign` (89-123: `AddInt64` on the package counter, the
subject copied from `*name` now, signing may fail). The `pkix.Name` objects
are heap state `cn`; `preset` is what their callers put in them; `Shared`
says whether two calls may be passed the same pointer. The switch is one
atomic step, so the data race of two goroutines on one name is coarsened to
step granularity. `MC_Cert` uses two goroutines, two addresses plus "", two
name objects and IP lists of length up to 2; symmetry over addresses and
name objects (goroutines are not permuted). PEM helpers are pure encoding
and left out.

### `CryptoString.tla`

The loop of `CryptoString` as actions (`Grow`, `ExitLoop`, `ReadRandom`), for
every `n` in `0..64`; `RawLen` is the reference length of unpadded base64,
counted per group of 3 bytes, against which spec.md 4.1's smallest length
is computed. The pass run checks only the type invariant (the loop stays
within `MaxN + 1` bytes; `n = 0` reads one byte): the doc comment's "length
at least n" is the loop's exit test itself and is not stated as a property.

## Runs

| Run | Result | What it shows |
|---|---|---|
| `oidc_safety` | pass (~1.2M states, duplicates included) | `NoForeignToken`: only tokens from this state's login are stored; `WaiterReportsCommittedOutcome`: the waiter never reports a pending record as a failure and uses only committed tokens; `ResponseReflectsCommit`: 200 only when the token was written, 401 never when it was |
| `oidc_liveness` | pass (~195k states) | one callback request: `OpenWatchResolves` and `CancelledWaiterReturns` (a cancelled waiter returns from any step) under fairness, and `RefinesAbstractSession`: `OIDC` implements `OIDCSessionAbs` |
| `oidc_emptytoken` | violation | `UserInfoOnlyWithToken` fails: a watch channel closed by cancellation sends the waiter to `UserInfo` with an empty token |
| `oidc_hang` | violation | `WaiterTerminates` fails: a watch opened on an expired key waits forever |
| `oidc_overwrite` | violation | `TerminalOutcomeStable` fails: a second callback rewrites a terminal record |
| `oidc_budget` | violation | `TransportErrorOnlyAfterCumulativeWait` fails: the watch waits past the ceiling for the user, breaks, and the transport error is returned without a single retry while the record still lives |
| `cryptostring` | pass | the loop terminates for every n within `MaxN + 1` bytes |
| `cryptostring_smallest` | violation | the length is strictly more than n, not the smallest encodable |
| `logformat` | pass (~38k states) | `PrettyShowsEveryFieldOnce`, `GRPCLinesLogged`, and a `TypeOK` in which marshalled JSON never holds a raw duration |
| `logformat_twice` | violation | `NoPanic` fails: a hook's rendering and the writer's format the same entry; the second hits the duration type assertion |
| `cert` | pass (~109k states) | `CertMatchesRequest` with two concurrent goroutines and a fresh name per call; `TypeOK` keeps every serial within the counter |
| `cert_reuse` | violation | `FailsOnlyOnBadArguments` fails: a reused `pkix.Name` holds the CommonName an earlier call wrote |

## Fairness

`FairSpec` makes weakly fair exactly the steps the server takes on its own
once started: `CommitExchange` (a handler that has exchanged its code goes on
to its transaction), the waiter's `WatchOne`, `ReceiveEvent`, `BackoffWake`
and `UserInfo` (a goroutine blocked on a channel with an event in it receives
it; a sleep ends), and `Expire` (etcd revokes a lease when its TTL runs out).
Logins, redirects, calls of `OIDCStateToEmail`, transport errors, context
cancellations, duplicated deliveries and clock ticks are the environment's and are not fair (a
user may log in at once, so time need not pass). The liveness run uses
one callback request (no symmetry, which is not sound for liveness here),
which keeps it to seconds; the two-request safety run covers duplicates. The runs that stop (`CHECK_DEADLOCK FALSE`) do
so because the number of requests and waiters is bounded.

## Findings

See `PROJECT.json` "findings": the waiter hangs on an expired key; a second
callback rewrites a terminal outcome; a watch that breaks after the user
took more than 60s is surfaced without a retry (oidc.go 225); `CryptoString` returns one character more than spec.md 4.1 asks;
a closed watch channel leads to `UserInfo` with an empty token (line 221);
`Pretty` panics when it formats an entry a second time (part_000:43);
`GenerateSelfSignedCert` writes into the caller's `pkix.Name`, so reusing it
fails (part_002:63).

A callback without a `code` or `state` parameter panics when the missing
slice is indexed (oidc.go 288) and net/http drops the connection without a
response, where spec.md 6 asks for a 400. The model keeps the branch (the
request ends with response "aborted"), but no run is spent on it: it is one
step from the initial state, and a unit test reaches it.

## Not modelled, and why

* Provider discovery, token signatures, URL construction: external (spec.md 1).
* `o.Provider == nil` re-discovery in `GetOIDCLoginURL`: unreachable per its TODO.
* Logging inside `oidc.go`: no property is about it; the security rule "no
  credential in logs" is about strings.
* `Pretty`'s time and level rendering and the message text: formatting only.
* The empty DNS name of a certificate generated with only a CommonName
  (part_002:107) is modelled (`dns`) but nothing in the repository says
  what it should be, so it is a hazard without a property.
* `PublicCertToPEM`, `KeyToPEM`: pure encoding. clientsdk has no code; the
  envoy Makefile is build rules.
* The test harness (part_001): `BashCmd` and `PachctlBashCmd` build scripts
  and start bash, with a config file on disk as their only state; `dedent`
  is a pure function of one string. The two hazards found there (a stale
  config file left by a killed test decides `PachctlBashCmd`'s branch,
  line 141; the unchecked 64 KiB `bufio.Scanner` limit, line 47) are listed
  in `PROJECT.json` without a property.
* Provider reconfiguration (oidc.go 283, the `NewOIDCSP` comment at
  121-127): the code that replaces the provider is not in the repository,
  and the comment accepts that in-flight logins may fail; one provider per
  run.

## Plan

1. (done) `OIDC`: exchanger, waiter, initiator, store; safety, liveness, the
   spec divergences above. `CryptoString` with its reference.
2. (done) Abstract specification `OIDCSessionAbs` and the refinement
   check. Next: a liveness part of the abstract spec (a waiter on a live
   token returns) once the hang is understood, and an abstract store
   (spec.md 4.2) that the etcd model refines.
3. (done) `OIDC`: context cancellation and the channel closing without an
   event; the backoff budget as wall-clock time (`Tick`, `elapsed`,
   `waited`).
4. (done) `LogFormat`: `Pretty` on a shared entry, `GRPCLogWriter.Write`,
   composed through the logger.
5. (done) `Cert`: validation switch, IP loop, failures, serial counter.
   Next: `PublicCertToPEM`/`KeyToPEM` only if a property about the PEM
   blocks appears.
