# Verification of service-json-keys

TLA+ modules for the JSON keys service: how signing keys are rotated, stored,
withdrawn and distributed, how long the tokens signed with them can be verified,
what the two APIs answer, and how replicas start and stop. TLC checks the modules on
small instances; TLAPS proves every safety property the passing runs check, and the
refinements, for every value of the constants.

## The system

| Component | State | Operations | Interacts with |
| --- | --- | --- | --- |
| Keys table and `active_keys` view (`internal/models/migrations`) | rows: id, usage, three `timestamp(0)` columns, key material | the view filters expired and deleted rows, per query | read and written only by the DAOs |
| DAOs (`internal/dao`) | none | `PgJwkInsert`, `PgJwkSearch` (newest first, LIMIT 100), `PgJwkSelect`, `PgJwkDelete` (no caller in the repository: operators) | the transaction or pool found in the context |
| Rotation (`core.JwkGen`, `core.JwkRotateAll`, `cmd/rotate-keys`) | one transaction per run | for every configured usage: search, decide, generate, seal, insert, extract | DAOs, master key; started by a CronJob and by each standalone replica when it boots |
| Master key (`internal/lib`) | a 32-byte secret in each process's context | `EncryptMasterKey`, `DecryptMasterKey` | rotation and private listing |
| Listing (`core.JwkSearch`, `JwkSelect`, `JwkExtract`) | none | public and private lists; fails as a whole if one key cannot be extracted | DAOs, master key |
| Signing (`JwkExportLocal`, `NewJwkPrivateSource`, `ClaimsSign`) | a cached list per usage and replica | fetch, sign with the first key | in-process call to `JwkSearch` |
| Verification (`pkg/go`, `NewJwkPublicSource`, `ClaimsVerify`) | a cached list per usage and client | fetch over gRPC, refetch on an unknown kid, verify | `JwkList` RPC |
| Algorithm registries (`jwkPresets.go`) | constant tables | wire an algorithm to generator, signer and verifier | read at start |
| Handlers (`internal/handlers`) | none | `JwkGet` and `JwkList` on both transports, `ClaimsSign` on gRPC; ping and health probes; map errors to status codes | services, pool |
| Servers (`cmd/grpc`, `cmd/rest`, `builds`) | process stage, requests in progress, connection pool | boot (in the standalone images after `migrations` and `rotate-keys`), serve, shut down on a signal | everything above |
| Migrations (`cmd/migrations`) | - | apply what is pending | first command of a standalone image |
| Configuration (`internal/config`) | constants | environment variables, embedded usages | read at start |
| Clients (`pkg/go`, `pkg/js`) | connection | calls of both APIs | handlers |
| Generated protobuf code, mocks | - | - | - |

What is hard here:

- **Rotation** is a check followed by an insert in a READ COMMITTED transaction
  that takes no lock. Runs fail half-way, lose the acknowledgement of their
  commit, overlap, and use a host clock that is not the database's. Keys are
  withdrawn meanwhile. Timestamps are rounded to the nearest second.
- **Distribution** is two layers of caches over a table that moves: signers use
  yesterday's main key, verifiers miss today's, and a fetch may be answered late
  or not at all. Correctness rests on durations that nobody validates.
- **The APIs** overlap rotation, expiry and revocation: a request reads the table
  between its arrival and its answer, two transports share services in which one
  flag decides which half of a key is decoded, and one key that cannot be decoded
  fails a whole list.
- **Starting and stopping**: replicas of several releases rotate against one
  database when they boot, and a shutdown races the timers of requests, of a
  header and of the driver.
- **Changing the master key** makes single keys unreadable, and both rotation
  and listing are all-or-nothing about unreadable keys.

`PROJECT.json` lists these hazards at their lines, with the properties that
cover each.

## Modules

| Module | Models | Checked through | Proved in |
| --- | --- | --- | --- |
| `KeyTable` | rows, rounding, the view, what the DAOs compute | all others | `KeyTableLemmas` |
| `KeyRing` | what rotation promises, without jobs or transactions (abstract) | as a refinement target | `KeyRingProofs` |
| `KeyRotation` | runs of `cmd/rotate-keys`, statement by statement | `MCKeyRotation` | `KeyRotationProofs` |
| `KeyDistribution` | signers, verifiers, their sources, tokens | `MCKeyDistribution` | `KeyDistributionProofs` |
| `MasterKey` | sealing, and changes of `APP_MASTER_KEY` | `MCMasterKey` | `MasterKeyProofs` |
| `KeyDirectory` | what the read routes promise, without table, clock or handlers (abstract) | as a refinement target | `KeyDirectoryProofs` |
| `KeyApi` | the routes of both APIs, their services, the gate on private material | `MCKeyApi` | `KeyApiProofs` |
| `Server` | requests in progress, pool, timers and shutdown of running servers | `Deployment` | `DeploymentProofs` |
| `JwkPresets` | the algorithm registries, as pure tables and operators | `Deployment` | `DeploymentProofs` |
| `Deployment` | the composition: chains of commands, releases, database, servers | `MCDeployment` | `DeploymentProofs` |

`KeyRotation`, `KeyDistribution`, `MasterKey`, `KeyApi` and `KeyRing` extend
`KeyTable`. `KeyRotation`, `KeyDistribution` and `MasterKey` instantiate `KeyRing` as
`Ring` and refine it by identity on `clock` and `keys`. `KeyApi` instantiates `KeyDirectory` as
`Dir` under a refinement mapping, given below. `Deployment` extends `Server` and
`JwkPresets`.

### Time

Time is counted in thirds of a second, so that `timestamp(0)` can round an
instant down or up (`Round`). `Rotation` and `TTL` are in seconds, as all
configured values are multiples of a second; other durations are in ticks. A
nullable column is a set of at most one value.

### KeyRotation and the code

| Action | Code |
| --- | --- |
| `Begin` | `main` of `cmd/rotate-keys` up to the opening of the transaction; `begun` is its `CURRENT_TIMESTAMP`, the same for all its statements |
| `Search` | `JwkGen.Exec`: `daoSearch`, `lastCreated` (a tie may go either way) |
| `Generate` | window elapsed (`Due`, on the host's clock): key pair, encryption |
| `Insert` | the second reading of the clock, `daoInsert` |
| `Skip` | window not elapsed: the key found is returned |
| `Advance` (part of `Insert`, `Skip`) | next iteration of the loop of `JwkRotateAll` |
| `Commit`, `CommitUnacknowledged` | end of `WithinTx`, its answer received or lost |
| `Fail` | any error return, or the death of the host: rollback |
| `Revoke` | `PgJwkDelete`, dated by its caller, possibly ahead |

The map of Go iterates in any order, hence `\E u \in todo[j]`. A statement reads
committed rows and the transaction's own (`Visible`). `Skew` is what a host's
clock is ahead of the database's. `Overlap` says whether two runs may be in
progress at once: a CronJob can forbid it, standalone replicas
(`migrations && rotate-keys && grpc`) cannot. `JwkGen`'s final extraction fails
like any other step (`Fail`); when it must fail is the subject of `MasterKey`.

### KeyDistribution and the code

The table evolves by whole runs (`Rotate`), dated up to `MaxLag` before they
commit, at least every `JobPeriod`, and by `Revoke`. The runs of this module take
`MaxLag` to be zero (`KeyRotation` explores the time between dating and commit); its
theorems hold for any. `Fetch` reads the list as
`JwkSearch` returns it, with its LIMIT; `Store` puts the answer into the source
when it arrives; `FetchFails` leaves the entry, and a verifier remembers when it
happened (`failed`); `Restart` empties a holder's sources. `Sign` is `ClaimsSign`;
`Accepts` and `Rejects` are the outcomes of `ClaimsVerify`, with and without
`IgnoreExpired`. A token whose signature is good is turned away in two ways: the kid
is not held and it is too early to refetch (`UnknownKid`), or the lookup needed a fetch,
because the entry is old or lacks the kid, and that fetch fails, whereupon `Consume`
returns its error (`LookupFailed`).

`jwk.Source` is a library outside the repository, modelled from how
`NewJwkPrivateSource` and `NewJwkPublicSource` use it. Assumed of it: an entry
is served until it is as old as `CacheDuration`, counted from when the answer
was stored; a failed fetch leaves the entry and its age as they are, and is the
outcome of the lookups that needed it; an unknown kid forces a fetch no sooner than
`UnknownKeyIDInterval` after the last one ended, answered or failed (`Throttled`), as the
comment of that setting requires. An entry that is too old is refetched without delay.
Signature checks are not modelled: a token verifies when the verifier's list
holds the key it was signed with.

### MasterKey and the code

`sealed` records the master key each private key was encrypted with, `held` the
one each server read when it started. A run is one step, `Rotate` if every usage
is due or its main key opens (`Extracted`, the call to `serviceExtract` that
ends `JwkGen.Exec`) and `RotateFails` otherwise. `Lists` is `JwkSearch` with
`Private` set. Runs fail for no other reason here, and `JobPeriod` bounds the
time between two.

### KeyApi, KeyDirectory and the code

| Action | Code |
| --- | --- |
| `Ask` | a call of `pkg/go` or `pkg/js` reaches its handler: any route, an id or a usage that exists or not, a payload that is good, cannot be read, sets a registered claim, or is one no token is issued for |
| `Refuse` | what handler and service turn away before reading a key (`Refusals`): `uuid.Parse`, the payload, the configuration of the usage, the building of the claims; and the errors of `Issue` that owe nothing to keys |
| `Query` | the one statement of the request: `PgJwkSelect` (`Selections`) or `PgJwkSearch` (`Listings`), both on the view |
| `QueryFails` | it fails, or the context of the request ends |
| `Reply` | `JwkExtract` for every row with the flag of the route, the outcome of the service (`Failure`, `Found`), its status code (`GrpcCode`, `RestCode`) |
| `Return` | the client has its answer |
| `Tick`, `Rotate`, `Revoke` | time, a rotation run that commits, `PgJwkDelete`, at any moment in between |

A reserved claim, and any other claim the encoder refuses or signature that fails, is
found while the token is issued, before or after the source is consulted, so both
orders are allowed (`Late`); of these only a reserved claim has a sentinel error, and the
others, like claims that cannot be built, end in `codes.Internal`. Keys may lack a public half
(`Symmetric`: the column is nullable, no generator leaves it empty, other
writers may) or be sealed by another master key (`Foreign`). The private source of
`ClaimsSign` is always stale here, so that every signature reads the table; what its
cache changes is the subject of `KeyDistribution`.

The refinement mapping: `live` is, for every usage, the identities in the view now;
`gone` those of the other rows; a call is what the directory was asked, settled when
the table is read, and a request that is refused whatever the table holds asks
the directory nothing. A tick that expires keys and a revocation are `Withdraw`, a
rotation is `Publish`, `Query` is `Find` or `Fail`, the rest stutters.

### Server, JwkPresets, Deployment and the code

| Action | Code |
| --- | --- |
| `Start`, `Fails` | a container is started by its platform; its chain `migrations && rotate-keys && grpc` ends at the first command that fails |
| `Migrate`, `MigrateFails` | `cmd/migrations`: it fails on any error of the migrator, so in any state of the database; replicas that migrate at once may fail one another (the repository's README calls migrations on boot unsafe for several replicas). What was applied by then may stay |
| `RotateKeys`, `RotateFails` | `cmd/rotate-keys`, as one step: a key for every usage of this release that is due, or none; it fails on an algorithm without a generator |
| `Boot`, `BootFails` | `main` of the server up to `Serve`: the database answers; sources and producers can be built (gRPC only) |
| `Elapse` | a usage passes its rotation interval |
| `Accept`, `Dispatch`, `HeaderLost` | a gRPC call arrives; a REST connection sends its header and is routed, even during `Shutdown` (an active connection is not closed) |
| `Borrow`, `Answer`, `DriverGivesUp` | the pool (`POSTGRES_MAX_OPEN_CONNS`), the answer of the database, the timeout of the driver |
| `TimeOut`, `Abandon` | the end of the request's context, which handlers pass on and the probes' `pgdb.Ping()` does not |
| `Stop`, `Drained`, `Overrun` | the signal; `GracefulStop` or `Shutdown` returns; `Shutdown`'s own context ends first, and `main` panics |
| `Hang`, `Recover` | the database is silent for a while |

A tick is what a timer counts in; `Tick` waits for every timer that has run out
(`Urgent`), as timers of the runtime are late by much less than a tick. Streams
(health watch, reflection) hold no connection and end when their caller wants. What
a request for keys answers is `KeyApi`'s subject. The tables of `JwkPresets` are
compared for every algorithm, though a release configures a few.

## Runs

All passing runs are exhaustive for their bounds.

| Run | Question | Bounds |
| --- | --- | --- |
| `KeyRotationLifetime` | `ActiveSpaced`, `SingleMainKey`, `ActiveBounded`, `WithdrawnForGood`, `RingSpec`, `RotationResumes` | one usage; two jobs whose clocks are 2/3 s ahead and 1 s behind; 3 s = three rotation intervals, more than one lifetime, so keys are generated, expire and are replaced; two revocations dated more than a second ahead |
| `KeyRotationOverlap` | `AllOrNothing`, `SuccessEnsuresEveryUsage` | two usages, two overlapping runs, one revocation, one second: enough for a run to span a rounding boundary and for a key to be withdrawn between a search and the commit |
| `KeyRotationOverlapTie` | `SingleMainKey` is violated when runs overlap | two jobs, no skew |
| `KeyRotationRevoked` | `RevokedNotServed` is violated | one job, one revocation |
| `DistributionTokens` | `TokenOutlivedByKey`, `TurnedAwayForCause` | the smallest lifetimes that satisfy `SufficientTTL`, a cache longer than the refetch interval, lists that hold one key more than a lifetime has intervals, fetches that fail, and time for a first key to expire |
| `DistributionTrust` | `TrustBounded`, `SignedByRecentMain`, `RingSpec` | two keys that live for two seconds, fetches delayed by a tick, one revocation, and eight ticks: as many as it takes for a key to expire and the bound on its use to be reached |
| `DistributionSigner` | `SignsWithMain` is violated | the same, without revocations |
| `MasterKeyRecovery` | `SuccessMeansUsable`, `ReissueBounded`, `SigningRecovers`, `RingSpec` | two usages that rotate at 1 s and 2 s, the keys of the first living no longer than the second's interval, as in the shipped configuration; two changes of master key (to the new one and back), one revocation, and time for the keys sealed before a change at the start to expire |
| `MasterKeyReissue` | `ReissuedKeysSign` is violated | one change |
| `KeyApi` | `PublicHalvesOnly`, `FailureExplained`, `DirectorySpec` | two usages, one whose keys overlap and one with gaps; four keys, of which one without a public half and one sealed elsewhere; one revocation; time for both usages to rotate and expire; lists cut at two keys |
| `Deployment` | `SeededBeforeServing`, `SignersFitKeys`, `ShutdownSparesEarlierCalls`, `ShutdownEnds`, `SupportedServes` | a standalone gRPC server, one of a later release that adds a usage with an unsupported algorithm, a REST server of the base image; one gRPC and two REST requests for one connection each; a request may take two ticks, a header and the driver one |
| `DeploymentDocumentedAlg` | `DocumentedAlgsServe` is violated | the same |

Each run lists the type invariant of its module too, where no other run of that
module does.

What the passing runs show, in words:

- Without overlap, keys of a usage served at once are at least a rotation
  interval apart in spite of rounding, skew, failures and revocations; one of
  them is main; their number is bounded by lifetime over interval, which keeps it
  far below the search's LIMIT.
- With overlap a run is still one unit of work, and its success still means that
  every usage has a current key.
- A token can be verified until it expires if (`SufficientTTL`) the key's lifetime
  exceeds rotation + dating lag + job period + fetch delay + cache + token
  lifetime + leeway. The shipped configuration satisfies it: 168 h > 24 h + 30 min
  + 24 h + 5 min + a job period of days, 720 h > 168 h + 168 h + the same. Drop the
  hypothesis, and TLC finds a token whose key has gone.
- A verifier turns away a good token only within one refetch interval, plus the
  fetch's delay, of its issue, or when its last fetch went unanswered: it is on its way,
  or it failed less than an interval ago. Once a fetch succeeds, an older token is
  accepted. While the service cannot be reached, a token is turned away at any age, if
  the verifier's entry is old or lacks its key.
- A verifier trusts a withdrawn key for at most its cache plus the delay of a fetch,
  even with `IgnoreExpired`; and a signer signs with a key that was the main key, and
  served, within as long.
- No route of either API shows a private half, not even of a key that has no other;
  an internal error is always owed to the database, to the absence of a key to
  sign with, to claims no token can be issued for, or to a key of the usage or id asked
  for that cannot be decoded and was current when the request was made, and never to an
  id or payload that cannot be read, a registered claim or an unknown usage; and
  callers of all routes see one directory that keys enter and leave once.
- A standalone server serves only on a database with the schema and a first key for
  each usage of its own release, and one whose release names supported algorithms always
  comes to serve once its migrations are behind it, while the database answers. The
  migrations themselves may fail when replicas start at once. All registries agree on
  every algorithm.
- A REST server that is told to stop never cuts off a request for keys it had
  dispatched before: `Shutdown` is given the time one request may take. It may cut
  off a probe, or a request whose header was still being read. It always ends;
  a gRPC server does unless a caller keeps a stream open, as `GracefulStop` has no
  limit.
- After a change of master key the job re-issues every usage at once, but not
  before the longest rotation interval has elapsed, and a server signs again only
  once the keys sealed before have expired: with the shipped configuration up to a
  week before `auth` is re-issued, because `auth-refresh` is within its window, and up
  to a month before `auth-refresh` can sign.

What the violation runs show, each against a sentence of the repository
(`PROJECT.json`, findings):

- Overlapping runs both generate, and their keys tie for the main key. They also
  break `ActiveSpaced`; one run is kept for the two.
- A revocation dated in the second half of a second takes effect up to half a
  second later.
- A signer does not rotate to a key the instant it is published: it goes on with the
  main key of the list it has cached. `SignedByRecentMain` bounds for how long.
- Keys re-issued after a change of master key cannot be listed for signing as
  long as an older one is active.
- A usage configured with HS256, HS384 or HS512, which the key configuration is
  documented to accept, fails the rotation job and keeps a standalone image of its
  release from starting.

### Fairness

`FairSpec` of `KeyRotation` assumes that some run is always started again (the schedule of the
CronJob, which the documentation says is not optional), that a run in progress
takes its next step (the program does not block on anything but the database),
and that runs do not fail forever. Nothing is assumed of time, of revocations, or
of which job runs. Time is bounded in the run: once the clock stops, runs go on,
and a usage without an active key is due whatever the time, which is why the
bound does not make the property hold or fail.

`Deployment` assumes what the runtime, the kernel and the driver do sooner or later:
a waiting handler gets a connection that is free, an expired timer fires, a shutdown
with nothing left to wait for returns, a command of a chain goes on (weak fairness),
and time passes: `SF(Tick)`, because an expired timer disables `Tick` again and
again, and no infinite run of the program fits in one tick. Nothing is assumed of
callers, of signals, of the database, or of containers being started: a silent
database may stay silent, a caller may keep its stream, and `SupportedServes` speaks
only of starts whose migrations are done and during which the database answers.

### Bounds

`MaxClock`, `MaxRevoked`, `MaxTokens` and `MaxChanges` are bounds of the
instances, `KeyId` bounds how many keys are ever generated. In `KeyRotation` and
`KeyDistribution` identities are symmetric, and the runs without liveness use
that; `KeyRotationLifetime`, which checks `RotationResumes` too, has them taken in
order instead (`IdsInOrder`), which loses nothing where runs do not overlap and there
is one usage. In `KeyApi` one client is enough: the calls of two clients share no state, and
the theorems cover any number of them. In `Deployment` nothing grows without limit;
`Slot` bounds the requests in progress at once, and two for one connection is where
they begin to wait for one another. `MasterKey` takes arbitrary unused identities with `CHOOSE` instead.

## Proofs

| Theorem | Statement | Needs |
| --- | --- | --- |
| `TypeCorrect` | `Spec => []TypeOK` | - |
| `RotationIsAllOrNothing` | `Spec => []AllOrNothing` | - |
| `SuccessEnsures` | `Spec => SuccessEnsuresEveryUsage` | - |
| `WithdrawalIsFinal` | `Spec => WithdrawnForGood` | - |
| `ActiveKeysSpaced` | `Spec => []ActiveSpaced` | runs do not overlap |
| `MainKeyIsSingle` | `Spec => []SingleMainKey` | also `Rotation[u] > 0` |
| `ActiveKeysBounded` | `Spec => []ActiveBounded` | runs do not overlap, there is a job |
| `RotationImplementsRing` | `Spec => RingSpec` | runs do not overlap |
| `RingType`, `RingKeepsSpacing`, `RingNeverRestores` | of `KeyRing` | - |
| `DistributionType` | `KeyDistribution: Spec => []TypeOK` | - |
| `TrustIsBounded` | `Spec => []TrustBounded` | - |
| `SignsWithRecentMain` | `Spec => SignedByRecentMain` | - |
| `DistributionImplementsRing` | `Spec => RingSpec` | - |
| `NoListIsCut` | every search returns every key that is served | `BatchFits` |
| `TokensOutlived` | `Spec => []TokenOutlivedByKey` | `BatchFits` |
| `TurnedAwayOnlyForCause` | `Spec => []TurnedAwayForCause` | `BatchFits` |
| `MasterType` | `MasterKey: Spec => []TypeOK` | - |
| `MasterKeyImplementsRing` | `Spec => RingSpec` | - |
| `SuccessLeavesUsable` | `Spec => SuccessMeansUsable` | `EveryUsageRotates` |
| `ReissueIsBounded` | `Spec => []ReissueBounded` | `EveryUsageRotates` |
| `SigningDoesRecover` | `Spec => []SigningRecovers` | `EveryUsageRotates` |
| `ApiTypeCorrect` | `KeyApi: Spec => []TypeOK` | - |
| `NoPrivateHalf` | `Spec => []PublicHalvesOnly` | - |
| `ErrorsExplained` | `Spec => []FailureExplained` | - |
| `RoutesImplementDirectory` | `Spec => DirectorySpec` | - |
| `DirectoryType`, `DirectoryServesOnce`, `GoneIsNotShown` | of `KeyDirectory` | - |
| `TypeCorrect` | `Deployment: Spec => []TypeOK` | - |
| `EarlierCallsSpared` | `Spec => ShutdownSparesEarlierCalls` | - |
| `SeededFirst` | `Spec => []SeededBeforeServing` | - |
| `SignersFit` | `Spec => []SignersFitKeys` | - |

Assumptions on the constants: `ConfigAssumption` (durations are naturals),
`JobAssumption`, `DistributionAssumption`, `MasterAssumption` (the usages, entries of a
configuration file, are finitely many), `ApiAssumption` (of which it matters that a
configured lifetime is positive and that the identities are finitely many),
`ServerAssumption` (no timeout is zero, a header is given at most the time of a
request), `DeploymentAssumption`, and `SkewAssumption` (a key lives longer than its
host's clock is behind, rounding included, so that a key just written is not already
expired).

Two hypotheses of theorems are about the configuration, and nothing in the code
validates them; the shipped one satisfies both. `EveryUsageRotates`: no rotation
interval is zero. `BatchFits`: `TTL[u] < Rotation[u] * BatchSize`, that is 168 h and
720 h against 24 h and 168 h times 100. `SufficientTTL` is a premise of the properties
themselves.

*Rotation.* `AllOrNothing` and `SuccessEnsuresEveryUsage` are not inductive: they
speak of the table after a commit, and what the commit adds was decided several
steps before. `IInv` carries the decision along: every usage a run is done with has,
among the rows the run can read, a key that was current when its transaction began
(`Covered`), and the newest key it found is still there, withdrawn since or not
(`LatestStands`). `IInv` holds with any overlap. Spacing needs more: `SerialInv`
says that what a run read still bounds the keys served when it decides
(`LatestBounds`), when it inserts (`WindowElapsed`) and until it commits
(`WrittenSpaced`); each part is stable because no other run can commit
meanwhile (`OneRun`), and withdrawals and the clock only take keys away. Rounding
is dealt with in `KeyTableLemmas`: an interval that spans whole seconds from a
stored instant survives the rounding of its end (`RoundMonotone`, `RoundFixed`).
With `SerialInv` every commit is a `Publish` of `KeyRing`, every withdrawal its
`Revoke`, and the rest stutters; `ActiveSpaced` is then inherited from the
ring (`RingKeepsSpacing`). `ActiveBounded` counts: keys that are an interval apart each
have a slot of that length to themselves (`SpacedCount`), and those served at once lie
between the oldest not yet expired and the latest any host can date (`CountInv`).

*Distribution.* `TrustBounded` and `SignedByRecentMain` speak of a list that was read
some time ago. `TrustInv` says of every list on its way and in a source what is still
known of it: each of its keys stands in the table and was current no earlier than the
answer's age allows (`Backed`), and a key of the table that is newer than the whole
list was dated after it was read, up to `MaxLag` (`Overtaken`). Both survive every step
because rows only gain a `deletedAt`, and an answer is dropped after `MaxDelay`. The
table implements the ring as in the rotation (`StepImplementsRing`), and so keeps its
keys apart (`SpacedInv`); counted as above, no list is ever cut (`ListsComplete`). How
long a token can be verified is then a matter of how old its key is. `MainYoung`: a
run leaves no main key older than its interval, and while no key of the usage is
revoked the main key only changes in a run, because no newer key expires before an
older one (`NewerServed`). Hence the first key of a list was young when the list was read
(`ListsYoung`), and the key of a token, when it signed, was older by at most the
staleness of the signer (`TokensYoung`). With `SufficientTTL` the key is served while
the token is in time (`TokenServed`), and every list read since the token was issued
holds it (`ListsHold`): a verifier without it must have read its list before, and has
refetched since, or is about to, unless its last fetch is unanswered; one that holds it
turns the token away only with a fetch that has just failed.

*Master key.* A run that succeeds publishes a batch (`RotateIssues`); a usage in it has
its new key as main key, and any other keeps the main key it had, which is single
(`MainIsSingle`) and was extracted. For `ReissueBounded`, `SealedSince` says that a key
dated after the change, give or take a tick of rounding, is sealed with the key
deployed, and `Renewed` that a run later than the longest interval after the change
found or left a key within its window under every usage. The case that matters is a run
that fails: so late, all keys within a window date from after the change, and it has no
reason to fail (`LateRunSucceeds`). The proof needs no more of a lifetime than its own
rotation interval and a job period, so that it covers `auth`, whose keys live as long
as the interval of `auth-refresh`.

*API.* `FailureExplained` relates an answer to the instant of its question.
`ExplainInv` adds that a question lies in the past (`AskedBefore`) and that the rows a
call holds, possibly withdrawn since, were current when it was asked
(`HeldIsCurrent`). `PublicHalvesOnly` needs to know of each stage what it may carry.
The refinement has one lemma per action: expiry and revocation remove identities
from the view and add them to `gone`; a batch has fresh identities, so that it enters
a directory that never showed them; a statement on the view is one of the
directory's findings. What follows for callers (`GoneIsNotShown`) is proved of the
directory alone.

*Deployment.* `TypeCorrect` carries the timers: since no tick passes a timer that has
run out (`Urgent`), no request grows older than its timeout. `EarlierCallsSpared`
follows, as `Overrun` is the only step to a panic and takes place only once the wait
has lasted as long. `SeededFirst` carries the schema and the keyed usages through the
stages of a chain (`Prepared`), and nothing takes them back.

Only model-checked: liveness, `RotationResumes`, `ShutdownEnds`, `SupportedServes`, as
fairness and `ENABLED` are out of the prover's reach.

## Not modelled

- Cryptography: signatures, key generation, sealing; a key pair is an identity.
- Parsing of requests, of variables and of the configuration file, serialisation,
  tracing, logging, CORS, request size. A malformed `APP_MASTER_KEY` fails a command as
  a silent database does.
- What a plugin of the jwt library does with a key of another algorithm, when the
  algorithm of a usage is changed.
- The claims of a token other than its usage, key and expiry: issuer, audience and
  subject are compared with the configuration they were written from.
- Tokens signed after a revocation: the previous key signs again, and tokens may
  outlive it. Nothing in the repository bounds how often keys are revoked, so there is
  no bound to state; `NoneRevoked` marks the properties that leave this out.
- Generated code, mocks, the migration library, the down migration, compose files,
  and the decoding of responses in the clients.

## Plan

1. Proofs: what remains of `ActiveBounded`, `TokenOutlivedByKey` and `SingleMainKey` when
   runs overlap or keys are revoked: bounds by the number of jobs and of revocations.
2. `Deployment` with `MasterKey`: replicas of one deployment that hold different
   master keys during a roll-out.
