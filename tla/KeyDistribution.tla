--------------------------- MODULE KeyDistribution --------------------------
(***************************************************************************)
(* How keys reach those who use them, and how long a token stays good.     *)
(* A signer is a replica of cmd/grpc: ClaimsSign signs with the first key  *)
(* of a private source it caches.  A verifier is a NewClaimsVerifier of    *)
(* pkg/go: ClaimsVerify looks the token's kid up in a public source it     *)
(* caches, and refetches, at a bounded rate, when it does not find it.     *)
(* Both fetch what PgJwkSearch lists, by a call that may take time or      *)
(* fail.  The table itself evolves as KeyRing allows.                      *)
(*                                                                         *)
(* Durations are in ticks unless they are those of KeyTable.               *)
(***************************************************************************)
EXTENDS KeyTable

CONSTANTS
    Signer,      \* replicas of the gRPC server
    Verifier,    \* clients that verify locally
    Cache,       \* usage -> key.cache
    Retry,       \* usage -> key.unknownKeyIDInterval
    TokenTTL,    \* usage -> token.ttl
    Leeway,      \* usage -> token.leeway
    BatchSize,   \* KeysMaxBatchSize
    JobPeriod,   \* the longest time between two successful rotation runs
    MaxLag,      \* the longest time from dating a key to committing it
    MaxDelay,    \* the longest time a fetch takes before it fails
    MaxClock,    \* bound: the last instant explored
    MaxTokens,   \* bound: how many tokens are issued
    MaxRevoked   \* bound: how many keys are revoked

Holder == Signer \cup Verifier

ASSUME DistributionAssumption ==
    /\ Cache \in [Usage -> Nat]
    /\ Retry \in [Usage -> Nat]
    /\ TokenTTL \in [Usage -> Nat]
    /\ Leeway \in [Usage -> Nat]
    /\ {BatchSize, JobPeriod, MaxLag, MaxDelay} \subseteq Nat
    /\ {MaxClock, MaxTokens, MaxRevoked} \subseteq Nat
    /\ Signer \cap Verifier = {}

VARIABLES
    clock,     \* the instant
    keys,      \* the rows of keys
    lastRun,   \* when the rotation last ran
    cache,     \* holder -> usage -> what its source holds: at most one entry
    fetch,     \* holder -> usage -> the answer on its way: at most one
    failed,    \* verifier -> usage -> when its last fetch failed, if it did
    tokens     \* the tokens issued

vars == <<clock, keys, lastRun, cache, fetch, failed, tokens>>

\* A source's entry: the list, and when it was stored.  An answer on its way:
\* the list, and when it was read.
Entry == [list : SUBSET Row, at : Nat]

Token == [usage : Usage, kid : KeyId, issuedAt : Nat, expiresAt : Nat]

Init == /\ clock = 0
        /\ keys = {}
        /\ lastRun = 0
        /\ cache = [h \in Holder |-> [u \in Usage |-> {}]]
        /\ fetch = [h \in Holder |-> [u \in Usage |-> {}]]
        /\ failed = [v \in Verifier |-> [u \in Usage |-> {}]]
        /\ tokens = {}

\* Time passes, but the rotation job and the fetches keep their deadlines.  A failure
\* is forgotten once it delays no refetch.
Tick == /\ clock < MaxClock
        /\ clock < lastRun + JobPeriod
        /\ \A h \in Holder, u \in Usage : \A f \in fetch[h][u] : clock < f.at + MaxDelay
        /\ clock' = clock + 1
        /\ failed' = [v \in Verifier |-> [u \in Usage |->
                        {t \in failed[v][u] : clock + 1 < t + Retry[u]}]]
        /\ UNCHANGED <<keys, lastRun, cache, fetch, tokens>>

\* A rotation run succeeds: one new key for every usage that is due, dated
\* up to MaxLag before the transaction commits.
Rotate ==
    \E lag \in 0..MaxLag :
        \E batch \in Batches(keys, clock, clock - lag) :
            /\ keys' = keys \cup batch
            /\ lastRun' = clock
            /\ UNCHANGED <<clock, cache, fetch, failed, tokens>>

\* PgJwkDelete withdraws a key.
Revoke(k) ==
    /\ Cardinality({m \in keys : m.deletedAt # {}}) < MaxRevoked
    /\ Revocable(k, clock)
    /\ keys' = (keys \ {k}) \cup {RevokedRow(k, clock)}
    /\ UNCHANGED <<clock, lastRun, cache, fetch, failed, tokens>>

\* A source that serves its entry whatever its age.
FreshForever(e, u) == e.at =< clock /\ u \in Usage

\* The source serves its entry for the cache duration.
Fresh(e, u) == clock =< e.at + Cache[u]

\* It refetches when it holds nothing or its entry is as old as that ...
Stale(h, u) == \A e \in cache[h][u] : clock >= e.at + Cache[u]

\* ... and, on the verifying side, when it is asked for a kid it does not hold,
\* at most once per interval since its last fetch ended, whatever came of it.
Holds(e, kid) == \E k \in e.list : k.id = kid

Throttled(v, u) == \E t \in {e.at : e \in cache[v][u]} \cup failed[v][u] :
                      clock < t + Retry[u]

UnknownKeyID(h, u) ==
    /\ h \in Verifier
    /\ \E tok \in tokens, e \in cache[h][u] : ~Holds(e, tok.kid)
    /\ ~Throttled(h, u)

\* SearchKeys: the service reads the list of a usage.
Fetch(h, u) ==
    /\ fetch[h][u] = {}
    /\ Stale(h, u) \/ UnknownKeyID(h, u)
    /\ \E list \in Listings(keys, u, clock, BatchSize) :
          fetch' = [fetch EXCEPT ![h][u] = {[list |-> list, at |-> clock]}]
    /\ UNCHANGED <<clock, keys, lastRun, cache, failed, tokens>>

\* The fetch of a holder ends; a verifier remembers when it failed, if it did.
FetchEnds(h, u, failure) ==
    /\ fetch' = [fetch EXCEPT ![h][u] = {}]
    /\ failed' = [v \in Verifier |-> IF v = h THEN [failed[v] EXCEPT ![u] = failure]
                                              ELSE failed[v]]
    /\ UNCHANGED <<clock, keys, lastRun, tokens>>

\* An answer that is added to what the source holds.
StoreBeside(h, u) ==
    /\ \E f \in fetch[h][u] :
          cache' = [cache EXCEPT ![h][u] = @ \cup {[list |-> f.list, at |-> clock]}]
    /\ FetchEnds(h, u, {})

\* Its answer arrives and replaces the entry.
Store(h, u) ==
    /\ \E f \in fetch[h][u] :
          cache' = [cache EXCEPT ![h][u] = {[list |-> f.list, at |-> clock]}]
    /\ FetchEnds(h, u, {})

\* A failure that is taken for an empty list.
FetchFailsEmpty(h, u) ==
    /\ fetch[h][u] # {}
    /\ cache' = [cache EXCEPT ![h][u] = {[list |-> {}, at |-> clock]}]
    /\ FetchEnds(h, u, {})

\* Its answer is lost, and the lookups that awaited it fail; the entry stays as it
\* was.
FetchFails(h, u) ==
    /\ fetch[h][u] # {}
    /\ FetchEnds(h, u, {clock})
    /\ UNCHANGED cache

\* A replica or a client restarts with empty sources.
Restart(h) ==
    LET empty == [u \in Usage |-> {}]
    IN  /\ cache' = [cache EXCEPT ![h] = empty]
        /\ fetch' = [fetch EXCEPT ![h] = empty]
        /\ failed' = [v \in Verifier |-> IF v = h THEN empty ELSE failed[v]]
        /\ UNCHANGED <<clock, keys, lastRun, tokens>>

\* A signer that takes any key of the list.
SignWithAny(s, u) ==
    /\ Cardinality(tokens) < MaxTokens
    /\ \E e \in cache[s][u] :
          /\ Fresh(e, u)
          /\ \E k \in e.list :
                tokens' = tokens \cup
                    {[usage     |-> u,
                      kid       |-> k.id,
                      issuedAt  |-> clock,
                      expiresAt |-> clock + TokenTTL[u]]}
    /\ UNCHANGED <<clock, keys, lastRun, cache, fetch, failed>>

\* ClaimsSign: a token is signed with the first key of the source's list.
Sign(s, u) ==
    /\ Cardinality(tokens) < MaxTokens
    /\ \E e \in cache[s][u] :
          /\ Fresh(e, u)
          /\ \E k \in Newest(e.list) :
                tokens' = tokens \cup
                    {[usage     |-> u,
                      kid       |-> k.id,
                      issuedAt  |-> clock,
                      expiresAt |-> clock + TokenTTL[u]]}
    /\ UNCHANGED <<clock, keys, lastRun, cache, fetch, failed>>

\* NewClaimsCheckTimestamp: the token has not expired, give or take the leeway.
InTime(tok) == clock =< tok.expiresAt + Leeway[tok.usage]

\* ClaimsVerify accepts a token for a usage: its source holds the kid, and the
\* token is in time unless the caller ignores that.
Accepts(v, u, tok, ignoreExpired) ==
    \E e \in cache[v][u] : /\ Fresh(e, u)
                           /\ Holds(e, tok.kid)
                           /\ ignoreExpired \/ InTime(tok)

\* ClaimsVerify turns the token away: the source does not hold the kid, and it is
\* too early to refetch ...
UnknownKid(v, u, tok) ==
    /\ Throttled(v, u)
    /\ \E e \in cache[v][u] : Fresh(e, u) /\ ~Holds(e, tok.kid)

\* ... or the lookup needed a fetch, which has just failed.
LookupFailed(v, u, tok) ==
    /\ clock \in failed[v][u]
    /\ Stale(v, u) \/ \E e \in cache[v][u] : ~Holds(e, tok.kid)

Rejects(v, u, tok) == UnknownKid(v, u, tok) \/ LookupFailed(v, u, tok)

Next == \/ Tick
        \/ Rotate
        \/ \E k \in keys : Revoke(k)
        \/ \E h \in Holder, u \in Usage : \/ Fetch(h, u)
                                          \/ Store(h, u)
                                          \/ FetchFails(h, u)
        \/ \E h \in Holder : Restart(h)
        \/ \E s \in Signer, u \in Usage : Sign(s, u)

Spec == Init /\ [][Next]_vars

-----------------------------------------------------------------------------
(* Properties *)

\* The types of the variables; a source holds one list and awaits one answer.
TypeOK ==
    /\ clock \in Nat
    /\ keys \in SUBSET Row
    /\ UniqueIds(keys)
    /\ lastRun \in Nat
    /\ cache \in [Holder -> [Usage -> SUBSET Entry]]
    /\ fetch \in [Holder -> [Usage -> SUBSET Entry]]
    /\ \A h \in Holder, u \in Usage :
          /\ \A e, f \in cache[h][u] : e = f
          /\ \A e, f \in fetch[h][u] : e = f
    /\ failed \in [Verifier -> [Usage -> SUBSET Nat]]
    /\ tokens \in SUBSET Token

\* The row a token was signed with.
SignedWith(tok, k) == k.id = tok.kid

\* The lifetime of a key covers its reign, the staleness of a signer and the
\* life of a token.
SufficientTTL ==
    \A u \in Usage :
        Sec(TTL[u]) > Sec(Rotation[u]) + MaxLag + JobPeriod + MaxDelay
                          + Cache[u] + TokenTTL[u] + Leeway[u]

\* A revocation hands signing back to an older key, whose life may not cover the
\* tokens it signs: the lifetimes only add up without one.
NoneRevoked(u) == \A k \in keys : k.usage = u => k.deletedAt = {}

\* A token that is still in time can be verified: whatever list a verifier is
\* given now, it holds the key the token was signed with.  It needs the job to run
\* in time, and the lifetimes to add up.
TokenOutlivedByKey ==
    SufficientTTL =>
        \A tok \in tokens : InTime(tok) /\ NoneRevoked(tok.usage) =>
            \A k \in keys : SignedWith(tok, k) =>
                \A list \in Listings(keys, tok.usage, clock, BatchSize) : k \in list

\* The last fetch of a source went unanswered: it is on its way, or it failed and an
\* interval has not passed since.
Unanswered(v, u) ==
    \/ fetch[v][u] # {}
    \/ \E t \in failed[v][u] : clock = t \/ clock < t + Retry[u]

\* Such a token is turned away at its verifier's expense or not at all: the verifier
\* fetched just before it was issued, within one interval plus the time a fetch takes,
\* or its last fetch went unanswered.  Once a fetch succeeds, a token older than that is
\* accepted (jwkPresets.go).
TurnedAwayForCause ==
    \A v \in Verifier, tok \in tokens :
        /\ SufficientTTL
        /\ NoneRevoked(tok.usage)
        /\ InTime(tok)
        /\ Rejects(v, tok.usage, tok)
        => \/ clock < tok.issuedAt + Retry[tok.usage] + MaxDelay
           \/ Unanswered(v, tok.usage)

\* The staleness a source can build up: its cache and the answer it stored.
Staleness(u) == Cache[u] + MaxDelay

\* A verifier trusts no key for longer than its staleness after the key expired
\* or was revoked, even when it ignores that the token has expired: IgnoreExpired
\* waives the timestamp and not the key (claimsVerify.go).
TrustBounded ==
    \A v \in Verifier, tok \in tokens : Accepts(v, tok.usage, tok, TRUE) =>
        \E k \in keys : SignedWith(tok, k) /\ CurrentAsOf(k, clock - Staleness(tok.usage))

\* A signer signs with a key that was the main key, and served, no longer ago
\* than its staleness.
SignedByRecentMain ==
    [][ \A tok \in tokens' \ tokens : \E k \in keys :
           /\ SignedWith(tok, k)
           /\ CurrentAsOf(k, clock - Staleness(tok.usage))
           /\ \A m \in Matching(keys, tok.usage, clock) :
                 m.createdAt > k.createdAt =>
                     m.createdAt >= Round(clock - Staleness(tok.usage) - MaxLag) ]_vars

\* "Producers sign only with the main key" (CONTRIBUTING.md), and rotate to a key "the
\* instant it is published" (jwkPresets.go).  The private source caches its list, so a
\* signer goes on with the key it knows: SignedByRecentMain is what holds instead.
SignsWithMain ==
    [][ \A tok \in tokens' \ tokens :
           \E k \in MainKeys(keys, tok.usage, clock) : SignedWith(tok, k) ]_vars

\* The table evolves as the key ring allows.
Ring == INSTANCE KeyRing
RingSpec == Ring!Spec

=============================================================================
