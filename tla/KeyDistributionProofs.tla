------------------------ MODULE KeyDistributionProofs -----------------------
(***************************************************************************)
(* How stale what signers and verifiers rely on can be, and how long a     *)
(* token can be verified, for every number of them, every configuration,   *)
(* and fetches that fail, are late or are stored after what they read was  *)
(* revoked.                                                                *)
(***************************************************************************)
EXTENDS KeyDistribution, KeyTableLemmas

-----------------------------------------------------------------------------
(* Types *)

\* A step of a source replaces what one holder knows of one usage.
LEMMA OneEntry ==
    ASSUME TypeOK, NEW h \in Holder, NEW u \in Usage, NEW list \in SUBSET Row
    PROVE  LET entry == [list |-> list, at |-> clock]
           IN  /\ entry \in Entry
               /\ [cache EXCEPT ![h][u] = {entry}] \in [Holder -> [Usage -> SUBSET Entry]]
               /\ [fetch EXCEPT ![h][u] = {entry}] \in [Holder -> [Usage -> SUBSET Entry]]
               /\ [fetch EXCEPT ![h][u] = {}] \in [Holder -> [Usage -> SUBSET Entry]]
BY DEF TypeOK, Entry

LEMMA DistributionInitType == Init => TypeOK
BY DEF Init, TypeOK, UniqueIds

\* The rows that enter or change in a step are rows, each with its own identity.
LEMMA TableSteps ==
    ASSUME TypeOK
    PROVE  /\ Rotate => keys' \in SUBSET Row /\ UniqueIds(keys')
           /\ \A k \in keys : Revoke(k) => keys' \in SUBSET Row /\ UniqueIds(keys')
<1>1. clock \in Int /\ keys \in SUBSET Row /\ UniqueIds(keys)
      BY DEF TypeOK
<1>2. ASSUME Rotate
      PROVE  keys' \in SUBSET Row /\ UniqueIds(keys')
      <2>1. PICK lag \in 0..MaxLag :
                \E batch \in Batches(keys, clock, clock - lag) : keys' = keys \cup batch
            BY <1>2 DEF Rotate
      <2>2. PICK batch \in Batches(keys, clock, clock - lag) : keys' = keys \cup batch
            BY <2>1
      <2>3. clock - lag \in Int
            BY <1>1, DistributionAssumption
      <2> QED BY <1>1, <2>2, <2>3, BatchRows
<1>3. ASSUME NEW k \in keys, Revoke(k)
      PROVE  keys' \in SUBSET Row /\ UniqueIds(keys')
      BY <1>1, <1>3, RevokedTable DEF Revoke
<1> QED BY <1>2, <1>3

LEMMA DistributionNextType == TypeOK /\ [Next]_vars => TypeOK'
<1> SUFFICES ASSUME TypeOK, [Next]_vars
             PROVE  TypeOK'
    OBVIOUS
<1>1. CASE Tick
      BY <1>1 DEF Tick, TypeOK
<1>2. CASE Rotate
      BY <1>2, TableSteps DEF Rotate, TypeOK
<1>3. ASSUME NEW k \in keys, Revoke(k)
      PROVE  TypeOK'
      BY <1>3, TableSteps DEF Revoke, TypeOK
<1>4. ASSUME NEW h \in Holder, NEW u \in Usage, Fetch(h, u)
      PROVE  TypeOK'
      <2>1. PICK list \in Listings(keys, u, clock, BatchSize) :
                fetch' = [fetch EXCEPT ![h][u] = {[list |-> list, at |-> clock]}]
            BY <1>4 DEF Fetch
      <2>2. list \in SUBSET Row
            BY <2>1 DEF Listings, Matching, TypeOK
      <2>3. fetch' \in [Holder -> [Usage -> SUBSET Entry]]
            BY <2>1, <2>2, OneEntry
      <2>4. \A g \in Holder, v \in Usage : \A e, f \in fetch'[g][v] : e = f
            BY <2>1 DEF TypeOK
      <2> QED BY <1>4, <2>3, <2>4 DEF Fetch, TypeOK
<1>5. ASSUME NEW h \in Holder, NEW u \in Usage, Store(h, u)
      PROVE  TypeOK'
      <2>1. PICK f \in fetch[h][u] :
                cache' = [cache EXCEPT ![h][u] = {[list |-> f.list, at |-> clock]}]
            BY <1>5 DEF Store, FetchEnds
      <2>2. f.list \in SUBSET Row
            BY <2>1 DEF Entry, TypeOK
      <2>3. /\ cache' \in [Holder -> [Usage -> SUBSET Entry]]
            /\ fetch' \in [Holder -> [Usage -> SUBSET Entry]]
            BY <1>5, <2>1, <2>2, OneEntry DEF Store, FetchEnds
      <2>4. /\ \A g \in Holder, v \in Usage : \A a, b \in cache'[g][v] : a = b
            /\ \A g \in Holder, v \in Usage : \A a, b \in fetch'[g][v] : a = b
            BY <1>5, <2>1 DEF Store, FetchEnds, TypeOK
      <2> QED BY <1>5, <2>3, <2>4 DEF Store, FetchEnds, TypeOK
<1>6. ASSUME NEW h \in Holder, NEW u \in Usage, FetchFails(h, u)
      PROVE  TypeOK'
      BY <1>6 DEF FetchFails, FetchEnds, TypeOK
<1>7. ASSUME NEW h \in Holder, Restart(h)
      PROVE  TypeOK'
      BY <1>7 DEF Restart, TypeOK
<1>8. ASSUME NEW s \in Signer, NEW u \in Usage, Sign(s, u)
      PROVE  TypeOK'
      <2>1. PICK e \in cache[s][u] :
                \E k \in Newest(e.list) :
                    tokens' = tokens \cup {[usage     |-> u,
                                            kid       |-> k.id,
                                            issuedAt  |-> clock,
                                            expiresAt |-> clock + TokenTTL[u]]}
            BY <1>8 DEF Sign
      <2>2. PICK k \in Newest(e.list) :
                tokens' = tokens \cup {[usage     |-> u,
                                        kid       |-> k.id,
                                        issuedAt  |-> clock,
                                        expiresAt |-> clock + TokenTTL[u]]}
            BY <2>1
      <2>3. k.id \in KeyId
            <3>1. s \in Holder
                  BY DEF Holder
            <3>2. e.list \in SUBSET Row
                  BY <2>1, <3>1 DEF Entry, TypeOK
            <3> QED BY <2>2, <3>2 DEF Newest, Row
      <2>4. TokenTTL[u] \in Nat
            BY DistributionAssumption
      <2>5. tokens' \in SUBSET Token
            BY <2>2, <2>3, <2>4 DEF Token, TypeOK
      <2> QED BY <1>8, <2>5 DEF Sign, TypeOK
<1>9. CASE UNCHANGED vars
      BY <1>9 DEF vars, TypeOK
<1> QED BY <1>1, <1>2, <1>3, <1>4, <1>5, <1>6, <1>7, <1>8, <1>9 DEF Next

\* The types of the variables: a source holds one list and awaits one answer.
THEOREM DistributionType == Spec => []TypeOK
BY DistributionInitType, DistributionNextType, PTL DEF Spec

-----------------------------------------------------------------------------
(* What a list still says of the table *)

\* The row a listed key has now, as current as it was at the instant.
Backed(k, u, at) ==
    k.usage = u /\ \E m \in keys : /\ m.id = k.id
                                   /\ m.usage = u
                                   /\ m.createdAt = k.createdAt
                                   /\ CurrentAsOf(m, at)

\* A key served now that is newer than a whole list, unless that is empty, was
\* inserted after the instant.
Leads(list, m) == \A k \in list : m.createdAt > k.createdAt

Overtaken(list, u, at) ==
    list # {} => \A m \in Matching(keys, u, clock) :
                    Leads(list, m) => m.createdAt >= Round(at - MaxLag)

\* A list tells the table of a usage, as of some instant.
Known(list, u, at) == /\ at =< clock
                      /\ \A k \in list : Backed(k, u, at)
                      /\ Overtaken(list, u, at)

\* Every answer on its way is as of when it was read, and every entry as of at most
\* MaxDelay before it was stored.
SourcesInv ==
    \A h \in Holder, u \in Usage :
        /\ \A f \in fetch[h][u] : clock =< f.at + MaxDelay /\ Known(f.list, u, f.at)
        /\ \A e \in cache[h][u] : e.at =< clock /\ Known(e.list, u, e.at - MaxDelay)

TrustInv == TypeOK /\ SourcesInv

\* A table known as of an instant is known as of an earlier one.
LEMMA KnownEarlier ==
    ASSUME TypeOK, NEW list, NEW u, NEW s \in Int, NEW t \in Int, s =< t, Known(list, u, t)
    PROVE  Known(list, u, s)
<1>1. s =< clock
      BY DEF Known, TypeOK
<1>2. \A k \in list : Backed(k, u, s)
      BY CurrentEarlier DEF Known, Backed, TypeOK
<1>3. Round(s - MaxLag) \in Int /\ Round(t - MaxLag) \in Int
      /\ Round(s - MaxLag) =< Round(t - MaxLag)
      <2>1. s - MaxLag \in Int /\ t - MaxLag \in Int /\ s - MaxLag =< t - MaxLag
            BY DistributionAssumption
      <2> QED BY <2>1, RoundNear, RoundMonotone
<1>4. \A m \in Matching(keys, u, clock) : m.createdAt \in Int
      BY DEF Matching, TypeOK, Row
<1>5. Overtaken(list, u, s)
      BY <1>3, <1>4 DEF Known, Overtaken
<1> QED BY <1>1, <1>2, <1>5 DEF Known

\* The clock and the lag of a step.
LEMMA ClockSteps ==
    ASSUME TypeOK, [Next]_vars
    PROVE  clock \in Int /\ clock' \in Int /\ clock =< clock'
<1>1. clock \in Int
      BY DEF TypeOK
<1>2. clock' = clock \/ clock' = clock + 1
      BY DEF Next, Tick, Rotate, Revoke, Fetch, Store, FetchEnds, FetchFails, Restart,
             Sign, vars
<1> QED BY <1>1, <1>2

\* A row stays, or is revoked.
LEMMA BackedStays ==
    ASSUME TypeOK, [Next]_vars, NEW k, NEW u, NEW at \in Int, at =< clock, Backed(k, u, at)
    PROVE  Backed(k, u, at)'
<1>1. PICK m \in keys : /\ m.id = k.id /\ m.usage = u
                        /\ m.createdAt = k.createdAt
                        /\ CurrentAsOf(m, at)
      BY DEF Backed
<1>2. CASE m \in keys'
      BY <1>1, <1>2 DEF Backed
<1>3. ASSUME NEW n \in keys, Revoke(n), m \notin keys'
      PROVE  Backed(k, u, at)'
      <2>1. m = n /\ RevokedRow(m, clock) \in keys'
            BY <1>3 DEF Revoke
      <2>2. m \in Row /\ clock \in Int
            BY DEF TypeOK
      <2>3. CurrentAsOf(RevokedRow(m, clock), at)
            BY <1>1, <2>2, RevokedIsCurrent
      <2> QED BY <1>1, <2>1, <2>2, <2>3, RevokedIsRow DEF Backed
<1>4. m \in keys' \/ \E n \in keys : Revoke(n)
      BY DEF Next, Tick, Rotate, Fetch, Store, FetchEnds, FetchFails, Restart, Sign, vars
<1> QED BY <1>2, <1>3, <1>4

\* A key served after a step was served before it, or was inserted by it.
LEMMA ServedBefore ==
    ASSUME TypeOK, [Next]_vars, NEW u, NEW m \in Matching(keys', u, clock')
    PROVE  \/ \E k \in Matching(keys, u, clock) : k.createdAt = m.createdAt
           \/ m.createdAt >= Round(clock - MaxLag)
<1>1. /\ clock \in Int /\ clock' \in Int /\ clock =< clock'
      /\ keys \in SUBSET Row
      BY ClockSteps DEF TypeOK
<1>2. CASE m \in keys
      BY <1>1, <1>2, ActiveEarlier DEF Matching
<1>3. ASSUME Rotate, m \notin keys
      PROVE  m.createdAt >= Round(clock - MaxLag)
      <2>1. PICK lag \in 0..MaxLag :
                \E batch \in Batches(keys, clock, clock - lag) : keys' = keys \cup batch
            BY <1>3 DEF Rotate
      <2>2. PICK batch \in Batches(keys, clock, clock - lag) : keys' = keys \cup batch
            BY <2>1
      <2>3. m \in batch
            BY <1>3, <2>2 DEF Matching
      <2>4. m.createdAt = Round(clock - lag)
            BY <2>3 DEF Batches, NewRow
      <2>5. /\ clock - lag \in Int /\ clock - MaxLag \in Int
            /\ clock - MaxLag =< clock - lag
            BY <1>1, DistributionAssumption
      <2>6. Round(clock - MaxLag) \in Int /\ Round(clock - lag) \in Int
            /\ Round(clock - MaxLag) =< Round(clock - lag)
            BY <2>5, RoundNear, RoundMonotone
      <2> QED BY <2>4, <2>6
<1>4. ASSUME NEW k \in keys, Revoke(k), m \notin keys
      PROVE  \E n \in Matching(keys, u, clock) : n.createdAt = m.createdAt
      <2>1. m = RevokedRow(k, clock) /\ clock' = clock
            BY <1>4 DEF Revoke, Matching
      <2>2. m.usage = k.usage /\ m.createdAt = k.createdAt
            BY <1>1, <2>1, RevokedIsRow
      <2>3. Active(k, clock)
            BY <1>1, <1>4 DEF Revoke, Revocable, Active
      <2> QED BY <2>2, <2>3 DEF Matching
<1>5. m \in keys \/ Rotate \/ \E k \in keys : Revoke(k)
      BY DEF Next, Tick, Fetch, Store, FetchEnds, FetchFails, Restart, Sign, vars,
             Matching
<1> QED BY <1>2, <1>3, <1>4, <1>5

\* What was known of the table as of an instant is known after a step.
LEMMA KnownStays ==
    ASSUME TypeOK, [Next]_vars, NEW list, NEW u, NEW at \in Int, Known(list, u, at)
    PROVE  Known(list, u, at)'
<1>1. clock \in Int /\ clock' \in Int /\ clock =< clock' /\ at =< clock
      BY ClockSteps DEF Known
<1>2. \A k \in list : Backed(k, u, at)'
      BY <1>1, BackedStays DEF Known
<1>3. ASSUME list # {}, NEW m \in Matching(keys', u, clock'), Leads(list, m)
      PROVE  m.createdAt >= Round(at - MaxLag)
      <2>1. Round(at - MaxLag) \in Int /\ Round(clock - MaxLag) \in Int
            /\ Round(at - MaxLag) =< Round(clock - MaxLag)
            <3>1. at - MaxLag \in Int /\ clock - MaxLag \in Int /\ at - MaxLag =< clock - MaxLag
                  BY <1>1, DistributionAssumption
            <3> QED BY <3>1, RoundNear, RoundMonotone
      <2>2. m.createdAt \in Int
            <3>1. m \in keys' /\ keys' \in SUBSET Row
                  BY DistributionNextType DEF Matching, TypeOK
            <3> QED BY <3>1 DEF Row
      <2>3. CASE m.createdAt >= Round(clock - MaxLag)
            BY <2>1, <2>2, <2>3
      <2>4. CASE \E k \in Matching(keys, u, clock) : k.createdAt = m.createdAt
            <3>1. PICK k \in Matching(keys, u, clock) : k.createdAt = m.createdAt
                  BY <2>4
            <3>2. Leads(list, k)
                  BY <1>3, <3>1 DEF Leads
            <3> QED BY <1>3, <3>1, <3>2 DEF Known, Overtaken
      <2> QED BY <2>3, <2>4, ServedBefore
<1>4. Overtaken(list, u, at)'
      BY <1>3 DEF Overtaken, Leads
<1> QED BY <1>1, <1>2, <1>4 DEF Known

-----------------------------------------------------------------------------
(* What the sources hold *)

LEMMA SourcesInit == Init => SourcesInv
BY DEF Init, SourcesInv

\* A list just read is known as of now.
LEMMA ListingKnown ==
    ASSUME TypeOK, NEW u \in Usage, NEW list \in Listings(keys, u, clock, BatchSize)
    PROVE  Known(list, u, clock)
<1>1. clock \in Int /\ keys \in SUBSET Row
      BY DEF TypeOK
<1>2. /\ list \subseteq Matching(keys, u, clock)
      /\ \A k \in list, m \in Matching(keys, u, clock) \ list : m.createdAt =< k.createdAt
      BY DEF Listings
<1>3. ASSUME NEW k \in list
      PROVE  Backed(k, u, clock)
      <2>1. k \in keys /\ k.usage = u /\ Active(k, clock) /\ k \in Row
            BY <1>1, <1>2 DEF Matching
      <2>2. CurrentAsOf(k, clock)
            BY <1>1, <2>1, ActiveIsCurrent
      <2> QED BY <2>1, <2>2 DEF Backed
<1>4. ASSUME list # {}, NEW m \in Matching(keys, u, clock), Leads(list, m)
      PROVE  FALSE
      <2>1. PICK k \in list : TRUE
            BY <1>4
      <2>2. k.createdAt \in Int /\ m.createdAt \in Int
            BY <1>1, <1>2 DEF Matching, Row
      <2>3. m.createdAt > k.createdAt
            BY <1>4 DEF Leads
      <2>4. m \notin list
            <3>1. m \in list => m.createdAt > m.createdAt
                  BY <1>4 DEF Leads
            <3> QED BY <2>2, <3>1
      <2> QED BY <1>2, <2>2, <2>3, <2>4
<1>5. Overtaken(list, u, clock)
      BY <1>4 DEF Overtaken
<1> QED BY <1>1, <1>3, <1>5 DEF Known

\* What an answer on its way and an entry say, with their instants.
LEMMA SourceOf ==
    ASSUME TrustInv, NEW h \in Holder, NEW u \in Usage
    PROVE  /\ \A f \in fetch[h][u] : /\ f.at \in Int
                                     /\ clock =< f.at + MaxDelay
                                     /\ Known(f.list, u, f.at)
           /\ \A e \in cache[h][u] : /\ e.at \in Int
                                     /\ e.at =< clock
                                     /\ Known(e.list, u, e.at - MaxDelay)
BY DEF TrustInv, TypeOK, SourcesInv, Entry

\* An answer comes from a fetch, and an entry from an answer.
LEMMA AnswersFetched ==
    ASSUME TypeOK, [Next]_vars, NEW h \in Holder, NEW u \in Usage,
           NEW f \in fetch'[h][u], f \notin fetch[h][u]
    PROVE  Fetch(h, u)
<1>1. ASSUME NEW g \in Holder, NEW v \in Usage, Fetch(g, v)
      PROVE  g = h /\ v = u
      BY <1>1 DEF Fetch, TypeOK
<1>2. ASSUME NEW g \in Holder, NEW v \in Usage, Store(g, v) \/ FetchFails(g, v)
      PROVE  FALSE
      <2>1. fetch' = [fetch EXCEPT ![g][v] = {}]
            BY <1>2 DEF Store, FetchFails, FetchEnds
      <2> QED BY <2>1 DEF TypeOK
<1>3. ASSUME NEW g \in Holder, Restart(g)
      PROVE  FALSE
      BY <1>3 DEF Restart, TypeOK
<1>4. fetch' # fetch
      OBVIOUS
<1> QED BY <1>1, <1>2, <1>3, <1>4 DEF Next, Tick, Rotate, Revoke, Sign, vars

LEMMA EntriesStored ==
    ASSUME TypeOK, [Next]_vars, NEW h \in Holder, NEW u \in Usage,
           NEW e \in cache'[h][u], e \notin cache[h][u]
    PROVE  Store(h, u)
<1>1. ASSUME NEW g \in Holder, NEW v \in Usage, Store(g, v)
      PROVE  g = h /\ v = u
      BY <1>1 DEF Store, FetchEnds, TypeOK
<1>2. ASSUME NEW g \in Holder, Restart(g)
      PROVE  FALSE
      BY <1>2 DEF Restart, TypeOK
<1>3. cache' # cache
      OBVIOUS
<1> QED BY <1>1, <1>2, <1>3 DEF Next, Tick, Rotate, Revoke, Fetch, FetchFails,
                                FetchEnds, Sign, vars

LEMMA SourcesNext == TrustInv /\ [Next]_vars => SourcesInv'
<1> SUFFICES ASSUME TrustInv, [Next]_vars, NEW h \in Holder, NEW u \in Usage
             PROVE  /\ \A f \in fetch'[h][u] :
                          clock' =< f.at + MaxDelay /\ Known(f.list, u, f.at)'
                    /\ \A e \in cache'[h][u] :
                          e.at =< clock' /\ Known(e.list, u, e.at - MaxDelay)'
    BY DEF SourcesInv
<1>1. /\ TypeOK /\ TypeOK'
      /\ clock \in Int /\ clock' \in Int /\ clock =< clock'
      /\ MaxDelay \in Int /\ MaxDelay >= 0
      BY DistributionNextType, ClockSteps, DistributionAssumption DEF TrustInv
<1>2. ASSUME NEW f \in fetch'[h][u]
      PROVE  clock' =< f.at + MaxDelay /\ Known(f.list, u, f.at)'
      <2>1. CASE f \in fetch[h][u]
            <3>1. Known(f.list, u, f.at)'
                  BY <1>1, <2>1, KnownStays, SourceOf
            <3>2. CASE Tick
                  BY <1>1, <2>1, <3>1, <3>2, SourceOf DEF Tick
            <3>3. CASE ~Tick
                  <4>1. clock' = clock
                        BY <3>3 DEF Next, Rotate, Revoke, Fetch, Store, FetchEnds,
                                    FetchFails, Restart,
                                    Sign, vars
                  <4> QED BY <2>1, <3>1, <4>1, SourceOf
            <3> QED BY <3>1, <3>2, <3>3
      <2>2. CASE f \notin fetch[h][u]
            <3>1. Fetch(h, u)
                  BY <1>1, <1>2, <2>2, AnswersFetched
            <3>2. PICK list \in Listings(keys, u, clock, BatchSize) :
                      fetch' = [fetch EXCEPT ![h][u] = {[list |-> list, at |-> clock]}]
                  BY <3>1 DEF Fetch
            <3>3. f = [list |-> list, at |-> clock] /\ clock' = clock
                  BY <1>1, <1>2, <3>1, <3>2 DEF Fetch, TypeOK
            <3>4. Known(list, u, clock)
                  BY <1>1, <3>2, ListingKnown
            <3>5. Known(list, u, clock)'
                  BY <1>1, <3>4, KnownStays, <3>3
            <3> QED BY <1>1, <3>3, <3>5
      <2> QED BY <2>1, <2>2
<1>3. ASSUME NEW e \in cache'[h][u]
      PROVE  e.at =< clock' /\ Known(e.list, u, e.at - MaxDelay)'
      <2>1. CASE e \in cache[h][u]
            <3>1. e.at \in Int /\ e.at =< clock /\ Known(e.list, u, e.at - MaxDelay)
                  BY <2>1, SourceOf
            <3>2. e.at - MaxDelay \in Int
                  BY <1>1, <3>1
            <3>3. Known(e.list, u, e.at - MaxDelay)'
                  BY <1>1, <3>1, <3>2, KnownStays
            <3> QED BY <1>1, <3>1, <3>3
      <2>2. CASE e \notin cache[h][u]
            <3>1. Store(h, u)
                  BY <1>1, <1>3, <2>2, EntriesStored
            <3>2. PICK f \in fetch[h][u] :
                      cache' = [cache EXCEPT ![h][u] = {[list |-> f.list, at |-> clock]}]
                  BY <3>1 DEF Store, FetchEnds
            <3>3. e = [list |-> f.list, at |-> clock] /\ clock' = clock
                  BY <1>1, <1>3, <3>1, <3>2 DEF Store, FetchEnds, TypeOK
            <3>4. f.at \in Int /\ clock =< f.at + MaxDelay /\ Known(f.list, u, f.at)
                  BY <3>2, SourceOf
            <3>5. clock - MaxDelay \in Int /\ clock - MaxDelay =< f.at
                  BY <1>1, <3>4
            <3>6. Known(f.list, u, clock - MaxDelay)
                  BY <1>1, <3>4, <3>5, KnownEarlier
            <3>7. Known(f.list, u, clock - MaxDelay)'
                  <4> DEFINE at == clock - MaxDelay
                  <4>1. at \in Int /\ Known(f.list, u, at)
                        BY <3>5, <3>6
                  <4>2. at' = at
                        BY <3>3
                  <4> QED BY <1>1, <4>1, <4>2, KnownStays
            <3> QED BY <1>1, <3>3, <3>7
      <2> QED BY <2>1, <2>2
<1> QED BY <1>2, <1>3

LEMMA TrustInvariant == Spec => []TrustInv
<1>1. Init => TrustInv
      BY DistributionInitType, SourcesInit DEF TrustInv
<1>2. TrustInv /\ [Next]_vars => TrustInv'
      BY DistributionNextType, SourcesNext DEF TrustInv
<1> QED BY <1>1, <1>2, PTL DEF Spec

\* The instant as of which an entry still served is known.
LEMMA FreshSince ==
    ASSUME TrustInv, NEW h \in Holder, NEW u \in Usage, NEW e \in cache[h][u], Fresh(e, u)
    PROVE  /\ clock - Staleness(u) \in Int
           /\ Known(e.list, u, clock - Staleness(u))
<1>1. /\ TypeOK /\ clock \in Int
      /\ Cache[u] \in Int /\ MaxDelay \in Int
      BY DistributionAssumption DEF TrustInv, TypeOK
<1>2. e.at \in Int /\ Known(e.list, u, e.at - MaxDelay)
      BY SourceOf
<1>3. /\ clock - Staleness(u) \in Int
      /\ e.at - MaxDelay \in Int
      /\ clock - Staleness(u) =< e.at - MaxDelay
      BY <1>1, <1>2 DEF Staleness, Fresh
<1> QED BY <1>1, <1>2, <1>3, KnownEarlier

\* A verifier trusts no key for longer than its staleness after the key expired or was
\* revoked, even when it ignores that the token has expired.
THEOREM TrustIsBounded == Spec => []TrustBounded
<1>1. TrustInv => TrustBounded
      <2> SUFFICES ASSUME TrustInv, NEW v \in Verifier, NEW tok \in tokens,
                          Accepts(v, tok.usage, tok, TRUE)
                   PROVE  \E k \in keys : /\ SignedWith(tok, k)
                                          /\ CurrentAsOf(k, clock - Staleness(tok.usage))
          BY DEF TrustBounded
      <2>1. v \in Holder /\ tok.usage \in Usage
            BY DEF Holder, TrustInv, TypeOK, Token
      <2>2. PICK e \in cache[v][tok.usage] : Fresh(e, tok.usage) /\ Holds(e, tok.kid)
            BY DEF Accepts
      <2>3. PICK k \in e.list : k.id = tok.kid
            BY <2>2 DEF Holds
      <2>4. Backed(k, tok.usage, clock - Staleness(tok.usage))
            BY <2>1, <2>2, FreshSince DEF Known
      <2> QED BY <2>3, <2>4 DEF Backed, SignedWith
<1> QED BY <1>1, TrustInvariant, PTL

\* A signer signs with a key that was the main key, and served, no longer ago than its
\* staleness.
THEOREM SignsWithRecentMain == Spec => SignedByRecentMain
<1>1. TrustInv /\ [Next]_vars =>
          [ \A tok \in tokens' \ tokens : \E k \in keys :
               /\ SignedWith(tok, k)
               /\ CurrentAsOf(k, clock - Staleness(tok.usage))
               /\ \A m \in Matching(keys, tok.usage, clock) :
                     m.createdAt > k.createdAt =>
                         m.createdAt >= Round(clock - Staleness(tok.usage) - MaxLag) ]_vars
      <2> SUFFICES ASSUME TrustInv, Next, NEW tok \in tokens' \ tokens
                   PROVE  \E k \in keys :
                             /\ SignedWith(tok, k)
                             /\ CurrentAsOf(k, clock - Staleness(tok.usage))
                             /\ \A m \in Matching(keys, tok.usage, clock) :
                                   m.createdAt > k.createdAt =>
                                       m.createdAt >=
                                           Round(clock - Staleness(tok.usage) - MaxLag)
          OBVIOUS
      <2>1. PICK s \in Signer, u \in Usage : Sign(s, u)
            BY DEF Next, Tick, Rotate, Revoke, Fetch, Store, FetchEnds, FetchFails,
                   Restart
      <2>2. PICK e \in cache[s][u] :
                /\ Fresh(e, u)
                /\ \E k \in Newest(e.list) :
                      tokens' = tokens \cup {[usage     |-> u,
                                              kid       |-> k.id,
                                              issuedAt  |-> clock,
                                              expiresAt |-> clock + TokenTTL[u]]}
            BY <2>1 DEF Sign
      <2>3. PICK k \in Newest(e.list) :
                tokens' = tokens \cup {[usage     |-> u,
                                        kid       |-> k.id,
                                        issuedAt  |-> clock,
                                        expiresAt |-> clock + TokenTTL[u]]}
            BY <2>2
      <2>4. tok.usage = u /\ tok.kid = k.id
            BY <2>3
      <2>5. s \in Holder
            BY DEF Holder
      <2>6. Known(e.list, u, clock - Staleness(u))
            BY <2>2, <2>5, FreshSince
      <2>7. k \in e.list /\ \A l \in e.list : l.createdAt =< k.createdAt
            BY <2>3 DEF Newest
      <2>8. PICK r \in keys : /\ r.id = k.id
                              /\ r.createdAt = k.createdAt
                              /\ CurrentAsOf(r, clock - Staleness(u))
            BY <2>6, <2>7 DEF Known, Backed
      <2>9. ASSUME NEW m \in Matching(keys, u, clock), m.createdAt > r.createdAt
            PROVE  m.createdAt >= Round(clock - Staleness(u) - MaxLag)
            <3>1. /\ m.createdAt \in Int /\ k.createdAt \in Int
                  /\ \A l \in e.list : l.createdAt \in Int
                  <4>1. e.list \in SUBSET Row /\ m \in Row
                        BY <2>2, <2>5 DEF TrustInv, TypeOK, Entry, Matching
                  <4> QED BY <2>7, <4>1 DEF Row
            <3>2. Leads(e.list, m)
                  BY <2>7, <2>8, <2>9, <3>1 DEF Leads
            <3> QED BY <2>6, <2>7, <3>2 DEF Known, Overtaken
      <2> QED BY <2>4, <2>8, <2>9 DEF SignedWith
<1> QED BY <1>1, TrustInvariant, PTL DEF Spec, SignedByRecentMain

-----------------------------------------------------------------------------
(* The table evolves as the key ring allows *)

\* Rows are as the columns round them, and none is dated ahead of the clock.
RowsInv == \A k \in keys : Stored(k) /\ k.createdAt =< Round(clock)

\* What a run that succeeds adds to the table.
LEMMA RotatePublishes ==
    ASSUME TypeOK, RowsInv, NEW lag \in 0..MaxLag,
           NEW batch \in Batches(keys, clock, clock - lag)
    PROVE  /\ Publishes(keys, batch, clock, clock - lag)
           /\ \A n \in batch : n.createdAt =< Round(clock)
<1>1. /\ clock \in Int /\ clock - lag \in Int /\ clock - lag =< clock
      /\ keys \in SUBSET Row /\ UniqueIds(keys)
      BY DistributionAssumption DEF TypeOK
<1>2. /\ Round(clock) \in Int
      /\ Round(clock - lag) =< Round(clock)
      BY <1>1, RoundNear, RoundMonotone
<1>3. \A k \in keys : Stored(k) /\ k.createdAt =< Round(clock)
      BY DEF RowsInv
<1>4. Publishes(keys, batch, clock, clock - lag)
      BY <1>1, <1>2, <1>3, BatchPublishes
<1> QED BY <1>2, <1>4 DEF Publishes

LEMMA RowsNext == TypeOK /\ RowsInv /\ [Next]_vars => RowsInv'
<1> SUFFICES ASSUME TypeOK, RowsInv, [Next]_vars
             PROVE  RowsInv'
    OBVIOUS
<1>1. /\ clock \in Int /\ clock' \in Int /\ Round(clock) \in Int /\ Round(clock') \in Int
      /\ Round(clock) =< Round(clock')
      /\ keys \in SUBSET Row /\ \A k \in keys : k.createdAt \in Int
      BY ClockSteps, RoundNear, RoundMonotone DEF TypeOK, Row
<1>2. \A k \in keys : Stored(k) /\ k.createdAt =< Round(clock')
      BY <1>1 DEF RowsInv
<1>3. CASE keys' = keys
      BY <1>2, <1>3 DEF RowsInv
<1>4. CASE Rotate
      <2>1. PICK lag \in 0..MaxLag :
                \E batch \in Batches(keys, clock, clock - lag) : keys' = keys \cup batch
            BY <1>4 DEF Rotate
      <2>2. PICK batch \in Batches(keys, clock, clock - lag) : keys' = keys \cup batch
            BY <2>1
      <2>3. clock' = clock
            BY <1>4 DEF Rotate
      <2> QED BY <1>2, <2>2, <2>3, RotatePublishes DEF RowsInv, Publishes
<1>5. ASSUME NEW k \in keys, Revoke(k)
      PROVE  RowsInv'
      <2>1. keys' = (keys \ {k}) \cup {RevokedRow(k, clock)} /\ clock' = clock
            BY <1>5 DEF Revoke
      <2>2. /\ Stored(RevokedRow(k, clock))
            /\ RevokedRow(k, clock).createdAt = k.createdAt
            BY <1>1, RevokedRowStored DEF RowsInv
      <2> QED BY <1>2, <2>1, <2>2 DEF RowsInv
<1> QED BY <1>3, <1>4, <1>5 DEF Next, Tick, Fetch, Store, FetchEnds, FetchFails,
                                Restart, Sign, vars

LEMMA RowsInvariant == Spec => []RowsInv
<1>1. Init => RowsInv
      BY DEF Init, RowsInv
<1> QED BY <1>1, RowsNext, DistributionType, PTL DEF Spec

\* The operators on rows mean the same in the instance.
LEMMA RingOperators ==
    /\ Ring!Row = Row
    /\ \A n : Ring!Sec(n) = Sec(n)
    /\ \A rows, u, t : Ring!Matching(rows, u, t) = Matching(rows, u, t)
    /\ \A k, t : Ring!Revocable(k, t) = Revocable(k, t)
    /\ \A k, n : Ring!Spaced(k, n) = Spaced(k, n)
    /\ \A rows : Ring!UniqueIds(rows) = UniqueIds(rows)
BY DEF Ring!Row, Ring!Sec, Ring!Matching, Ring!Revocable, Ring!Spaced,
       Ring!UniqueIds, Ring!Active, Row, Sec, Matching, Revocable, Spaced,
       UniqueIds, Active

LEMMA StepImplementsRing ==
    TypeOK /\ RowsInv /\ [Next]_vars => [Ring!Next]_(Ring!ringVars)
<1> SUFFICES ASSUME TypeOK, RowsInv, [Next]_vars
             PROVE  Ring!Next \/ UNCHANGED <<clock, keys>>
    BY DEF Ring!ringVars
<1>1. CASE Tick
      BY <1>1 DEF Tick, Ring!Next, Ring!Tick
<1>2. CASE Rotate
      <2>1. PICK lag \in 0..MaxLag :
                \E batch \in Batches(keys, clock, clock - lag) : keys' = keys \cup batch
            BY <1>2 DEF Rotate
      <2>2. PICK batch \in Batches(keys, clock, clock - lag) : keys' = keys \cup batch
            BY <2>1
      <2>3. clock' = clock
            BY <1>2 DEF Rotate
      <2>4. Ring!Publish
            BY <2>2, <2>3, RotatePublishes, RingOperators DEF Ring!Publish, Publishes
      <2> QED BY <2>4 DEF Ring!Next
<1>3. ASSUME NEW k \in keys, Revoke(k)
      PROVE  Ring!Next
      <2>1. PICK r : r = RevokedRow(k, clock)
            OBVIOUS
      <2>2. /\ Revocable(k, clock) /\ clock' = clock
            /\ keys' = (keys \ {k}) \cup {r}
            BY <1>3, <2>1 DEF Revoke
      <2>3. r \in Row /\ r.deletedAt = {Round(clock)}
            BY <2>1, RevokedIsRow DEF TypeOK
      <2>4. r = [k EXCEPT !.deletedAt = r.deletedAt]
            BY <2>1, <2>3 DEF RevokedRow
      <2>5. Ring!Revoke
            BY <2>2, <2>3, <2>4, RingOperators DEF Ring!Revoke
      <2> QED BY <2>5 DEF Ring!Next
<1> QED BY <1>1, <1>2, <1>3 DEF Next, Fetch, Store, FetchEnds, FetchFails, Restart,
                                Sign, vars

\* The table signers and verifiers read from implements the key ring, with any lag between
\* the dating of a key and its commit.
THEOREM DistributionImplementsRing == Spec => RingSpec
<1>1. Init => Ring!Init
      BY DEF Init, Ring!Init
<1> QED BY <1>1, StepImplementsRing, DistributionType, RowsInvariant, PTL
        DEF Spec, RingSpec, Ring!Spec

-----------------------------------------------------------------------------
(* Lists are complete *)

RingProofs == INSTANCE KeyRingProofs

LEMMA RingProofsOperators ==
    /\ RingProofs!Row = Row
    /\ \A n : RingProofs!Sec(n) = Sec(n)
    /\ \A rows, u, t : RingProofs!Matching(rows, u, t) = Matching(rows, u, t)
    /\ \A k, t : RingProofs!Revocable(k, t) = Revocable(k, t)
    /\ \A k, n : RingProofs!Spaced(k, n) = Spaced(k, n)
    /\ \A rows : RingProofs!UniqueIds(rows) = UniqueIds(rows)
    /\ \A rows, t : RingProofs!AllSpaced(rows, t) = AllSpaced(rows, t)
BY DEF RingProofs!Row, RingProofs!Sec, RingProofs!Matching, RingProofs!Revocable,
       RingProofs!Spaced, RingProofs!UniqueIds, RingProofs!Active,
       RingProofs!AllSpaced, Row, Sec, Matching, Revocable, Spaced, UniqueIds,
       Active, AllSpaced

\* The ring keeps the keys of the table apart.
SpacedInv == AllSpaced(keys, clock)

LEMMA SpacedNext == TypeOK /\ RowsInv /\ SpacedInv /\ [Next]_vars => SpacedInv'
<1> SUFFICES ASSUME TypeOK, RowsInv, SpacedInv, [Next]_vars
             PROVE  SpacedInv'
    OBVIOUS
<1>1. RingProofs!RingTypeOK
      BY RingProofsOperators DEF RingProofs!RingTypeOK, TypeOK
<1>2. RingProofs!RingSpaced
      BY RingProofsOperators DEF RingProofs!RingSpaced, SpacedInv
<1>3. [RingProofs!Next]_(RingProofs!ringVars)
      BY StepImplementsRing, RingOperators, RingProofsOperators
         DEF Ring!Next, Ring!ringVars, Ring!Tick, Ring!Publish, Ring!Revoke,
             RingProofs!Next, RingProofs!ringVars, RingProofs!Tick,
             RingProofs!Publish, RingProofs!Revoke
<1>4. RingProofs!RingSpaced'
      <2>1. RingProofs!ConfigAssumption
            BY ConfigAssumption DEF RingProofs!ConfigAssumption
      <2> QED BY <2>1, <1>1, <1>2, <1>3, RingProofs!RingNextSpaced
<1> QED BY <1>4, RingProofsOperators DEF RingProofs!RingSpaced, SpacedInv

TableInv == TypeOK /\ RowsInv /\ SpacedInv

LEMMA TableInvariant == Spec => []TableInv
<1>1. Init => SpacedInv
      BY DEF Init, SpacedInv, AllSpaced
<1>2. TypeOK /\ RowsInv /\ SpacedInv /\ [Next]_vars => SpacedInv'
      BY SpacedNext
<1> QED BY <1>1, <1>2, DistributionType, RowsInvariant, PTL DEF Spec, TableInv

\* A list holds more keys than a lifetime has rotation intervals.
BatchFits == \A u \in Usage : TTL[u] < Rotation[u] * BatchSize

\* No search is ever cut short by its limit.
LEMMA ListsComplete ==
    ASSUME BatchFits, TableInv, NEW u \in Usage,
           NEW list \in Listings(keys, u, clock, BatchSize)
    PROVE  list = Matching(keys, u, clock)
<1> DEFINE all == Matching(keys, u, clock)
<1>1. /\ clock \in Int /\ keys \in SUBSET Row /\ \A k \in keys : Stored(k)
      /\ AllSpaced(keys, clock)
      BY DEF TableInv, TypeOK, RowsInv, SpacedInv
<1>2. /\ Rotation[u] \in Nat \ {0} /\ TTL[u] \in Nat /\ BatchSize \in Nat
      /\ TTL[u] < Rotation[u] * BatchSize
      <2>1. /\ Rotation[u] \in Nat /\ TTL[u] \in Nat /\ BatchSize \in Nat
            /\ TTL[u] < Rotation[u] * BatchSize
            BY ConfigAssumption, DistributionAssumption DEF BatchFits
      <2>2. Rotation[u] # 0
            BY <2>1
      <2> QED BY <2>1, <2>2
<1>3. \A k \in all : k.createdAt =< clock + 0 + 1
      <2>1. Round(clock) \in Int /\ Round(clock) =< clock + 1
            BY <1>1, RoundNear
      <2> QED BY <1>1, <2>1 DEF Matching, RowsInv, TableInv, Row
<1>4. /\ IsFiniteSet(all)
      /\ Sec(Rotation[u]) * (Cardinality(all) - 1) =< Sec(TTL[u]) + 0
      <2>1. 0 \in Int /\ Rotation[u] > 0 /\ Sec(TTL[u]) + 0 >= 0
            BY <1>2 DEF Sec
      <2> QED BY <1>1, <1>3, <2>1, ActiveCount
<1>5. Cardinality(all) \in Nat
      BY <1>4, FS_CardinalityType
<1> HIDE DEF all
<1>6. Cardinality(all) =< BatchSize
      <2>1. Rotation[u] * (Cardinality(all) - 1) =< TTL[u]
            BY <1>2, <1>4, <1>5 DEF Sec
      <2>2. Rotation[u] * (Cardinality(all) - 1) < Rotation[u] * BatchSize
            BY <1>2, <1>5, <2>1
      <2>3. Cardinality(all) - 1 < BatchSize
            BY <1>2, <1>5, <2>2
      <2> QED BY <1>2, <1>5, <2>3
<1>7. list \in SUBSET all /\ (list # all => Cardinality(list) = BatchSize)
      BY DEF Listings, all
<1>8. /\ Cardinality(list) =< Cardinality(all)
      /\ Cardinality(all) = Cardinality(list) => all = list
      BY <1>4, <1>7, FS_Subset
<1> QED BY <1>2, <1>5, <1>6, <1>7, <1>8 DEF all

\* The LIMIT of the search never hides a key from a signer or a verifier.
ListsWhole ==
    \A u \in Usage : \A list \in Listings(keys, u, clock, BatchSize) :
        list = Matching(keys, u, clock)

\* Where a list holds more keys than a lifetime has rotation intervals, PgJwkSearch returns
\* every key that is served, whatever was revoked, and however late keys were committed.
THEOREM NoListIsCut == ASSUME BatchFits PROVE Spec => []ListsWhole
<1>1. TableInv => ListsWhole
      BY ListsComplete DEF ListsWhole
<1> QED BY <1>1, TableInvariant, PTL

-----------------------------------------------------------------------------
(* The main key is young *)

\* The job runs in time, ...
JobInv == lastRun =< clock /\ clock =< lastRun + JobPeriod

\* ... and the last run left no main key past its rotation interval.
MainYoung ==
    \A u \in Usage : NoneRevoked(u) =>
        \A k \in MainKeys(keys, u, clock) :
            k.createdAt + Sec(Rotation[u]) + MaxLag > lastRun

\* A key is less old, at an instant, than a rotation interval and the wait for the job
\* that replaces it.
YoungAt(k, u, t) == k.createdAt + Sec(Rotation[u]) + MaxLag + JobPeriod > t

\* The first key of a list was young when the list was read.
ListsYoung ==
    \A h \in Holder, u \in Usage : NoneRevoked(u) =>
        /\ \A f \in fetch[h][u] : \A k \in Newest(f.list) : YoungAt(k, u, f.at)
        /\ \A e \in cache[h][u] : \A k \in Newest(e.list) : YoungAt(k, u, e.at - MaxDelay)

\* The key of a token is in the table, and was no older when it signed than the staleness
\* of its signer explains.
TokensYoung ==
    \A tok \in tokens :
        /\ tok.issuedAt =< clock
        /\ tok.expiresAt = tok.issuedAt + TokenTTL[tok.usage]
        /\ \E k \in keys :
              /\ SignedWith(tok, k)
              /\ k.usage = tok.usage
              /\ NoneRevoked(tok.usage) =>
                     YoungAt(k, tok.usage, tok.issuedAt - Staleness(tok.usage))

\* A list read after a token was issued holds its key as long as the token is in time.
ListsHold ==
    \A h \in Holder, tok \in tokens :
        NoneRevoked(tok.usage) /\ InTime(tok) =>
            /\ \A f \in fetch[h][tok.usage] :
                  tok.issuedAt < f.at => Holds(f, tok.kid)
            /\ \A e \in cache[h][tok.usage] :
                  tok.issuedAt < e.at - MaxDelay => Holds(e, tok.kid)

\* A usage none of whose keys is revoked had none revoked before.
LEMMA RevokedStays ==
    ASSUME TypeOK, [Next]_vars, NEW u, NoneRevoked(u)'
    PROVE  NoneRevoked(u)
<1>1. CASE keys \subseteq keys'
      BY <1>1 DEF NoneRevoked
<1>2. ASSUME NEW k \in keys, Revoke(k)
      PROVE  NoneRevoked(u)
      <2>1. keys' = (keys \ {k}) \cup {RevokedRow(k, clock)}
            BY <1>2 DEF Revoke
      <2>2. k.deletedAt = {}
            BY <1>2 DEF Revoke, Revocable
      <2> QED BY <2>1, <2>2 DEF NoneRevoked
<1>3. keys \subseteq keys' \/ \E k \in keys : Revoke(k)
      BY DEF Next, Tick, Rotate, Fetch, Store, FetchEnds, FetchFails, Restart, Sign, vars
<1> QED BY <1>1, <1>2, <1>3

\* What a step keeps of the rows of such a usage.
LEMMA RowsOfUsage ==
    ASSUME TypeOK, [Next]_vars, NEW u, NoneRevoked(u)', ~Rotate
    PROVE  \A k : k \in keys' /\ k.usage = u <=> k \in keys /\ k.usage = u
<1>1. ASSUME NEW r \in keys, Revoke(r)
      PROVE  \A k : k \in keys' /\ k.usage = u <=> k \in keys /\ k.usage = u
      <2>1. keys' = (keys \ {r}) \cup {RevokedRow(r, clock)}
            BY <1>1 DEF Revoke
      <2>2. /\ RevokedRow(r, clock).usage = r.usage
            /\ RevokedRow(r, clock).deletedAt # {}
            <3>1. r \in Row /\ clock \in Int
                  BY DEF TypeOK
            <3>2. RevokedRow(r, clock).deletedAt = {Round(clock)}
                  BY <3>1, RevokedIsRow
            <3> QED BY <3>1, <3>2, RevokedIsRow
      <2>3. r.usage # u
            BY <2>1, <2>2 DEF NoneRevoked
      <2> QED BY <2>1, <2>2, <2>3
<1>2. keys' = keys \/ \E r \in keys : Revoke(r)
      BY DEF Next, Tick, Fetch, Store, FetchEnds, FetchFails, Restart, Sign, vars
<1> QED BY <1>1, <1>2

LEMMA JobNext == TypeOK /\ JobInv /\ [Next]_vars => JobInv'
<1> SUFFICES ASSUME TypeOK, JobInv, [Next]_vars
             PROVE  JobInv'
    OBVIOUS
<1>1. clock \in Int /\ lastRun \in Int /\ JobPeriod \in Nat
      BY DistributionAssumption DEF TypeOK
<1>2. CASE Tick
      BY <1>1, <1>2 DEF Tick, JobInv
<1>3. CASE Rotate
      BY <1>1, <1>3 DEF Rotate, JobInv
<1>4. CASE ~Tick /\ ~Rotate
      BY <1>4 DEF JobInv, Next, Revoke, Fetch, Store, FetchEnds, FetchFails, Restart,
                  Sign, vars
<1> QED BY <1>2, <1>3, <1>4

LEMMA MainYoungNext ==
    ASSUME SufficientTTL, BatchFits
    PROVE  TableInv /\ MainYoung /\ [Next]_vars => MainYoung'
<1> SUFFICES ASSUME TableInv, MainYoung, [Next]_vars,
                    NEW u \in Usage, NoneRevoked(u)',
                    NEW k \in MainKeys(keys', u, clock')
             PROVE  k.createdAt + Sec(Rotation[u]) + MaxLag > lastRun'
    BY DEF MainYoung
<1>1. /\ TypeOK /\ RowsInv /\ keys \in SUBSET Row /\ UniqueIds(keys)
      /\ clock \in Int /\ clock' \in Int /\ clock =< clock' /\ lastRun \in Int
      /\ \A m \in keys : Stored(m)
      BY ClockSteps DEF TableInv, TypeOK, RowsInv
<1>2. NoneRevoked(u)
      BY <1>1, RevokedStays
<1>3. /\ Sec(Rotation[u]) \in Int /\ Sec(Rotation[u]) >= 3
      /\ Sec(TTL[u]) \in Int /\ MaxLag \in Nat
      /\ Sec(TTL[u]) > MaxLag + 1
      <2>1. /\ Rotation[u] \in Nat /\ TTL[u] \in Nat /\ BatchSize \in Nat
            /\ TTL[u] < Rotation[u] * BatchSize
            BY ConfigAssumption, DistributionAssumption DEF BatchFits
      <2>2. Rotation[u] >= 1
            BY <2>1
      <2>3. /\ MaxLag \in Nat /\ JobPeriod \in Nat /\ MaxDelay \in Nat
            /\ Cache[u] \in Nat /\ TokenTTL[u] \in Nat /\ Leeway[u] \in Nat
            BY DistributionAssumption
      <2>4. Sec(TTL[u]) > Sec(Rotation[u]) + MaxLag + JobPeriod + MaxDelay
                              + Cache[u] + TokenTTL[u] + Leeway[u]
            BY DEF SufficientTTL
      <2> QED BY <2>1, <2>2, <2>3, <2>4 DEF Sec
<1>4. k \in keys' /\ k.usage = u /\ Active(k, clock')
      /\ \A m \in Matching(keys', u, clock') : m.createdAt =< k.createdAt
      BY DEF MainKeys, Newest, Matching
<1>5. CASE Rotate
      <2>1. PICK lag \in 0..MaxLag :
                \E batch \in Batches(keys, clock, clock - lag) : keys' = keys \cup batch
            BY <1>5 DEF Rotate
      <2>2. PICK batch \in Batches(keys, clock, clock - lag) : keys' = keys \cup batch
            BY <2>1
      <2>3. clock' = clock /\ lastRun' = clock
            BY <1>5 DEF Rotate
      <2>4. Publishes(keys, batch, clock, clock - lag)
            BY <1>1, RotatePublishes
      <2>5. k.createdAt \in Int
            BY <1>1, <1>4, <2>2, <2>4 DEF Publishes, Row
      <2>6. CASE u \in DueUsages(keys, clock, clock - lag)
            <3>1. PICK n \in batch : n.usage = u
                  BY <2>4, <2>6 DEF Publishes
            <3>2. /\ n.createdAt = Round(clock - lag) /\ n.deletedAt = {}
                  /\ n.expiresAt = n.createdAt + Sec(TTL[u])
                  BY <2>4, <3>1 DEF Publishes
            <3>3. clock - lag \in Int /\ lag =< MaxLag /\ lag \in Int
                  BY <1>1, <1>3
            <3>4. n.createdAt \in Int /\ n.createdAt >= clock - lag - 1
                  BY <3>2, <3>3, RoundNear
            <3>5. n.expiresAt > clock
                  BY <1>1, <1>3, <3>2, <3>3, <3>4
            <3>6. n \in Matching(keys', u, clock')
                  BY <2>2, <2>3, <3>1, <3>2, <3>5 DEF Matching, Active
            <3>7. n.createdAt =< k.createdAt
                  BY <1>4, <3>6
            <3> QED BY <1>1, <1>3, <2>3, <2>5, <3>3, <3>4, <3>7
      <2>7. CASE u \notin DueUsages(keys, clock, clock - lag)
            <3>1. PICK m \in MainKeys(keys, u, clock) :
                      ~((clock - lag) - m.createdAt >= Sec(Rotation[u]))
                  BY <2>7 DEF DueUsages
            <3>2. m \in Matching(keys', u, clock') /\ m \in Row
                  BY <1>1, <2>2, <2>3, <3>1 DEF MainKeys, Newest, Matching
            <3>3. m.createdAt =< k.createdAt /\ m.createdAt \in Int
                  BY <1>4, <3>2 DEF Row
            <3> QED BY <1>1, <1>3, <2>3, <2>5, <3>1, <3>3
      <2> QED BY <2>6, <2>7
<1>6. CASE ~Rotate
      <2>1. k \in keys /\ k \in Row /\ k.createdAt \in Int
            BY <1>1, <1>2, <1>4, <1>6, RowsOfUsage DEF Row
      <2>2. lastRun' = lastRun
            BY <1>6 DEF Next, Tick, Revoke, Fetch, Store, FetchEnds, FetchFails,
                        Restart, Sign, vars
      <2>3. k \in Matching(keys, u, clock)
            BY <1>1, <1>4, <2>1, ActiveEarlier DEF Matching
      <2>4. ASSUME NEW m \in Matching(keys, u, clock), m.createdAt > k.createdAt
            PROVE  FALSE
            <3>1. m \in keys /\ m.usage = u /\ m \in Row /\ m.createdAt \in Int
                  BY <1>1 DEF Matching, Row
            <3>2. m.deletedAt = {}
                  BY <1>2, <3>1 DEF NoneRevoked
            <3>3. Active(m, clock')
                  BY <1>1, <1>4, <2>1, <2>4, <3>1, <3>2, NewerServed
            <3>4. m \in keys'
                  BY <1>1, <1>6, <3>1, RowsOfUsage
            <3> QED BY <1>4, <2>1, <2>4, <3>1, <3>3, <3>4 DEF Matching
      <2>5. \A m \in Matching(keys, u, clock) : m.createdAt =< k.createdAt
            <3>1. \A m \in Matching(keys, u, clock) : m.createdAt \in Int
                  BY <1>1 DEF Matching, Row
            <3> QED BY <2>1, <2>4, <3>1
      <2>6. k \in MainKeys(keys, u, clock)
            BY <2>3, <2>5 DEF MainKeys, Newest
      <2> QED BY <1>2, <2>2, <2>6 DEF MainYoung
<1> QED BY <1>5, <1>6

YoungInv == TrustInv /\ TableInv /\ JobInv /\ MainYoung

\* The first key of a list that is just read is the main key.
LEMMA ListedFirst ==
    ASSUME NEW u, NEW list \in Listings(keys, u, clock, BatchSize), NEW k \in Newest(list)
    PROVE  k \in MainKeys(keys, u, clock)
BY DEF Listings, MainKeys, Newest, Matching

LEMMA ReadYoung ==
    ASSUME YoungInv, NEW u \in Usage, NoneRevoked(u),
           NEW list \in Listings(keys, u, clock, BatchSize), NEW k \in Newest(list)
    PROVE  YoungAt(k, u, clock)
<1>1. k \in MainKeys(keys, u, clock) /\ k \in Row
      BY ListedFirst DEF YoungInv, TableInv, TypeOK, MainKeys, Newest, Matching
<1>2. k.createdAt + Sec(Rotation[u]) + MaxLag > lastRun
      BY <1>1 DEF YoungInv, MainYoung
<1>3. /\ k.createdAt \in Int /\ Sec(Rotation[u]) \in Int /\ MaxLag \in Int
      /\ lastRun \in Int /\ clock \in Int /\ JobPeriod \in Int
      BY <1>1, ConfigAssumption, DistributionAssumption
         DEF YoungInv, TableInv, TypeOK, Row, Sec
<1> QED BY <1>2, <1>3 DEF YoungInv, JobInv, YoungAt

LEMMA YoungEarlier ==
    ASSUME NEW k \in Row, NEW u \in Usage, NEW s \in Int, NEW t \in Int, s =< t,
           YoungAt(k, u, t)
    PROVE  YoungAt(k, u, s)
<1>1. /\ k.createdAt \in Int /\ Sec(Rotation[u]) \in Int
      /\ MaxLag \in Int /\ JobPeriod \in Int
      BY ConfigAssumption, DistributionAssumption DEF Row, Sec
<1> QED BY <1>1 DEF YoungAt

LEMMA ListsYoungNext == YoungInv /\ ListsYoung /\ [Next]_vars => ListsYoung'
<1> SUFFICES ASSUME YoungInv, ListsYoung, [Next]_vars,
                    NEW h \in Holder, NEW u \in Usage, NoneRevoked(u)'
             PROVE  /\ \A f \in fetch'[h][u] : \A k \in Newest(f.list) : YoungAt(k, u, f.at)
                    /\ \A e \in cache'[h][u] : \A k \in Newest(e.list) :
                          YoungAt(k, u, e.at - MaxDelay)
    BY DEF ListsYoung, YoungAt
<1>1. /\ TypeOK /\ TypeOK' /\ TrustInv /\ NoneRevoked(u)
      /\ clock \in Int /\ MaxDelay \in Nat
      BY DistributionNextType, RevokedStays, DistributionAssumption DEF YoungInv,
                                                                        TrustInv, TypeOK
<1>2. ASSUME NEW f \in fetch'[h][u], NEW k \in Newest(f.list)
      PROVE  YoungAt(k, u, f.at)
      <2>1. CASE f \in fetch[h][u]
            BY <1>1, <1>2, <2>1 DEF ListsYoung
      <2>2. CASE f \notin fetch[h][u]
            <3>1. Fetch(h, u)
                  BY <1>1, <1>2, <2>2, AnswersFetched
            <3>2. PICK list \in Listings(keys, u, clock, BatchSize) :
                      fetch' = [fetch EXCEPT ![h][u] = {[list |-> list, at |-> clock]}]
                  BY <3>1 DEF Fetch
            <3>3. f = [list |-> list, at |-> clock]
                  BY <1>1, <1>2, <3>1, <3>2 DEF Fetch, TypeOK
            <3> QED BY <1>1, <1>2, <3>2, <3>3, ReadYoung
      <2> QED BY <2>1, <2>2
<1>3. ASSUME NEW e \in cache'[h][u], NEW k \in Newest(e.list)
      PROVE  YoungAt(k, u, e.at - MaxDelay)
      <2>1. CASE e \in cache[h][u]
            BY <1>1, <1>3, <2>1 DEF ListsYoung
      <2>2. CASE e \notin cache[h][u]
            <3>1. Store(h, u)
                  BY <1>1, <1>3, <2>2, EntriesStored
            <3>2. PICK f \in fetch[h][u] :
                      cache' = [cache EXCEPT ![h][u] = {[list |-> f.list, at |-> clock]}]
                  BY <3>1 DEF Store, FetchEnds
            <3>3. e = [list |-> f.list, at |-> clock]
                  BY <1>1, <1>3, <3>1, <3>2 DEF Store, FetchEnds, TypeOK
            <3>4. f.at \in Int /\ clock =< f.at + MaxDelay
                  BY <1>1, <3>2, SourceOf
            <3>5. YoungAt(k, u, f.at) /\ k \in Row
                  BY <1>1, <1>3, <3>2, <3>3 DEF ListsYoung, TypeOK, Entry, Newest
            <3>6. clock - MaxDelay \in Int /\ clock - MaxDelay =< f.at
                  BY <1>1, <3>4
            <3> QED BY <3>3, <3>4, <3>5, <3>6, YoungEarlier
      <2> QED BY <2>1, <2>2
<1> QED BY <1>2, <1>3

\* A row keeps its identity, its usage and its date.
LEMMA RowStays ==
    ASSUME TypeOK, [Next]_vars, NEW k \in keys
    PROVE  \E m \in keys' : m.id = k.id /\ m.usage = k.usage /\ m.createdAt = k.createdAt
<1>1. CASE k \in keys'
      BY <1>1
<1>2. ASSUME NEW n \in keys, Revoke(n), k \notin keys'
      PROVE  \E m \in keys' : m.id = k.id /\ m.usage = k.usage /\ m.createdAt = k.createdAt
      <2>1. k = n /\ RevokedRow(k, clock) \in keys'
            BY <1>2 DEF Revoke
      <2>2. k \in Row /\ clock \in Int
            BY DEF TypeOK
      <2> QED BY <2>1, <2>2, RevokedIsRow
<1>3. k \in keys' \/ \E n \in keys : Revoke(n)
      BY DEF Next, Tick, Rotate, Fetch, Store, FetchEnds, FetchFails, Restart, Sign, vars
<1> QED BY <1>1, <1>2, <1>3

LEMMA TokensYoungNext ==
    YoungInv /\ ListsYoung /\ TokensYoung /\ [Next]_vars => TokensYoung'
<1> SUFFICES ASSUME YoungInv, ListsYoung, TokensYoung, [Next]_vars, NEW tok \in tokens'
             PROVE  /\ tok.issuedAt =< clock'
                    /\ tok.expiresAt = tok.issuedAt + TokenTTL[tok.usage]
                    /\ \E k \in keys' :
                          /\ SignedWith(tok, k)
                          /\ k.usage = tok.usage
                          /\ NoneRevoked(tok.usage)' =>
                                 YoungAt(k, tok.usage, tok.issuedAt - Staleness(tok.usage))
    BY DEF TokensYoung, SignedWith, YoungAt
<1>1. /\ TypeOK /\ TrustInv
      /\ clock \in Int /\ clock' \in Int /\ clock =< clock'
      BY ClockSteps DEF YoungInv, TrustInv
<1>2. CASE tok \in tokens
      <2>1. PICK k \in keys :
                /\ SignedWith(tok, k)
                /\ k.usage = tok.usage
                /\ NoneRevoked(tok.usage) =>
                       YoungAt(k, tok.usage, tok.issuedAt - Staleness(tok.usage))
            BY <1>2 DEF TokensYoung
      <2>2. PICK m \in keys' : m.id = k.id /\ m.usage = k.usage /\ m.createdAt = k.createdAt
            BY <1>1, RowStays
      <2>3. NoneRevoked(tok.usage)' =>
                YoungAt(m, tok.usage, tok.issuedAt - Staleness(tok.usage))
            BY <1>1, <2>1, <2>2, RevokedStays DEF YoungAt
      <2>4. /\ tok.issuedAt =< clock /\ tok.issuedAt \in Int
            /\ tok.expiresAt = tok.issuedAt + TokenTTL[tok.usage]
            BY <1>1, <1>2 DEF TokensYoung, TypeOK, Token
      <2> QED BY <1>1, <2>1, <2>2, <2>3, <2>4 DEF SignedWith
<1>3. CASE tok \notin tokens
      <2>1. PICK s \in Signer, u \in Usage : Sign(s, u)
            BY <1>3 DEF Next, Tick, Rotate, Revoke, Fetch, Store, FetchEnds,
                        FetchFails, Restart, vars
      <2>2. PICK e \in cache[s][u] :
                /\ Fresh(e, u)
                /\ \E k \in Newest(e.list) :
                      tokens' = tokens \cup {[usage     |-> u,
                                              kid       |-> k.id,
                                              issuedAt  |-> clock,
                                              expiresAt |-> clock + TokenTTL[u]]}
            BY <2>1 DEF Sign
      <2>3. PICK k \in Newest(e.list) :
                tokens' = tokens \cup {[usage     |-> u,
                                        kid       |-> k.id,
                                        issuedAt  |-> clock,
                                        expiresAt |-> clock + TokenTTL[u]]}
            BY <2>2
      <2>4. /\ tok.usage = u /\ tok.kid = k.id /\ tok.issuedAt = clock
            /\ tok.expiresAt = clock + TokenTTL[u]
            BY <1>3, <2>3
      <2>5. keys' = keys /\ clock' = clock
            BY <2>1 DEF Sign
      <2>6. s \in Holder
            BY DEF Holder
      <2>7. k \in Row
            BY <1>1, <2>2, <2>3, <2>6 DEF Newest, TypeOK, Entry
      <2>8. PICK r \in keys : r.id = k.id /\ r.usage = u /\ r.createdAt = k.createdAt
            <3>1. Known(e.list, u, clock - Staleness(u))
                  BY <1>1, <2>2, <2>6, FreshSince
            <3> QED BY <2>3, <3>1 DEF Known, Backed, Newest
      <2>9. ASSUME NoneRevoked(u)'
            PROVE  YoungAt(r, u, clock - Staleness(u))
            <3>1. NoneRevoked(u)
                  BY <1>1, <2>9, RevokedStays
            <3>2. YoungAt(k, u, e.at - MaxDelay)
                  BY <2>2, <2>3, <2>6, <3>1 DEF ListsYoung
            <3>3. /\ e.at - MaxDelay \in Int /\ clock - Staleness(u) \in Int
                  /\ clock - Staleness(u) =< e.at - MaxDelay
                  <4>1. e.at \in Int /\ Cache[u] \in Int /\ MaxDelay \in Int
                        BY <1>1, <2>2, <2>6, SourceOf, DistributionAssumption
                  <4> QED BY <1>1, <2>2, <4>1 DEF Staleness, Fresh
            <3>4. YoungAt(k, u, clock - Staleness(u))
                  BY <2>7, <3>2, <3>3, YoungEarlier
            <3> QED BY <2>8, <3>4 DEF YoungAt
      <2> QED BY <1>1, <2>4, <2>5, <2>8, <2>9 DEF SignedWith
<1> QED BY <1>2, <1>3

-----------------------------------------------------------------------------
(* Keys outlive their tokens *)

\* A token in time was signed with a key that is served: its life covers its reign, the
\* staleness of the signer and the life of the token.
LEMMA TokenServed ==
    ASSUME SufficientTTL, TableInv, TokensYoung,
           NEW tok \in tokens, InTime(tok), NoneRevoked(tok.usage),
           NEW k \in keys, SignedWith(tok, k)
    PROVE  k \in Matching(keys, tok.usage, clock)
<1> DEFINE u == tok.usage
<1>1. /\ u \in Usage /\ tok.issuedAt \in Int /\ clock \in Int
      /\ k \in Row /\ k.createdAt \in Int /\ UniqueIds(keys)
      BY DEF TableInv, TypeOK, Token, Row
<1>2. k.usage = u /\ YoungAt(k, u, tok.issuedAt - Staleness(u))
      BY <1>1 DEF TokensYoung, SignedWith, UniqueIds
<1>3. k.deletedAt = {} /\ k.expiresAt = k.createdAt + Sec(TTL[u])
      BY <1>2 DEF NoneRevoked, TableInv, RowsInv, Stored
<1>4. clock =< tok.issuedAt + TokenTTL[u] + Leeway[u]
      BY DEF InTime, TokensYoung
<1>5. Sec(TTL[u]) > Sec(Rotation[u]) + MaxLag + JobPeriod + MaxDelay
                        + Cache[u] + TokenTTL[u] + Leeway[u]
      BY <1>1 DEF SufficientTTL
<1>6. /\ Sec(TTL[u]) \in Int /\ Sec(Rotation[u]) \in Int
      /\ MaxLag \in Int /\ JobPeriod \in Int /\ MaxDelay \in Int
      /\ Cache[u] \in Int /\ TokenTTL[u] \in Int /\ Leeway[u] \in Int
      BY <1>1, ConfigAssumption, DistributionAssumption DEF Sec
<1>7. k.createdAt + Sec(Rotation[u]) + MaxLag + JobPeriod
          > tok.issuedAt - (Cache[u] + MaxDelay)
      BY <1>2 DEF YoungAt, Staleness
<1> HIDE DEF u
<1>8. k.createdAt + Sec(TTL[u]) > clock
      BY <1>1, <1>4, <1>5, <1>6, <1>7
<1> QED BY <1>2, <1>3, <1>8 DEF Matching, Active, u

\* So whatever list is read holds it.
LEMMA TokenListed ==
    ASSUME BatchFits, SufficientTTL, TableInv, TokensYoung,
           NEW tok \in tokens, InTime(tok), NoneRevoked(tok.usage),
           NEW list \in Listings(keys, tok.usage, clock, BatchSize)
    PROVE  /\ \A k \in keys : SignedWith(tok, k) => k \in list
           /\ \E k \in list : k.id = tok.kid
<1>1. tok.usage \in Usage
      BY DEF TableInv, TypeOK, Token
<1>2. list = Matching(keys, tok.usage, clock)
      BY <1>1, ListsComplete
<1>3. \A k \in keys : SignedWith(tok, k) => k \in list
      BY <1>2, TokenServed
<1>4. PICK k \in keys : SignedWith(tok, k)
      BY DEF TokensYoung
<1> QED BY <1>3, <1>4 DEF SignedWith

LEMMA ListsHoldNext ==
    ASSUME BatchFits, SufficientTTL
    PROVE  YoungInv /\ TokensYoung /\ ListsHold /\ [Next]_vars => ListsHold'
<1> SUFFICES ASSUME YoungInv, TokensYoung, ListsHold, [Next]_vars,
                    NEW h \in Holder, NEW tok \in tokens',
                    NoneRevoked(tok.usage)', InTime(tok)'
             PROVE  /\ \A f \in fetch'[h][tok.usage] :
                          tok.issuedAt < f.at => Holds(f, tok.kid)
                    /\ \A e \in cache'[h][tok.usage] :
                          tok.issuedAt < e.at - MaxDelay => Holds(e, tok.kid)
    BY DEF ListsHold, Holds
<1> DEFINE u == tok.usage
<1>1. /\ TypeOK /\ TypeOK' /\ TrustInv /\ TableInv
      /\ clock \in Int /\ clock' \in Int /\ clock =< clock' /\ MaxDelay \in Nat
      BY ClockSteps, DistributionNextType, DistributionAssumption DEF YoungInv, TrustInv
<1>2. /\ u \in Usage /\ tok.issuedAt \in Int /\ tok.expiresAt \in Int
      /\ Leeway[u] \in Int
      BY <1>1, DistributionAssumption DEF TypeOK, Token
<1>3. NoneRevoked(u) /\ InTime(tok)
      <2>1. clock' =< tok.expiresAt + Leeway[u]
            BY DEF InTime
      <2>2. clock =< tok.expiresAt + Leeway[u]
            BY <1>1, <1>2, <2>1
      <2> QED BY <1>1, <2>2, RevokedStays DEF InTime
<1>4. CASE tok \in tokens
      <2>1. ASSUME NEW f \in fetch'[h][u], tok.issuedAt < f.at
            PROVE  Holds(f, tok.kid)
            <3>1. CASE f \in fetch[h][u]
                  BY <1>3, <1>4, <2>1, <3>1 DEF ListsHold
            <3>2. CASE f \notin fetch[h][u]
                  <4>1. Fetch(h, u)
                        BY <1>1, <1>2, <2>1, <3>2, AnswersFetched
                  <4>2. PICK list \in Listings(keys, u, clock, BatchSize) :
                            fetch' = [fetch EXCEPT ![h][u] = {[list |-> list, at |-> clock]}]
                        BY <4>1 DEF Fetch
                  <4>3. f.list = list
                        BY <1>1, <1>2, <2>1, <4>1, <4>2 DEF Fetch, TypeOK
                  <4> QED BY <1>1, <1>3, <1>4, <4>2, <4>3, TokenListed DEF Holds
            <3> QED BY <3>1, <3>2
      <2>2. ASSUME NEW e \in cache'[h][u], tok.issuedAt < e.at - MaxDelay
            PROVE  Holds(e, tok.kid)
            <3>1. CASE e \in cache[h][u]
                  BY <1>3, <1>4, <2>2, <3>1 DEF ListsHold
            <3>2. CASE e \notin cache[h][u]
                  <4>1. Store(h, u)
                        BY <1>1, <1>2, <2>2, <3>2, EntriesStored
                  <4>2. PICK f \in fetch[h][u] :
                            cache' = [cache EXCEPT ![h][u] = {[list |-> f.list, at |-> clock]}]
                        BY <4>1 DEF Store, FetchEnds
                  <4>3. e = [list |-> f.list, at |-> clock]
                        BY <1>1, <1>2, <2>2, <4>1, <4>2 DEF Store, FetchEnds, TypeOK
                  <4>4. f.at \in Int /\ clock =< f.at + MaxDelay
                        BY <1>1, <1>2, <4>2, SourceOf
                  <4>5. tok.issuedAt < f.at
                        BY <1>1, <1>2, <2>2, <4>3, <4>4
                  <4> QED BY <1>3, <1>4, <4>2, <4>3, <4>5 DEF ListsHold, Holds
            <3> QED BY <3>1, <3>2
      <2> QED BY <2>1, <2>2
<1>5. CASE tok \notin tokens
      <2>1. PICK s \in Signer, v \in Usage : Sign(s, v)
            BY <1>5 DEF Next, Tick, Rotate, Revoke, Fetch, Store, FetchEnds,
                        FetchFails, Restart, vars
      <2>2. tok.issuedAt = clock /\ fetch' = fetch /\ cache' = cache
            BY <1>5, <2>1 DEF Sign
      <2>3. /\ \A f \in fetch[h][u] : f.at \in Int /\ f.at =< clock
            /\ \A e \in cache[h][u] : e.at \in Int /\ e.at =< clock
            BY <1>1, <1>2, SourceOf DEF Known
      <2> QED BY <1>1, <2>2, <2>3
<1> QED BY <1>4, <1>5

YoungLists == YoungInv /\ ListsYoung /\ TokensYoung /\ ListsHold

LEMMA YoungInvariant ==
    ASSUME BatchFits, SufficientTTL
    PROVE  Spec => []YoungLists
<1>1. Init => JobInv /\ MainYoung /\ ListsYoung /\ TokensYoung /\ ListsHold
      <2> SUFFICES ASSUME Init
                   PROVE  JobInv /\ MainYoung /\ ListsYoung /\ TokensYoung /\ ListsHold
          OBVIOUS
      <2>1. JobInv
            BY DistributionAssumption DEF Init, JobInv
      <2>2. MainYoung
            BY DEF Init, MainYoung, MainKeys, Newest, Matching
      <2>3. ListsYoung /\ TokensYoung /\ ListsHold
            BY DEF Init, ListsYoung, TokensYoung, ListsHold
      <2> QED BY <2>1, <2>2, <2>3
<1>2. TableInv /\ JobInv /\ [Next]_vars => JobInv'
      BY JobNext DEF TableInv
<1>3. TableInv /\ MainYoung /\ [Next]_vars => MainYoung'
      BY MainYoungNext
<1>4. YoungInv /\ ListsYoung /\ [Next]_vars => ListsYoung'
      BY ListsYoungNext
<1>5. YoungInv /\ ListsYoung /\ TokensYoung /\ [Next]_vars => TokensYoung'
      BY TokensYoungNext
<1>6. YoungInv /\ TokensYoung /\ ListsHold /\ [Next]_vars => ListsHold'
      BY ListsHoldNext
<1> QED BY <1>1, <1>2, <1>3, <1>4, <1>5, <1>6, TrustInvariant, TableInvariant, PTL
        DEF Spec, YoungInv, YoungLists

\* A token that is still in time can be verified: whatever list a verifier is given, it
\* holds the key the token was signed with.
THEOREM TokensOutlived == ASSUME BatchFits PROVE Spec => []TokenOutlivedByKey
<1>1. CASE SufficientTTL
      <2>1. YoungLists => TokenOutlivedByKey
            <3> SUFFICES ASSUME YoungLists, NEW tok \in tokens, InTime(tok),
                                NoneRevoked(tok.usage), NEW k \in keys, SignedWith(tok, k),
                                NEW list \in Listings(keys, tok.usage, clock, BatchSize)
                         PROVE  k \in list
                BY DEF TokenOutlivedByKey
            <3> QED BY <1>1, TokenListed DEF YoungLists, YoungInv
      <2> QED BY <1>1, <2>1, YoungInvariant, PTL
<1>2. CASE ~SufficientTTL
      <2>1. TokenOutlivedByKey
            BY <1>2 DEF TokenOutlivedByKey
      <2> QED BY <2>1, PTL
<1> QED BY <1>1, <1>2

\* A token in time is turned away only while its verifier's last fetch is unanswered, or by
\* a verifier that fetched just before it was issued: within one interval, plus the time the
\* fetch took.
THEOREM TurnedAwayOnlyForCause == ASSUME BatchFits PROVE Spec => []TurnedAwayForCause
<1>1. CASE SufficientTTL
      <2>1. YoungLists => TurnedAwayForCause
            <3> SUFFICES ASSUME YoungLists, NEW v \in Verifier, NEW tok \in tokens,
                                NoneRevoked(tok.usage), Rejects(v, tok.usage, tok),
                                InTime(tok), ~Unanswered(v, tok.usage)
                         PROVE  clock < tok.issuedAt + Retry[tok.usage] + MaxDelay
                BY DEF TurnedAwayForCause
            <3>1. /\ v \in Holder /\ tok.usage \in Usage /\ tok.issuedAt \in Int
                  /\ clock \in Int /\ TypeOK /\ TrustInv
                  BY DEF Holder, YoungLists, YoungInv, TableInv, TypeOK, Token
            \* No fetch has failed within the interval: it is too early since an answer.
            <3>2. UnknownKid(v, tok.usage, tok)
                  BY DEF Rejects, LookupFailed, Unanswered
            <3>3. PICK e \in cache[v][tok.usage] : ~Holds(e, tok.kid)
                  BY <3>2 DEF UnknownKid
            <3>4. clock < e.at + Retry[tok.usage]
                  <4>1. PICK t \in {f.at : f \in cache[v][tok.usage]} \cup failed[v][tok.usage] :
                            clock < t + Retry[tok.usage]
                        BY <3>2 DEF UnknownKid, Throttled
                  <4>2. t \notin failed[v][tok.usage]
                        BY <4>1 DEF Unanswered
                  <4>3. \A f \in cache[v][tok.usage] : f = e
                        BY <3>1, <3>3 DEF TypeOK
                  <4> QED BY <4>1, <4>2, <4>3
            <3>5. ~(tok.issuedAt < e.at - MaxDelay)
                  BY <3>1, <3>3 DEF YoungLists, ListsHold
            <3>6. e.at \in Int /\ MaxDelay \in Int /\ Retry[tok.usage] \in Int
                  BY <3>1, <3>3, SourceOf, DistributionAssumption
            <3> QED BY <3>1, <3>4, <3>5, <3>6
      <2> QED BY <1>1, <2>1, YoungInvariant, PTL
<1>2. CASE ~SufficientTTL
      <2>1. TurnedAwayForCause
            BY <1>2 DEF TurnedAwayForCause
      <2> QED BY <2>1, PTL
<1> QED BY <1>1, <1>2

=============================================================================
