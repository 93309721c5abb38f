--------------------------- MODULE KeyTableLemmas ---------------------------
(***************************************************************************)
(* What the operators of KeyTable compute, for every value of the          *)
(* constants.                                                              *)
(***************************************************************************)
EXTENDS KeyTable, FiniteSetTheorems, TLAPS

\* A timestamp(0) column moves an instant by at most one tick.
LEMMA RoundNear ==
    ASSUME NEW t \in Int
    PROVE  Round(t) \in Int /\ t - 1 =< Round(t) /\ Round(t) =< t + 1
BY DEF Round, Sec

\* It stores earlier instants earlier.
LEMMA RoundMonotone ==
    ASSUME NEW s \in Int, NEW t \in Int, s =< t
    PROVE  Round(s) =< Round(t)
BY DEF Round, Sec

\* It commutes with a delay of whole seconds.
LEMMA RoundShift ==
    ASSUME NEW t \in Int, NEW n \in Int
    PROVE  Round(t + Sec(n)) = Round(t) + Sec(n)
BY DEF Round, Sec

\* A whole number of seconds after a stored instant is a stored instant.
LEMMA RoundFixed ==
    ASSUME NEW t \in Int, NEW n \in Int
    PROVE  Round(Round(t) + Sec(n)) = Round(t) + Sec(n)
BY DEF Round, Sec

\* A key that is served later was served before.
LEMMA ActiveEarlier ==
    ASSUME NEW k \in Row, NEW s \in Int, NEW t \in Int, s =< t, Active(k, t)
    PROVE  Active(k, s)
BY DEF Active, Row

\* A key that outlives another is served as long as that is, unless it is revoked.
LEMMA NewerServed ==
    ASSUME NEW k \in Row, NEW m \in Row, Stored(k), Stored(m), k.usage \in Usage,
           k.usage = m.usage, k.createdAt =< m.createdAt, m.deletedAt = {},
           NEW t \in Int, Active(k, t)
    PROVE  Active(m, t)
<1>1. Sec(TTL[k.usage]) \in Int
      BY ConfigAssumption DEF Sec
<1> QED BY <1>1 DEF Active, Stored, Row

\* A row that a revocation wrote is served only if the row it replaces was.
LEMMA RevokedWasActive ==
    ASSUME NEW k \in Row, NEW t \in Int, NEW d, Revocable(k, t), Active([k EXCEPT !.deletedAt = d], t)
    PROVE  Active(k, t)
BY DEF Active, Row, Revocable

\* The row a run inserts, and how late it expires at least.
LEMMA NewRowIsRow ==
    ASSUME NEW id \in KeyId, NEW u \in Usage, NEW t \in Int
    PROVE  /\ NewRow(id, u, t) \in Row
           /\ NewRow(id, u, t).id = id
           /\ NewRow(id, u, t).usage = u
           /\ TTL[u] > 0 => Active(NewRow(id, u, t), t)
<1>1. TTL[u] \in Int
      BY ConfigAssumption
<1>2. /\ Round(t) \in Int
      /\ Round(t + Sec(TTL[u])) \in Int
      /\ Round(t + Sec(TTL[u])) >= t + Sec(TTL[u]) - 1
      BY <1>1, RoundNear DEF Sec
<1> QED BY <1>1, <1>2 DEF NewRow, Row, Active, Sec

\* The row a run inserts is a row, rounded as the columns round it.
LEMMA NewRowStored ==
    ASSUME NEW id \in KeyId, NEW u \in Usage, NEW t \in Int
    PROVE  /\ NewRow(id, u, t) \in Row
           /\ Stored(NewRow(id, u, t))
<1>1. TTL[u] \in Int
      BY ConfigAssumption
<1>2. Round(t) \in Int /\ Round(t + Sec(TTL[u])) = Round(t) + Sec(TTL[u])
      BY <1>1, RoundNear, RoundShift
<1>3. Sec(TTL[u]) \in Int /\ Sec(0) = 0
      BY <1>1 DEF Sec
<1>4. Round(Round(t)) = Round(t)
      BY <1>2, <1>3, RoundFixed
<1> QED BY <1>2, <1>3, <1>4 DEF NewRow, Row, Stored

\* The row a revocation writes is a row, rounded as the columns round it.
LEMMA RevokedRowStored ==
    ASSUME NEW k \in Row, Stored(k), NEW t \in Int
    PROVE  /\ RevokedRow(k, t) \in Row
           /\ Stored(RevokedRow(k, t))
           /\ RevokedRow(k, t).id = k.id
           /\ RevokedRow(k, t).usage = k.usage
           /\ RevokedRow(k, t).createdAt = k.createdAt
           /\ RevokedRow(k, t).expiresAt = k.expiresAt
           /\ RevokedRow(k, t).deletedAt = {Round(t)}
<1>1. Round(t) \in Int /\ Round(Round(t)) = Round(t)
      <2>1. Round(t) \in Int /\ Sec(0) = 0
            BY RoundNear DEF Sec
      <2> QED BY <2>1, RoundFixed
<1> QED BY <1>1 DEF RevokedRow, Row, Stored

\* A batch gives the table rows of its own, each with an identity of its own.
LEMMA BatchRows ==
    ASSUME NEW rows \in SUBSET Row, UniqueIds(rows), NEW t \in Int, NEW now \in Int,
           NEW batch \in Batches(rows, t, now)
    PROVE  /\ batch \subseteq Row
           /\ UniqueIds(rows \cup batch)
           /\ \A k \in batch : k.id \notin {m.id : m \in rows}
           /\ \A k \in batch : TTL[k.usage] > 0 => Active(k, now)
<1> DEFINE due    == DueUsages(rows, t, now)
           unused == KeyId \ {k.id : k \in rows}
<1>1. due \subseteq Usage
      BY DEF DueUsages
<1>2. PICK id \in [due -> unused] :
            /\ \A u, v \in due : id[u] = id[v] => u = v
            /\ batch = {NewRow(id[u], u, now) : u \in due}
      BY DEF Batches
<1>3. ASSUME NEW u \in due
      PROVE  /\ NewRow(id[u], u, now) \in Row
             /\ NewRow(id[u], u, now).id = id[u]
             /\ NewRow(id[u], u, now).usage = u
             /\ TTL[u] > 0 => Active(NewRow(id[u], u, now), now)
             /\ id[u] \in unused
      BY <1>1, NewRowIsRow
<1>4. batch \subseteq Row /\ \A k \in batch : k.id \notin {m.id : m \in rows}
      BY <1>2, <1>3
<1>5. UniqueIds(rows \cup batch)
      BY <1>2, <1>3, <1>4 DEF UniqueIds
<1> QED BY <1>2, <1>3, <1>4, <1>5

\* A revocation changes nothing of a row but its deleted_at.
LEMMA RevokedIsRow ==
    ASSUME NEW k \in Row, NEW t \in Int
    PROVE  /\ RevokedRow(k, t) \in Row
           /\ RevokedRow(k, t).id = k.id
           /\ RevokedRow(k, t).usage = k.usage
           /\ RevokedRow(k, t).createdAt = k.createdAt
           /\ RevokedRow(k, t).expiresAt = k.expiresAt
           /\ RevokedRow(k, t).deletedAt = {Round(t)}
BY RoundNear DEF RevokedRow, Row

\* What a revocation leaves in the table.
LEMMA RevokedTable ==
    ASSUME NEW rows \in SUBSET Row, UniqueIds(rows), NEW k \in rows, NEW t \in Int
    PROVE  /\ (rows \ {k}) \cup {RevokedRow(k, t)} \in SUBSET Row
           /\ UniqueIds((rows \ {k}) \cup {RevokedRow(k, t)})
BY RevokedIsRow DEF UniqueIds

\* A key that is served at an instant is one that whatever was asked before it may
\* rely on.
LEMMA ActiveIsCurrent ==
    ASSUME NEW k \in Row, NEW s \in Int, NEW t \in Int, s =< t, Active(k, t)
    PROVE  CurrentAsOf(k, s)
<1>1. Round(s) \in Int /\ Round(s) =< s + 1
      BY RoundNear
<1> QED BY <1>1 DEF Active, CurrentAsOf, Row

\* A key that was relied on before its revocation still is.
LEMMA RevokedIsCurrent ==
    ASSUME NEW k \in Row, NEW s \in Int, NEW t \in Int, s =< t, CurrentAsOf(k, s)
    PROVE  CurrentAsOf(RevokedRow(k, t), s)
<1>1. Round(s) \in Int /\ Round(t) \in Int /\ Round(s) =< Round(t)
      BY RoundNear, RoundMonotone
<1> QED BY <1>1, RevokedIsRow DEF CurrentAsOf, Row

\* A key that what was read at an instant relies on is one that what was read before
\* relies on.
LEMMA CurrentEarlier ==
    ASSUME NEW k \in Row, NEW s \in Int, NEW t \in Int, s =< t, CurrentAsOf(k, t)
    PROVE  CurrentAsOf(k, s)
<1>1. Round(s) \in Int /\ Round(t) \in Int /\ Round(s) =< Round(t)
      BY RoundNear, RoundMonotone
<1> QED BY <1>1 DEF CurrentAsOf, Row

-----------------------------------------------------------------------------
(* Numbers and how many of them fit *)

\* A set of naturals has a smallest member, ...
LEMMA SmallestExists ==
    ASSUME NEW S \in SUBSET Nat, S # {}
    PROVE  \E m \in S : \A n \in S : m =< n
<1>1. PICK m \in S : \A n \in S : <<n, m>> \notin OpToRel(<, Nat)
      BY NatLessThanWellFounded, WFMin, Zenon
<1>2. \A n \in S : ~(n < m)
      BY <1>1, Zenon DEF OpToRel
<1>3. \A n \in S : m =< n
      BY <1>2
<1> QED BY <1>3

\* ... and a bounded set of integers a largest one.
LEMMA LargestExists ==
    ASSUME NEW S \in SUBSET Int, S # {}, NEW b \in Int, \A n \in S : n =< b
    PROVE  \E m \in S : \A n \in S : n =< m
<1> DEFINE below == {b - n : n \in S}
<1>1. \A n \in S : b - n \in Nat
      OBVIOUS
<1>2. below \in SUBSET Nat /\ below # {}
      BY <1>1
<1>3. PICK d \in below : \A e \in below : d =< e
      BY <1>2, SmallestExists
<1>4. PICK m \in S : d = b - m
      BY <1>3
<1>5. \A n \in S : b - m =< b - n
      BY <1>3, <1>4
<1>6. \A n \in S : n =< m
      BY <1>5
<1> QED BY <1>6

\* A finite set of integers has one too: take a member that the fewest exceed.
LEMMA LargestOfFinite ==
    ASSUME NEW S \in SUBSET Int, S # {}, IsFiniteSet(S)
    PROVE  \E m \in S : \A n \in S : n =< m
<1> DEFINE above(m) == {n \in S : n > m}
           counts   == {Cardinality(above(m)) : m \in S}
<1>1. ASSUME NEW m \in S
      PROVE  above(m) \in SUBSET S /\ IsFiniteSet(above(m)) /\ Cardinality(above(m)) \in Nat
      BY FS_Subset, FS_CardinalityType
<1>2. counts \in SUBSET Nat /\ counts # {}
      BY <1>1
<1>3. PICK c \in counts : \A d \in counts : c =< d
      BY <1>2, SmallestExists
<1>4. PICK m \in S : c = Cardinality(above(m))
      BY <1>3
<1>5. ASSUME NEW n \in S, n > m
      PROVE  FALSE
      <2>1. above(n) \in SUBSET above(m) /\ n \in above(m) /\ n \notin above(n)
            <3>1. \A x \in S : x > n => x > m
                  BY <1>5
            <3>2. n \in S /\ n > m /\ ~(n > n)
                  BY <1>5
            <3> QED BY <3>1, <3>2
      <2>2. /\ Cardinality(above(n)) =< Cardinality(above(m))
            /\ Cardinality(above(n)) # Cardinality(above(m))
            BY <1>1, <2>1, FS_Subset
      <2>3. /\ Cardinality(above(n)) \in Nat /\ Cardinality(above(m)) \in Nat
            /\ Cardinality(above(m)) =< Cardinality(above(n))
            BY <1>1, <1>3, <1>4
      <2> QED BY <2>2, <2>3
<1> QED BY <1>5

LEMMA Quotient ==
    ASSUME NEW a \in Nat, NEW w \in Nat \ {0}
    PROVE  /\ a \div w \in Nat
           /\ w * (a \div w) =< a
           /\ a < w * (a \div w) + w
OBVIOUS

\* Instants of an interval of length d that are w apart: each has a slot of length w to
\* itself.
LEMMA SpacedCount ==
    ASSUME NEW S, NEW at \in [S -> Int], NEW w \in Nat \ {0}, NEW lo \in Int, NEW d \in Nat,
           \A k \in S : lo =< at[k] /\ at[k] =< lo + d,
           \A k, m \in S : k # m => at[k] - at[m] >= w \/ at[m] - at[k] >= w
    PROVE  IsFiniteSet(S) /\ w * (Cardinality(S) - 1) =< d
<1> DEFINE last == d \div w
           slot == [k \in S |-> (at[k] - lo) \div w]
<1>1. /\ last \in Nat
      /\ w * last =< d
      /\ d < w * last + w
      BY Quotient
<1>2. ASSUME NEW k \in S
      PROVE  /\ slot[k] \in 0..last
             /\ w * slot[k] =< at[k] - lo
             /\ at[k] - lo < w * slot[k] + w
      <2>1. at[k] - lo \in Nat /\ at[k] - lo =< d
            OBVIOUS
      <2>2. /\ slot[k] \in Nat
            /\ w * slot[k] =< at[k] - lo
            /\ at[k] - lo < w * slot[k] + w
            BY <2>1, Quotient
      <2> HIDE DEF slot, last
      <2>3. w * slot[k] < w * (last + 1)
            BY <2>1, <2>2, <1>1
      <2>4. slot[k] =< last
            BY <2>2, <2>3, <1>1
      <2> QED BY <1>1, <2>2, <2>4
<1>3. slot \in [S -> 0..last]
      BY <1>2
<1>4. ASSUME NEW k \in S, NEW m \in S, slot[k] = slot[m]
      PROVE  k = m
      <2> HIDE DEF slot, last
      <2>1. /\ w * slot[k] \in Int
            /\ w * slot[k] =< at[k] - lo /\ at[k] - lo < w * slot[k] + w
            /\ w * slot[k] =< at[m] - lo /\ at[m] - lo < w * slot[k] + w
            BY <1>1, <1>2, <1>4
      <2> QED BY <2>1
<1>5. slot \in Injection(S, 0..last)
      BY <1>3, <1>4 DEF Injection, IsInjective
<1> HIDE DEF last
<1>6. IsFiniteSet(0..last) /\ Cardinality(0..last) = last + 1
      <2>1. 0 \in Int /\ last \in Int /\ ~(0 > last) /\ last - 0 + 1 = last + 1
            BY <1>1
      <2> QED BY <2>1, FS_Interval
<1>7. IsFiniteSet(S) /\ Cardinality(S) =< last + 1 /\ Cardinality(S) \in Nat
      BY <1>5, <1>6, FS_Injection, FS_CardinalityType
<1>8. Cardinality(S) - 1 \in Int /\ Cardinality(S) - 1 =< last
      BY <1>1, <1>7
<1>9. w * (Cardinality(S) - 1) =< w * last
      BY <1>1, <1>8
<1> QED BY <1>1, <1>7, <1>8, <1>9

-----------------------------------------------------------------------------
(* The lists of a usage *)

\* A list whose dates are bounded has a newest key.
LEMMA NewestExists ==
    ASSUME NEW list \in SUBSET Row, list # {}, NEW b \in Int,
           \A k \in list : k.createdAt =< b
    PROVE  Newest(list) # {}
<1> DEFINE dates == {k.createdAt : k \in list}
<1>1. dates \in SUBSET Int /\ dates # {} /\ \A n \in dates : n =< b
      BY DEF Row
<1>2. PICK m \in dates : \A n \in dates : n =< m
      BY <1>1, LargestExists
<1>3. PICK k \in list : k.createdAt = m
      BY <1>2
<1>4. \A l \in list : l.createdAt =< k.createdAt
      BY <1>2, <1>3
<1> QED BY <1>4 DEF Newest

\* So has a finite list.
LEMMA NewestOfFinite ==
    ASSUME NEW list \in SUBSET Row, list # {}, IsFiniteSet(list)
    PROVE  Newest(list) # {}
<1> DEFINE dates == {k.createdAt : k \in list}
           date  == [k \in list |-> k.createdAt]
<1>1. dates \in SUBSET Int /\ dates # {}
      BY DEF Row
<1>2. date \in Surjection(list, dates)
      BY DEF Surjection
<1>3. IsFiniteSet(dates)
      BY <1>2, FS_Surjection
<1>4. PICK m \in dates : \A n \in dates : n =< m
      BY <1>1, <1>3, LargestOfFinite
<1>5. PICK k \in list : k.createdAt = m
      BY <1>4
<1>6. \A l \in list : l.createdAt =< k.createdAt
      BY <1>4, <1>5
<1> QED BY <1>6 DEF Newest

\* Keys that are a rotation interval apart, dated by a clock up to ahead ticks fast and
\* rounded: those served at once are as many as a lifetime holds.
LEMMA ActiveCount ==
    ASSUME NEW rows \in SUBSET Row, NEW t \in Int, NEW u \in Usage, NEW ahead \in Int,
           Rotation[u] > 0, Sec(TTL[u]) + ahead >= 0,
           AllSpaced(rows, t),
           \A k \in rows : Stored(k),
           \A k \in Matching(rows, u, t) : k.createdAt =< t + ahead + 1
    PROVE  /\ IsFiniteSet(Matching(rows, u, t))
           /\ Sec(Rotation[u]) * (Cardinality(Matching(rows, u, t)) - 1)
                  =< Sec(TTL[u]) + ahead
<1> DEFINE S  == Matching(rows, u, t)
           at == [k \in S |-> k.createdAt]
           lo == t + 1 - Sec(TTL[u])
<1>1. /\ Sec(TTL[u]) \in Int /\ Sec(Rotation[u]) \in Nat \ {0}
      /\ Sec(TTL[u]) + ahead \in Nat /\ lo \in Int
      BY ConfigAssumption DEF Sec
<1>2. ASSUME NEW k \in S
      PROVE  /\ k \in Row /\ k \in rows /\ k.usage = u /\ Active(k, t) /\ k.createdAt \in Int
             /\ lo =< k.createdAt
             /\ k.createdAt =< lo + (Sec(TTL[u]) + ahead)
      <2>1. /\ k \in Row /\ k \in rows /\ k.usage = u /\ Active(k, t) /\ k.createdAt \in Int
            /\ k.createdAt =< t + ahead + 1
            BY DEF Matching, Row
      <2>2. k.createdAt + Sec(TTL[u]) > t
            BY <2>1 DEF Stored, Active
      <2> QED BY <1>1, <2>1, <2>2
<1>3. at \in [S -> Int] /\ \A k \in S : at[k] = k.createdAt
      BY <1>2
<1>4. \A k, m \in S : k # m => \/ k.createdAt - m.createdAt >= Sec(Rotation[u])
                               \/ m.createdAt - k.createdAt >= Sec(Rotation[u])
      BY <1>2 DEF AllSpaced, Spaced
<1> HIDE DEF S, at, lo
<1>5. /\ \A k \in S : lo =< at[k] /\ at[k] =< lo + (Sec(TTL[u]) + ahead)
      /\ \A k, m \in S : k # m => at[k] - at[m] >= Sec(Rotation[u])
                                  \/ at[m] - at[k] >= Sec(Rotation[u])
      BY <1>2, <1>3, <1>4
<1>6. /\ IsFiniteSet(S)
      /\ Sec(Rotation[u]) * (Cardinality(S) - 1) =< Sec(TTL[u]) + ahead
      BY <1>1, <1>3, <1>5, SpacedCount
<1> QED BY <1>6 DEF S

\* What a rotation dated now adds to rows at t: rows of their own, one for each usage that
\* is due, apart from every key that is served, so that every usage has a key.
Publishes(rows, batch, t, now) ==
    /\ (rows \cup batch) \ rows = batch
    /\ batch \subseteq Row
    /\ UniqueIds(rows \cup batch)
    /\ \A n \in batch : /\ Stored(n)
                        /\ n.createdAt = Round(now)
                        /\ n.deletedAt = {}
                        /\ n.expiresAt = n.createdAt + Sec(TTL[n.usage])
                        /\ n.usage \in DueUsages(rows, t, now)
    /\ \A n, m \in batch : n.usage = m.usage => n = m
    /\ \A u \in DueUsages(rows, t, now) : \E n \in batch : n.usage = u
    /\ \A n \in batch : \A k \in Matching(rows, n.usage, t) : Spaced(k, n)
    /\ \A u \in Usage : \E k \in rows \cup batch : k.usage = u

LEMMA BatchPublishes ==
    ASSUME NEW rows \in SUBSET Row, UniqueIds(rows), \A k \in rows : Stored(k),
           NEW b \in Int, \A k \in rows : k.createdAt =< b,
           NEW t \in Int, NEW now \in Int, NEW batch \in Batches(rows, t, now)
    PROVE  Publishes(rows, batch, t, now)
<1> DEFINE due    == DueUsages(rows, t, now)
           unused == KeyId \ {k.id : k \in rows}
<1>1. due \subseteq Usage
      BY DEF DueUsages
<1>2. PICK id \in [due -> unused] : batch = {NewRow(id[u], u, now) : u \in due}
      BY DEF Batches
<1>3. /\ batch \subseteq Row /\ UniqueIds(rows \cup batch)
      /\ \A k \in batch : k.id \notin {m.id : m \in rows}
      BY BatchRows
<1>4. ASSUME NEW u \in due
      PROVE  /\ NewRow(id[u], u, now).usage = u
             /\ NewRow(id[u], u, now).createdAt = Round(now)
             /\ NewRow(id[u], u, now).deletedAt = {}
             /\ Stored(NewRow(id[u], u, now))
      BY <1>1, NewRowStored DEF NewRow
<1>5. \A n \in batch : /\ Stored(n)
                       /\ n.createdAt = Round(now)
                       /\ n.deletedAt = {}
                       /\ n.expiresAt = n.createdAt + Sec(TTL[n.usage])
                       /\ n.usage \in due
      BY <1>2, <1>4 DEF Stored
<1>6. \A n, m \in batch : n.usage = m.usage => n = m
      BY <1>2, <1>4
<1>7. \A u \in due : \E n \in batch : n.usage = u
      BY <1>2, <1>4
<1>8. ASSUME NEW n \in batch, NEW k \in Matching(rows, n.usage, t)
      PROVE  Spaced(k, n)
      <2>1. Matching(rows, n.usage, t) \in SUBSET Row
            BY DEF Matching
      <2>2. PICK m \in Matching(rows, n.usage, t) :
                \A l \in Matching(rows, n.usage, t) : l.createdAt =< m.createdAt
            BY <2>1, NewestExists DEF Newest, Matching
      <2>3. now - m.createdAt >= Sec(Rotation[n.usage])
            <3>1. m \in MainKeys(rows, n.usage, t)
                  BY <2>2 DEF MainKeys, Newest
            <3> QED BY <1>5, <3>1 DEF DueUsages
      <2>4. /\ Rotation[n.usage] \in Int
            /\ m.createdAt \in Int /\ k.createdAt \in Int
            /\ k.createdAt =< m.createdAt
            /\ k.createdAt = Round(k.createdAt)
            BY <1>1, <1>5, <2>1, <2>2, ConfigAssumption DEF Row, Matching, Stored
      <2>5. /\ k.createdAt + Sec(Rotation[n.usage]) \in Int
            /\ k.createdAt + Sec(Rotation[n.usage]) =< now
            BY <2>3, <2>4 DEF Sec
      <2>6. Round(k.createdAt + Sec(Rotation[n.usage]))
                = k.createdAt + Sec(Rotation[n.usage])
            BY <2>4, RoundFixed
      <2>7. k.createdAt + Sec(Rotation[n.usage]) =< Round(now)
            BY <2>5, <2>6, RoundMonotone
      <2>8. Round(now) \in Int /\ n.createdAt = Round(now)
            BY <1>5, RoundNear
      <2> QED BY <2>4, <2>5, <2>7, <2>8 DEF Spaced, Sec
<1>9. ASSUME NEW u \in Usage
      PROVE  \E k \in rows \cup batch : k.usage = u
      <2>1. CASE u \in due
            BY <1>7, <2>1
      <2>2. CASE u \notin due
            BY <2>2 DEF DueUsages, MainKeys, Newest, Matching
      <2> QED BY <2>1, <2>2
<1> QED BY <1>3, <1>5, <1>6, <1>7, <1>8, <1>9 DEF Publishes

=============================================================================
