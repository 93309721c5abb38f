--------------------------- MODULE MasterKeyProofs --------------------------
(***************************************************************************)
(* What a change of master key leaves usable, for any servers, master      *)
(* keys, usages and configuration that rotates, and any number of changes, *)
(* restarts, failed runs and revocations.                                  *)
(***************************************************************************)
EXTENDS MasterKey, KeyTableLemmas

\* Every usage has a rotation interval.
EveryUsageRotates == \A u \in Usage : Rotation[u] > 0

-----------------------------------------------------------------------------
(* The rows *)

\* Rows are as the columns round them, and none is dated ahead of the clock.
RowsInv == \A k \in keys : Stored(k) /\ k.createdAt =< Round(clock)

\* What a run that succeeds adds: rows that the key ring may publish, sealed with the
\* master key deployed.
Issues(batch) ==
    /\ Publishes(keys, batch, clock, clock)
    /\ keys' = keys \cup batch
    /\ sealed' \in [KeyId -> SUBSET Master]
    /\ \A id \in KeyId : sealed'[id] = {master} \/ sealed'[id] = sealed[id]
    /\ \A n \in batch : sealed'[n.id] = {master}
    /\ \A k \in keys : sealed'[k.id] = sealed[k.id]

LEMMA RotateIssues ==
    ASSUME TypeOK, RowsInv, Rotate
    PROVE  \E batch : Issues(batch)
<1>1. /\ clock \in Int /\ Round(clock) \in Int
      /\ keys \in SUBSET Row /\ UniqueIds(keys)
      /\ sealed \in [KeyId -> SUBSET Master] /\ master \in Master
      BY RoundNear DEF TypeOK
<1> DEFINE due    == {u \in Usage : Due(u)}
           unused == KeyId \ {k.id : k \in keys}
           ids    == {f \in [due -> unused] : \A u, v \in due : f[u] = f[v] => u = v}
           id     == CHOOSE f \in ids : TRUE
           batch  == {NewRow(id[u], u, clock) : u \in due}
<1>2. /\ ids # {}
      /\ keys' = keys \cup batch
      /\ sealed' = [i \in KeyId |-> IF \E u \in due : id[u] = i THEN {master} ELSE sealed[i]]
      BY DEF Rotate
<1> HIDE DEF id
<1>3. id \in ids
      BY <1>2 DEF id
<1>4. due = DueUsages(keys, clock, clock)
      BY DEF Due, DueUsages
<1>5. batch \in Batches(keys, clock, clock)
      BY <1>3, <1>4 DEF Batches
<1>6. Publishes(keys, batch, clock, clock)
      BY <1>1, <1>5, BatchPublishes DEF RowsInv
<1>7. /\ sealed' \in [KeyId -> SUBSET Master]
      /\ \A i \in KeyId : sealed'[i] = {master} \/ sealed'[i] = sealed[i]
      BY <1>1, <1>2
<1>8. ASSUME NEW n \in batch
      PROVE  sealed'[n.id] = {master}
      <2>1. PICK u \in due : n = NewRow(id[u], u, clock)
            OBVIOUS
      <2>2. n.id = id[u] /\ n.id \in KeyId
            BY <1>3, <2>1 DEF NewRow
      <2> QED BY <1>2, <2>2
<1>9. ASSUME NEW k \in keys
      PROVE  sealed'[k.id] = sealed[k.id]
      <2>1. k.id \in KeyId
            BY <1>1 DEF Row
      <2>2. \A u \in due : id[u] # k.id
            BY <1>3
      <2> QED BY <1>2, <2>1, <2>2
<1> QED BY <1>2, <1>6, <1>7, <1>8, <1>9 DEF Issues

LEMMA ClockSteps ==
    ASSUME TypeOK, [Next]_vars
    PROVE  clock \in Int /\ clock' \in Int /\ clock =< clock'
<1>1. clock \in Int
      BY DEF TypeOK
<1>2. clock' = clock \/ clock' = clock + 1
      BY DEF Next, Tick, ChangeMaster, Restart, Rotate, RotateFails, Revoke, vars
<1> QED BY <1>1, <1>2

-----------------------------------------------------------------------------
(* Types *)

LEMMA MasterInitType == Init => TypeOK /\ RowsInv
BY DEF Init, TypeOK, UniqueIds, RowsInv

LEMMA MasterNextType == TypeOK /\ RowsInv /\ [Next]_vars => TypeOK' /\ RowsInv'
<1> SUFFICES ASSUME TypeOK, RowsInv, [Next]_vars
             PROVE  TypeOK' /\ RowsInv'
    OBVIOUS
<1>1. /\ clock \in Int /\ clock' \in Int /\ Round(clock) \in Int /\ Round(clock') \in Int
      /\ Round(clock) =< Round(clock')
      /\ keys \in SUBSET Row /\ \A k \in keys : k.createdAt \in Int
      BY ClockSteps, RoundNear, RoundMonotone DEF TypeOK, Row
<1>2. \A k \in keys : Stored(k) /\ k.createdAt =< Round(clock')
      BY <1>1 DEF RowsInv
<1>3. CASE Tick
      BY <1>2, <1>3 DEF Tick, TypeOK, RowsInv
<1>4. ASSUME NEW m \in Master, ChangeMaster(m)
      PROVE  TypeOK' /\ RowsInv'
      BY <1>2, <1>4 DEF ChangeMaster, TypeOK, RowsInv
<1>5. ASSUME NEW s \in Server, Restart(s)
      PROVE  TypeOK' /\ RowsInv'
      BY <1>2, <1>5 DEF Restart, TypeOK, RowsInv
<1>6. CASE Rotate
      <2>1. PICK batch : Issues(batch)
            BY <1>6, RotateIssues
      <2>2. keys' \in SUBSET Row /\ UniqueIds(keys')
            BY <1>1, <2>1 DEF Issues, Publishes
      <2>3. \A id \in KeyId : \A m, n \in sealed'[id] : m = n
            BY <2>1 DEF Issues, TypeOK
      <2>4. \A k \in keys' : sealed'[k.id] # {}
            BY <2>1 DEF Issues, TypeOK
      <2>5. RowsInv'
            <3>1. clock' = clock
                  BY <1>6 DEF Rotate
            <3>2. \A n \in batch : Stored(n) /\ n.createdAt = Round(clock)
                  BY <2>1 DEF Issues, Publishes
            <3> QED BY <1>1, <1>2, <2>1, <3>1, <3>2 DEF Issues, RowsInv
      <2>6. sealed' \in [KeyId -> SUBSET Master]
            BY <2>1 DEF Issues
      <2>7. /\ lastRun' = clock /\ reported' = "ok"
            /\ UNCHANGED <<clock, master, held, changes, changedAt>>
            BY <1>6 DEF Rotate
      <2> QED BY <2>2, <2>3, <2>4, <2>5, <2>6, <2>7 DEF TypeOK
<1>7. CASE RotateFails
      BY <1>2, <1>7 DEF RotateFails, TypeOK, RowsInv
<1>8. ASSUME NEW k \in keys, Revoke(k)
      PROVE  TypeOK' /\ RowsInv'
      <2>1. keys' \in SUBSET Row /\ UniqueIds(keys')
            BY <1>1, <1>8, RevokedTable DEF Revoke, TypeOK
      <2>2. /\ Stored(RevokedRow(k, clock))
            /\ RevokedRow(k, clock).id = k.id
            /\ RevokedRow(k, clock).createdAt = k.createdAt
            BY <1>1, RevokedRowStored DEF RowsInv
      <2>3. \A r \in keys' : sealed[r.id] # {}
            BY <1>8, <2>2 DEF Revoke, TypeOK
      <2>4. RowsInv'
            BY <1>2, <1>8, <2>2 DEF Revoke, RowsInv
      <2> QED BY <1>8, <2>1, <2>3, <2>4 DEF Revoke, TypeOK
<1>9. CASE UNCHANGED vars
      BY <1>2, <1>9 DEF vars, TypeOK, RowsInv
<1> QED BY <1>3, <1>4, <1>5, <1>6, <1>7, <1>8, <1>9 DEF Next

\* The types of the variables: a key is sealed once, when it is generated, and no two rows
\* share an identity.
THEOREM MasterType == Spec => []TypeOK
BY MasterInitType, MasterNextType, PTL DEF Spec

LEMMA MasterRows == Spec => []RowsInv
BY MasterInitType, MasterNextType, PTL DEF Spec

-----------------------------------------------------------------------------
(* The table evolves as the key ring allows *)

LEMMA RingOperators ==
    /\ Ring!Row = Row
    /\ \A n : Ring!Sec(n) = Sec(n)
    /\ \A rows, u, t : Ring!Matching(rows, u, t) = Matching(rows, u, t)
    /\ \A k, t : Ring!Revocable(k, t) = Revocable(k, t)
    /\ \A k, n : Ring!Spaced(k, n) = Spaced(k, n)
    /\ \A rows : Ring!UniqueIds(rows) = UniqueIds(rows)
BY DEF Ring!Row, Ring!Sec, Ring!Matching, Ring!Revocable, Ring!Spaced,
       Ring!UniqueIds, Ring!Active, Row, Sec, Matching, Revocable, Spaced,
       UniqueIds, Active

LEMMA StepImplementsRing ==
    TypeOK /\ RowsInv /\ [Next]_vars => [Ring!Next]_(Ring!ringVars)
<1> SUFFICES ASSUME TypeOK, RowsInv, [Next]_vars
             PROVE  Ring!Next \/ UNCHANGED <<clock, keys>>
    BY DEF Ring!ringVars
<1>1. CASE Tick
      BY <1>1 DEF Tick, Ring!Next, Ring!Tick
<1>2. CASE Rotate
      <2>1. PICK batch : Issues(batch)
            BY <1>2, RotateIssues
      <2>2. clock' = clock
            BY <1>2 DEF Rotate
      <2>3. Ring!Publish
            BY <2>1, <2>2, RingOperators DEF Ring!Publish, Issues, Publishes
      <2> QED BY <2>3 DEF Ring!Next
<1>3. ASSUME NEW k \in keys, Revoke(k)
      PROVE  Ring!Next
      <2>1. PICK r : r = RevokedRow(k, clock)
            OBVIOUS
      <2>2. /\ Revocable(k, clock) /\ clock' = clock
            /\ keys' = (keys \ {k}) \cup {r}
            BY <1>3, <2>1 DEF Revoke
      <2>3. r \in Row /\ r.deletedAt = {Round(clock)}
            <3>1. k \in Row /\ clock \in Int
                  BY DEF TypeOK
            <3> QED BY <2>1, <3>1, RevokedIsRow
      <2>4. r = [k EXCEPT !.deletedAt = r.deletedAt]
            BY <2>1, <2>3 DEF RevokedRow
      <2>5. Ring!Revoke
            BY <2>2, <2>3, <2>4, RingOperators DEF Ring!Revoke
      <2> QED BY <2>5 DEF Ring!Next
<1> QED BY <1>1, <1>2, <1>3 DEF Next, ChangeMaster, Restart, RotateFails, vars

\* Changes of master key, and runs that fail on them, leave the table as the key ring
\* allows.
THEOREM MasterKeyImplementsRing == Spec => RingSpec
<1>1. Init => Ring!Init
      BY DEF Init, Ring!Init
<1> QED BY <1>1, StepImplementsRing, MasterType, MasterRows, PTL
        DEF Spec, RingSpec, Ring!Spec

RingProofs == INSTANCE KeyRingProofs

LEMMA RingProofsOperators ==
    /\ RingProofs!Row = Row
    /\ \A n : RingProofs!Sec(n) = Sec(n)
    /\ \A rows, u, t : RingProofs!Matching(rows, u, t) = Matching(rows, u, t)
    /\ \A k, t : RingProofs!Revocable(k, t) = Revocable(k, t)
    /\ \A k, n : RingProofs!Spaced(k, n) = Spaced(k, n)
    /\ \A rows : RingProofs!UniqueIds(rows) = UniqueIds(rows)
    /\ \A rows, t : RingProofs!AllSpaced(rows, t) = AllSpaced(rows, t)
BY DEF RingProofs!Row, RingProofs!Sec, RingProofs!Matching, RingProofs!Revocable,
       RingProofs!Spaced, RingProofs!UniqueIds, RingProofs!Active,
       RingProofs!AllSpaced, Row, Sec, Matching, Revocable, Spaced, UniqueIds,
       Active, AllSpaced

\* The ring keeps the keys of the table apart.
SpacedInv == AllSpaced(keys, clock)

LEMMA SpacedNext == TypeOK /\ RowsInv /\ SpacedInv /\ [Next]_vars => SpacedInv'
<1> SUFFICES ASSUME TypeOK, RowsInv, SpacedInv, [Next]_vars
             PROVE  SpacedInv'
    OBVIOUS
<1>1. RingProofs!RingTypeOK
      BY RingProofsOperators DEF RingProofs!RingTypeOK, TypeOK
<1>2. RingProofs!RingSpaced
      BY RingProofsOperators DEF RingProofs!RingSpaced, SpacedInv
<1>3. [RingProofs!Next]_(RingProofs!ringVars)
      BY StepImplementsRing, RingOperators, RingProofsOperators
         DEF Ring!Next, Ring!ringVars, Ring!Tick, Ring!Publish, Ring!Revoke,
             RingProofs!Next, RingProofs!ringVars, RingProofs!Tick,
             RingProofs!Publish, RingProofs!Revoke
<1>4. RingProofs!RingSpaced'
      <2>1. RingProofs!ConfigAssumption
            BY ConfigAssumption DEF RingProofs!ConfigAssumption
      <2> QED BY <2>1, <1>1, <1>2, <1>3, RingProofs!RingNextSpaced
<1> QED BY <1>4, RingProofsOperators DEF RingProofs!RingSpaced, SpacedInv

TableInv == TypeOK /\ RowsInv /\ SpacedInv

LEMMA TableInvariant == Spec => []TableInv
<1>1. Init => SpacedInv
      BY DEF Init, SpacedInv, AllSpaced
<1> QED BY <1>1, SpacedNext, MasterType, MasterRows, PTL DEF Spec, TableInv

-----------------------------------------------------------------------------
(* A run that succeeds leaves usable keys *)

\* Where every usage rotates, its main key is the only one.
LEMMA MainIsSingle ==
    ASSUME EveryUsageRotates, TableInv, NEW u \in Usage,
           NEW k \in MainKeys(keys, u, clock), NEW m \in MainKeys(keys, u, clock)
    PROVE  k = m
<1>1. /\ k \in keys /\ k.usage = u /\ Active(k, clock) /\ k.createdAt =< m.createdAt
      /\ m \in keys /\ m.usage = u /\ Active(m, clock) /\ m.createdAt =< k.createdAt
      /\ k.createdAt \in Int /\ m.createdAt \in Int
      BY DEF MainKeys, Newest, Matching, TableInv, TypeOK, Row
<1>2. Sec(Rotation[u]) \in Int /\ Sec(Rotation[u]) > 0
      BY ConfigAssumption DEF EveryUsageRotates, Sec
<1>3. ASSUME k # m
      PROVE  k.createdAt - m.createdAt >= Sec(Rotation[u])
             \/ m.createdAt - k.createdAt >= Sec(Rotation[u])
      BY <1>1, <1>3 DEF TableInv, SpacedInv, AllSpaced, Spaced
<1> QED BY <1>1, <1>2, <1>3

\* The main keys of a usage after a run: the new one if it was due, and else those it had.
LEMMA MainAfterRun ==
    ASSUME EveryUsageRotates, TableInv, NEW batch, Issues(batch), NEW u \in Usage,
           NEW k \in MainKeys(keys', u, clock)
    PROVE  k \in batch \/ (~Due(u) /\ k \in MainKeys(keys, u, clock))
<1>1. /\ k \in keys \cup batch /\ k.usage = u /\ Active(k, clock)
      /\ \A m \in Matching(keys', u, clock) : m.createdAt =< k.createdAt
      BY DEF MainKeys, Newest, Matching, Issues
<1>2. /\ keys \in SUBSET Row /\ batch \subseteq Row /\ clock \in Int
      /\ Publishes(keys, batch, clock, clock)
      BY DEF TableInv, TypeOK, Issues, Publishes
<1>3. \A r \in Row : r.createdAt \in Int
      BY DEF Row
<1>4. CASE k \notin batch
      <2>1. k \in Matching(keys, u, clock) /\ k \in Row
            BY <1>1, <1>2, <1>4 DEF Matching
      <2>2. u \notin DueUsages(keys, clock, clock)
            <3> SUFFICES ASSUME u \in DueUsages(keys, clock, clock)
                         PROVE  FALSE
                OBVIOUS
            <3>1. PICK n \in batch : n.usage = u
                  BY <1>2 DEF Publishes
            <3>2. Spaced(k, n) /\ Stored(n) /\ n.deletedAt = {} /\ n \in Row
                  BY <1>2, <2>1, <3>1 DEF Publishes
            <3>3. Sec(Rotation[u]) \in Int /\ Sec(Rotation[u]) > 0
                  BY ConfigAssumption DEF EveryUsageRotates, Sec
            <3>4. n.createdAt > k.createdAt
                  BY <1>3, <2>1, <3>1, <3>2, <3>3 DEF Spaced
            <3>5. Stored(k)
                  BY <1>1, <1>4 DEF TableInv, RowsInv
            <3>6. k.createdAt =< n.createdAt
                  BY <1>3, <2>1, <3>2, <3>4
            <3>7. Active(n, clock)
                  BY <1>1, <1>2, <2>1, <3>1, <3>2, <3>5, <3>6, NewerServed
            <3>8. n \in Matching(keys', u, clock)
                  BY <3>1, <3>7 DEF Matching, Issues
            <3>9. n.createdAt =< k.createdAt
                  BY <1>1, <3>8
            <3> QED BY <1>3, <2>1, <3>2, <3>4, <3>9
      <2>3. ~Due(u)
            BY <2>2 DEF DueUsages, Due
      <2>4. Matching(keys, u, clock) \subseteq Matching(keys', u, clock)
            BY DEF Matching, Issues
      <2>5. k \in MainKeys(keys, u, clock)
            BY <1>1, <2>1, <2>4 DEF MainKeys, Newest
      <2> QED BY <2>3, <2>5
<1> QED BY <1>4

\* A run that reports success leaves every usage with a main key that opens with the master
\* key deployed, whatever was there before.
THEOREM SuccessLeavesUsable == ASSUME EveryUsageRotates PROVE Spec => SuccessMeansUsable
<1>1. ASSUME TableInv, Rotate, NEW u \in Usage, NEW k \in MainKeys(keys', u, clock)
      PROVE  master \in sealed'[k.id]
      <2>1. PICK batch : Issues(batch)
            BY <1>1, RotateIssues DEF TableInv
      <2>2. CASE k \in batch
            BY <2>1, <2>2 DEF Issues
      <2>3. CASE ~Due(u) /\ k \in MainKeys(keys, u, clock)
            <3>1. Extracted(u)
                  BY <1>1 DEF Rotate
            <3>2. Opens(master, k)
                  BY <1>1, <2>3, <3>1, MainIsSingle DEF Extracted
            <3>3. k \in keys
                  BY <2>3 DEF MainKeys, Newest, Matching
            <3> QED BY <2>1, <3>2, <3>3 DEF Issues, Opens
      <2> QED BY <1>1, <2>1, <2>2, <2>3, MainAfterRun
<1>2. TableInv /\ [Next]_vars =>
          [ Rotate => \A u \in Usage : \A k \in MainKeys(keys', u, clock) :
                          master \in sealed'[k.id] ]_vars
      BY <1>1
<1> QED BY <1>2, TableInvariant, PTL DEF Spec, SuccessMeansUsable

-----------------------------------------------------------------------------
(* One run that succeeds re-issues every usage *)

\* The job runs in time, and the master key has not changed ahead of the clock.
JobInv == lastRun =< clock /\ clock =< lastRun + JobPeriod /\ changedAt =< clock

\* Keys dated after the change are sealed with the key deployed.  (A key sealed just before
\* may be dated one tick after.)
SealedSince == \A k \in keys : k.createdAt > changedAt + 1 => sealed[k.id] = {master}

\* A run later than the longest rotation interval after the change found, or left, a key
\* within its window under every usage.
Renewed ==
    lastRun > changedAt + 1 + Sec(LongestRotation) =>
        \A u \in Usage : NoneRevoked(u) =>
            \E k \in keys : /\ k.usage = u
                            /\ k.createdAt > lastRun - Sec(Rotation[u])

\* No usage rotates at a longer interval.
LEMMA LongestIsLongest ==
    ASSUME NEW u \in Usage
    PROVE  /\ Sec(LongestRotation) \in Nat
           /\ Sec(Rotation[u]) \in Nat
           /\ Sec(Rotation[u]) =< Sec(LongestRotation)
<1> DEFINE intervals == {Rotation[v] : v \in Usage}
<1>1. Rotation \in Surjection(Usage, intervals) /\ intervals \in SUBSET Nat
      BY ConfigAssumption DEF Surjection
<1>2. IsFiniteSet(intervals)
      BY <1>1, MasterAssumption, FS_Surjection
<1>3. \E r \in intervals : \A v \in Usage : Rotation[v] =< r
      <2>1. intervals \in SUBSET Int /\ intervals # {}
            BY <1>1
      <2>2. PICK r \in intervals : \A n \in intervals : n =< r
            BY <1>2, <2>1, LargestOfFinite
      <2> QED BY <2>2
<1>4. LongestRotation \in intervals /\ \A v \in Usage : Rotation[v] =< LongestRotation
      BY <1>3 DEF LongestRotation
<1>5. /\ LongestRotation \in Nat /\ Rotation[u] \in Nat
      /\ Rotation[u] =< LongestRotation
      BY <1>1, <1>4
<1> QED BY <1>5 DEF Sec

LEMMA MasterJobNext == TypeOK /\ JobInv /\ [Next]_vars => JobInv'
<1> SUFFICES ASSUME TypeOK, JobInv, [Next]_vars
             PROVE  JobInv'
    OBVIOUS
<1>1. clock \in Int /\ lastRun \in Int /\ changedAt \in Int /\ JobPeriod \in Nat
      BY MasterAssumption DEF TypeOK
<1>2. CASE Tick
      BY <1>1, <1>2 DEF Tick, JobInv
<1>3. ASSUME NEW m \in Master, ChangeMaster(m)
      PROVE  JobInv'
      BY <1>1, <1>3 DEF ChangeMaster, JobInv
<1>4. CASE Rotate \/ RotateFails
      <2>1. clock' = clock /\ lastRun' = clock /\ changedAt' = changedAt
            BY <1>4 DEF Rotate, RotateFails
      <2> QED BY <1>1, <2>1 DEF JobInv
<1>5. ASSUME UNCHANGED <<clock, lastRun, changedAt>>
      PROVE  JobInv'
      BY <1>5 DEF JobInv
<1> QED BY <1>2, <1>3, <1>4, <1>5 DEF Next, Restart, Revoke, vars

LEMMA SealedNext ==
    TypeOK /\ RowsInv /\ JobInv /\ SealedSince /\ [Next]_vars => SealedSince'
<1> SUFFICES ASSUME TypeOK, RowsInv, JobInv, SealedSince, [Next]_vars
             PROVE  SealedSince'
    OBVIOUS
<1>1. clock \in Int /\ keys \in SUBSET Row
      BY DEF TypeOK
<1>2. ASSUME NEW m \in Master, ChangeMaster(m)
      PROVE  SealedSince'
      <2>1. changedAt' = clock /\ keys' = keys
            BY <1>2 DEF ChangeMaster
      <2>2. \A k \in keys : k.createdAt \in Int /\ k.createdAt =< Round(clock)
            BY <1>1 DEF RowsInv, Row
      <2>3. Round(clock) \in Int /\ Round(clock) =< clock + 1
            BY <1>1, RoundNear
      <2>4. \A k \in keys : ~(k.createdAt > clock + 1)
            BY <1>1, <2>2, <2>3
      <2> QED BY <2>1, <2>4 DEF SealedSince
<1>3. CASE Rotate
      <2>1. PICK batch : Issues(batch)
            BY <1>3, RotateIssues
      <2>2. master' = master /\ changedAt' = changedAt
            BY <1>3 DEF Rotate
      <2> QED BY <2>1, <2>2 DEF Issues, SealedSince
<1>4. ASSUME NEW k \in keys, Revoke(k)
      PROVE  SealedSince'
      <2>1. /\ keys' = (keys \ {k}) \cup {RevokedRow(k, clock)}
            /\ UNCHANGED <<sealed, master, changedAt>>
            BY <1>4 DEF Revoke
      <2>2. /\ RevokedRow(k, clock).id = k.id
            /\ RevokedRow(k, clock).createdAt = k.createdAt
            BY <1>1, RevokedIsRow
      <2> QED BY <2>1, <2>2 DEF SealedSince
<1>5. ASSUME UNCHANGED <<keys, sealed, master, changedAt>>
      PROVE  SealedSince'
      BY <1>5 DEF SealedSince
<1> QED BY <1>2, <1>3, <1>4, <1>5 DEF Next, Tick, Restart, RotateFails, vars

\* A run that fails this late would have met a key sealed before the change, and there is
\* none within a window.
LEMMA LateRunSucceeds ==
    ASSUME TypeOK, SealedSince, clock > changedAt + 1 + Sec(LongestRotation)
    PROVE  ~RotateFails
<1> SUFFICES ASSUME NEW u \in Usage, ~Due(u),
                    NEW k \in MainKeys(keys, u, clock), ~Opens(master, k)
             PROVE  FALSE
    BY DEF RotateFails
<1>1. PICK m \in MainKeys(keys, u, clock) : ~(clock - m.createdAt >= Sec(Rotation[u]))
      BY DEF Due
<1>2. /\ k \in keys /\ m.createdAt =< k.createdAt
      /\ k.createdAt \in Int /\ m.createdAt \in Int
      /\ clock \in Int /\ changedAt \in Int /\ master \in Master
      BY DEF MainKeys, Newest, Matching, TypeOK, Row
<1>3. k.createdAt > changedAt + 1
      BY <1>1, <1>2, LongestIsLongest
<1>4. sealed[k.id] = {master}
      BY <1>2, <1>3 DEF SealedSince
<1> QED BY <1>4 DEF Opens

LEMMA RenewedNext ==
    ASSUME EveryUsageRotates
    PROVE  TableInv /\ JobInv /\ SealedSince /\ Renewed /\ [Next]_vars => Renewed'
<1> SUFFICES ASSUME TableInv, JobInv, SealedSince, Renewed, [Next]_vars,
                    (lastRun > changedAt + 1 + Sec(LongestRotation))',
                    NEW u \in Usage, NoneRevoked(u)'
             PROVE  \E k \in keys' : k.usage = u /\ k.createdAt > lastRun' - Sec(Rotation[u])
    BY DEF Renewed
<1>1. /\ TypeOK /\ RowsInv /\ clock \in Int /\ keys \in SUBSET Row
      /\ lastRun \in Int /\ changedAt \in Int
      /\ lastRun' > changedAt' + 1 + Sec(LongestRotation)
      /\ Sec(LongestRotation) \in Nat /\ Sec(Rotation[u]) \in Int /\ Sec(Rotation[u]) >= 3
      <2>1. Rotation[u] \in Nat /\ Rotation[u] # 0
            BY ConfigAssumption DEF EveryUsageRotates
      <2> QED BY <2>1, LongestIsLongest DEF TableInv, TypeOK, LongestRotation, Sec
<1>2. ASSUME NEW m \in Master, ChangeMaster(m)
      PROVE  FALSE
      BY <1>1, <1>2 DEF ChangeMaster, JobInv
<1>3. CASE Rotate
      <2>1. PICK batch : Issues(batch)
            BY <1>1, <1>3, RotateIssues
      <2>2. lastRun' = clock /\ keys' = keys \cup batch
            /\ Publishes(keys, batch, clock, clock)
            <3>1. lastRun' = clock
                  BY <1>3 DEF Rotate
            <3> QED BY <2>1, <3>1 DEF Issues
      <2>3. CASE u \in DueUsages(keys, clock, clock)
            <3>1. PICK n \in batch : n.usage = u
                  BY <2>2, <2>3 DEF Publishes
            <3>2. n.createdAt = Round(clock)
                  BY <2>2, <3>1 DEF Publishes
            <3>3. Round(clock) \in Int /\ Round(clock) >= clock - 1
                  BY <1>1, RoundNear
            <3>4. n.createdAt > clock - Sec(Rotation[u])
                  BY <1>1, <3>2, <3>3
            <3> QED BY <2>2, <3>1, <3>4
      <2>4. CASE u \notin DueUsages(keys, clock, clock)
            <3>1. PICK m \in MainKeys(keys, u, clock) :
                      ~(clock - m.createdAt >= Sec(Rotation[u]))
                  BY <2>4 DEF DueUsages
            <3>2. m \in keys /\ m.usage = u /\ m.createdAt \in Int
                  BY <1>1 DEF MainKeys, Newest, Matching, Row
            <3>3. m.createdAt > clock - Sec(Rotation[u])
                  BY <1>1, <3>1, <3>2
            <3> QED BY <2>2, <3>2, <3>3
      <2> QED BY <2>3, <2>4
<1>4. CASE RotateFails
      <2>1. lastRun' = clock /\ changedAt' = changedAt
            BY <1>4 DEF RotateFails
      <2> QED BY <1>1, <1>4, <2>1, LateRunSucceeds
<1>5. ASSUME NEW r \in keys, Revoke(r)
      PROVE  \E k \in keys' : k.usage = u /\ k.createdAt > lastRun' - Sec(Rotation[u])
      <2>1. /\ keys' = (keys \ {r}) \cup {RevokedRow(r, clock)}
            /\ lastRun' = lastRun /\ changedAt' = changedAt /\ r.deletedAt = {}
            BY <1>5 DEF Revoke, Revocable
      <2>2. /\ RevokedRow(r, clock).usage = r.usage
            /\ RevokedRow(r, clock).createdAt = r.createdAt
            BY <1>1, RevokedIsRow
      <2>3. NoneRevoked(u)
            BY <2>1 DEF NoneRevoked
      <2>4. PICK k \in keys : k.usage = u /\ k.createdAt > lastRun - Sec(Rotation[u])
            BY <1>1, <2>1, <2>3 DEF Renewed
      <2> QED BY <2>1, <2>2, <2>4
<1>6. CASE UNCHANGED <<keys, lastRun, changedAt>>
      BY <1>6 DEF Renewed, NoneRevoked
<1> QED BY <1>2, <1>3, <1>4, <1>5, <1>6 DEF Next, Tick, Restart, vars

ReissueInv == TableInv /\ JobInv /\ SealedSince /\ Renewed

LEMMA ReissueInvariant ==
    ASSUME EveryUsageRotates
    PROVE  Spec => []ReissueInv
<1>1. Init => JobInv /\ SealedSince /\ Renewed
      <2> SUFFICES ASSUME Init
                   PROVE  JobInv /\ SealedSince /\ Renewed
          OBVIOUS
      <2>1. JobInv
            BY MasterAssumption DEF Init, JobInv
      <2>2. SealedSince
            BY DEF Init, SealedSince
      <2>3. Renewed
            BY LongestIsLongest DEF Init, Renewed
      <2> QED BY <2>1, <2>2, <2>3
<1>2. TableInv /\ JobInv /\ [Next]_vars => JobInv'
      BY MasterJobNext DEF TableInv
<1>3. TableInv /\ JobInv /\ SealedSince /\ [Next]_vars => SealedSince'
      BY SealedNext DEF TableInv
<1>4. TableInv /\ JobInv /\ SealedSince /\ Renewed /\ [Next]_vars => Renewed'
      BY RenewedNext
<1> QED BY <1>1, <1>2, <1>3, <1>4, TableInvariant, PTL DEF Spec, ReissueInv

\* What holds once the job is bound to have run late enough: every usage has a key that is
\* served and that was dated after the change.
LEMMA RenewedServed ==
    ASSUME ReissueInv, SufficientTTL, clock > ReissuedBy, NEW u \in Usage, NoneRevoked(u)
    PROVE  \E k \in Matching(keys, u, clock) : k.createdAt > changedAt + 1
<1>1. /\ clock \in Int /\ lastRun \in Int /\ changedAt \in Int /\ JobPeriod \in Nat
      /\ Sec(LongestRotation) \in Nat /\ Sec(Rotation[u]) \in Nat
      /\ Sec(Rotation[u]) =< Sec(LongestRotation)
      /\ clock =< lastRun + JobPeriod
      BY LongestIsLongest, MasterAssumption DEF ReissueInv, TableInv, TypeOK, JobInv
<1>2. Sec(TTL[u]) \in Int /\ Sec(TTL[u]) >= Sec(Rotation[u]) + JobPeriod
      <2>1. Sec(TTL[u]) >= Sec(Rotation[u]) + JobPeriod
            BY DEF SufficientTTL
      <2> QED BY <2>1, ConfigAssumption DEF Sec
<1>3. lastRun > changedAt + 1 + Sec(LongestRotation)
      BY <1>1 DEF ReissuedBy
<1>4. PICK k \in keys : k.usage = u /\ k.createdAt > lastRun - Sec(Rotation[u])
      BY <1>3 DEF ReissueInv, Renewed
<1>5. /\ k.createdAt \in Int /\ k.deletedAt = {}
      /\ k.expiresAt = k.createdAt + Sec(TTL[u])
      BY <1>4 DEF ReissueInv, TableInv, TypeOK, RowsInv, Stored, NoneRevoked, Row
<1>6. k.createdAt > changedAt + 1 /\ k.expiresAt > clock
      BY <1>1, <1>2, <1>3, <1>4, <1>5
<1> QED BY <1>4, <1>5, <1>6 DEF Matching, Active

\* After a change of master key every usage is re-issued no later than the longest rotation
\* interval and the wait for a run, however many runs failed before.
THEOREM ReissueIsBounded == ASSUME EveryUsageRotates PROVE Spec => []ReissueBounded
<1>1. ReissueInv => ReissueBounded
      <2> SUFFICES ASSUME ReissueInv, SufficientTTL, clock > ReissuedBy,
                          NEW u \in Usage, NoneRevoked(u)
                   PROVE  /\ MainKeys(keys, u, clock) # {}
                          /\ \A k \in MainKeys(keys, u, clock) : Opens(master, k)
          BY DEF ReissueBounded
      <2>1. PICK k \in Matching(keys, u, clock) : k.createdAt > changedAt + 1
            BY RenewedServed
      <2>2. /\ Matching(keys, u, clock) \in SUBSET Row /\ Matching(keys, u, clock) \subseteq keys
            /\ changedAt \in Int /\ clock \in Int /\ Round(clock) \in Int
            /\ master \in Master
            /\ \A m \in Matching(keys, u, clock) : m.createdAt =< Round(clock)
            BY RoundNear DEF Matching, ReissueInv, TableInv, TypeOK, RowsInv
      <2>3. MainKeys(keys, u, clock) # {}
            BY <2>1, <2>2, NewestExists DEF MainKeys
      <2>4. ASSUME NEW m \in MainKeys(keys, u, clock)
            PROVE  Opens(master, m)
            <3>1. m \in Matching(keys, u, clock) /\ k.createdAt =< m.createdAt
                  BY <2>1, <2>4 DEF MainKeys, Newest
            <3>2. m.createdAt > changedAt + 1
                  BY <2>1, <2>2, <3>1 DEF Row
            <3>3. sealed[m.id] = {master}
                  BY <2>2, <3>1, <3>2 DEF ReissueInv, SealedSince
            <3> QED BY <3>3 DEF Opens
      <2> QED BY <2>3, <2>4
<1> QED BY <1>1, ReissueInvariant, PTL

\* Once the keys sealed before the change have expired too, every server that has restarted
\* since has keys to sign with.
THEOREM SigningDoesRecover == ASSUME EveryUsageRotates PROVE Spec => []SigningRecovers
<1>1. ReissueInv => SigningRecovers
      <2> SUFFICES ASSUME ReissueInv, SufficientTTL, clock > ReissuedBy,
                          NEW s \in Server, NEW u \in Usage, held[s] = master,
                          clock > changedAt + Sec(TTL[u]), NoneRevoked(u)
                   PROVE  CanSign(s, u)
          BY DEF SigningRecovers
      <2>1. Matching(keys, u, clock) # {}
            BY RenewedServed
      <2>2. ASSUME NEW k \in Matching(keys, u, clock)
            PROVE  Opens(held[s], k)
            <3>1. /\ k \in keys /\ k.expiresAt > clock /\ k.createdAt \in Int
                  /\ k.expiresAt = k.createdAt + Sec(TTL[u])
                  BY DEF Matching, Active, ReissueInv, TableInv, TypeOK, RowsInv, Stored, Row
            <3>2. /\ clock \in Int /\ changedAt \in Int /\ Sec(TTL[u]) \in Int
                  BY ConfigAssumption DEF ReissueInv, TableInv, TypeOK, Sec
            <3>3. k.createdAt > changedAt + 1
                  BY <3>1, <3>2
            <3>4. sealed[k.id] = {master}
                  BY <3>1, <3>3 DEF ReissueInv, SealedSince
            <3> QED BY <3>4 DEF Opens
      <2> QED BY <2>1, <2>2 DEF CanSign, Lists
<1> QED BY <1>1, ReissueInvariant, PTL

=============================================================================
