---------------------------- MODULE KeyRingProofs ---------------------------
(***************************************************************************)
(* The key ring keeps its keys apart and never brings one back, for every  *)
(* set of usages and every configuration.                                  *)
(***************************************************************************)
EXTENDS KeyRing, KeyTableLemmas

LEMMA RingInitType == Init => RingTypeOK
BY DEF Init, RingTypeOK, UniqueIds

LEMMA RingNextType == RingTypeOK /\ [Next]_ringVars => RingTypeOK'
<1> SUFFICES ASSUME RingTypeOK, [Next]_ringVars
             PROVE  RingTypeOK'
    OBVIOUS
<1> USE DEF RingTypeOK
<1>1. CASE Tick
    BY <1>1 DEF Tick, UniqueIds
<1>2. CASE Publish
    BY <1>2 DEF Publish
<1>3. CASE Revoke
    <2>1. PICK k \in keys, r \in keys' :
                 /\ r \in Row
                 /\ r = [k EXCEPT !.deletedAt = r.deletedAt]
                 /\ keys' = (keys \ {k}) \cup {r}
          BY <1>3 DEF Revoke
    <2>2. clock' = clock
          BY <1>3 DEF Revoke
    <2>3. r \in Row /\ r.id = k.id
          BY <2>1 DEF Row
    <2>4. UniqueIds(keys')
          BY <2>1, <2>3 DEF UniqueIds, Row
    <2> QED BY <2>1, <2>2, <2>3, <2>4
<1>4. CASE UNCHANGED ringVars
    BY <1>4 DEF ringVars, UniqueIds
<1> QED BY <1>1, <1>2, <1>3, <1>4 DEF Next

\* The variables of the key ring keep their types, and identities stay unique.
THEOREM RingType == Spec => []RingTypeOK
BY RingInitType, RingNextType, PTL DEF Spec

LEMMA RingInitSpaced == Init => RingSpaced
BY DEF Init, RingSpaced, AllSpaced

\* Keys that are served at a later instant were served, and apart, before.
LEMMA SpacedLater ==
    ASSUME NEW rows \in SUBSET Row, NEW s \in Int, NEW t \in Int, s =< t,
           AllSpaced(rows, s)
    PROVE  AllSpaced(rows, t)
BY ActiveEarlier DEF AllSpaced

LEMMA RingNextSpaced == RingTypeOK /\ RingSpaced /\ [Next]_ringVars => RingSpaced'
<1> SUFFICES ASSUME RingTypeOK, RingSpaced, [Next]_ringVars
             PROVE  RingSpaced'
    OBVIOUS
<1> USE DEF RingTypeOK, RingSpaced
<1>1. CASE Tick
    <2>1. clock \in Int /\ clock' \in Int /\ clock =< clock' /\ keys' = keys
          BY <1>1 DEF Tick
    <2> QED BY <2>1, SpacedLater
<1>2. CASE Publish
    <2> SUFFICES ASSUME NEW k \in keys', NEW m \in keys',
                        k # m, k.usage = m.usage,
                        Active(k, clock), Active(m, clock)
                 PROVE  Spaced(k, m) \/ Spaced(m, k)
        BY <1>2 DEF Publish, AllSpaced
    <2>1. CASE k \in keys /\ m \in keys
          BY <2>1 DEF AllSpaced
    <2>2. CASE k \in keys /\ m \notin keys
          BY <1>2, <2>2 DEF Publish, Matching
    <2>3. CASE k \notin keys /\ m \in keys
          BY <1>2, <2>3 DEF Publish, Matching
    <2>4. CASE k \notin keys /\ m \notin keys
          BY <1>2, <2>4 DEF Publish
    <2> QED BY <2>1, <2>2, <2>3, <2>4
<1>3. CASE Revoke
    <2>1. PICK k \in keys, r \in keys' :
                 /\ Revocable(k, clock)
                 /\ r \in Row
                 /\ r = [k EXCEPT !.deletedAt = r.deletedAt]
                 /\ keys' = (keys \ {k}) \cup {r}
          BY <1>3 DEF Revoke
    <2>2. clock' = clock
          BY <1>3 DEF Revoke
    <2>3. Active(r, clock) => Active(k, clock)
          BY <2>1, RevokedWasActive
    <2>4. r.usage = k.usage /\ r.createdAt = k.createdAt
          BY <2>1 DEF Row
    <2>5. ASSUME NEW m \in keys, m # k, m.usage = r.usage,
                 Active(r, clock), Active(m, clock)
          PROVE  Spaced(r, m) \/ Spaced(m, r)
          <3>1. Spaced(k, m) \/ Spaced(m, k)
                BY <2>3, <2>4, <2>5 DEF AllSpaced
          <3> QED BY <3>1, <2>4 DEF Spaced
    <2>6. AllSpaced(keys', clock)
          BY <2>1, <2>5 DEF AllSpaced
    <2> QED BY <2>2, <2>6
<1>4. CASE UNCHANGED ringVars
    BY <1>4 DEF ringVars
<1> QED BY <1>1, <1>2, <1>3, <1>4 DEF Next

\* The keys of a usage that are served at once are a rotation interval apart.
THEOREM RingKeepsSpacing == Spec => []RingSpaced
BY RingInitType, RingNextType, RingInitSpaced, RingNextSpaced, PTL DEF Spec

LEMMA RingNextWithdrawn ==
    RingTypeOK /\ RingTypeOK' /\ [Next]_ringVars =>
        \A k \in keys, m \in keys' :
            k.id = m.id /\ Active(m, clock') => Active(k, clock)
<1> SUFFICES ASSUME RingTypeOK, RingTypeOK', [Next]_ringVars,
                    NEW k \in keys, NEW m \in keys',
                    k.id = m.id, Active(m, clock')
             PROVE  Active(k, clock)
    OBVIOUS
<1> USE DEF RingTypeOK
<1>1. CASE Tick
    <2>1. k = m
          BY <1>1 DEF Tick, UniqueIds
    <2> QED BY <1>1, <2>1, ActiveEarlier DEF Tick
<1>2. CASE Publish
    BY <1>2 DEF Publish, UniqueIds
<1>3. CASE Revoke
    <2>1. PICK n \in keys, r \in keys' :
                 /\ Revocable(n, clock)
                 /\ r \in Row
                 /\ r = [n EXCEPT !.deletedAt = r.deletedAt]
                 /\ keys' = (keys \ {n}) \cup {r}
                 /\ clock' = clock
          BY <1>3 DEF Revoke
    <2>2. r.id = n.id
          BY <2>1 DEF Row
    <2>3. CASE m = r
          <3>1. k = n
                BY <2>2, <2>3 DEF UniqueIds
          <3> QED BY <2>1, <2>3, <3>1, RevokedWasActive
    <2>4. CASE m # r
          <3>1. k = m
                BY <2>1, <2>4 DEF UniqueIds
          <3> QED BY <2>1, <3>1
    <2> QED BY <2>3, <2>4
<1>4. CASE UNCHANGED ringVars
    BY <1>4 DEF ringVars, UniqueIds
<1> QED BY <1>1, <1>2, <1>3, <1>4 DEF Next

\* A key that has stopped being served is never served again.
THEOREM RingNeverRestores == Spec => RingWithdrawnForGood
<1>1. RingTypeOK /\ RingTypeOK' /\ [Next]_ringVars =>
          [\A k \in keys, m \in keys' :
              k.id = m.id /\ Active(m, clock') => Active(k, clock)]_ringVars
      BY RingNextWithdrawn
<1> QED BY <1>1, RingType, PTL DEF Spec, RingWithdrawnForGood

=============================================================================
