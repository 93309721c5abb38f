------------------------------ MODULE KeyRing -------------------------------
(***************************************************************************)
(* What the rotation of keys promises, without jobs or transactions: the   *)
(* key ring only ever grows, by whole batches holding at most one new key  *)
(* per usage, a new key never comes closer than a rotation interval to a   *)
(* key of its usage that is still served, and the first batch gives every  *)
(* usage a key.                                                            *)
(***************************************************************************)
EXTENDS KeyTable

VARIABLES clock, keys

ringVars == <<clock, keys>>

Init == /\ clock = 0
        /\ keys = {}

Tick == /\ clock' = clock + 1
        /\ UNCHANGED keys

\* A batch of new keys is published at once.
Publish ==
    LET new == keys' \ keys
    IN  /\ keys \subseteq keys'
        /\ new \subseteq Row
        /\ \A n \in new : /\ n.deletedAt = {}
                          /\ n.expiresAt = n.createdAt + Sec(TTL[n.usage])
        /\ UniqueIds(keys')
        /\ \A n, m \in new : n.usage = m.usage => n = m
        /\ \A n \in new : \A k \in Matching(keys, n.usage, clock) : Spaced(k, n)
        /\ \A u \in Usage : \E k \in keys' : k.usage = u
        /\ UNCHANGED clock

\* A key is withdrawn before its expiry; the row stays.
Revoke == \E k \in keys, r \in keys' :
    /\ Revocable(k, clock)
    /\ r \in Row
    /\ r = [k EXCEPT !.deletedAt = r.deletedAt]
    /\ keys' = (keys \ {k}) \cup {r}
    /\ UNCHANGED clock

Next == Tick \/ Publish \/ Revoke

Spec == Init /\ [][Next]_ringVars

-----------------------------------------------------------------------------
(* What follows from the promise. *)

\* The types of the variables; a key is published once.
RingTypeOK == /\ clock \in Nat
              /\ keys \in SUBSET Row
              /\ UniqueIds(keys)

\* The keys of a usage that are served at once are a rotation interval apart.
RingSpaced == AllSpaced(keys, clock)

\* A key that has stopped being served is never served again.
RingWithdrawnForGood ==
    [][ \A k \in keys, m \in keys' :
           k.id = m.id /\ Active(m, clock') => Active(k, clock) ]_ringVars

=============================================================================
