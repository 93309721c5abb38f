------------------------------ MODULE KeyTable ------------------------------
(***************************************************************************)
(* The keys table, the active_keys view and what the DAOs of internal/dao  *)
(* compute from them.  Key material is abstracted away: a row is its       *)
(* identity, its usage and its three timestamps.                           *)
(*                                                                         *)
(* Time is an integer number of ticks, three to the second, so that the    *)
(* timestamp(0) columns can round an instant down as well as up.           *)
(***************************************************************************)
EXTENDS Integers, FiniteSets

CONSTANTS
    KeyId,      \* identifiers a generated key may be given (uuids)
    Usage,      \* usages declared in jwks.config.yaml
    Rotation,   \* usage -> key.rotation, in seconds
    TTL         \* usage -> key.ttl, in seconds

ASSUME ConfigAssumption == /\ Rotation \in [Usage -> Nat]
                           /\ TTL \in [Usage -> Nat]

\* Ticks in a number of seconds.
Sec(n) == 3 * n

\* What a timestamp(0) column stores of an instant: the nearest whole second.
Round(t) == Sec((t + 1) \div 3)

\* A row of keys.  A nullable column is a set of at most one value: {} is NULL.
Row == [ id        : KeyId,
         usage     : Usage,
         createdAt : Int,
         expiresAt : Int,
         deletedAt : SUBSET Int ]

\* The row PgJwkInsert stores for a key generated at the instant now.
NewRow(id, u, now) == [ id        |-> id,
                        usage     |-> u,
                        createdAt |-> Round(now),
                        expiresAt |-> Round(now + Sec(TTL[u])),
                        deletedAt |-> {} ]

\* A view that forgot expires_at, and one that forgot deleted_at.
ActiveUnlessDeleted(k, t) == \A d \in k.deletedAt : d > t
ActiveUnlessExpired(k, t) == k.expiresAt > t

\* The predicate of the active_keys view for a transaction begun at t.
Active(k, t) == /\ k.expiresAt > t
                /\ \A d \in k.deletedAt : d > t

\* The rows PgJwkSearch can return: the active ones of a usage.
Matching(rows, u, t) == {k \in rows : k.usage = u /\ Active(k, t)}

\* A list in the order ORDER BY created_at ASC gives.
Oldest(list) == {k \in list : \A m \in list : m.createdAt >= k.createdAt}

\* The keys that may lead a list, its main keys: ORDER BY created_at DESC has no
\* second criterion, so any of the newest instant may come first.
Newest(list) == {k \in list : \A m \in list : m.createdAt =< k.createdAt}

MainKeys(rows, u, t) == Newest(Matching(rows, u, t))

\* What PgJwkSearch can return under LIMIT: the newest rows, up to that many.
Listings(rows, u, t, limit) ==
    LET all == Matching(rows, u, t)
    IN  {list \in SUBSET all :
            /\ Cardinality(list) =< limit
            /\ list # all => Cardinality(list) = limit
            /\ \A k \in list, m \in all \ list : m.createdAt =< k.createdAt}

\* A run that generates for every usage, due or not.
EveryUsage(rows, t, now) == Usage

\* The usages for which a rotation run that reads rows at t and dates its keys at
\* now generates one.
DueUsages(rows, t, now) ==
    {u \in Usage : \A k \in MainKeys(rows, u, t) :
                       now - k.createdAt >= Sec(Rotation[u])}

\* The batches of rows such a run may insert.
Batches(rows, t, now) ==
    LET due    == DueUsages(rows, t, now)
        unused == KeyId \ {k.id : k \in rows}
    IN  {{NewRow(id[u], u, now) : u \in due} :
            id \in {f \in [due -> unused] : \A u, v \in due : f[u] = f[v] => u = v}}

\* A deletion that targets the table rather than the keys not yet deleted.
RevocableAgain(k, t) == k.expiresAt > t

\* The rows PgJwkDelete can target: not yet deleted, not yet expired.
Revocable(k, t) == k.deletedAt = {} /\ k.expiresAt > t

\* The row PgJwkDelete leaves behind for a revocation dated at now.
RevokedRow(k, now) == [k EXCEPT !.deletedAt = {Round(now)}]

\* The creation of new respects the rotation interval after that of old.
Spaced(old, new) == new.createdAt - old.createdAt >= Sec(Rotation[new.usage])

\* A key that what was read at t may still rely on: it had not expired then, and
\* was deleted, if at all, since.
CurrentAsOf(k, t) == /\ k.expiresAt > t
                     /\ \A d \in k.deletedAt : d >= Round(t)

\* The keys of a usage served together at t are a rotation interval apart.
AllSpaced(rows, t) ==
    \A k, m \in rows : /\ k # m
                       /\ k.usage = m.usage
                       /\ Active(k, t)
                       /\ Active(m, t)
                       => Spaced(k, m) \/ Spaced(m, k)

\* Rows are stored as NewRow and RevokedRow round them.
Stored(k) == /\ k.createdAt = Round(k.createdAt)
             /\ k.expiresAt = k.createdAt + Sec(TTL[k.usage])
             /\ \A d \in k.deletedAt : d = Round(d)

\* No two rows have the same identity.
UniqueIds(rows) == \A k, m \in rows : k.id = m.id => k = m

=============================================================================
