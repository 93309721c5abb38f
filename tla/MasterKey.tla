----------------------------- MODULE MasterKey ------------------------------
(***************************************************************************)
(* Private keys are sealed with APP_MASTER_KEY, which every process reads  *)
(* once, when it starts.  This module follows the keys, the rotation job   *)
(* and the signing servers while an operator changes it.                   *)
(*                                                                         *)
(* A run of the job is one step here (KeyRotation has its interleavings):  *)
(* it must unseal the main key of every usage it does not generate one     *)
(* for, and fails as a whole when it cannot.  A server lists the private   *)
(* keys of a usage only if it can unseal every one of them.                *)
(***************************************************************************)
EXTENDS KeyTable

CONSTANTS
    Server,       \* replicas of the gRPC server
    Master,       \* the values APP_MASTER_KEY may take
    JobPeriod,    \* the longest time between two runs of the job, in ticks
    MaxClock,     \* bound: the last instant explored
    MaxChanges,   \* bound: how often the master key changes
    MaxRevoked    \* bound: how many keys are revoked

ASSUME MasterAssumption == /\ {JobPeriod, MaxClock, MaxChanges, MaxRevoked} \subseteq Nat
                           /\ IsFiniteSet(Usage)

VARIABLES
    clock,       \* the instant
    keys,        \* the rows of keys
    sealed,      \* identity -> the master key its private key is sealed with, if any
    master,      \* the APP_MASTER_KEY of processes that start now
    held,        \* server -> the one it started with
    changes,     \* how often it has changed
    changedAt,   \* when it last changed
    lastRun,     \* when the job last ran
    reported     \* how that run ended

vars == <<clock, keys, sealed, master, held, changes, changedAt, lastRun, reported>>

Init == /\ clock = 0
        /\ keys = {}
        /\ sealed = [id \in KeyId |-> {}]
        /\ master \in Master
        /\ held = [s \in Server |-> master]
        /\ changes = 0
        /\ changedAt = 0
        /\ lastRun = 0
        /\ reported = "none"

\* DecryptMasterKey: a key opens with the master key it was sealed with.
Opens(m, k) == m \in sealed[k.id]

\* Time passes; the job is run in time.
Tick == /\ clock < MaxClock
        /\ clock < lastRun + JobPeriod
        /\ clock' = clock + 1
        /\ UNCHANGED <<keys, sealed, master, held, changes, changedAt, lastRun, reported>>

\* The operator deploys another master key.
ChangeMaster(m) ==
    /\ changes < MaxChanges
    /\ m # master
    /\ master' = m
    /\ changes' = changes + 1
    /\ changedAt' = clock
    /\ UNCHANGED <<clock, keys, sealed, held, lastRun, reported>>

\* A server starts again, with the master key deployed now.
Restart(s) ==
    /\ held' = [held EXCEPT ![s] = master]
    /\ UNCHANGED <<clock, keys, sealed, master, changes, changedAt, lastRun, reported>>

\* A window measured against the wrong duration.
DueAtExpiry(u) == \A k \in MainKeys(keys, u, clock) : clock - k.createdAt >= Sec(TTL[u])

\* A run that generates whatever the window.
AlwaysDue(u) == u \in Usage

\* The rotation window of a usage has elapsed, or it has no key.
Due(u) == \A k \in MainKeys(keys, u, clock) : clock - k.createdAt >= Sec(Rotation[u])

\* A skip that does not extract the key it keeps.
ExtractedOrSkipped(u) == u \in Usage

\* JwkGen gets through a usage: it generates a key, or unseals the one it found.
Extracted(u) == Due(u) \/ \E k \in MainKeys(keys, u, clock) : Opens(master, k)

\* A run: new keys, sealed with the master key, for every usage that is due.
\* Identities are interchangeable: take any that are not in use.
Rotate ==
    /\ \A u \in Usage : Extracted(u)
    /\ LET due    == {u \in Usage : Due(u)}
           unused == KeyId \ {k.id : k \in keys}
           ids    == {f \in [due -> unused] : \A u, v \in due : f[u] = f[v] => u = v}
           id     == CHOOSE f \in ids : TRUE
       IN  /\ ids # {}
           /\ keys' = keys \cup {NewRow(id[u], u, clock) : u \in due}
           /\ sealed' = [i \in KeyId |-> IF \E u \in due : id[u] = i
                                           THEN {master} ELSE sealed[i]]
    /\ lastRun' = clock
    /\ reported' = "ok"
    /\ UNCHANGED <<clock, master, held, changes, changedAt>>

\* A run meets a main key it cannot unseal: everything it did is rolled back.
RotateFails ==
    /\ \E u \in Usage : ~Due(u) /\ \E k \in MainKeys(keys, u, clock) : ~Opens(master, k)
    /\ lastRun' = clock
    /\ reported' = "error"
    /\ UNCHANGED <<clock, keys, sealed, master, held, changes, changedAt>>

\* A withdrawal that adds a row instead of changing one.
RevokeCopy(k) ==
    /\ Cardinality({m \in keys : m.deletedAt # {}}) < MaxRevoked
    /\ Revocable(k, clock)
    /\ keys' = keys \cup {RevokedRow(k, clock)}
    /\ UNCHANGED <<clock, sealed, master, held, changes, changedAt, lastRun, reported>>

\* PgJwkDelete withdraws a key.
Revoke(k) ==
    /\ Cardinality({m \in keys : m.deletedAt # {}}) < MaxRevoked
    /\ Revocable(k, clock)
    /\ keys' = (keys \ {k}) \cup {RevokedRow(k, clock)}
    /\ UNCHANGED <<clock, sealed, master, held, changes, changedAt, lastRun, reported>>

Next == \/ Tick
        \/ \E m \in Master : ChangeMaster(m)
        \/ \E s \in Server : Restart(s)
        \/ Rotate
        \/ RotateFails
        \/ \E k \in keys : Revoke(k)

Spec == Init /\ [][Next]_vars

\* JwkSearch with Private set succeeds for a server: it unseals every key listed.
Lists(s, u) == \A k \in Matching(keys, u, clock) : Opens(held[s], k)

\* A server whose source asks for the keys of a usage gets one to sign with.
CanSign(s, u) == Lists(s, u) /\ Matching(keys, u, clock) # {}

-----------------------------------------------------------------------------
(* Properties *)

\* The types of the variables; a key is sealed once, when it is generated.
TypeOK == /\ clock \in Nat
          /\ keys \in SUBSET Row
          /\ UniqueIds(keys)
          /\ sealed \in [KeyId -> SUBSET Master]
          /\ \A id \in KeyId : \A m, n \in sealed[id] : m = n
          /\ \A k \in keys : sealed[k.id] # {}
          /\ master \in Master
          /\ held \in [Server -> Master]
          /\ {changes, changedAt, lastRun} \subseteq Nat
          /\ reported \in {"none", "ok", "error"}

\* A run that reports success leaves every usage with a main key that opens with
\* the master key deployed, whatever was there before: JwkGen extracts the key it
\* skipped for as well as the one it generated.
SuccessMeansUsable ==
    [][ Rotate =>
           \A u \in Usage : \A k \in MainKeys(keys', u, clock) :
               master \in sealed'[k.id] ]_vars

LongestRotation == CHOOSE r \in {Rotation[u] : u \in Usage} :
                       \A u \in Usage : Rotation[u] =< r

\* When the job is bound to have replaced every key sealed before the change.
ReissuedBy == changedAt + 1 + Sec(LongestRotation) + JobPeriod

\* A lifetime covers its usage's rotation interval and the wait for the next run.
SufficientTTL == \A u \in Usage : Sec(TTL[u]) >= Sec(Rotation[u]) + JobPeriod

NoneRevoked(u) == \A k \in keys : k.usage = u => k.deletedAt = {}

\* After a change of master key, one run that succeeds re-issues every usage, and
\* it comes no later than the longest rotation interval: until then one usage
\* within its window keeps every other from being re-issued.
ReissueBounded ==
    SufficientTTL /\ clock > ReissuedBy =>
        \A u \in Usage : NoneRevoked(u) =>
            /\ MainKeys(keys, u, clock) # {}
            /\ \A k \in MainKeys(keys, u, clock) : Opens(master, k)

\* Signing recovers once the keys sealed before the change have expired too, on
\* every server that has restarted since.
SigningRecovers ==
    SufficientTTL /\ clock > ReissuedBy =>
        \A s \in Server, u \in Usage :
            /\ held[s] = master
            /\ clock > changedAt + Sec(TTL[u])
            /\ NoneRevoked(u)
            => CanSign(s, u)

\* What the documentation says of a change: it invalidates the keys sealed with
\* the old value, and those issued since are usable.
ReissuedKeysSign ==
    \A s \in Server, u \in Usage :
        (\E k \in MainKeys(keys, u, clock) : Opens(held[s], k)) => CanSign(s, u)

\* Changes of master key leave the table as the key ring allows.
Ring == INSTANCE KeyRing
RingSpec == Ring!Spec

=============================================================================
