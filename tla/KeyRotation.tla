----------------------------- MODULE KeyRotation ----------------------------
(***************************************************************************)
(* Runs of cmd/rotate-keys against the keys table.  A run is one READ      *)
(* COMMITTED transaction (JwkRotateAll) that visits every configured usage *)
(* in an arbitrary order; for each, JwkGen reads the newest active key,    *)
(* decides from its age whether a new one is due, and inserts it.  Runs    *)
(* may fail or lose their host at any step, and keys may be revoked by     *)
(* PgJwkDelete while a run is in progress.                                 *)
(*                                                                         *)
(* A job is a place runs start from: the CronJob, or a standalone replica, *)
(* whose boot command runs the rotation before it serves.                  *)
(***************************************************************************)
EXTENDS KeyTable

CONSTANTS
    Job,          \* places a run may start from
    Skew,         \* job -> ticks its host's clock is ahead of the database's
    Overlap,      \* may two runs be in progress at once?
    RevokeLead,   \* how far ahead of the clock a revocation may be dated
    MaxClock,     \* bound: the last instant explored
    MaxRevoked,   \* bound: how many keys are ever revoked
    NoUsage       \* the usage of a job that processes none

ASSUME JobAssumption == /\ Skew \in [Job -> Int]
                        /\ Overlap \in BOOLEAN
                        /\ RevokeLead \subseteq Nat
                        /\ MaxClock \in Nat
                        /\ MaxRevoked \in Nat
                        /\ NoUsage \notin Usage

\* A key outlives the skew of the clock that dates it, rounding included.
ASSUME SkewAssumption == \A u \in Usage, j \in Job : Sec(TTL[u]) + Skew[j] >= 2

VARIABLES
    clock,      \* the instant on the database's clock
    keys,       \* the committed rows of keys
    pc,         \* where each job is
    begun,      \* CURRENT_TIMESTAMP of its transaction
    todo,       \* the usages it has yet to finish
    usage,      \* the usage it is processing
    latest,     \* lastCreated of that usage; {} is the zero time
    written,    \* the rows its transaction inserted
    reported    \* how its last run ended

jobVars == <<pc, begun, todo, usage, latest, written, reported>>
vars == <<clock, keys, jobVars>>

\* time.Now() on the host of a job.
Now(j) == clock + Skew[j]

\* What a statement of a job's transaction reads under READ COMMITTED.
Visible(j) == keys \cup written[j]

Init == /\ clock = 0
        /\ keys = {}
        /\ pc = [j \in Job |-> "idle"]
        /\ begun = [j \in Job |-> 0]
        /\ todo = [j \in Job |-> {}]
        /\ usage = [j \in Job |-> NoUsage]
        /\ latest = [j \in Job |-> {}]
        /\ written = [j \in Job |-> {}]
        /\ reported = [j \in Job |-> "none"]

Tick == /\ clock < MaxClock
        /\ clock' = clock + 1
        /\ UNCHANGED <<keys, jobVars>>

\* A run starts and opens its transaction.
Begin(j) ==
    /\ pc[j] = "idle"
    /\ Overlap \/ \A i \in Job : pc[i] = "idle"
    /\ pc' = [pc EXCEPT ![j] = "next"]
    /\ begun' = [begun EXCEPT ![j] = clock]
    /\ todo' = [todo EXCEPT ![j] = Usage]
    /\ reported' = [reported EXCEPT ![j] = "none"]
    /\ UNCHANGED <<clock, keys, usage, latest, written>>

\* A search that has to find a key.
SearchMustFind(j, u) ==
    /\ pc[j] = "next"
    /\ u \in todo[j]
    /\ \E k \in MainKeys(Visible(j), u, begun[j]) :
          latest' = [latest EXCEPT ![j] = {k.createdAt}]
    /\ usage' = [usage EXCEPT ![j] = u]
    /\ pc' = [pc EXCEPT ![j] = "found"]
    /\ UNCHANGED <<clock, keys, begun, todo, written, reported>>

\* JwkGen reads the keys of the next usage and keeps the age of the first.
Search(j, u) ==
    /\ pc[j] = "next"
    /\ u \in todo[j]
    /\ \/ /\ Matching(Visible(j), u, begun[j]) = {}
          /\ latest' = [latest EXCEPT ![j] = {}]
       \/ \E k \in MainKeys(Visible(j), u, begun[j]) :
             latest' = [latest EXCEPT ![j] = {k.createdAt}]
    /\ usage' = [usage EXCEPT ![j] = u]
    /\ pc' = [pc EXCEPT ![j] = "found"]
    /\ UNCHANGED <<clock, keys, begun, todo, written, reported>>

\* A check that lets every run generate.
DueAlways(j) == j \in Job

\* time.Since(lastCreated) >= Rotation, on the host's clock.
Due(j) == \A c \in latest[j] : Now(j) - c >= Sec(Rotation[usage[j]])

\* A generation that forgot to check the window.
GenerateUnchecked(j) ==
    /\ pc[j] = "found"
    /\ pc' = [pc EXCEPT ![j] = "insert"]
    /\ latest' = [latest EXCEPT ![j] = {}]
    /\ UNCHANGED <<clock, keys, begun, todo, usage, written, reported>>

\* The rotation window has elapsed: generate and seal a key pair.
Generate(j) ==
    /\ pc[j] = "found"
    /\ Due(j)
    /\ pc' = [pc EXCEPT ![j] = "insert"]
    /\ latest' = [latest EXCEPT ![j] = {}]
    /\ UNCHANGED <<clock, keys, begun, todo, usage, written, reported>>

\* The loop moves past the usage it was processing.
Advance(j) ==
    /\ pc' = [pc EXCEPT ![j] = "next"]
    /\ todo' = [todo EXCEPT ![j] = @ \ {usage[j]}]
    /\ usage' = [usage EXCEPT ![j] = NoUsage]
    /\ latest' = [latest EXCEPT ![j] = {}]
    /\ UNCHANGED <<clock, keys, begun, reported>>

\* Within the window the latest key stands.
Skip(j) ==
    /\ pc[j] = "found"
    /\ ~Due(j)
    /\ Advance(j)
    /\ UNCHANGED written

\* The new key is dated by a second reading of the host's clock and inserted.
Insert(j) ==
    /\ pc[j] = "insert"
    /\ \E id \in KeyId :
          /\ \A k \in keys \cup UNION {written[i] : i \in Job} : k.id # id
          /\ written' = [written EXCEPT ![j] =
                             @ \cup {NewRow(id, usage[j], Now(j))}]
    /\ Advance(j)

\* The transaction of a job is over, and the job says how the run ended.
Finish(j, outcome) ==
    /\ pc' = [pc EXCEPT ![j] = "idle"]
    /\ begun' = [begun EXCEPT ![j] = 0]
    /\ todo' = [todo EXCEPT ![j] = {}]
    /\ usage' = [usage EXCEPT ![j] = NoUsage]
    /\ latest' = [latest EXCEPT ![j] = {}]
    /\ written' = [written EXCEPT ![j] = {}]
    /\ reported' = [reported EXCEPT ![j] = outcome]
    /\ UNCHANGED clock

\* Every usage is done: the transaction commits.
Commit(j) ==
    /\ pc[j] = "next"
    /\ todo[j] = {}
    /\ keys' = keys \cup written[j]
    /\ Finish(j, "ok")

\* The commit takes effect and its acknowledgement is lost.
CommitUnacknowledged(j) ==
    /\ pc[j] = "next"
    /\ todo[j] = {}
    /\ keys' = keys \cup written[j]
    /\ Finish(j, "error")

\* A failure that keeps what was inserted: no transaction around the loop.
FailHalfway(j) ==
    /\ pc[j] # "idle"
    /\ keys' = keys \cup written[j]
    /\ Finish(j, "error")

\* Any step of a run fails, or its host dies: the transaction rolls back.
Fail(j) ==
    /\ pc[j] # "idle"
    /\ Finish(j, "error")
    /\ UNCHANGED keys

\* A withdrawal that adds a row instead of changing one.
RevokeCopy(k, lead) ==
    /\ Cardinality({m \in keys : m.deletedAt # {}}) < MaxRevoked
    /\ Revocable(k, clock)
    /\ keys' = keys \cup {RevokedRow(k, clock + lead)}
    /\ UNCHANGED <<clock, jobVars>>

\* PgJwkDelete withdraws a key, dated by its caller.
Revoke(k, lead) ==
    /\ Cardinality({m \in keys : m.deletedAt # {}}) < MaxRevoked
    /\ Revocable(k, clock)
    /\ keys' = (keys \ {k}) \cup {RevokedRow(k, clock + lead)}
    /\ UNCHANGED <<clock, jobVars>>

JobStep(j) == \/ \E u \in Usage : Search(j, u)
              \/ Generate(j)
              \/ Skip(j)
              \/ Insert(j)
              \/ Commit(j)

Next == \/ Tick
        \/ \E j \in Job : \/ Begin(j)
                          \/ JobStep(j)
                          \/ CommitUnacknowledged(j)
                          \/ Fail(j)
        \/ \E k \in keys, lead \in RevokeLead : Revoke(k, lead)

Spec == Init /\ [][Next]_vars

-----------------------------------------------------------------------------
(* Types and safety *)

\* The types of the variables; a key is generated once.
TypeOK ==
    /\ clock \in Nat
    /\ keys \in SUBSET Row
    /\ UniqueIds(keys)
    /\ pc \in [Job -> {"idle", "next", "found", "insert"}]
    /\ begun \in [Job -> Nat]
    /\ todo \in [Job -> SUBSET Usage]
    /\ usage \in [Job -> Usage \cup {NoUsage}]
    /\ latest \in [Job -> SUBSET Int]
    /\ written \in [Job -> SUBSET Row]
    /\ reported \in [Job -> {"none", "ok", "error"}]

\* The keys of a usage that are served at once are never closer than one
\* rotation interval: a new key is generated only once the rotation window of
\* the previous one has elapsed, whatever the interleaving of its check and its
\* insertion with revocations, failures and the passage of time (jwkGen.go).
ActiveSpaced == AllSpaced(keys, clock)

\* For each usage there is a single main key: no two active keys tie for the
\* newest, so every reader of the list signs with the same one (pg.jwk.go).
SingleMainKey ==
    \A u \in Usage : \A k, m \in MainKeys(keys, u, clock) : k = m

\* A run is a single unit of work: as soon as any usage has a key, every usage
\* has one, even if runs fail halfway or die (jwkRotateAll.go).
AllOrNothing == keys # {} => \A u \in Usage : \E k \in keys : k.usage = u

\* The number of keys of a usage served at once, which the LIMIT of PgJwkSearch
\* relies on to stay far below KeysMaxBatchSize, is bounded by the ratio of
\* lifetime to rotation interval however many revocations and retries occur.
ActiveBounded ==
    \A u \in Usage : \E j \in Job :
        Sec(Rotation[u]) * (Cardinality(Matching(keys, u, clock)) - 1)
            =< Sec(TTL[u]) + Skew[j]

\* A key that has stopped being served is never served again: neither its row
\* nor the view ever brings it back (up.sql, pg.jwkDelete.sql).
WithdrawnForGood ==
    [][ \A k \in keys, m \in keys' :
           k.id = m.id /\ Active(m, clock') => Active(k, clock) ]_vars

\* The key is within its rotation window at t, or was generated since.
InWindow(k, t) == \/ t - k.createdAt < Sec(Rotation[k.usage])
                  \/ k.createdAt >= Round(t)

\* A job may rely on k as a current key of u.
Ensures(j, k, u) == /\ k.usage = u
                    /\ CurrentAsOf(k, begun[j])
                    /\ InWindow(k, begun[j] + Skew[j])

\* A run that reports success leaves every configured usage with a current key,
\* be it one it found or one it generated (JwkRotateAll).
SuccessEnsuresEveryUsage ==
    [][ \A j \in Job : reported'[j] = "ok" /\ reported[j] # "ok" =>
           \A u \in Usage : \E k \in keys' : Ensures(j, k, u) ]_vars

\* The comment of active_keys: a key stops being served the moment its deleted_at
\* is set.
RevokedNotServed == \A k \in keys : k.deletedAt # {} => ~Active(k, clock)

\* The rotation implements the abstract key ring.
Ring == INSTANCE KeyRing
RingSpec == Ring!Spec

-----------------------------------------------------------------------------
(* The inductive invariant *)

\* Every row is as the columns round it.
RowsStored == /\ \A k \in keys : Stored(k)
              /\ \A j \in Job : \A n \in written[j] : Stored(n)

\* No two jobs, and no job and the table, hold rows of the same identity.
IdsDistinct ==
    /\ \A j \in Job : UniqueIds(written[j])
    /\ \A j \in Job : \A n \in written[j], k \in keys : n.id # k.id
    /\ \A i, j \in Job : i # j =>
          \A n \in written[i], m \in written[j] : n.id # m.id

\* The bookkeeping of one run.
RunConsistent(j) ==
    /\ begun[j] =< clock
    /\ pc[j] = "idle" => written[j] = {}
    /\ pc[j] \in {"found", "insert"} => usage[j] \in todo[j]
    /\ \A n \in written[j] : n.usage \notin todo[j] /\ n.deletedAt = {}
    /\ \A n, m \in written[j] : n.usage = m.usage => n = m
    /\ \A c \in latest[j] : c = Round(c)

\* Every usage a run is done with has a current key among the rows it reads.
Covered(j) ==
    pc[j] # "idle" =>
        \A u \in Usage \ todo[j] : \E k \in Visible(j) : Ensures(j, k, u)

\* The newest key a run found is still there, revoked meanwhile or not.
LatestStands(j) ==
    pc[j] = "found" => \A c \in latest[j] :
        \E k \in Visible(j) : /\ k.usage = usage[j]
                              /\ k.createdAt = c
                              /\ CurrentAsOf(k, begun[j])

RunsEnsure == /\ \A j \in Job : RunConsistent(j)
              /\ \A j \in Job : Covered(j)
              /\ \A j \in Job : LatestStands(j)

\* What runs preserve, whether or not they overlap.
IInv == TypeOK /\ RowsStored /\ IdsDistinct /\ RunsEnsure /\ AllOrNothing

\* Without overlap there is one run at a time...
OneRun == \A i, j \in Job : pc[i] # "idle" /\ pc[j] # "idle" => i = j

\* ... so what it read of a usage still bounds the keys served when it decides ...
LatestBounds(j) ==
    pc[j] = "found" => \A k \in Matching(keys, usage[j], begun[j]) :
        \E c \in latest[j] : k.createdAt =< c

\* ... when it inserts ...
WindowElapsed(j) ==
    pc[j] = "insert" => \A k \in Matching(keys, usage[j], begun[j]) :
        Now(j) - k.createdAt >= Sec(Rotation[usage[j]])

\* ... and until it commits.
WrittenSpaced(j) ==
    \A n \in written[j] : \A k \in Matching(keys, n.usage, begun[j]) : Spaced(k, n)

SerialInv == /\ OneRun
             /\ \A j \in Job : LatestBounds(j)
             /\ \A j \in Job : WindowElapsed(j)
             /\ \A j \in Job : WrittenSpaced(j)

-----------------------------------------------------------------------------
(* Liveness *)

\* The scheduler always starts another run, a run in progress takes its next
\* step, and runs do not fail forever.
Fairness == /\ WF_vars(\E j \in Job : Begin(j))
            /\ \A j \in Job : WF_vars(JobStep(j))
            /\ <>[][\A j \in Job : ~Fail(j) /\ ~CommitUnacknowledged(j)]_vars

FairSpec == Spec /\ Fairness

\* A usage left without an active key, by expiry, by revocation or because none
\* was ever generated, eventually has one again.
RotationResumes ==
    \A u \in Usage : Matching(keys, u, clock) = {} ~> Matching(keys, u, clock) # {}

=============================================================================
