----------------------------- MODULE Deployment -----------------------------
(***************************************************************************)
(* Replicas that start, serve, stop and are started again against one      *)
(* database: the chain of commands of a standalone image, the bare server  *)
(* of a base image, and what each of the three mains checks before it goes *)
(* on.  Images may be of different releases, each with its embedded        *)
(* configuration of usages.                                                *)
(***************************************************************************)
EXTENDS Server, JwkPresets

CONSTANTS
    Standalone,   \* replicas of the standalone images
    Usage,        \* usages of any release
    Release       \* replica -> its jwks.config.yaml, usage -> algorithm

ASSUME DeploymentAssumption ==
    /\ Standalone \subseteq Replica
    /\ Release \in [Replica -> UNION {[usages -> Alg] : usages \in SUBSET Usage}]

VARIABLES
    schema,  \* the migrations were applied
    keyed,   \* the usages that have had a key
    due      \* those whose main key is past its rotation interval

bootVars == <<schema, keyed, due>>
vars == <<serverVars, bootVars>>

\* The state of a replica's process.  What is still to run is named by the command
\* that comes next.
Stage == {"migrating", "rotating", "booting", "serving",
          "draining", "stopped", "panicked", "failed"}

Ended == {"stopped", "panicked", "failed"}

UsagesOf(s) == DOMAIN Release[s]

\* The usages a rotation run of this release generates a key for.
DueFor(s) == UsagesOf(s) \cap (due \cup (Usage \ keyed))

Init == /\ stage = [s \in Replica |-> "stopped"]
        /\ drain = [s \in Replica |-> 0]
        /\ call = [r \in Slot |-> NoCall]
        /\ database = "up"
        /\ schema = FALSE
        /\ keyed = {}
        /\ due = {}

Advance(s, next) == /\ stage' = [stage EXCEPT ![s] = next]
                    /\ UNCHANGED <<drain, call, database>>

\* A command exits with an error, and the chain, or the container, with it.
Fails(s) == Advance(s, "failed") /\ UNCHANGED bootVars

\* The container is started.
Start(s) == /\ stage[s] \in Ended
            /\ Advance(s, IF s \in Standalone THEN "migrating" ELSE "booting")
            /\ UNCHANGED bootVars

\* cmd/migrations: what is applied already is left alone.
Migrate(s) == /\ stage[s] = "migrating"
              /\ database = "up"
              /\ schema' = TRUE
              /\ Advance(s, "rotating")
              /\ UNCHANGED <<keyed, due>>

\* It may fail whatever state the database is in, and what it applied may stay: main
\* ends on any error of the migrator, one that met another replica's included.
MigrateFails(s) == /\ stage[s] = "migrating"
                   /\ schema' \in {schema, TRUE}
                   /\ Advance(s, "failed")
                   /\ UNCHANGED <<keyed, due>>

\* A job that takes having nothing to do for a reason not to end well.
RotateWhenDue(s) == /\ stage[s] = "rotating"
                    /\ DueFor(s) # {}
                    /\ database = "up"
                    /\ Generable(Release[s], DueFor(s))
                    /\ keyed' = keyed \cup DueFor(s)
                    /\ due' = due \ DueFor(s)
                    /\ Advance(s, "booting")
                    /\ UNCHANGED schema

\* cmd/rotate-keys: a key for every usage that is due, or for none.
RotateKeys(s) == /\ stage[s] = "rotating"
                 /\ database = "up"
                 /\ Generable(Release[s], DueFor(s))
                 /\ keyed' = keyed \cup DueFor(s)
                 /\ due' = due \ DueFor(s)
                 /\ Advance(s, "booting")
                 /\ UNCHANGED schema

\* A chain that goes on after a job that failed.
RotateFailsOnwards(s) == /\ stage[s] = "rotating"
                         /\ database = "hung"
                         /\ Advance(s, "booting")
                         /\ UNCHANGED bootVars

RotateFails(s) == /\ stage[s] = "rotating"
                  /\ \/ database = "hung"
                     \/ ~Generable(Release[s], DueFor(s))
                  /\ Fails(s)

\* cmd/grpc or cmd/rest reaches Serve.  Only the gRPC server builds signers.
Boot(s) == /\ stage[s] = "booting"
           /\ s \in Grpc => Signable(Release[s])
           /\ Advance(s, "serving")
           /\ UNCHANGED bootVars

\* It does not: the database does not answer, or the sources and producers cannot be
\* built.
BootFails(s) == /\ stage[s] = "booting"
                /\ \/ database = "hung"
                   \/ s \in Grpc /\ ~Signable(Release[s])
                /\ Fails(s)

\* The rotation interval of a usage passes.
Elapse(u) == /\ u \in keyed \ due
             /\ due' = due \cup {u}
             /\ UNCHANGED <<serverVars, schema, keyed>>

BootStep(s) == \/ Migrate(s)
               \/ MigrateFails(s)
               \/ RotateKeys(s)
               \/ RotateFails(s)
               \/ Boot(s)
               \/ BootFails(s)

Next == \/ \E s \in Replica : Start(s) \/ BootStep(s)
        \/ \E u \in Usage : Elapse(u)
        \/ ServerStep /\ UNCHANGED bootVars

\* The commands of a chain run on; whether a container is started is up to whoever
\* runs it.
Fairness == /\ ServerFairness
            /\ \A s \in Replica : WF_vars(BootStep(s))

Spec == Init /\ [][Next]_vars /\ Fairness

-----------------------------------------------------------------------------
(* Properties. *)

\* The types of the variables.
TypeOK == /\ ServerTypeOK
          /\ stage \in [Replica -> Stage]
          /\ schema \in BOOLEAN
          /\ keyed \in SUBSET Usage
          /\ due \in SUBSET keyed

\* A server of a standalone image never serves on a database without the schema, or
\* without a first key for each usage of its own release, whatever other releases did
\* to the database and however often it was restarted.
SeededBeforeServing ==
    \A s \in Standalone :
        stage[s] \in {"serving", "draining"} => schema /\ UsagesOf(s) \subseteq keyed

\* A gRPC server that serves signs with the keys its jobs generate, and its clients
\* verify with them: whatever algorithm a release names, the registries give it the
\* same key type and preset, or none of them knows it.
SignersFitKeys ==
    \A s \in Grpc, alg \in Alg :
        stage[s] = "serving" => /\ Generated(alg) = Producers(alg)
                                /\ Generated(alg) = Recipients(alg)

Supported(s) == \A u \in UsagesOf(s) : Generated(Release[s][u]) # {}

\* A replica whose release names supported algorithms, and which has its migrations
\* behind it, serves if the database answers meanwhile: neither the keys that other
\* releases left there, nor what they are doing to them, prevents it.  The migrations
\* themselves may fail, as they do for replicas that start at once (README.md).
SupportedServes ==
    \A s \in Replica :
        Supported(s) =>
            [](/\ stage[s] \in {"rotating", "booting"}
               /\ [](database = "up")
               => <>(stage[s] = "serving"))

\* The algorithms CONTRIBUTING.md says a usage may be configured with.
DocumentedAlg == {"EdDSA", "HS256", "HS384", "HS512", "ES256", "ES384", "ES512",
                  "RS256", "RS384", "RS512", "PS256", "PS384", "PS512"}

\* With a database that answers, a start that has its migrations behind it fails only
\* when the configuration names an algorithm that is not documented.
DocumentedAlgsServe ==
    [][ \A s \in Replica :
           /\ stage[s] \in {"rotating", "booting"}
           /\ stage'[s] = "failed"
           /\ database = "up"
           => \E u \in UsagesOf(s) : Release[s][u] \notin DocumentedAlg ]_vars

=============================================================================
