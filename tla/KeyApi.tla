------------------------------- MODULE KeyApi -------------------------------
(***************************************************************************)
(* The calls of the gRPC and REST APIs that read keys: what the handlers   *)
(* of internal/handlers do with a request, the services JwkSelect,         *)
(* JwkSearch and ClaimsSign behind them, and the gate of JwkExtract that   *)
(* private material has to pass, while keys are rotated, expire and are    *)
(* revoked.  A call reads the table once, in one statement, and answers    *)
(* from what it read; calls overlap.                                       *)
(*                                                                         *)
(* The private source of ClaimsSign is always stale here: what its cache   *)
(* changes is the subject of KeyDistribution.                              *)
(***************************************************************************)
EXTENDS KeyTable

CONSTANTS
    Client,      \* callers, one request at a time
    Symmetric,   \* keys without a public half: stored by other means than JwkGen
    Foreign,     \* keys whose private half another master key sealed
    Unknown,     \* a usage that is not configured
    Malformed,   \* an id that is not a uuid
    BatchSize,   \* KeysMaxBatchSize
    MaxClock,    \* bound: the last instant explored
    MaxRevoked   \* bound: how many keys are revoked

ASSUME ApiAssumption == /\ IsFiniteSet(KeyId)
                        /\ Symmetric \cup Foreign \subseteq KeyId
                        /\ Unknown \notin Usage
                        /\ Malformed \notin KeyId
                        /\ BatchSize \in Nat \ {0}
                        /\ MaxClock \in Nat
                        /\ \A u \in Usage : TTL[u] > 0

Imported == Symmetric \cup Foreign

VARIABLES
    clock,  \* the instant
    keys,   \* the rows of keys
    call    \* client -> the state of its request

vars == <<clock, keys, call>>

\* The routes: GrpcJwkGet and RestJwkGet, GrpcJwkList and RestJwkList, and
\* GrpcClaimsSign, whose payload may be unreadable, set a registered claim, or be one
\* no token is issued for: the claims cannot be built, the encoder refuses them, or
\* the signature fails.
Request ==
    [route : {"grpc.JwkGet", "rest.JwkGet"}, of : KeyId \cup {Malformed}]
    \cup [route : {"grpc.JwkList", "rest.JwkList"}, of : Usage \cup {Unknown}]
    \cup [route : {"grpc.ClaimsSign"}, of : Usage \cup {Unknown},
          payload : {"claims", "reserved", "garbled", "unissuable"}]

Selects(req) == req.route \in {"grpc.JwkGet", "rest.JwkGet"}
Lists(req)   == req.route \in {"grpc.JwkList", "rest.JwkList"}
Signs(req)   == req.route = "grpc.ClaimsSign"

\* The halves of a stored key that this service can read.
Halves(id) == {h \in {"public", "private"} : /\ h = "public"  => id \notin Symmetric
                                             /\ h = "private" => id \notin Foreign}

\* What an answer may carry: a half of a key, or a signature made with it.
Material == KeyId \X {"public", "private", "signature"}

Error == {"none", "badId", "notFound", "badPayload", "reservedClaim",
          "unknownUsage", "createClaims", "issue", "noKey", "query",
          "noPublicKey", "sealed"}

Status == {"OK", "InvalidArgument", "NotFound", "Unavailable", "Internal",
           "200", "400", "404", "500"}

\* A mapping that knows no sentinel error.
GrpcCodeUnmapped(e) == IF e = "none" THEN "OK" ELSE "Internal"

\* The status a gRPC handler gives an error of its service ...
GrpcCode(e) ==
    CASE e = "none"                                       -> "OK"
      [] e \in {"badId", "badPayload", "reservedClaim"}   -> "InvalidArgument"
      [] e = "notFound"                                   -> "NotFound"
      [] e = "unknownUsage"                               -> "Unavailable"
      [] OTHER                                            -> "Internal"

\* ... and the one a REST handler does.
RestCode(e) ==
    CASE e = "none"     -> "200"
      [] e = "badId"    -> "400"
      [] e = "notFound" -> "404"
      [] OTHER          -> "500"

Code(req, e) == IF req.route \in {"rest.JwkGet", "rest.JwkList"} THEN RestCode(e)
                                                                 ELSE GrpcCode(e)

Idle == [stage |-> "idle"]

Received(req, now) == [stage |-> "received", request |-> req, since |-> now]

\* The rows the statement returned, and which of them came first, if any.
Read(cl, rows, first) ==
    [stage |-> "read", request |-> cl.request, since |-> cl.since,
     rows |-> rows, first |-> first]

Answer(cl, e, found) ==
    [stage |-> "answered", request |-> cl.request, since |-> cl.since,
     error |-> e, code |-> Code(cl.request, e), found |-> found]

\* The table may hold keys that JwkGen of this deployment did not write.
Init == /\ clock = 0
        /\ \E usage \in [Imported -> Usage] :
              keys = {NewRow(id, usage[id], 0) : id \in Imported}
        /\ call = [c \in Client |-> Idle]

Tick == /\ clock < MaxClock
        /\ clock' = clock + 1
        /\ UNCHANGED <<keys, call>>

\* A rotation run commits.
Rotate == /\ \E batch \in Batches(keys, clock, clock) : keys' = keys \cup batch
          /\ UNCHANGED <<clock, call>>

\* A revocation that inserts a row instead of changing one.
RevokeCopy(k) ==
    /\ Cardinality({m \in keys : m.deletedAt # {}}) < MaxRevoked
    /\ Revocable(k, clock)
    /\ keys' = keys \cup {RevokedRow(k, clock)}
    /\ UNCHANGED <<clock, call>>

\* PgJwkDelete withdraws a key.
Revoke(k) ==
    /\ Cardinality({m \in keys : m.deletedAt # {}}) < MaxRevoked
    /\ Revocable(k, clock)
    /\ keys' = (keys \ {k}) \cup {RevokedRow(k, clock)}
    /\ UNCHANGED <<clock, call>>

\* A request reaches its handler.
Ask(c) == /\ call[c] = Idle
          /\ \E req \in Request :
                call' = [call EXCEPT ![c] = Received(req, clock)]
          /\ UNCHANGED <<clock, keys>>

\* Why a handler or its service turns a request away, whatever keys there are: ids
\* and payloads are parsed first, then the usage is looked up, the claims are built,
\* and the token is issued.
Refusals(req) ==
    {e \in {"badId", "badPayload", "unknownUsage", "reservedClaim", "createClaims", "issue"} :
        /\ e = "badId"         => Selects(req) /\ req.of = Malformed
        /\ e # "badId"         => Signs(req)
        /\ e = "badPayload"    => req.payload = "garbled"
        /\ e = "unknownUsage"  => req.payload # "garbled" /\ req.of = Unknown
        /\ e = "reservedClaim" => req.payload = "reserved" /\ req.of # Unknown
        /\ e \in {"createClaims", "issue"} =>
               req.payload = "unissuable" /\ req.of # Unknown}

Refuse(c) ==
    /\ call[c].stage = "received"
    /\ \E e \in Refusals(call[c].request) :
          call' = [call EXCEPT ![c] = Answer(@, e, {})]
    /\ UNCHANGED <<clock, keys>>

\* Those found out only while the token is issued, before or after the source is
\* consulted.
Late == {"reservedClaim", "issue"}

\* The requests that may come to reading keys.
Admitted(req) == Refusals(req) = {} \/ Refusals(req) \cap Late # {}

\* A select that reads the table and not the view.
SelectAny(rows, id, t) == {{k \in rows : k.id = id}}

\* PgJwkSelect: the active row of that id, or none.
Selections(rows, id, t) == {{k \in rows : k.id = id /\ Active(k, t)}}

\* What may come first in the list, if it has a first.
Leaders(rows) == IF rows = {} THEN {{}} ELSE {{k} : k \in Newest(rows)}

\* The statement of the DAO reads the view.
Query(c) ==
    LET req == call[c].request
    IN  /\ call[c].stage = "received"
        /\ Admitted(req)
        /\ \E rows \in IF Selects(req) THEN Selections(keys, req.of, clock)
                       ELSE Listings(keys, req.of, clock, BatchSize) :
              \E first \in Leaders(rows) :
                 call' = [call EXCEPT ![c] = Read(@, rows, first)]
        /\ UNCHANGED <<clock, keys>>

\* The statement fails, or the request is cancelled first.
QueryFails(c) ==
    /\ call[c].stage = "received"
    /\ Admitted(call[c].request)
    /\ call' = [call EXCEPT ![c] = Answer(@, "query", {})]
    /\ UNCHANGED <<clock, keys>>

\* A gate that falls back on the half there is.
ExtractEither(k, private) ==
    IF "public" \in Halves(k.id) THEN {<<k.id, "public">>} ELSE {<<k.id, "private">>}

\* JwkExtract: the half asked for, if the key has it and it can be read.
Extract(k, private) ==
    {<<k.id, h>> : h \in Halves(k.id) \cap {IF private THEN "private" ELSE "public"}}

\* The error the service returns for the rows it read, a sentinel or not ...
Failure(req, rows) ==
    IF \E k \in rows : Extract(k, Signs(req)) = {}
        THEN IF Signs(req) THEN "sealed" ELSE "noPublicKey"
    ELSE IF rows # {} \/ Lists(req) THEN "none"
    ELSE IF Selects(req) THEN "notFound" ELSE "noKey"

\* ... and what it gives the caller: the public keys, or a token signed with the
\* first key of the list.
Found(req, rows, first) ==
    IF Failure(req, rows) # "none" THEN {}
    ELSE IF Signs(req) THEN {<<k.id, "signature">> : k \in first}
    ELSE UNION {Extract(k, FALSE) : k \in rows}

Reply(c) ==
    LET cl  == call[c]
        req == cl.request
        e   == Failure(req, cl.rows)
    IN  /\ cl.stage = "read"
        /\ \/ /\ Refusals(req) = {} \/ e # "none"
              /\ call' = [call EXCEPT ![c] = Answer(@, e, Found(req, cl.rows, cl.first))]
           \/ \E r \in Refusals(req) \cap Late : call' = [call EXCEPT ![c] = Answer(@, r, {})]
        /\ UNCHANGED <<clock, keys>>

\* The client has its answer.
Return(c) == /\ call[c].stage = "answered"
             /\ call' = [call EXCEPT ![c] = Idle]
             /\ UNCHANGED <<clock, keys>>

Next == \/ Tick
        \/ Rotate
        \/ \E k \in keys : Revoke(k)
        \/ \E c \in Client : \/ Ask(c)
                             \/ Refuse(c)
                             \/ Query(c)
                             \/ QueryFails(c)
                             \/ Reply(c)
                             \/ Return(c)

Spec == Init /\ [][Next]_vars

-----------------------------------------------------------------------------
(* Properties. *)

\* The types of the variables.
Call == {Idle}
        \cup [stage : {"received"}, request : Request, since : Nat]
        \cup [stage : {"read"}, request : Request, since : Nat,
              rows : SUBSET Row, first : SUBSET Row]
        \cup [stage : {"answered"}, request : Request, since : Nat,
              error : Error, code : Status, found : SUBSET Material]

TypeOK == /\ clock \in 0..MaxClock
          /\ keys \in SUBSET Row
          /\ UniqueIds(keys)
          /\ call \in [Client -> Call]

\* No answer carries the private half of a key, whatever kind of key is asked for
\* and by whatever route: JwkExtract's gate, as the handlers and the signer use it.
PublicHalvesOnly ==
    \A c \in Client : call[c].stage = "answered" =>
        call[c].found \cap (KeyId \X {"private"}) = {}

\* The keys whose failure to extract can make a request fail: the one of the id, or
\* any of the usage, that lacks the half the route needs.
Culprits(req) ==
    {k \in keys : /\ Extract(k, Signs(req)) = {}
                  /\ req.of = IF Selects(req) THEN k.id ELSE k.usage}

\* A request for a token of a configured usage that cannot be issued.
Unissuable(req) == Signs(req) /\ req.of \in Usage /\ req.payload = "unissuable"

\* An internal error always has a cause that the request could have met since it was
\* made: the database, no key to sign with, a payload no token is issued for, or a key
\* of that very usage or id that was current then and cannot be extracted.  An id or a
\* payload that cannot be read, a registered claim, an unknown usage and the keys of
\* other usages never show as one.
FailureExplained ==
    \A c \in Client :
        call[c].stage = "answered" /\ call[c].code \in {"Internal", "500"}
            => \/ call[c].error = "query"
               \/ call[c].error = "noKey" /\ Signs(call[c].request)
               \/ call[c].error \in {"createClaims", "issue"} /\ Unissuable(call[c].request)
               \/ \E k \in Culprits(call[c].request) :
                      CurrentAsOf(k, call[c].since)

\* What the directory's calls are here.  A request that is turned away whatever the
\* table holds is no question to it.
Asks(req) ==
    [op |-> IF Selects(req) THEN "get" ELSE IF Lists(req) THEN "list" ELSE "sign",
     of |-> req.of]

\* Its answer is settled when the table is read: not finding a key is one.
Settled(req, e, found) ==
    [stage    |-> "answered",
     question |-> Asks(req),
     ok       |-> Code(req, e) \in {"OK", "200", "NotFound", "404"},
     found    |-> {m[1] : m \in found}]

AsCall(cl) ==
    CASE cl.stage = "idle" -> cl
      [] cl.stage # "idle" /\ Refusals(cl.request) # {} -> Idle
      [] cl.stage = "received" /\ Refusals(cl.request) = {} ->
            [stage |-> "asked", question |-> Asks(cl.request)]
      [] cl.stage = "read" /\ Refusals(cl.request) = {} ->
            Settled(cl.request, Failure(cl.request, cl.rows),
                    Found(cl.request, cl.rows, cl.first))
      [] cl.stage = "answered" /\ Refusals(cl.request) = {} ->
            Settled(cl.request, cl.error, cl.found)

\* The keys being served, those that are not any more, and the calls.
DirLive == [u \in Usage \cup {Unknown} |-> {k.id : k \in Matching(keys, u, clock)}]

DirGone == {k.id : k \in {m \in keys : ~Active(m, clock)}}

DirCalls == [c \in Client |-> AsCall(call[c])]

Dir == INSTANCE KeyDirectory
       WITH Usage <- Usage \cup {Unknown}, live <- DirLive, gone <- DirGone,
            calls <- DirCalls

\* Whatever the table, the clock and the handlers do, a caller sees a directory that
\* keys enter and leave once, and each answer is its content at one instant between
\* the question and the answer, or a failure that shows nothing.
DirectorySpec == Dir!Spec

=============================================================================
