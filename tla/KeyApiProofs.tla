---------------------------- MODULE KeyApiProofs ----------------------------
(***************************************************************************)
(* What the read routes guarantee, for every number of clients, keys and   *)
(* usages, every configuration, and a table and a clock of any size; and   *)
(* that they implement the directory of KeyDirectory.                      *)
(***************************************************************************)
EXTENDS KeyApi, KeyTableLemmas, FiniteSetTheorems, FunctionTheorems

-----------------------------------------------------------------------------
(* What a call reads and answers *)

\* The routes of a request, and what it is about.
LEMMA RequestRoutes ==
    ASSUME NEW req \in Request
    PROVE  /\ Selects(req) \/ Lists(req) \/ Signs(req)
           /\ ~(Selects(req) /\ Signs(req))
           /\ ~(Lists(req) /\ Signs(req))
           /\ ~(Selects(req) /\ Lists(req))
           /\ Selects(req) => req.of \in KeyId \cup {Malformed}
           /\ ~Selects(req) => req.of \in Usage \cup {Unknown}
BY DEF Request, Selects, Lists, Signs

\* A listing shows rows that are served.
LEMMA ListingsServed ==
    ASSUME NEW rows, NEW u, NEW t, NEW limit, NEW list \in Listings(rows, u, t, limit)
    PROVE  /\ list \subseteq Matching(rows, u, t)
           /\ list = Matching(rows, u, t) \/ Cardinality(list) = limit
BY DEF Listings

\* So does whatever a route reads, of the id or the usage asked about.
LEMMA ReadsServed ==
    ASSUME NEW req \in Request, NEW rows, NEW t,
           NEW read \in IF Selects(req) THEN Selections(rows, req.of, t)
                        ELSE Listings(rows, req.of, t, BatchSize)
    PROVE  \A k \in read : /\ k \in rows
                           /\ Active(k, t)
                           /\ req.of = IF Selects(req) THEN k.id ELSE k.usage
<1>1. CASE Selects(req)
      BY <1>1 DEF Selections
<1>2. CASE ~Selects(req)
      BY <1>2, ListingsServed DEF Matching
<1> QED BY <1>1, <1>2

\* The first of some rows is one of them, if there is any.
LEMMA LeadersAmong ==
    ASSUME NEW rows, NEW first \in Leaders(rows)
    PROVE  /\ first \subseteq rows
           /\ rows = {} => first = {}
           /\ rows # {} => \E k \in rows : first = {k}
BY DEF Leaders, Newest

\* The public keys of some rows.
LEMMA PublicOf ==
    ASSUME NEW rows, \A k \in rows : Extract(k, FALSE) # {}
    PROVE  UNION {Extract(k, FALSE) : k \in rows} = {<<k.id, "public">> : k \in rows}
<1>1. ASSUME NEW k \in rows
      PROVE  Extract(k, FALSE) = {<<k.id, "public">>}
      BY DEF Extract
<1>2. {Extract(k, FALSE) : k \in rows} = {{<<k.id, "public">>} : k \in rows}
      BY <1>1
<1>3. UNION {{<<k.id, "public">>} : k \in rows} = {<<k.id, "public">> : k \in rows}
      OBVIOUS
<1> QED BY <1>2, <1>3

\* What is found, route by route.
LEMMA FoundWhat ==
    ASSUME NEW req \in Request, NEW rows, NEW first
    PROVE  \/ Found(req, rows, first) = {}
           \/ /\ Failure(req, rows) = "none"
              /\ Signs(req)
              /\ Found(req, rows, first) = {<<k.id, "signature">> : k \in first}
           \/ /\ Failure(req, rows) = "none"
              /\ ~Signs(req)
              /\ Found(req, rows, first) = {<<k.id, "public">> : k \in rows}
<1>1. CASE Failure(req, rows) # "none"
      BY <1>1 DEF Found
<1>2. CASE Failure(req, rows) = "none" /\ Signs(req)
      BY <1>2 DEF Found
<1>3. CASE Failure(req, rows) = "none" /\ ~Signs(req)
      <2>1. Signs(req) = FALSE
            BY <1>3 DEF Signs
      <2>2. \A k \in rows : Extract(k, FALSE) # {}
            <3> SUFFICES ASSUME NEW k \in rows, Extract(k, FALSE) = {}
                         PROVE  FALSE
                OBVIOUS
            <3>1. Failure(req, rows) = "noPublicKey"
                  BY <2>1 DEF Failure
            <3> QED BY <1>3, <3>1
      <2> QED BY <1>3, <2>2, PublicOf DEF Found
<1> QED BY <1>1, <1>2, <1>3

LEMMA FoundType ==
    ASSUME NEW req \in Request, NEW rows \in SUBSET Row, NEW first \in SUBSET Row
    PROVE  /\ Found(req, rows, first) \in SUBSET Material
           /\ Found(req, rows, first) \cap (KeyId \X {"private"}) = {}
<1>1. \A k \in rows \cup first : k.id \in KeyId
      BY DEF Row
<1> QED BY <1>1, FoundWhat DEF Material

LEMMA FailureType ==
    ASSUME NEW req, NEW rows
    PROVE  Failure(req, rows) \in
              {"none", "noPublicKey", "sealed", "notFound", "noKey"}
BY DEF Failure

LEMMA CodeType ==
    ASSUME NEW req, NEW e
    PROVE  Code(req, e) \in Status
BY DEF Code, GrpcCode, RestCode, Status

LEMMA RefusalsType ==
    ASSUME NEW req, NEW e \in Refusals(req)
    PROVE  e \in {"badId", "badPayload", "unknownUsage", "reservedClaim",
                  "createClaims", "issue"}
BY DEF Refusals

-----------------------------------------------------------------------------
(* Types *)

LEMMA AnswerType ==
    ASSUME NEW req \in Request, NEW since \in Nat, NEW cl,
           cl.request = req, cl.since = since,
           NEW e \in Error, NEW found \in SUBSET Material
    PROVE  Answer(cl, e, found) \in Call
BY CodeType DEF Answer, Call

LEMMA CallStages ==
    ASSUME NEW cl \in Call
    PROVE  /\ cl.stage \in {"idle", "received", "read", "answered"}
           /\ cl.stage = "idle" => cl = Idle
           /\ cl.stage # "idle" => cl.request \in Request /\ cl.since \in Nat
           /\ cl.stage = "received" =>
                 cl \in [stage : {"received"}, request : Request, since : Nat]
           /\ cl.stage = "read" =>
                 cl.rows \in SUBSET Row /\ cl.first \in SUBSET Row
           /\ cl.stage = "answered" =>
                 /\ cl.error \in Error
                 /\ cl.code \in Status
                 /\ cl.found \in SUBSET Material
BY DEF Call, Idle

LEMMA ApiInitType == Init => TypeOK
<1> SUFFICES ASSUME Init
             PROVE  TypeOK
    OBVIOUS
<1>1. PICK usage \in [Imported -> Usage] :
            keys = {NewRow(id, usage[id], 0) : id \in Imported}
      BY DEF Init
<1>2. Imported \subseteq KeyId
      BY ApiAssumption DEF Imported
<1>3. \A id \in Imported : NewRow(id, usage[id], 0) \in Row /\ NewRow(id, usage[id], 0).id = id
      BY <1>1, <1>2, NewRowIsRow
<1>4. keys \in SUBSET Row /\ UniqueIds(keys)
      BY <1>1, <1>3 DEF UniqueIds
<1>5. clock \in 0..MaxClock
      BY ApiAssumption DEF Init
<1>6. call \in [Client -> Call]
      BY DEF Init, Call, Idle
<1> QED BY <1>4, <1>5, <1>6 DEF TypeOK

\* What Query, Reply and the answers leave in a call.
LEMMA StepTypes ==
    ASSUME TypeOK, NEW c \in Client
    PROVE  /\ Ask(c) => call' \in [Client -> Call]
           /\ Refuse(c) => call' \in [Client -> Call]
           /\ Query(c) => call' \in [Client -> Call]
           /\ QueryFails(c) => call' \in [Client -> Call]
           /\ Reply(c) => call' \in [Client -> Call]
           /\ Return(c) => call' \in [Client -> Call]
<1>1. /\ call[c] \in Call
      /\ call \in [Client -> Call]
      /\ \A cl \in Call : [call EXCEPT ![c] = cl] \in [Client -> Call]
      BY DEF TypeOK
<1>2. ASSUME Ask(c)
      PROVE  call' \in [Client -> Call]
      <2>1. PICK req \in Request : call' = [call EXCEPT ![c] = Received(req, clock)]
            BY <1>2 DEF Ask
      <2>2. clock \in Nat
            BY ApiAssumption DEF TypeOK
      <2>3. Received(req, clock) \in Call
            BY <2>2 DEF Received, Call
      <2> QED BY <1>1, <2>1, <2>3
<1>3. ASSUME Refuse(c)
      PROVE  call' \in [Client -> Call]
      <2>1. PICK e \in Refusals(call[c].request) :
                call' = [call EXCEPT ![c] = Answer(@, e, {})]
            BY <1>3 DEF Refuse
      <2>2. call[c].request \in Request /\ call[c].since \in Nat
            BY <1>1, <1>3, CallStages DEF Refuse
      <2>3. e \in Error
            BY RefusalsType DEF Error
      <2>4. Answer(call[c], e, {}) \in Call
            BY <2>2, <2>3, AnswerType
      <2> QED BY <1>1, <2>1, <2>4
<1>4. ASSUME Query(c)
      PROVE  call' \in [Client -> Call]
      <2> DEFINE req == call[c].request
      <2>1. PICK rows \in IF Selects(req) THEN Selections(keys, req.of, clock)
                          ELSE Listings(keys, req.of, clock, BatchSize) :
                 \E first \in Leaders(rows) :
                    call' = [call EXCEPT ![c] = Read(@, rows, first)]
            BY <1>4 DEF Query
      <2>2. PICK first \in Leaders(rows) :
                call' = [call EXCEPT ![c] = Read(@, rows, first)]
            BY <2>1
      <2>3. req \in Request /\ call[c].since \in Nat
            BY <1>1, <1>4, CallStages DEF Query
      <2>4. rows \subseteq keys
            BY <2>1, <2>3, ReadsServed
      <2>5. rows \in SUBSET Row /\ first \in SUBSET Row
            BY <2>4, LeadersAmong DEF TypeOK
      <2>6. Read(call[c], rows, first) \in Call
            BY <2>3, <2>5 DEF Read, Call
      <2> QED BY <1>1, <2>2, <2>6
<1>5. ASSUME QueryFails(c)
      PROVE  call' \in [Client -> Call]
      <2>1. call[c].request \in Request /\ call[c].since \in Nat
            BY <1>1, <1>5, CallStages DEF QueryFails
      <2>2. Answer(call[c], "query", {}) \in Call
            BY <2>1, AnswerType DEF Error
      <2> QED BY <1>1, <1>5, <2>2 DEF QueryFails
<1>6. ASSUME Reply(c)
      PROVE  call' \in [Client -> Call]
      <2> DEFINE cl  == call[c]
                 req == cl.request
                 e   == Failure(req, cl.rows)
      <2>1. /\ req \in Request /\ cl.since \in Nat
            /\ cl.rows \in SUBSET Row /\ cl.first \in SUBSET Row
            BY <1>1, <1>6, CallStages DEF Reply
      <2>2. e \in Error /\ Found(req, cl.rows, cl.first) \in SUBSET Material
            BY <2>1, FailureType, FoundType DEF Error
      <2>3. Answer(cl, e, Found(req, cl.rows, cl.first)) \in Call
            <3> HIDE DEF e
            <3> QED BY <2>1, <2>2, AnswerType
      <2>4. ASSUME NEW r \in Refusals(req)
            PROVE  Answer(cl, r, {}) \in Call
            <3>1. r \in Error
                  BY RefusalsType DEF Error
            <3> QED BY <2>1, <3>1, AnswerType
      <2> QED BY <1>1, <1>6, <2>3, <2>4 DEF Reply
<1>7. ASSUME Return(c)
      PROVE  call' \in [Client -> Call]
      <2>1. Idle \in Call
            BY DEF Call
      <2> QED BY <1>1, <1>7, <2>1 DEF Return
<1> QED BY <1>2, <1>3, <1>4, <1>5, <1>6, <1>7

\* What Rotate and Revoke leave in the table.
LEMMA TableTypes ==
    ASSUME TypeOK
    PROVE  /\ Rotate => keys' \in SUBSET Row /\ UniqueIds(keys')
           /\ \A k \in keys : Revoke(k) => keys' \in SUBSET Row /\ UniqueIds(keys')
<1>1. clock \in Int /\ keys \in SUBSET Row /\ UniqueIds(keys)
      BY DEF TypeOK
<1>2. ASSUME Rotate
      PROVE  keys' \in SUBSET Row /\ UniqueIds(keys')
      <2>1. PICK batch \in Batches(keys, clock, clock) : keys' = keys \cup batch
            BY <1>2 DEF Rotate
      <2> QED BY <1>1, <2>1, BatchRows
<1>3. ASSUME NEW k \in keys, Revoke(k)
      PROVE  keys' \in SUBSET Row /\ UniqueIds(keys')
      BY <1>1, <1>3, RevokedTable DEF Revoke
<1> QED BY <1>2, <1>3

LEMMA ApiNextType == TypeOK /\ [Next]_vars => TypeOK'
<1> SUFFICES ASSUME TypeOK, [Next]_vars
             PROVE  TypeOK'
    OBVIOUS
<1>1. CASE Tick
      BY <1>1, ApiAssumption DEF Tick, TypeOK
<1>2. CASE Rotate
      BY <1>2, TableTypes DEF Rotate, TypeOK
<1>3. ASSUME NEW k \in keys, Revoke(k)
      PROVE  TypeOK'
      BY <1>3, TableTypes DEF Revoke, TypeOK
<1>4. ASSUME NEW c \in Client,
             Ask(c) \/ Refuse(c) \/ Query(c) \/ QueryFails(c) \/ Reply(c) \/ Return(c)
      PROVE  TypeOK'
      <2>1. call' \in [Client -> Call]
            BY <1>4, StepTypes
      <2>2. UNCHANGED <<clock, keys>>
            BY <1>4 DEF Ask, Refuse, Query, QueryFails, Reply, Return
      <2> QED BY <2>1, <2>2 DEF TypeOK
<1>5. CASE UNCHANGED vars
      BY <1>5 DEF vars, TypeOK
<1> QED BY <1>1, <1>2, <1>3, <1>4, <1>5 DEF Next

\* The types of the variables.
THEOREM ApiTypeCorrect == Spec => []TypeOK
BY ApiInitType, ApiNextType, PTL DEF Spec

-----------------------------------------------------------------------------
(* What the steps do to one call *)

ClientStep(c) ==
    Ask(c) \/ Refuse(c) \/ Query(c) \/ QueryFails(c) \/ Reply(c) \/ Return(c)

\* A step of a client touches its own call only, and no key.
LEMMA StepsApart ==
    ASSUME TypeOK, NEW c \in Client, ClientStep(c)
    PROVE  /\ UNCHANGED <<clock, keys>>
           /\ \A d \in Client : d # c => call'[d] = call[d]
BY DEF TypeOK, ClientStep, Ask, Refuse, Query, QueryFails, Reply, Return

\* The other steps touch no call.
LEMMA CallsKept ==
    ASSUME [Next]_vars
    PROVE  call' = call \/ \E c \in Client : ClientStep(c)
BY DEF Next, Tick, Rotate, Revoke, vars, ClientStep

\* How a call comes to be answered, and with what.
LEMMA AnsweredHow ==
    ASSUME TypeOK, NEW c \in Client, ClientStep(c), call'[c].stage = "answered"
    PROVE  LET req == call[c].request
           IN  /\ req \in Request
               /\ call[c].stage \in {"received", "read"}
               /\ call'[c].request = req
               /\ call'[c].since = call[c].since
               /\ call'[c].code = Code(req, call'[c].error)
               /\ \/ call'[c].error \in Refusals(req) /\ call'[c].found = {}
                  \/ call'[c].error = "query" /\ call'[c].found = {}
                  \/ /\ call[c].stage = "read"
                     /\ call'[c].error = Failure(req, call[c].rows)
                     /\ call'[c].found = Found(req, call[c].rows, call[c].first)
<1> DEFINE cl  == call[c]
           req == cl.request
<1>1. /\ cl \in Call
      /\ c \in DOMAIN call
      BY DEF TypeOK
<1>2. ASSUME Ask(c)
      PROVE  FALSE
      BY <1>1, <1>2 DEF Ask, Received
<1>3. ASSUME Query(c)
      PROVE  FALSE
      BY <1>1, <1>3 DEF Query, Read
<1>4. ASSUME Return(c)
      PROVE  FALSE
      BY <1>1, <1>4 DEF Return, Idle
<1>5. CASE Refuse(c)
      <2>1. PICK e \in Refusals(req) : call'[c] = Answer(cl, e, {})
            BY <1>1, <1>5 DEF Refuse
      <2>2. req \in Request /\ cl.stage = "received"
            BY <1>1, <1>5, CallStages DEF Refuse
      <2> QED BY <2>1, <2>2 DEF Answer
<1>6. CASE QueryFails(c)
      <2>1. call'[c] = Answer(cl, "query", {})
            BY <1>1, <1>6 DEF QueryFails
      <2>2. req \in Request /\ cl.stage = "received"
            BY <1>1, <1>6, CallStages DEF QueryFails
      <2> QED BY <2>1, <2>2 DEF Answer
<1>7. CASE Reply(c)
      <2>1. \/ call'[c] = Answer(cl, Failure(req, cl.rows), Found(req, cl.rows, cl.first))
            \/ \E r \in Refusals(req) : call'[c] = Answer(cl, r, {})
            BY <1>1, <1>7 DEF Reply
      <2>2. req \in Request /\ cl.stage = "read"
            BY <1>1, <1>7, CallStages DEF Reply
      <2>3. CASE call'[c] = Answer(cl, Failure(req, cl.rows), Found(req, cl.rows, cl.first))
            BY <2>2, <2>3 DEF Answer
      <2>4. CASE \E r \in Refusals(req) : call'[c] = Answer(cl, r, {})
            BY <2>2, <2>4 DEF Answer
      <2> QED BY <2>1, <2>3, <2>4
<1> QED BY <1>2, <1>3, <1>4, <1>5, <1>6, <1>7 DEF ClientStep

-----------------------------------------------------------------------------
(* No private half *)

LEMMA NextPublic == TypeOK /\ PublicHalvesOnly /\ [Next]_vars => PublicHalvesOnly'
<1> SUFFICES ASSUME TypeOK, PublicHalvesOnly, [Next]_vars,
                    NEW d \in Client, call'[d].stage = "answered"
             PROVE  call'[d].found \cap (KeyId \X {"private"}) = {}
    BY DEF PublicHalvesOnly
<1>1. CASE call'[d] = call[d]
      BY <1>1 DEF PublicHalvesOnly
<1>2. ASSUME ClientStep(d)
      PROVE  call'[d].found \cap (KeyId \X {"private"}) = {}
      <2>1. CASE call[d].stage = "read"
            <3>1. /\ call[d].request \in Request
                  /\ call[d].rows \in SUBSET Row /\ call[d].first \in SUBSET Row
                  BY <2>1, CallStages DEF TypeOK
            <3> QED BY <1>2, <3>1, AnsweredHow, FoundType
      <2>2. CASE call[d].stage # "read"
            BY <1>2, <2>2, AnsweredHow
      <2> QED BY <2>1, <2>2
<1> QED BY <1>1, <1>2, CallsKept, StepsApart

\* No answer carries the private half of a key, whatever is stored, asked for and
\* sealed by another master key.
THEOREM NoPrivateHalf == Spec => []PublicHalvesOnly
<1>1. Init => PublicHalvesOnly
      BY DEF Init, PublicHalvesOnly, Idle
<1> QED BY <1>1, NextPublic, ApiTypeCorrect, PTL DEF Spec

-----------------------------------------------------------------------------
(* Every internal error has a cause *)

\* A request was made in the past.
AskedBefore == \A c \in Client : call[c].stage # "idle" => call[c].since =< clock

\* What a call holds is still in the table, as of the request.
HeldIsCurrent ==
    \A c \in Client : call[c].stage = "read" =>
        \A k \in call[c].rows :
            \E m \in keys :
                /\ m.id = k.id
                /\ m.usage = k.usage
                /\ CurrentAsOf(m, call[c].since)
                /\ call[c].request.of =
                       IF Selects(call[c].request) THEN k.id ELSE k.usage

ExplainInv == TypeOK /\ AskedBefore /\ HeldIsCurrent /\ FailureExplained

LEMMA NextAsked == ExplainInv /\ [Next]_vars => AskedBefore'
<1> SUFFICES ASSUME ExplainInv, [Next]_vars,
                    NEW d \in Client, call'[d].stage # "idle"
             PROVE  call'[d].since =< clock'
    BY DEF AskedBefore
<1>1. clock \in Int /\ clock' \in Int /\ clock =< clock'
      <2>1. clock \in Int
            BY DEF ExplainInv, TypeOK
      <2>2. clock' = clock \/ clock' = clock + 1
            BY DEF Next, Tick, Rotate, Revoke, Ask, Refuse, Query, QueryFails, Reply,
                   Return, vars
      <2> QED BY <2>1, <2>2
<1>2. call[d] \in Call
      BY DEF ExplainInv, TypeOK
<1>3. call[d].stage # "idle" => call[d].since \in Nat /\ call[d].since =< clock
      BY <1>2, CallStages DEF ExplainInv, AskedBefore
<1>4. CASE call'[d] = call[d]
      BY <1>1, <1>3, <1>4
<1>5. ASSUME ClientStep(d)
      PROVE  call'[d].since =< clock'
      <2>1. CASE Ask(d)
            BY <1>1, <2>1 DEF Ask, Received, ExplainInv, TypeOK
      <2>2. CASE call'[d].stage = "answered"
            BY <1>1, <1>3, <1>5, <2>2, AnsweredHow DEF ExplainInv
      <2>3. CASE Query(d)
            BY <1>1, <1>3, <2>3 DEF Query, Read, ExplainInv, TypeOK
      <2>4. call'[d].stage # "answered" => Ask(d) \/ Query(d)
            BY <1>5 DEF ClientStep, Refuse, QueryFails, Reply, Return, Answer, Idle,
                        ExplainInv, TypeOK
      <2> QED BY <2>1, <2>2, <2>3, <2>4
<1> QED BY <1>4, <1>5, CallsKept, StepsApart DEF ExplainInv

\* A key that was current when a request was made stays so for it, revoked or not.
LEMMA StaysCurrent ==
    ASSUME TypeOK, [Next]_vars, NEW m \in keys, NEW s \in Int, s =< clock, CurrentAsOf(m, s)
    PROVE  \E n \in keys' : n.id = m.id /\ n.usage = m.usage /\ CurrentAsOf(n, s)
<1>1. CASE m \in keys'
      BY <1>1
<1>2. ASSUME NEW k \in keys, Revoke(k), m \notin keys'
      PROVE  \E n \in keys' : n.id = m.id /\ n.usage = m.usage /\ CurrentAsOf(n, s)
      <2>1. m = k /\ RevokedRow(m, clock) \in keys'
            BY <1>2 DEF Revoke
      <2>2. m \in Row /\ clock \in Int
            BY DEF TypeOK
      <2> QED BY <2>1, <2>2, RevokedIsRow, RevokedIsCurrent
<1>3. m \in keys' \/ \E k \in keys : Revoke(k)
      BY DEF Next, Tick, Rotate, Ask, Refuse, Query, QueryFails, Reply, Return, vars
<1> QED BY <1>1, <1>2, <1>3

LEMMA NextHeld == ExplainInv /\ [Next]_vars => HeldIsCurrent'
<1> SUFFICES ASSUME ExplainInv, [Next]_vars,
                    NEW d \in Client, call'[d].stage = "read",
                    NEW k \in call'[d].rows
             PROVE  \E m \in keys' :
                       /\ m.id = k.id
                       /\ m.usage = k.usage
                       /\ CurrentAsOf(m, call'[d].since)
                       /\ call'[d].request.of =
                              IF Selects(call'[d].request) THEN k.id ELSE k.usage
    BY DEF HeldIsCurrent
<1>1. /\ TypeOK
      /\ call[d] \in Call
      /\ d \in DOMAIN call
      BY DEF ExplainInv, TypeOK
<1>2. CASE call'[d] = call[d]
      <2>1. call[d].since \in Int /\ call[d].since =< clock
            BY <1>1, <1>2, CallStages DEF ExplainInv, AskedBefore
      <2>2. PICK m \in keys :
                /\ m.id = k.id
                /\ m.usage = k.usage
                /\ CurrentAsOf(m, call[d].since)
                /\ call[d].request.of =
                       IF Selects(call[d].request) THEN k.id ELSE k.usage
            BY <1>2 DEF ExplainInv, HeldIsCurrent
      <2>3. PICK n \in keys' :
                n.id = m.id /\ n.usage = m.usage /\ CurrentAsOf(n, call[d].since)
            BY <1>1, <2>1, <2>2, StaysCurrent
      <2> QED BY <1>2, <2>2, <2>3
<1>3. ASSUME ClientStep(d)
      PROVE  \E m \in keys' :
                /\ m.id = k.id
                /\ m.usage = k.usage
                /\ CurrentAsOf(m, call'[d].since)
                /\ call'[d].request.of =
                       IF Selects(call'[d].request) THEN k.id ELSE k.usage
      <2> DEFINE req == call[d].request
      <2>1. Query(d)
            BY <1>1, <1>3 DEF ClientStep, Ask, Refuse, QueryFails, Reply, Return, Received,
                              Answer, Idle
      <2>2. PICK rows \in IF Selects(req) THEN Selections(keys, req.of, clock)
                          ELSE Listings(keys, req.of, clock, BatchSize) :
                 \E first \in Leaders(rows) :
                    call' = [call EXCEPT ![d] = Read(@, rows, first)]
            BY <2>1 DEF Query
      <2>3. /\ call'[d].rows = rows
            /\ call'[d].request = req
            /\ call'[d].since = call[d].since
            BY <1>1, <2>2 DEF Read
      <2>4. req \in Request /\ call[d].since \in Int /\ call[d].since =< clock
            BY <1>1, <2>1, CallStages DEF Query, ExplainInv, AskedBefore
      <2>5. /\ k \in keys
            /\ Active(k, clock)
            /\ req.of = IF Selects(req) THEN k.id ELSE k.usage
            <3>1. \A x \in rows : /\ x \in keys
                                   /\ Active(x, clock)
                                   /\ req.of = IF Selects(req) THEN x.id ELSE x.usage
                  BY <2>2, <2>4, ReadsServed
            <3> QED BY <2>3, <3>1
      <2>6. CurrentAsOf(k, call[d].since)
            BY <2>4, <2>5, ActiveIsCurrent DEF ExplainInv, TypeOK
      <2>7. keys' = keys
            BY <2>1 DEF Query
      <2> QED BY <2>3, <2>5, <2>6, <2>7
<1> QED BY <1>1, <1>2, <1>3, CallsKept, StepsApart

\* A refusal is the client's fault, names a usage that is not configured, or meets a token
\* that cannot be issued.
LEMMA RefusalsPlain ==
    ASSUME NEW req \in Request, NEW e \in Refusals(req),
           Code(req, e) \in {"Internal", "500"}
    PROVE  e \in {"createClaims", "issue"} /\ Unissuable(req)
<1>1. e # "badId"
      BY DEF Code, GrpcCode, RestCode
<1>2. Signs(req)
      BY <1>1 DEF Refusals
<1>3. e \in {"createClaims", "issue"}
      BY <1>1, <1>2, RefusalsType DEF Signs, Code, GrpcCode
<1>4. req.payload = "unissuable" /\ req.of # Unknown
      BY <1>3 DEF Refusals
<1>5. req.of \in Usage
      BY <1>2, <1>4, RequestRoutes
<1> QED BY <1>2, <1>3, <1>4, <1>5 DEF Unissuable

\* What the service cannot take from a key that the request needs of it.
Unextractable(req, k) == Extract(k, Signs(req)) = {}

\* What an internal error of the service comes from.
LEMMA FailuresPlain ==
    ASSUME NEW req \in Request, NEW rows,
           Code(req, Failure(req, rows)) \in {"Internal", "500"}
    PROVE  \/ Failure(req, rows) = "noKey" /\ Signs(req)
           \/ \E k \in rows : Unextractable(req, k)
<1>1. CASE \A k \in rows : Extract(k, Signs(req)) # {}
      <2>1. Failure(req, rows) \in {"none", "notFound", "noKey"}
            BY <1>1 DEF Failure
      <2>2. Code(req, "none") \notin {"Internal", "500"}
            BY DEF Code, GrpcCode, RestCode
      <2>3. Code(req, "notFound") \notin {"Internal", "500"}
            BY DEF Code, GrpcCode, RestCode
      <2>4. Failure(req, rows) = "noKey"
            BY <2>1, <2>2, <2>3
      <2>5. Failure(req, rows) = "noKey" => ~Lists(req) /\ ~Selects(req)
            BY <1>1 DEF Failure
      <2> QED BY <2>4, <2>5, RequestRoutes
<1> QED BY <1>1 DEF Unextractable

LEMMA NextExplained == ExplainInv /\ [Next]_vars => FailureExplained'
<1> SUFFICES ASSUME ExplainInv, [Next]_vars,
                    NEW d \in Client, call'[d].stage = "answered",
                    call'[d].code \in {"Internal", "500"}
             PROVE  \/ call'[d].error = "query"
                    \/ call'[d].error = "noKey" /\ Signs(call'[d].request)
                    \/ /\ call'[d].error \in {"createClaims", "issue"}
                       /\ Unissuable(call'[d].request)
                    \/ \E k \in Culprits(call[d].request)' :
                           CurrentAsOf(k, call'[d].since)
    BY DEF FailureExplained
<1>1. /\ TypeOK
      /\ call[d] \in Call
      BY DEF ExplainInv, TypeOK
<1>2. CASE call'[d] = call[d]
      <2>1. CASE \E k \in Culprits(call[d].request) : CurrentAsOf(k, call[d].since)
            <3>1. PICK k \in Culprits(call[d].request) : CurrentAsOf(k, call[d].since)
                  BY <2>1
            <3>2. call[d].since \in Int /\ call[d].since =< clock
                  BY <1>1, <1>2, CallStages DEF ExplainInv, AskedBefore
            <3>3. PICK n \in keys' :
                      n.id = k.id /\ n.usage = k.usage /\ CurrentAsOf(n, call[d].since)
                  BY <1>1, <3>1, <3>2, StaysCurrent DEF Culprits
            <3>4. n \in Culprits(call[d].request)'
                  BY <1>2, <3>1, <3>3 DEF Culprits, Extract
            <3> QED BY <1>2, <3>3, <3>4
      <2> QED BY <1>2, <2>1 DEF ExplainInv, FailureExplained
<1>3. ASSUME ClientStep(d)
      PROVE  \/ call'[d].error = "query"
             \/ call'[d].error = "noKey" /\ Signs(call'[d].request)
             \/ /\ call'[d].error \in {"createClaims", "issue"}
                /\ Unissuable(call'[d].request)
             \/ \E k \in Culprits(call[d].request)' : CurrentAsOf(k, call'[d].since)
      <2> DEFINE req == call[d].request
      <2>1. /\ req \in Request
            /\ call'[d].request = req
            /\ call'[d].since = call[d].since
            /\ call'[d].code = Code(req, call'[d].error)
            /\ \/ call'[d].error \in Refusals(req)
               \/ call'[d].error = "query"
               \/ /\ call[d].stage = "read"
                  /\ call'[d].error = Failure(req, call[d].rows)
            BY <1>1, <1>3, AnsweredHow
      <2>2. CASE /\ call[d].stage = "read"
                 /\ call'[d].error = Failure(req, call[d].rows)
                 /\ ~(call'[d].error = "noKey" /\ Signs(req))
            <3>1. PICK k \in call[d].rows : Extract(k, Signs(req)) = {}
                  <4>1. Code(req, Failure(req, call[d].rows)) \in {"Internal", "500"}
                        BY <2>1, <2>2
                  <4>2. ~(Failure(req, call[d].rows) = "noKey" /\ Signs(req))
                        BY <2>2
                  <4>3. \E k \in call[d].rows : Unextractable(req, k)
                        BY <2>1, <4>1, <4>2, FailuresPlain
                  <4> QED BY <4>3 DEF Unextractable
            <3>2. PICK m \in keys :
                      /\ m.id = k.id
                      /\ m.usage = k.usage
                      /\ CurrentAsOf(m, call[d].since)
                      /\ req.of = IF Selects(req) THEN k.id ELSE k.usage
                  BY <2>2 DEF ExplainInv, HeldIsCurrent
            <3>3. keys' = keys
                  BY <1>1, <1>3, StepsApart
            <3>4. m \in Culprits(call[d].request)'
                  BY <2>1, <3>1, <3>2, <3>3 DEF Culprits, Extract
            <3> QED BY <2>1, <3>2, <3>4
      <2> QED BY <2>1, <2>2, RefusalsPlain
<1> QED BY <1>1, <1>2, <1>3, CallsKept, StepsApart

\* An internal error has a cause that the request could have met: the database, no key
\* to sign with, a token that cannot be issued for its payload, or a key of that very id
\* or usage that cannot be extracted.
THEOREM ErrorsExplained == Spec => []FailureExplained
<1>1. Init => ExplainInv
      BY ApiInitType DEF Init, ExplainInv, AskedBefore, HeldIsCurrent, FailureExplained, Idle
<1>2. ExplainInv /\ [Next]_vars => ExplainInv'
      BY ApiNextType, NextAsked, NextHeld, NextExplained DEF ExplainInv
<1> QED BY <1>1, <1>2, PTL DEF Spec, ExplainInv

-----------------------------------------------------------------------------
(* The keys a table shows as the directory's *)

Served(rows, u, t) == {k.id : k \in Matching(rows, u, t)}

Withdrawn(rows, t) == {k.id : k \in {m \in rows : ~Active(m, t)}}

DirUsage == Usage \cup {Unknown}

Ids(rows) == {k.id : k \in rows}

Left(rows, s, rest, t) ==
    UNION {Served(rows, u, s) \ Served(rest, u, t) : u \in DirUsage}

\* The identity of a row tells whether it is served, and under what usage.
LEMMA ServedIs ==
    ASSUME NEW rows, UniqueIds(rows), NEW t, NEW u, NEW k \in rows
    PROVE  /\ k.id \in Served(rows, u, t) <=> k.usage = u /\ Active(k, t)
           /\ k.id \in Withdrawn(rows, t) <=> ~Active(k, t)
<1>1. \A m \in rows : m.id = k.id => m = k
      BY DEF UniqueIds
<1> QED BY <1>1 DEF Served, Withdrawn, Matching

\* Only identities of rows are.
LEMMA ServedAre ==
    ASSUME NEW rows \in SUBSET Row, NEW t
    PROVE  /\ \A u : Served(rows, u, t) \subseteq Ids(rows)
           /\ Withdrawn(rows, t) \subseteq Ids(rows)
           /\ Ids(rows) \subseteq KeyId
BY DEF Ids, Served, Withdrawn, Matching, Row

\* The rows of an instant and those of a later one are the same keys, and none
\* becomes active in between.
Ageing(rows, s, rest, t) ==
    /\ \A k \in rows : \E m \in rest :
          m.id = k.id /\ m.usage = k.usage /\ (Active(m, t) => Active(k, s))
    /\ \A m \in rest : \E k \in rows :
          m.id = k.id /\ m.usage = k.usage /\ (Active(m, t) => Active(k, s))

\* When keys only cease to be active, they leave the directory.
LEMMA Leaving ==
    ASSUME NEW rows \in SUBSET Row, NEW rest \in SUBSET Row,
           UniqueIds(rows), UniqueIds(rest), NEW s, NEW t, Ageing(rows, s, rest, t)
    PROVE  /\ \A u : Served(rest, u, t) \subseteq Served(rows, u, s)
           /\ Withdrawn(rest, t) = Withdrawn(rows, s) \cup Left(rows, s, rest, t)
<1>1. ASSUME NEW u, NEW id \in Served(rest, u, t)
      PROVE  id \in Served(rows, u, s)
      <2>1. PICK m \in rest : m.id = id /\ m.usage = u /\ Active(m, t)
            BY <1>1 DEF Served, Matching
      <2>2. PICK k \in rows : m.id = k.id /\ m.usage = k.usage /\ Active(k, s)
            BY <2>1 DEF Ageing
      <2> QED BY <2>1, <2>2, ServedIs
<1>2. ASSUME NEW id \in Withdrawn(rest, t)
      PROVE  \/ id \in Withdrawn(rows, s)
             \/ \E u \in DirUsage : id \in Served(rows, u, s) \ Served(rest, u, t)
      <2>1. PICK m \in rest : m.id = id /\ ~Active(m, t)
            BY <1>2 DEF Withdrawn
      <2>2. PICK k \in rows : m.id = k.id /\ m.usage = k.usage
            BY <2>1 DEF Ageing
      <2>3. k.usage \in DirUsage
            BY DEF Row, DirUsage
      <2>4. id \notin Served(rest, k.usage, t)
            BY <2>1, ServedIs
      <2>5. id \in Withdrawn(rows, s) \/ id \in Served(rows, k.usage, s)
            BY <2>1, <2>2, ServedIs
      <2> QED BY <2>3, <2>4, <2>5
<1>3. ASSUME NEW id \in Withdrawn(rows, s)
      PROVE  id \in Withdrawn(rest, t)
      <2>1. PICK k \in rows : k.id = id /\ ~Active(k, s)
            BY <1>3 DEF Withdrawn
      <2>2. PICK m \in rest : m.id = k.id /\ ~Active(m, t)
            BY <2>1 DEF Ageing
      <2> QED BY <2>1, <2>2, ServedIs
<1>4. ASSUME NEW u \in DirUsage, NEW id \in Served(rows, u, s) \ Served(rest, u, t)
      PROVE  id \in Withdrawn(rest, t)
      <2>1. PICK k \in rows : k.id = id /\ k.usage = u
            BY <1>4 DEF Served, Matching
      <2>2. PICK m \in rest : m.id = id /\ m.usage = u
            BY <2>1 DEF Ageing
      <2>3. ~Active(m, t)
            BY <1>4, <2>2, ServedIs
      <2> QED BY <2>2, <2>3, ServedIs
<1>5. \A u : Served(rest, u, t) \subseteq Served(rows, u, s)
      BY <1>1
<1>6. \A id : id \in Withdrawn(rest, t) <=>
                 \/ id \in Withdrawn(rows, s)
                 \/ \E u \in DirUsage : id \in Served(rows, u, s) \ Served(rest, u, t)
      BY <1>2, <1>3, <1>4
<1> QED BY <1>5, <1>6 DEF Left

\* Active rows of new identities.
Fresh(rows, batch, t) == \A k \in batch : Active(k, t) /\ k.id \notin Ids(rows)

\* When such rows are inserted, they enter the directory.
LEMMA Entering ==
    ASSUME NEW rows \in SUBSET Row, NEW batch \in SUBSET Row, NEW t,
           Fresh(rows, batch, t)
    PROVE  /\ \A u : Served(rows, u, t) \subseteq Served(rows \cup batch, u, t)
           /\ \A u : (Served(rows \cup batch, u, t) \ Served(rows, u, t))
                         \cap Ids(rows) = {}
           /\ Withdrawn(rows \cup batch, t) = Withdrawn(rows, t)
<1>1. \A u : Served(rows \cup batch, u, t) = Served(rows, u, t) \cup Served(batch, u, t)
      BY DEF Served, Matching
<1>2. \A u : Served(batch, u, t) \cap Ids(rows) = {}
      BY DEF Fresh, Ids, Served, Matching
<1>3. Withdrawn(rows \cup batch, t) = Withdrawn(rows, t)
      BY DEF Fresh, Withdrawn
<1> QED BY <1>1, <1>2, <1>3

\* No identity is served under two usages.
LEMMA ServedOnceByUsage ==
    ASSUME NEW rows, UniqueIds(rows), NEW t, NEW u, NEW v, u # v
    PROVE  Served(rows, u, t) \cap Served(rows, v, t) = {}
BY DEF Served, Matching, UniqueIds

-----------------------------------------------------------------------------
(* The directory that the table and the clock implement *)

LEMMA DirNow ==
    /\ DirLive = [u \in DirUsage |-> Served(keys, u, clock)]
    /\ DirGone = Withdrawn(keys, clock)
BY DEF DirLive, DirGone, Served, Withdrawn, DirUsage

LEMMA DirNext ==
    /\ DirLive' = [u \in DirUsage |-> Served(keys', u, clock')]
    /\ DirGone' = Withdrawn(keys', clock')
BY DEF DirLive, DirGone, Served, Withdrawn, DirUsage

LEMMA DirLiveType ==
    ASSUME NEW rows \in SUBSET Row, NEW t
    PROVE  [u \in DirUsage |-> Served(rows, u, t)] \in [DirUsage -> SUBSET KeyId]
BY ServedAre

LEMMA InitRefines == Init => Dir!Init
<1> SUFFICES ASSUME Init
             PROVE  Dir!Init
    OBVIOUS
<1>1. TypeOK
      BY ApiInitType
<1>2. keys \in SUBSET Row /\ UniqueIds(keys) /\ clock = 0
      BY <1>1 DEF TypeOK, Init
<1>3. DirLive \in [DirUsage -> SUBSET KeyId]
      BY <1>2, DirNow, DirLiveType
<1>4. \A u, v \in DirUsage : u # v => DirLive[u] \cap DirLive[v] = {}
      BY <1>2, DirNow, ServedOnceByUsage
<1>5. DirGone = {}
      <2>1. PICK usage \in [Imported -> Usage] :
                keys = {NewRow(id, usage[id], 0) : id \in Imported}
            BY DEF Init
      <2>2. \A k \in keys : Active(k, 0)
            BY <2>1, NewRowIsRow, ApiAssumption DEF Imported
      <2> QED BY <1>2, <2>2, DirNow DEF Withdrawn
<1>6. DirCalls = [c \in Client |-> Dir!Idle]
      BY DEF Init, DirCalls, AsCall, Idle, Dir!Idle
<1> QED BY <1>3, <1>4, <1>5, <1>6 DEF Dir!Init, DirUsage

LEMMA LeavingRefines ==
    ASSUME TypeOK, TypeOK', call' = call, Ageing(keys, clock, keys', clock')
    PROVE  Dir!Withdraw
<1>1. /\ keys \in SUBSET Row /\ UniqueIds(keys)
      /\ keys' \in SUBSET Row /\ UniqueIds(keys')
      BY DEF TypeOK
<1>2. /\ \A u : Served(keys', u, clock') \subseteq Served(keys, u, clock)
      /\ Withdrawn(keys', clock') = Withdrawn(keys, clock) \cup Left(keys, clock, keys', clock')
      BY <1>1, Leaving
<1>3. DirLive' \in [DirUsage -> SUBSET KeyId]
      BY <1>1, DirNext, DirLiveType
<1>4. \A u \in DirUsage : DirLive'[u] \subseteq DirLive[u]
      BY <1>2, DirNow, DirNext
<1>5. DirGone' = DirGone \cup UNION {DirLive[u] \ DirLive'[u] : u \in DirUsage}
      BY <1>2, DirNow, DirNext DEF Left
<1>6. DirCalls' = DirCalls
      BY DEF DirCalls
<1> QED BY <1>3, <1>4, <1>5, <1>6 DEF Dir!Withdraw, DirUsage

LEMMA TickRefines == TypeOK /\ TypeOK' /\ Tick => Dir!Withdraw
<1> SUFFICES ASSUME TypeOK, TypeOK', Tick
             PROVE  Dir!Withdraw
    OBVIOUS
<1>1. clock \in Int /\ clock' \in Int /\ clock =< clock' /\ keys' = keys /\ call' = call
      BY DEF TypeOK, Tick
<1>2. \A k \in keys : Active(k, clock') => Active(k, clock)
      BY <1>1, ActiveEarlier DEF TypeOK
<1>3. Ageing(keys, clock, keys', clock')
      BY <1>1, <1>2 DEF Ageing
<1> QED BY <1>1, <1>3, LeavingRefines

LEMMA RevokeRefines ==
    ASSUME TypeOK, TypeOK', NEW k \in keys, Revoke(k)
    PROVE  Dir!Withdraw
<1> DEFINE r == RevokedRow(k, clock)
<1>1. k \in Row /\ clock \in Int
      BY DEF TypeOK
<1>2. /\ keys' = (keys \ {k}) \cup {r}
      /\ clock' = clock /\ call' = call
      BY DEF Revoke
<1>3. r.id = k.id /\ r.usage = k.usage
      BY <1>1, RevokedIsRow
<1>4. Active(k, clock)
      BY <1>1 DEF Revoke, Revocable, Active
<1> HIDE DEF r
<1>5. Ageing(keys, clock, keys', clock')
      BY <1>2, <1>3, <1>4 DEF Ageing
<1> QED BY <1>2, <1>5, LeavingRefines

LEMMA RotateRefines == TypeOK /\ TypeOK' /\ Rotate => Dir!Publish
<1> SUFFICES ASSUME TypeOK, TypeOK', Rotate
             PROVE  Dir!Publish
    OBVIOUS
<1>1. PICK batch \in Batches(keys, clock, clock) : keys' = keys \cup batch
      BY DEF Rotate
<1>2. /\ clock \in Int /\ clock' = clock /\ call' = call
      /\ keys \in SUBSET Row /\ UniqueIds(keys)
      /\ keys' \in SUBSET Row /\ UniqueIds(keys')
      BY DEF TypeOK, Rotate
<1>3. /\ batch \in SUBSET Row
      /\ Fresh(keys, batch, clock)
      BY <1>1, <1>2, BatchRows, ApiAssumption DEF Row, Ids, Fresh
<1>4. /\ \A u : Served(keys, u, clock) \subseteq Served(keys', u, clock)
      /\ \A u : (Served(keys', u, clock) \ Served(keys, u, clock))
                    \cap Ids(keys) = {}
      /\ Withdrawn(keys', clock) = Withdrawn(keys, clock)
      <2> DEFINE all == keys \cup batch
      <2>1. /\ \A u : Served(keys, u, clock) \subseteq Served(all, u, clock)
            /\ \A u : (Served(all, u, clock) \ Served(keys, u, clock)) \cap Ids(keys) = {}
            /\ Withdrawn(all, clock) = Withdrawn(keys, clock)
            BY <1>2, <1>3, Entering
      <2>2. keys' = all
            BY <1>1
      <2> HIDE DEF all
      <2> QED BY <2>1, <2>2
<1>5. Dir!Live \cup DirGone \subseteq Ids(keys)
      BY <1>2, DirNow, ServedAre DEF Dir!Live, DirUsage
<1>6. DirLive' \in [DirUsage -> SUBSET KeyId]
      BY <1>2, DirNext, DirLiveType
<1>7. \A u \in DirUsage : DirLive[u] \subseteq DirLive'[u]
      BY <1>2, <1>4, DirNow, DirNext
<1>8. \A u \in DirUsage : (DirLive'[u] \ DirLive[u]) \cap (Dir!Live \cup DirGone) = {}
      BY <1>2, <1>4, <1>5, DirNow, DirNext
<1>9. \A u, v \in DirUsage : u # v => DirLive'[u] \cap DirLive'[v] = {}
      BY <1>2, DirNext, ServedOnceByUsage
<1>10. DirGone' = DirGone /\ DirCalls' = DirCalls
      BY <1>2, <1>4, DirNow, DirNext DEF DirCalls
<1> QED BY <1>6, <1>7, <1>8, <1>9, <1>10 DEF Dir!Publish, DirUsage

-----------------------------------------------------------------------------
(* The directory's calls that the calls implement *)

\* What a call is to the directory, stage by stage.
LEMMA AsCallIs ==
    ASSUME NEW cl
    PROVE  /\ cl.stage = "idle" => AsCall(cl) = cl
           /\ cl.stage # "idle" /\ Refusals(cl.request) # {} => AsCall(cl) = Idle
           /\ cl.stage = "received" /\ Refusals(cl.request) = {} =>
                 AsCall(cl) = Dir!Asked(Asks(cl.request))
           /\ cl.stage = "read" /\ Refusals(cl.request) = {} =>
                 AsCall(cl) = Settled(cl.request, Failure(cl.request, cl.rows),
                                      Found(cl.request, cl.rows, cl.first))
           /\ cl.stage = "answered" /\ Refusals(cl.request) = {} =>
                 AsCall(cl) = Settled(cl.request, cl.error, cl.found)
<1>1. cl.stage = "idle" => AsCall(cl) = cl
      BY DEF AsCall
<1>2. cl.stage # "idle" /\ Refusals(cl.request) # {} => AsCall(cl) = Idle
      BY DEF AsCall
<1>3. cl.stage = "received" /\ Refusals(cl.request) = {} =>
          AsCall(cl) = Dir!Asked(Asks(cl.request))
      BY DEF AsCall, Dir!Asked
<1>4. cl.stage = "read" /\ Refusals(cl.request) = {} =>
          AsCall(cl) = Settled(cl.request, Failure(cl.request, cl.rows),
                               Found(cl.request, cl.rows, cl.first))
      BY DEF AsCall
<1>5. cl.stage = "answered" /\ Refusals(cl.request) = {} =>
          AsCall(cl) = Settled(cl.request, cl.error, cl.found)
      BY DEF AsCall
<1> QED BY <1>1, <1>2, <1>3, <1>4, <1>5

\* The step of a client leaves the keys and the other clients' questions alone.
LEMMA DirStep ==
    ASSUME TypeOK, NEW c \in Client, ClientStep(c)
    PROVE  /\ DirLive' = DirLive /\ DirGone' = DirGone
           /\ DirCalls' = [DirCalls EXCEPT ![c] = AsCall(call'[c])]
           /\ DirCalls[c] = AsCall(call[c])
<1>1. clock' = clock /\ keys' = keys /\ \A d \in Client : d # c => call'[d] = call[d]
      BY StepsApart
<1>2. DirLive' = DirLive /\ DirGone' = DirGone
      BY <1>1, DirNow, DirNext
<1>3. DirCalls' = [d \in Client |-> AsCall(call'[d])]
      BY DEF DirCalls
<1>4. DirCalls = [d \in Client |-> AsCall(call[d])]
      BY DEF DirCalls
<1> QED BY <1>1, <1>2, <1>3, <1>4

\* A step that does not change what a call is to the directory is none to it.
LEMMA StutterRefines ==
    ASSUME TypeOK, NEW c \in Client, ClientStep(c), AsCall(call'[c]) = AsCall(call[c])
    PROVE  UNCHANGED Dir!dirVars
<1>1. DirCalls' = DirCalls
      BY DirStep DEF DirCalls
<1> QED BY <1>1, DirStep DEF Dir!dirVars

LEMMA AsksQuestion ==
    ASSUME NEW req \in Request, Refusals(req) = {}
    PROVE  Asks(req) \in Dir!Question
<1>1. CASE Selects(req)
      <2>1. req.of # Malformed
            <3>1. req.of = Malformed => "badId" \in Refusals(req)
                  BY <1>1 DEF Refusals, Selects, Signs
            <3> QED BY <3>1
      <2>2. req.of \in KeyId
            BY <1>1, <2>1, RequestRoutes
      <2> QED BY <1>1, <2>2 DEF Asks, Dir!Question
<1>2. CASE ~Selects(req)
      <2>1. req.of \in Usage \cup {Unknown}
            BY <1>2, RequestRoutes
      <2> QED BY <1>2, <2>1 DEF Asks, Dir!Question
<1> QED BY <1>1, <1>2

LEMMA AskRefines ==
    ASSUME TypeOK, NEW c \in Client, Ask(c)
    PROVE  Dir!Ask(c) \/ UNCHANGED Dir!dirVars
<1>1. PICK req \in Request : call' = [call EXCEPT ![c] = Received(req, clock)]
      BY DEF Ask
<1>2. ClientStep(c) /\ call[c] = Idle /\ call'[c] = Received(req, clock)
      BY <1>1 DEF Ask, ClientStep, TypeOK
<1>3. AsCall(call[c]) = Idle
      BY <1>2, AsCallIs DEF Idle
<1>4. CASE Refusals(req) # {}
      <2>1. AsCall(call'[c]) = Idle
            BY <1>2, <1>4, AsCallIs DEF Received
      <2> QED BY <1>2, <1>3, <2>1, StutterRefines
<1>5. CASE Refusals(req) = {}
      <2>1. AsCall(call'[c]) = Dir!Asked(Asks(req))
            BY <1>2, <1>5, AsCallIs DEF Received
      <2>2. Asks(req) \in Dir!Question
            BY <1>5, AsksQuestion
      <2>3. DirCalls[c] = Dir!Idle
            BY <1>2, <1>3, DirStep DEF Idle, Dir!Idle
      <2>4. DirCalls' = [DirCalls EXCEPT ![c] = Dir!Asked(Asks(req))]
            BY <1>2, <2>1, DirStep
      <2> QED BY <1>2, <2>2, <2>3, <2>4, DirStep DEF Dir!Ask
<1> QED BY <1>4, <1>5

LEMMA RefuseRefines ==
    ASSUME TypeOK, NEW c \in Client, Refuse(c)
    PROVE  UNCHANGED Dir!dirVars
<1>1. PICK e \in Refusals(call[c].request) : call' = [call EXCEPT ![c] = Answer(@, e, {})]
      BY DEF Refuse
<1>2. ClientStep(c) /\ call[c].stage = "received" /\ call'[c] = Answer(call[c], e, {})
      BY <1>1 DEF Refuse, ClientStep, TypeOK
<1>3. AsCall(call[c]) = Idle
      BY <1>1, <1>2, AsCallIs
<1>4. AsCall(call'[c]) = Idle
      BY <1>1, <1>2, AsCallIs DEF Answer
<1> QED BY <1>2, <1>3, <1>4, StutterRefines

LEMMA ReturnRefines ==
    ASSUME TypeOK, NEW c \in Client, Return(c)
    PROVE  Dir!Return(c) \/ UNCHANGED Dir!dirVars
<1>1. ClientStep(c) /\ call[c].stage = "answered" /\ call'[c] = Idle
      BY DEF Return, ClientStep, TypeOK
<1>2. AsCall(call'[c]) = Idle
      BY <1>1, AsCallIs DEF Idle
<1>3. CASE Refusals(call[c].request) # {}
      <2>1. AsCall(call[c]) = Idle
            BY <1>1, <1>3, AsCallIs
      <2> QED BY <1>1, <1>2, <2>1, StutterRefines
<1>4. CASE Refusals(call[c].request) = {}
      <2>1. DirCalls[c].stage = "answered"
            BY <1>1, <1>4, AsCallIs, DirStep DEF Settled
      <2>2. DirCalls' = [DirCalls EXCEPT ![c] = Dir!Idle]
            BY <1>1, <1>2, DirStep DEF Idle, Dir!Idle
      <2> QED BY <1>1, <2>1, <2>2, DirStep DEF Dir!Return
<1> QED BY <1>3, <1>4

LEMMA ReplyRefines ==
    ASSUME TypeOK, NEW c \in Client, Reply(c)
    PROVE  UNCHANGED Dir!dirVars
<1> DEFINE cl  == call[c]
           req == cl.request
           e   == Failure(req, cl.rows)
           f   == Found(req, cl.rows, cl.first)
<1>1. ClientStep(c) /\ cl.stage = "read"
      BY DEF Reply, ClientStep
<1>2. CASE Refusals(req) = {}
      <2>1. call'[c] = Answer(cl, e, f)
            BY <1>2 DEF Reply, TypeOK
      <2>2. AsCall(cl) = Settled(req, e, f)
            BY <1>1, <1>2, AsCallIs
      <2>3. AsCall(call'[c]) = Settled(req, e, f)
            <3>1. /\ call'[c].stage = "answered" /\ call'[c].request = req
                  /\ call'[c].error = e /\ call'[c].found = f
                  BY <2>1 DEF Answer
            <3> QED BY <1>2, <3>1, AsCallIs
      <2> QED BY <1>1, <2>2, <2>3, StutterRefines
<1>3. CASE Refusals(req) # {}
      <2>1. call'[c].stage = "answered" /\ call'[c].request = req
            BY DEF Reply, Answer, TypeOK
      <2>2. AsCall(cl) = Idle /\ AsCall(call'[c]) = Idle
            BY <1>1, <1>3, <2>1, AsCallIs
      <2> QED BY <1>1, <2>2, StutterRefines
<1> QED BY <1>2, <1>3

\* What a service's outcome is to the caller: an answer, or a failure.
LEMMA CodeOk ==
    ASSUME NEW req \in Request
    PROVE  /\ Code(req, "none") \in {"OK", "200", "NotFound", "404"}
           /\ Code(req, "notFound") \in {"OK", "200", "NotFound", "404"}
           /\ \A e \in {"query", "noPublicKey", "sealed", "noKey"} :
                 Code(req, e) \notin {"OK", "200", "NotFound", "404"}
BY DEF Code, GrpcCode, RestCode

\* As many identities as rows.
LEMMA IdsCounted ==
    ASSUME NEW list \in SUBSET Row, UniqueIds(list)
    PROVE  Cardinality(Ids(list)) = Cardinality(list)
<1> DEFINE f == [k \in list |-> k.id]
<1>1. Ids(list) \subseteq KeyId
      BY DEF Ids, Row
<1>2. IsFiniteSet(Ids(list))
      BY <1>1, ApiAssumption, FS_Subset
<1>3. f \in [list -> Ids(list)]
      BY DEF Ids
<1>4. \A a, b \in list : f[a] = f[b] => a = b
      BY DEF UniqueIds
<1>5. \A i \in Ids(list) : \E a \in list : f[a] = i
      BY DEF Ids
<1> HIDE DEF f
<1>6. f \in Injection(list, Ids(list))
      BY <1>3, <1>4, Fun_IsInj
<1>7. f \in Surjection(list, Ids(list))
      BY <1>3, <1>5, Fun_IsSurj
<1> QED BY <1>2, <1>6, <1>7, FS_Injection

\* The directory counts as the table does.
LEMMA SameCardinality == \A S : Dir!Cardinality(S) = Cardinality(S)
BY DEF Dir!Cardinality, Cardinality

\* A question is answered with keys that the directory shows for it, or not at all.
LEMMA SettledRefines ==
    ASSUME TypeOK, NEW req \in Request, Refusals(req) = {},
           NEW rows \in IF Selects(req) THEN Selections(keys, req.of, clock)
                        ELSE Listings(keys, req.of, clock, BatchSize),
           NEW first \in Leaders(rows)
    PROVE  LET answer == Settled(req, Failure(req, rows), Found(req, rows, first))
           IN  \/ answer = Dir!Answered(Asks(req), FALSE, {})
               \/ \E found \in Dir!Findings(Asks(req)) :
                     answer = Dir!Answered(Asks(req), TRUE, found)
<1> DEFINE e      == Failure(req, rows)
           f      == Found(req, rows, first)
           answer == Settled(req, e, f)
           shown  == {m[1] : m \in f}
<1>1. /\ keys \in SUBSET Row /\ UniqueIds(keys)
      /\ \A k \in rows : /\ k \in keys
                         /\ Active(k, clock)
                         /\ req.of = IF Selects(req) THEN k.id ELSE k.usage
      BY ReadsServed DEF TypeOK
<1>2. Dir!Live = UNION {Served(keys, u, clock) : u \in DirUsage}
      BY DirNow DEF Dir!Live, DirUsage
<1>3. CASE e \in {"noPublicKey", "sealed", "noKey"}
      <2>1. f = {}
            BY <1>3 DEF Found
      <2>2. shown = {}
            BY <2>1
      <2>3. (Code(req, e) \in {"OK", "200", "NotFound", "404"}) = FALSE
            BY <1>3, CodeOk
      <2> QED BY <2>2, <2>3 DEF Settled, Dir!Answered
<1>4. CASE e \in {"none", "notFound"}
      <2>1. (Code(req, e) \in {"OK", "200", "NotFound", "404"}) = TRUE
            BY <1>4, CodeOk
      <2>2. answer = Dir!Answered(Asks(req), TRUE, shown)
            BY <2>1 DEF Settled, Dir!Answered
      <2>3. CASE e = "notFound"
            <3>1. Selects(req) /\ rows = {}
                  BY <2>3 DEF Failure
            <3>2. shown = {}
                  BY <2>3 DEF Found
            <3>3. \A k \in keys : ~(k.id = req.of /\ Active(k, clock))
                  BY <3>1 DEF Selections
            <3>4. Dir!Live \cap {req.of} = {}
                  BY <1>2, <3>3 DEF Served, Matching
            <3>5. Asks(req) = [op |-> "get", of |-> req.of]
                  BY <3>1 DEF Asks
            <3>6. shown \in Dir!Findings(Asks(req))
                  BY <3>2, <3>4, <3>5 DEF Dir!Findings
            <3> QED BY <2>2, <3>6
      <2>4. CASE e = "none" /\ Signs(req)
            <3>1. ~Selects(req) /\ ~Lists(req)
                  BY <2>4, RequestRoutes
            <3>2. rows # {}
                  BY <2>4, <3>1 DEF Failure
            <3>3. PICK k \in rows : first = {k}
                  BY <3>2, LeadersAmong
            <3>4. f = {<<k.id, "signature">>}
                  BY <2>4, <3>3 DEF Found
            <3>5. shown = {k.id}
                  BY <3>4
            <3>6. k.id \in Served(keys, req.of, clock) /\ req.of \in DirUsage
                  BY <1>1, <3>1, RequestRoutes DEF Served, Matching, DirUsage
            <3>7. Asks(req) = [op |-> "sign", of |-> req.of]
                  BY <3>1 DEF Asks
            <3>8. k.id \in DirLive[req.of]
                  BY <3>6, DirNow
            <3>9. shown \in Dir!Findings(Asks(req))
                  BY <3>5, <3>7, <3>8 DEF Dir!Findings
            <3> QED BY <2>2, <3>9
      <2>5. CASE e = "none" /\ ~Signs(req)
            <3>1. f = {<<k.id, "public">> : k \in rows}
                  <4>1. Signs(req) = FALSE
                        BY <2>5 DEF Signs
                  <4>2. \A k \in rows : Extract(k, FALSE) # {}
                        <5> SUFFICES ASSUME NEW k \in rows, Extract(k, FALSE) = {}
                                     PROVE  FALSE
                            OBVIOUS
                        <5>1. e = "noPublicKey"
                              BY <4>1 DEF Failure
                        <5> QED BY <2>5, <5>1
                  <4> QED BY <2>5, <4>2, PublicOf DEF Found
            <3>2. shown = Ids(rows)
                  <4>1. \A k \in rows : <<k.id, "public">>[1] = k.id
                        OBVIOUS
                  <4>2. \A id : id \in shown <=> \E k \in rows : id = k.id
                        BY <3>1, <4>1
                  <4> QED BY <4>2 DEF Ids
            <3>3. CASE Selects(req)
                  <4>1. rows = {k \in keys : k.id = req.of /\ Active(k, clock)}
                        BY <3>3 DEF Selections
                  <4>2. Ids(rows) = Dir!Live \cap {req.of}
                        <5>1. ASSUME NEW id \in Ids(rows)
                              PROVE  id \in Dir!Live \cap {req.of}
                              <6>1. PICK k \in keys : k.id = id /\ id = req.of /\ Active(k, clock)
                                    BY <4>1, <5>1 DEF Ids
                              <6>2. k.usage \in DirUsage
                                    BY <1>1 DEF Row, DirUsage
                              <6>3. id \in Served(keys, k.usage, clock)
                                    BY <6>1 DEF Served, Matching
                              <6> QED BY <1>2, <6>1, <6>2, <6>3
                        <5>2. ASSUME NEW id \in Dir!Live \cap {req.of}
                              PROVE  id \in Ids(rows)
                              <6>1. PICK u \in DirUsage : id \in Served(keys, u, clock)
                                    BY <1>2, <5>2
                              <6>2. PICK k \in keys : k.id = id /\ Active(k, clock)
                                    BY <6>1 DEF Served, Matching
                              <6> QED BY <4>1, <5>2, <6>2 DEF Ids
                        <5> QED BY <5>1, <5>2
                  <4>3. Asks(req) = [op |-> "get", of |-> req.of]
                        BY <3>3 DEF Asks
                  <4>4. shown \in Dir!Findings(Asks(req))
                        BY <3>2, <4>2, <4>3 DEF Dir!Findings
                  <4> QED BY <2>2, <4>4
            <3>4. CASE Lists(req)
                  <4>1. ~Selects(req) /\ req.of \in DirUsage
                        BY <3>4, RequestRoutes DEF DirUsage
                  <4>2. /\ rows \subseteq Matching(keys, req.of, clock)
                        /\ \/ rows = Matching(keys, req.of, clock)
                           \/ Cardinality(rows) = BatchSize
                        BY <4>1, ListingsServed
                  <4>3. DirLive[req.of] = Served(keys, req.of, clock)
                        BY <4>1, DirNow
                  <4>4. Ids(rows) \subseteq DirLive[req.of]
                        BY <4>2, <4>3 DEF Ids, Served
                  <4>5. rows \in SUBSET Row /\ UniqueIds(rows)
                        BY <1>1 DEF UniqueIds
                  <4>6. Cardinality(Ids(rows)) = Cardinality(rows)
                        BY <4>5, IdsCounted
                  <4>7. Ids(rows) = DirLive[req.of] \/ Cardinality(Ids(rows)) = BatchSize
                        BY <4>2, <4>3, <4>6 DEF Ids, Served
                  <4>8. Asks(req) = [op |-> "list", of |-> req.of]
                        BY <3>4, <4>1 DEF Asks
                  <4>9. Dir!Findings(Asks(req)) =
                            {found \in SUBSET DirLive[req.of] :
                                found = DirLive[req.of] \/ Cardinality(found) = BatchSize}
                        BY <4>8, SameCardinality DEF Dir!Findings
                  <4>10. shown \in Dir!Findings(Asks(req))
                        <5> HIDE DEF shown
                        <5> QED BY <3>2, <4>4, <4>7, <4>9
                  <4> QED BY <2>2, <4>10
            <3> QED BY <2>5, <3>3, <3>4, RequestRoutes
      <2> QED BY <1>4, <2>3, <2>4, <2>5
<1> QED BY <1>3, <1>4, FailureType

LEMMA QueryRefines ==
    ASSUME TypeOK, NEW c \in Client, Query(c)
    PROVE  Dir!Find(c) \/ Dir!Fail(c) \/ UNCHANGED Dir!dirVars
<1> DEFINE cl  == call[c]
           req == cl.request
<1>1. ClientStep(c) /\ cl.stage = "received" /\ req \in Request
      BY CallStages DEF Query, ClientStep, TypeOK
<1>2. PICK rows \in IF Selects(req) THEN Selections(keys, req.of, clock)
                    ELSE Listings(keys, req.of, clock, BatchSize) :
           \E first \in Leaders(rows) : call' = [call EXCEPT ![c] = Read(@, rows, first)]
      BY DEF Query
<1>3. PICK first \in Leaders(rows) : call' = [call EXCEPT ![c] = Read(@, rows, first)]
      BY <1>2
<1>4. /\ call'[c].stage = "read" /\ call'[c].request = req
      /\ call'[c].rows = rows /\ call'[c].first = first
      BY <1>3 DEF Read, TypeOK
<1>5. CASE Refusals(req) # {}
      <2>1. AsCall(cl) = Idle /\ AsCall(call'[c]) = Idle
            BY <1>1, <1>4, <1>5, AsCallIs
      <2> QED BY <1>1, <2>1, StutterRefines
<1>6. CASE Refusals(req) = {}
      <2> DEFINE answer == Settled(req, Failure(req, rows), Found(req, rows, first))
      <2>1. AsCall(call'[c]) = answer
            BY <1>4, <1>6, AsCallIs
      <2>2. DirCalls[c] = Dir!Asked(Asks(req))
            BY <1>1, <1>6, AsCallIs, DirStep
      <2>3. DirCalls[c].stage = "asked" /\ DirCalls[c].question = Asks(req)
            BY <2>2 DEF Dir!Asked
      <2>4. /\ DirCalls' = [DirCalls EXCEPT ![c] = answer]
            /\ UNCHANGED <<DirLive, DirGone>>
            BY <1>1, <2>1, DirStep
      <2>5. \/ answer = Dir!Answered(Asks(req), FALSE, {})
            \/ \E found \in Dir!Findings(Asks(req)) :
                  answer = Dir!Answered(Asks(req), TRUE, found)
            BY <1>1, <1>6, SettledRefines
      <2> HIDE DEF answer
      <2>6. CASE answer = Dir!Answered(Asks(req), FALSE, {})
            BY <2>3, <2>4, <2>6 DEF Dir!Fail
      <2>7. CASE \E found \in Dir!Findings(Asks(req)) :
                    answer = Dir!Answered(Asks(req), TRUE, found)
            BY <2>3, <2>4, <2>7 DEF Dir!Find
      <2> QED BY <2>5, <2>6, <2>7
<1> QED BY <1>5, <1>6

LEMMA QueryFailsRefines ==
    ASSUME TypeOK, NEW c \in Client, QueryFails(c)
    PROVE  Dir!Fail(c) \/ UNCHANGED Dir!dirVars
<1> DEFINE cl  == call[c]
           req == cl.request
<1>1. ClientStep(c) /\ cl.stage = "received" /\ req \in Request
      BY CallStages DEF QueryFails, ClientStep, TypeOK
<1>2. /\ call'[c].stage = "answered" /\ call'[c].request = req
      /\ call'[c].error = "query" /\ call'[c].found = {}
      BY DEF QueryFails, Answer, TypeOK
<1>3. CASE Refusals(req) # {}
      <2>1. AsCall(cl) = Idle /\ AsCall(call'[c]) = Idle
            BY <1>1, <1>2, <1>3, AsCallIs
      <2> QED BY <1>1, <2>1, StutterRefines
<1>4. CASE Refusals(req) = {}
      <2>1. AsCall(call'[c]) = Settled(req, "query", {})
            BY <1>2, <1>4, AsCallIs
      <2>2. (Code(req, "query") \in {"OK", "200", "NotFound", "404"}) = FALSE
            BY <1>1, CodeOk
      <2>3. Settled(req, "query", {}) = Dir!Answered(Asks(req), FALSE, {})
            BY <2>2 DEF Settled, Dir!Answered
      <2>4. DirCalls[c].stage = "asked" /\ DirCalls[c].question = Asks(req)
            BY <1>1, <1>4, AsCallIs, DirStep DEF Dir!Asked
      <2>5. /\ DirCalls' = [DirCalls EXCEPT ![c] = Dir!Answered(Asks(req), FALSE, {})]
            /\ UNCHANGED <<DirLive, DirGone>>
            BY <1>1, <2>1, <2>3, DirStep
      <2> QED BY <2>4, <2>5 DEF Dir!Fail
<1> QED BY <1>3, <1>4

\* Every step of the table, the clock, a handler or a client is a step of the
\* directory, or none.
LEMMA NextRefines == TypeOK /\ TypeOK' /\ [Next]_vars => [Dir!Next]_Dir!dirVars
<1> SUFFICES ASSUME TypeOK, TypeOK', [Next]_vars
             PROVE  Dir!Next \/ UNCHANGED Dir!dirVars
    OBVIOUS
<1>1. CASE Tick
      BY <1>1, TickRefines DEF Dir!Next
<1>2. CASE Rotate
      BY <1>2, RotateRefines DEF Dir!Next
<1>3. ASSUME NEW k \in keys, Revoke(k)
      PROVE  Dir!Next \/ UNCHANGED Dir!dirVars
      BY <1>3, RevokeRefines DEF Dir!Next
<1>4. ASSUME NEW c \in Client, ClientStep(c)
      PROVE  Dir!Next \/ UNCHANGED Dir!dirVars
      BY <1>4, AskRefines, RefuseRefines, QueryRefines, QueryFailsRefines, ReplyRefines,
         ReturnRefines
         DEF ClientStep, Dir!Next
<1>5. CASE UNCHANGED vars
      BY <1>5 DEF vars, DirLive, DirGone, DirCalls, Dir!dirVars
<1> QED BY <1>1, <1>2, <1>3, <1>4, <1>5 DEF Next, ClientStep

\* The routes, over a table that rotates, ages and is revoked from, implement the
\* directory.
THEOREM RoutesImplementDirectory == Spec => DirectorySpec
<1>1. Spec => Dir!Init
      BY InitRefines DEF Spec
<1> QED BY <1>1, NextRefines, ApiTypeCorrect, PTL DEF Spec, DirectorySpec, Dir!Spec

=============================================================================
