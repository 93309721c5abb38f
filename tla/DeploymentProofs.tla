-------------------------- MODULE DeploymentProofs --------------------------
(***************************************************************************)
(* What holds of replicas that start, serve and stop, for every number of  *)
(* them, every mix of releases and every setting of the timeouts.          *)
(***************************************************************************)
EXTENDS Deployment, FiniteSetTheorems, TLAPS

\* The calls of a slot, and the connections of a replica that are borrowed.
CallType == [phase : {"none", "header", "waiting", "querying", "streaming"},
             route : {"none", "probe", "keys", "stream"},
             age   : 0..RequestTimeout,
             held  : 0..DriverTimeout]

Borrowed(s) == {r \in Of(s) : call[r].phase = "querying"}

LEMMA TypeSplit ==
    TypeOK <=> /\ drain \in [Replica -> 0..RequestTimeout]
               /\ call \in [Slot -> CallType]
               /\ database \in {"up", "hung"}
               /\ \A s \in Replica : Cardinality(Borrowed(s)) =< MaxOpenConns
               /\ stage \in [Replica -> Stage]
               /\ schema \in BOOLEAN
               /\ keyed \in SUBSET Usage
               /\ due \in SUBSET keyed
BY DEF TypeOK, ServerTypeOK, CallType, Borrowed

LEMMA NoCallType == NoCall \in CallType
BY ServerAssumption DEF NoCall, CallType

LEMMA BorrowedFinite ==
    ASSUME NEW s \in Replica
    PROVE  IsFiniteSet(Borrowed(s)) /\ Cardinality(Borrowed(s)) \in Nat
<1>1. Borrowed(s) \subseteq Slot
      BY DEF Borrowed, Of
<1> QED BY <1>1, ServerAssumption, FS_Subset, FS_CardinalityType

\* A step that lets no further request borrow keeps the pool within its limit.
LEMMA PoolKept ==
    ASSUME NEW s \in Replica, Cardinality(Borrowed(s)) =< MaxOpenConns,
           Borrowed(s)' \subseteq Borrowed(s)
    PROVE  Cardinality(Borrowed(s)') =< MaxOpenConns
<1>1. IsFiniteSet(Borrowed(s)) /\ Cardinality(Borrowed(s)) \in Nat
      BY BorrowedFinite
<1>2. /\ IsFiniteSet(Borrowed(s)')
      /\ Cardinality(Borrowed(s)') =< Cardinality(Borrowed(s))
      BY <1>1, FS_Subset
<1>3. Cardinality(Borrowed(s)') \in Nat
      BY <1>2, FS_CardinalityType
<1> QED BY <1>1, <1>2, <1>3, ServerAssumption

LEMMA InitType == Init => TypeOK
<1> SUFFICES ASSUME Init PROVE TypeOK
    OBVIOUS
<1>1. call \in [Slot -> CallType]
      BY NoCallType DEF Init
<1>2. \A s \in Replica : Borrowed(s) = {}
      BY DEF Init, Borrowed, NoCall, Of
<1>3. \A s \in Replica : Cardinality(Borrowed(s)) =< MaxOpenConns
      BY <1>2, FS_EmptySet, ServerAssumption
<1>4. drain \in [Replica -> 0..RequestTimeout]
      BY ServerAssumption DEF Init
<1>5. /\ stage \in [Replica -> Stage]
      /\ database \in {"up", "hung"}
      /\ schema \in BOOLEAN
      /\ keyed \in SUBSET Usage
      /\ due \in SUBSET keyed
      BY DEF Init, Stage
<1> QED BY <1>1, <1>3, <1>4, <1>5, TypeSplit

\* A step of one slot: what it may leave there.
LEMMA SlotType ==
    ASSUME TypeOK, NEW r \in Slot, NEW c \in CallType, c.phase # "querying",
           call' = [call EXCEPT ![r] = c],
           UNCHANGED <<stage, drain, database, schema, keyed, due>>
    PROVE  TypeOK'
<1>1. call \in [Slot -> CallType]
      BY TypeSplit
<1>2. call' \in [Slot -> CallType]
      BY <1>1
<1>3. \A s \in Replica : Borrowed(s)' \subseteq Borrowed(s)
      BY <1>1 DEF Borrowed, Of
<1>4. \A s \in Replica : Cardinality(Borrowed(s)') =< MaxOpenConns
      BY <1>3, PoolKept, TypeSplit
<1> QED BY <1>2, <1>4, TypeSplit DEF TypeOK, ServerTypeOK, CallType, Borrowed

\* A step that leaves the slots alone.
LEMMA StageType ==
    ASSUME TypeOK, UNCHANGED call,
           stage' \in [Replica -> Stage],
           drain' \in [Replica -> 0..RequestTimeout],
           database' \in {"up", "hung"},
           schema' \in BOOLEAN, keyed' \in SUBSET Usage, due' \in SUBSET keyed'
    PROVE  TypeOK'
BY DEF TypeOK, ServerTypeOK, Of

LEMMA BootType ==
    ASSUME TypeOK, NEW s \in Replica, Start(s) \/ BootStep(s)
    PROVE  TypeOK'
<1> USE DEF Advance
<1> DEFINE Moves(to) == /\ stage' = [stage EXCEPT ![s] = to]
                        /\ UNCHANGED <<drain, call, database>>
<1>1. /\ stage \in [Replica -> Stage]
      /\ drain \in [Replica -> 0..RequestTimeout]
      /\ database \in {"up", "hung"}
      /\ schema \in BOOLEAN
      /\ keyed \in SUBSET Usage
      /\ due \in SUBSET keyed
      BY TypeSplit
<1>2. DueFor(s) \subseteq Usage
      BY DeploymentAssumption DEF DueFor, UsagesOf
<1>3. \E to \in Stage : Moves(to)
      <2>1. CASE Start(s)
            BY <2>1 DEF Start, Stage
      <2>2. CASE Migrate(s)
            BY <2>2 DEF Migrate, Stage
      <2>3. CASE MigrateFails(s) \/ RotateFails(s) \/ BootFails(s)
            BY <2>3 DEF MigrateFails, RotateFails, BootFails, Fails, Stage
      <2>4. CASE RotateKeys(s)
            BY <2>4 DEF RotateKeys, Stage
      <2>5. CASE Boot(s)
            BY <2>5 DEF Boot, Stage
      <2> QED BY <2>1, <2>2, <2>3, <2>4, <2>5 DEF BootStep
<1>4. schema' \in BOOLEAN /\ keyed' \in SUBSET Usage /\ due' \in SUBSET keyed'
      <2>1. CASE Start(s) \/ RotateFails(s) \/ Boot(s) \/ BootFails(s)
            BY <1>1, <2>1 DEF Start, RotateFails, Boot, BootFails, Fails, bootVars
      <2>2. CASE Migrate(s) \/ MigrateFails(s)
            BY <1>1, <2>2 DEF Migrate, MigrateFails
      <2>3. CASE RotateKeys(s)
            BY <1>1, <1>2, <2>3 DEF RotateKeys
      <2> QED BY <2>1, <2>2, <2>3 DEF BootStep
<1>5. stage' \in [Replica -> Stage]
      BY <1>1, <1>3
<1> QED BY <1>1, <1>3, <1>4, <1>5, StageType

LEMMA RequestType ==
    ASSUME TypeOK, NEW r \in Slot, RequestStep(r), UNCHANGED bootVars
    PROVE  TypeOK'
<1>1. call \in [Slot -> CallType]
      BY TypeSplit
<1>2. \A route \in {"probe", "keys", "stream"} : /\ Dispatched(route) \in CallType
                                               /\ Dispatched(route).phase # "querying"
      BY ServerAssumption DEF Dispatched, CallType
<1>3. NoCall \in CallType /\ NoCall.phase # "querying"
      BY NoCallType DEF NoCall
<1>4. ASSUME UNCHANGED <<stage, drain, database>>,
             NEW c \in CallType, c.phase # "querying", call' = [call EXCEPT ![r] = c]
      PROVE  TypeOK'
      BY <1>4, SlotType DEF bootVars
<1>5. CASE Accept(r)
      <2>1. [NoCall EXCEPT !.phase = "header"] \in CallType
            BY <1>3 DEF CallType
      <2>2. [NoCall EXCEPT !.phase = "header"].phase # "querying"
            BY DEF NoCall
      <2> QED BY <1>2, <1>4, <1>5, <2>1, <2>2 DEF Accept, Receive
<1>6. CASE Dispatch(r)
      BY <1>2, <1>3, <1>4, <1>6 DEF Dispatch
<1>7. CASE HeaderLost(r) \/ Answer(r) \/ DriverGivesUp(r) \/ TimeOut(r) \/ Abandon(r)
      BY <1>3, <1>4, <1>7 DEF HeaderLost, Answer, DriverGivesUp, TimeOut, Abandon
<1>8. CASE Borrow(r)
      <2>1. call' \in [Slot -> CallType]
            BY <1>1, <1>8 DEF Borrow, CallType
      <2>2. ASSUME NEW s \in Replica
            PROVE  Cardinality(Borrowed(s)') =< MaxOpenConns
            <3>1. CASE s # Home[r]
                  <4>1. Borrowed(s)' = Borrowed(s)
                        BY <1>1, <1>8, <3>1 DEF Borrow, Borrowed, Of
                  <4> QED BY <4>1, TypeSplit
            <3>2. CASE s = Home[r]
                  <4>1. Borrowed(s)' = Borrowed(s) \cup {r}
                        BY <1>1, <1>8, <3>2 DEF Borrow, Borrowed, Of, CallType
                  <4>2. Cardinality(Borrowed(s)) < MaxOpenConns
                        BY <1>8, <3>2 DEF Borrow, Borrowed
                  <4>3. IsFiniteSet(Borrowed(s)) /\ Cardinality(Borrowed(s)) \in Nat
                        BY BorrowedFinite
                  <4>4. r \notin Borrowed(s)
                        BY <1>8 DEF Borrow, Borrowed
                  <4>5. Cardinality(Borrowed(s)') = Cardinality(Borrowed(s)) + 1
                        BY <4>1, <4>3, <4>4, FS_AddElement
                  <4> QED BY <4>2, <4>3, <4>5, ServerAssumption
            <3> QED BY <3>1, <3>2
      <2> QED BY <1>8, <2>1, <2>2 DEF Borrow, bootVars, TypeOK, ServerTypeOK, CallType, Borrowed
<1> QED BY <1>5, <1>6, <1>7, <1>8 DEF RequestStep

\* Time passes only while every timer still has time.
LEMMA TickType ==
    ASSUME TypeOK, Tick, UNCHANGED bootVars
    PROVE  TypeOK'
<1>1. /\ call \in [Slot -> CallType]
      /\ drain \in [Replica -> 0..RequestTimeout]
      BY TypeSplit
<1>2. ASSUME NEW s \in Replica
      PROVE  drain'[s] \in 0..RequestTimeout
      <2>1. ~ShutdownLate(s)
            BY DEF Tick, Urgent
      <2>2. drain[s] \in 0..RequestTimeout /\ RequestTimeout \in Nat
            BY <1>1, ServerAssumption
      <2>3. CASE s \in RestReplica /\ stage[s] = "draining"
            <3>1. ~(drain[s] >= RequestTimeout)
                  BY <2>1, <2>3 DEF ShutdownLate
            <3>2. drain'[s] = drain[s] + 1
                  BY <2>3 DEF Tick
            <3> QED BY <2>2, <3>1, <3>2
      <2>4. CASE ~(s \in RestReplica /\ stage[s] = "draining")
            BY <2>2, <2>4 DEF Tick
      <2> QED BY <2>3, <2>4
<1>3. ASSUME NEW r \in Slot
      PROVE  call'[r] \in CallType /\ call'[r].phase = call[r].phase
      <2>1. call[r].age \in 0..RequestTimeout /\ call[r].held \in 0..DriverTimeout
            BY <1>1 DEF CallType
      <2>2. ASSUME Timed(r)
            PROVE  call[r].age + 1 \in 0..RequestTimeout
            <3>1. ~HeaderLate(r) /\ ~RequestLate(r)
                  BY DEF Tick, Urgent
            <3>2. RequestTimeout \in Nat /\ HeaderTimeout \in 0..RequestTimeout
                  BY ServerAssumption
            <3>3. CASE call[r].phase = "header"
                  <4>1. ~(call[r].age >= HeaderTimeout)
                        BY <3>1, <3>3 DEF HeaderLate
                  <4> QED BY <2>1, <3>2, <4>1
            <3>4. CASE Notices(r)
                  <4>1. ~(call[r].age >= RequestTimeout)
                        BY <2>2, <3>1, <3>4 DEF RequestLate, Timed
                  <4> QED BY <2>1, <3>2, <4>1
            <3> QED BY <2>2, <3>3, <3>4 DEF Timed
      <2>3. ASSUME call[r].phase = "querying"
            PROVE  call[r].held + 1 \in 0..DriverTimeout
            <3>1. ~DriverLate(r)
                  BY DEF Tick, Urgent
            <3>2. ~(call[r].held >= DriverTimeout)
                  BY <2>3, <3>1 DEF DriverLate
            <3> QED BY <2>1, <3>2, ServerAssumption
      <2> QED BY <1>1, <2>1, <2>2, <2>3 DEF Tick, CallType
<1>4. drain' \in [Replica -> 0..RequestTimeout]
      BY <1>2 DEF Tick
<1>5. call' \in [Slot -> CallType]
      BY <1>3 DEF Tick
<1>6. \A s \in Replica : Cardinality(Borrowed(s)') =< MaxOpenConns
      <2>1. \A s \in Replica : Borrowed(s)' \subseteq Borrowed(s)
            BY <1>3 DEF Borrowed, Of
      <2> QED BY <2>1, PoolKept, TypeSplit
<1> QED BY <1>4, <1>5, <1>6 DEF Tick, bootVars, TypeOK, ServerTypeOK, CallType, Borrowed

LEMMA OverrunType ==
    ASSUME TypeOK, NEW s \in Replica, Overrun(s), UNCHANGED bootVars
    PROVE  TypeOK'
<1>1. /\ call \in [Slot -> CallType]
      /\ drain \in [Replica -> 0..RequestTimeout]
      /\ stage \in [Replica -> Stage]
      BY TypeSplit
<1>2. call' \in [Slot -> CallType]
      BY <1>1, NoCallType DEF Overrun
<1>3. \A t \in Replica : Borrowed(t)' \subseteq Borrowed(t)
      BY <1>1 DEF Overrun, Borrowed, Of, NoCall
<1>4. \A t \in Replica : Cardinality(Borrowed(t)') =< MaxOpenConns
      BY <1>3, PoolKept, TypeSplit
<1>5. stage' \in [Replica -> Stage] /\ drain' \in [Replica -> 0..RequestTimeout]
      BY <1>1, ServerAssumption DEF Overrun, Stage
<1> QED BY <1>2, <1>4, <1>5 DEF Overrun, bootVars, TypeOK, ServerTypeOK, CallType, Borrowed

LEMMA NextType == TypeOK /\ [Next]_vars => TypeOK'
<1> SUFFICES ASSUME TypeOK, [Next]_vars
             PROVE  TypeOK'
    OBVIOUS
<1>1. /\ stage \in [Replica -> Stage]
      /\ drain \in [Replica -> 0..RequestTimeout]
      /\ database \in {"up", "hung"}
      /\ schema \in BOOLEAN
      /\ keyed \in SUBSET Usage
      /\ due \in SUBSET keyed
      BY TypeSplit
<1>2. CASE \E s \in Replica : Start(s) \/ BootStep(s)
      BY <1>2, BootType
<1>3. CASE \E u \in Usage : Elapse(u)
      BY <1>1, <1>3, StageType DEF Elapse, serverVars
<1>4. CASE ServerStep /\ UNCHANGED bootVars
      <2>1. CASE Tick
            BY <1>4, <2>1, TickType
      <2>2. CASE Hang \/ Recover
            BY <1>1, <1>4, <2>2, StageType DEF Hang, Recover, bootVars
      <2>3. CASE \E r \in Slot : RequestStep(r)
            BY <1>4, <2>3, RequestType
      <2>4. CASE \E s \in Replica : Stop(s) \/ Drained(s)
            <3>1. /\ stage' \in [Replica -> Stage]
                  /\ drain' \in [Replica -> 0..RequestTimeout]
                  /\ UNCHANGED <<call, database>>
                  BY <1>1, <2>4, ServerAssumption DEF Stop, Drained, Stage
            <3> QED BY <1>1, <1>4, <3>1, StageType DEF bootVars
      <2>5. CASE \E s \in Replica : Overrun(s)
            BY <1>4, <2>5, OverrunType
      <2> QED BY <1>4, <2>1, <2>2, <2>3, <2>4, <2>5 DEF ServerStep
<1>5. CASE UNCHANGED vars
      BY <1>1, <1>5, StageType DEF vars, serverVars, bootVars
<1> QED BY <1>2, <1>3, <1>4, <1>5 DEF Next

\* The types of the variables; in particular no timer runs on once it has run out,
\* and a replica's handlers never hold more connections than its pool has.
THEOREM TypeCorrect == Spec => []TypeOK
BY InitType, NextType, PTL DEF Spec

\* The timers of a request and of Shutdown are one: whatever was dispatched before has
\* timed out when Shutdown does.
THEOREM EarlierCallsSpared == Spec => ShutdownSparesEarlierCalls
<1>1. TypeOK /\ [Next]_vars =>
          [ \A r \in Slot :
               /\ call[r].route = "keys"
               /\ stage[Home[r]] # "panicked"
               /\ stage'[Home[r]] = "panicked"
               => call[r].age =< drain[Home[r]] ]_serverVars
      <2> SUFFICES ASSUME TypeOK, Next, NEW r \in Slot,
                          stage[Home[r]] # "panicked", stage'[Home[r]] = "panicked"
                   PROVE  call[r].age =< drain[Home[r]]
          BY DEF vars
      <2>1. /\ stage \in [Replica -> Stage]
            /\ drain \in [Replica -> 0..RequestTimeout]
            /\ call \in [Slot -> CallType]
            /\ Home[r] \in Replica
            BY TypeSplit, ServerAssumption
      <2>2. \E s \in Replica : Overrun(s) /\ Home[r] = s
            <3>1. ASSUME NEW s \in Replica, Start(s) \/ BootStep(s)
                  PROVE  FALSE
                  BY <2>1, <3>1 DEF Start, BootStep, Migrate, MigrateFails, RotateKeys,
                     RotateFails, Boot, BootFails, Fails, Advance
            <3>2. ASSUME NEW u \in Usage, Elapse(u)
                  PROVE  FALSE
                  BY <3>2 DEF Elapse, serverVars
            <3>3. ServerStep
                  BY <3>1, <3>2 DEF Next
            <3>4. ASSUME NEW q \in Slot, RequestStep(q)
                  PROVE  FALSE
                  BY <3>4 DEF RequestStep, Accept, Dispatch, HeaderLost, Borrow, Answer,
                     DriverGivesUp, TimeOut, Abandon
            <3>5. ASSUME Tick \/ Hang \/ Recover
                  PROVE  FALSE
                  BY <3>5 DEF Tick, Hang, Recover
            <3>6. ASSUME NEW s \in Replica, Stop(s) \/ Drained(s)
                  PROVE  FALSE
                  BY <2>1, <3>6 DEF Stop, Drained
            <3>7. PICK s \in Replica : Overrun(s)
                  BY <3>3, <3>4, <3>5, <3>6 DEF ServerStep
            <3>8. Home[r] = s
                  BY <2>1, <3>7 DEF Overrun
            <3> QED BY <3>7, <3>8
      <2>3. drain[Home[r]] >= RequestTimeout
            BY <2>2 DEF Overrun, ShutdownLate
      <2>4. call[r].age \in 0..RequestTimeout
            BY <2>1 DEF CallType
      <2> QED BY <2>1, <2>3, <2>4, ServerAssumption
<1> QED BY <1>1, TypeCorrect, PTL DEF Spec, ShutdownSparesEarlierCalls

-----------------------------------------------------------------------------
(* A standalone image serves on a database it has prepared. *)

\* What the chain has done by the time it reaches a command: serving is safe because
\* of what every earlier command left, and nothing takes it back.
Prepared ==
    \A s \in Standalone :
        /\ stage[s] \in {"rotating", "booting", "serving", "draining"} => schema
        /\ stage[s] \in {"booting", "serving", "draining"} => UsagesOf(s) \subseteq keyed

LEMMA PreparedLater ==
    ASSUME TypeOK, Prepared, schema => schema', keyed \subseteq keyed',
           \A s \in Standalone :
               \/ stage'[s] = stage[s]
               \/ stage[s] = "serving" /\ stage'[s] = "draining"
               \/ stage'[s] \in {"migrating", "stopped", "panicked", "failed"}
    PROVE  Prepared'
BY DEF Prepared, TypeOK, UsagesOf

LEMMA NextPrepared == TypeOK /\ Prepared /\ [Next]_vars => Prepared'
<1> SUFFICES ASSUME TypeOK, Prepared, [Next]_vars
             PROVE  Prepared'
    OBVIOUS
<1>1. /\ stage \in [Replica -> Stage]
      /\ Standalone \subseteq Replica
      /\ \A s \in Replica : UsagesOf(s) \subseteq Usage
      BY TypeSplit, DeploymentAssumption DEF UsagesOf
<1>2. ASSUME NEW s \in Replica, Start(s)
      PROVE  Prepared'
      BY <1>1, <1>2, PreparedLater DEF Start, Advance, bootVars, Prepared, UsagesOf
<1>3. ASSUME NEW s \in Replica, Migrate(s)
      PROVE  Prepared'
      BY <1>1, <1>3 DEF Migrate, Advance, Prepared, UsagesOf
<1>4. ASSUME NEW s \in Replica, MigrateFails(s) \/ RotateFails(s) \/ BootFails(s)
      PROVE  Prepared'
      <2>1. keyed' = keyed /\ (schema' = schema \/ schema' = TRUE)
            BY <1>4 DEF MigrateFails, RotateFails, BootFails, Fails, bootVars
      <2>2. stage' = [stage EXCEPT ![s] = "failed"]
            BY <1>4 DEF MigrateFails, RotateFails, BootFails, Fails, Advance
      <2> QED BY <1>1, <2>1, <2>2 DEF Prepared, UsagesOf
<1>5. ASSUME NEW s \in Replica, RotateKeys(s)
      PROVE  Prepared'
      <2>1. UsagesOf(s) \subseteq keyed'
            BY <1>1, <1>5 DEF RotateKeys, DueFor
      <2>2. keyed \subseteq keyed' /\ schema' = schema
            BY <1>5 DEF RotateKeys
      <2> QED BY <1>1, <1>5, <2>1, <2>2 DEF RotateKeys, Advance, Prepared, UsagesOf
<1>6. ASSUME NEW s \in Replica, Boot(s)
      PROVE  Prepared'
      BY <1>1, <1>6 DEF Boot, Advance, bootVars, Prepared, UsagesOf
<1>7. ASSUME NEW u \in Usage, Elapse(u)
      PROVE  Prepared'
      BY <1>7, PreparedLater DEF Elapse, serverVars
<1>8. ASSUME ServerStep, UNCHANGED bootVars
      PROVE  Prepared'
      <2>1. ASSUME NEW s \in Replica, Stop(s) \/ Drained(s) \/ Overrun(s)
            PROVE  Prepared'
            BY <1>1, <1>8, <2>1, PreparedLater DEF Stop, Drained, Overrun, bootVars
      <2>2. ASSUME UNCHANGED stage
            PROVE  Prepared'
            BY <1>8, <2>2, PreparedLater DEF bootVars
      <2>3. ASSUME NEW r \in Slot, RequestStep(r)
            PROVE  UNCHANGED stage
            BY <2>3 DEF RequestStep, Accept, Dispatch, HeaderLost, Borrow, Answer,
               DriverGivesUp, TimeOut, Abandon
      <2>4. Tick \/ Hang \/ Recover => UNCHANGED stage
            BY DEF Tick, Hang, Recover
      <2> QED BY <1>8, <2>1, <2>2, <2>3, <2>4 DEF ServerStep
<1>9. CASE UNCHANGED vars
      BY <1>9, PreparedLater DEF vars, serverVars, bootVars
<1> QED BY <1>2, <1>3, <1>4, <1>5, <1>6, <1>7, <1>8, <1>9 DEF Next, BootStep

\* A standalone image serves only with the schema, and a first key for each usage.
THEOREM SeededFirst == Spec => []SeededBeforeServing
<1>1. Init => Prepared
      BY DeploymentAssumption DEF Init, Prepared
<1>2. Prepared => SeededBeforeServing
      BY DEF Prepared, SeededBeforeServing
<1> QED BY <1>1, <1>2, NextPrepared, TypeCorrect, PTL DEF Spec

-----------------------------------------------------------------------------
(* The registries. *)

\* Each table knows the same algorithms and means the same by them.
LEMMA RegistriesAgree ==
    ASSUME NEW alg \in Alg
    PROVE  Generated(alg) = Producers(alg) /\ Generated(alg) = Recipients(alg)
<1> USE DEF Ecdsa, Rsa, Hmac
<1> DEFINE Out == Generated(alg)
<1>1. CASE alg = "EdDSA"
      <2>1. Out = {[kty |-> "OKP", alg |-> "EdDSA"]}
            BY <1>1 DEF Generated, JwkGenerators
      <2>2. PrivateBucket(alg) = {"EdDSA"} /\ PublicBucket(alg) = {"EdDSA"}
            BY <1>1 DEF PrivateBucket, PublicBucket
      <2>3. Plugin("EdDSA", alg) = {[kty |-> "OKP", alg |-> "EdDSA"]}
            BY DEF Plugin
      <2> QED BY <2>1, <2>2, <2>3 DEF Producers, Recipients
<1>2. CASE alg \in Ecdsa
      <2>1. JwkGenerators[alg] = "Es" /\ alg \in DOMAIN JwkGenerators
            BY <1>2 DEF JwkGenerators
      <2>2. Out = {[kty |-> "EC", alg |-> alg]}
            BY <1>2, <2>1 DEF Generated, JwkPresetsEcdsa
      <2>3. PrivateBucket(alg) = {"ES"} /\ PublicBucket(alg) = {"ES"}
            BY <1>2 DEF PrivateBucket, PublicBucket
      <2>4. Plugin("ES", alg) = {[kty |-> "EC", alg |-> alg]}
            BY <1>2 DEF Plugin, JwsPresetsEcdsa
      <2> QED BY <2>2, <2>3, <2>4 DEF Producers, Recipients
<1>3. CASE alg \in Rsa
      <2>1. JwkGenerators[alg] = "Rsa" /\ alg \in DOMAIN JwkGenerators
            BY <1>3 DEF JwkGenerators
      <2>2. Out = {[kty |-> "RSA", alg |-> alg]}
            BY <1>3, <2>1 DEF Generated, JwkPresetsRsa
      <2>3. PrivateBucket(alg) = {"RSA"} /\ PublicBucket(alg) = {"RSA"}
            BY <1>3 DEF PrivateBucket, PublicBucket
      <2>4. Plugin("RSA", alg) = {[kty |-> "RSA", alg |-> alg]}
            BY <1>3 DEF Plugin, JwsPresetsRsa
      <2> QED BY <2>2, <2>3, <2>4 DEF Producers, Recipients
<1>4. CASE alg \in Hmac
      <2>1. Out = {}
            BY <1>4 DEF Generated, JwkGenerators
      <2>2. PrivateBucket(alg) = {} /\ PublicBucket(alg) = {}
            BY <1>4 DEF PrivateBucket, PublicBucket
      <2> QED BY <2>1, <2>2 DEF Producers, Recipients
<1> QED BY <1>1, <1>2, <1>3, <1>4 DEF Alg

\* A server signs with the keys its jobs make, for every algorithm.
THEOREM SignersFit == Spec => []SignersFitKeys
<1>1. SignersFitKeys
      BY RegistriesAgree DEF SignersFitKeys
<1> QED BY <1>1, PTL

=============================================================================
