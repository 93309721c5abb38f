------------------------------- MODULE Server -------------------------------
(***************************************************************************)
(* The requests of running gRPC and REST servers and the end of a server:  *)
(* cmd/grpc and cmd/rest from the moment they listen, the health probes of *)
(* internal/handlers, and the pool of database connections a replica's     *)
(* handlers share.  What a request for keys answers is KeyApi's subject;   *)
(* here it only takes time, a connection and a deadline.                   *)
(***************************************************************************)
EXTENDS Naturals, FiniteSets

CONSTANTS
    Replica,        \* servers of a deployment
    RestReplica,    \* those that run cmd/rest
    Slot,           \* bound: requests that can be in progress at once
    Home,           \* slot -> the replica it belongs to
    RequestTimeout, \* REST_TIMEOUT_REQUEST, in ticks
    HeaderTimeout,  \* REST_TIMEOUT_READ_HEADER
    DriverTimeout,  \* external: the longest the driver waits for the database
    MaxOpenConns    \* POSTGRES_MAX_OPEN_CONNS

ASSUME ServerAssumption == /\ RestReplica \subseteq Replica
                           /\ IsFiniteSet(Slot)
                           /\ Home \in [Slot -> Replica]
                           /\ RequestTimeout \in Nat \ {0}
                           /\ HeaderTimeout \in 0..RequestTimeout
                           /\ DriverTimeout \in Nat \ {0}
                           /\ MaxOpenConns \in Nat \ {0}

VARIABLES
    stage,    \* replica -> where its process is
    drain,    \* replica -> how long Shutdown has been waiting
    call,     \* slot -> the request it holds
    database  \* "up", or "hung": connected, and silent

serverVars == <<stage, drain, call, database>>

Grpc == Replica \ RestReplica

Of(s) == {r \in Slot : Home[r] = s}

\* A free slot.
NoCall == [phase |-> "none", route |-> "none", age |-> 0, held |-> 0]

\* A request of route is dispatched to its handler, which needs a connection; a
\* streaming call, health watch or reflection, needs none.
Dispatched(route) ==
    [phase |-> IF route = "stream" THEN "streaming" ELSE "waiting",
     route |-> route, age |-> 0, held |-> 0]

Busy(s) == {r \in Of(s) : call[r] # NoCall}

\* Only a handler that passes the context of its request on notices its end: the
\* probes ping the database without it.
Notices(r) == call[r].route = "keys" /\ call[r].phase \in {"waiting", "querying"}

\* The timers that have run out: that of a header, that of middleware.Timeout, that
\* of the driver, that of Shutdown.
HeaderLate(r)   == call[r].phase = "header" /\ call[r].age >= HeaderTimeout
RequestLate(r)  == /\ Home[r] \in RestReplica
                   /\ Notices(r)
                   /\ call[r].age >= RequestTimeout
DriverLate(r)   == call[r].phase = "querying" /\ call[r].held >= DriverTimeout

\* A shutdown given the time of another timer.
ShutdownLateEarly(s) == /\ s \in RestReplica
                        /\ stage[s] = "draining"
                        /\ drain[s] >= HeaderTimeout

ShutdownLate(s) == /\ s \in RestReplica
                   /\ stage[s] = "draining"
                   /\ drain[s] >= RequestTimeout

\* A request reaches its slot: the server reads the header of a REST request, a gRPC
\* call arrives whole.
Receive(r) == \E c \in IF Home[r] \in RestReplica
                          THEN {[NoCall EXCEPT !.phase = "header"]}
                          ELSE {Dispatched(route) : route \in {"probe", "keys", "stream"}} :
                 call' = [call EXCEPT ![r] = c]

\* A server that goes on accepting requests while it shuts down.
AcceptDraining(r) == /\ stage[Home[r]] \in {"serving", "draining"}
                     /\ call[r] = NoCall
                     /\ Receive(r)
                     /\ UNCHANGED <<stage, drain, database>>

Accept(r) == /\ stage[Home[r]] = "serving"
             /\ call[r] = NoCall
             /\ Receive(r)
             /\ UNCHANGED <<stage, drain, database>>

\* The request is read and routed, even if Shutdown was called in between: it closes
\* idle connections, and this one is not.  A ping is answered on the spot.
Dispatch(r) ==
    /\ call[r].phase = "header"
    /\ \E route \in {"ping", "probe", "keys"} :
          call' = [call EXCEPT ![r] = IF route = "ping" THEN NoCall
                                                        ELSE Dispatched(route)]
    /\ UNCHANGED <<stage, drain, database>>

\* The caller hangs up, or the header takes too long.
HeaderLost(r) == /\ call[r].phase = "header"
                 /\ call' = [call EXCEPT ![r] = NoCall]
                 /\ UNCHANGED <<stage, drain, database>>

\* A pool without a limit.
BorrowAny(r) == /\ call[r].phase = "waiting"
                /\ call' = [call EXCEPT ![r].phase = "querying"]
                /\ UNCHANGED <<stage, drain, database>>

\* The pool hands a connection to a handler that waits for one.
Borrow(r) ==
    /\ call[r].phase = "waiting"
    /\ Cardinality({q \in Of(Home[r]) : call[q].phase = "querying"}) < MaxOpenConns
    /\ call' = [call EXCEPT ![r].phase = "querying"]
    /\ UNCHANGED <<stage, drain, database>>

\* The database answers, and the handler does.
Answer(r) == /\ call[r].phase = "querying"
             /\ database = "up"
             /\ call' = [call EXCEPT ![r] = NoCall]
             /\ UNCHANGED <<stage, drain, database>>

\* The driver gives up on a silent database: the handler answers with an error, and
\* a probe reports the dependency down.
DriverGivesUp(r) == /\ DriverLate(r)
                    /\ call' = [call EXCEPT ![r] = NoCall]
                    /\ UNCHANGED <<stage, drain, database>>

\* The deadline of a REST request passes.
TimeOut(r) == /\ RequestLate(r)
              /\ call' = [call EXCEPT ![r] = NoCall]
              /\ UNCHANGED <<stage, drain, database>>

\* The caller gives up, which cancels the context of the request.
Abandon(r) == /\ Notices(r) \/ call[r].phase = "streaming"
              /\ call' = [call EXCEPT ![r] = NoCall]
              /\ UNCHANGED <<stage, drain, database>>

Hang == /\ database = "up"
        /\ database' = "hung"
        /\ UNCHANGED <<stage, drain, call>>

Recover == /\ database = "hung"
           /\ database' = "up"
           /\ UNCHANGED <<stage, drain, call>>

\* SIGINT or SIGTERM: GracefulStop, or Shutdown with the timeout of a request.
Stop(s) == /\ stage[s] = "serving"
           /\ stage' = [stage EXCEPT ![s] = "draining"]
           /\ UNCHANGED <<drain, call, database>>

\* No request is in progress any more.
Quiet(s) == stage[s] = "draining" /\ Busy(s) = {}

\* Then the process ends.
Drained(s) == /\ Quiet(s)
              /\ stage' = [stage EXCEPT ![s] = "stopped"]
              /\ drain' = [drain EXCEPT ![s] = 0]
              /\ UNCHANGED <<call, database>>

\* Shutdown returns the error of its context and main panics: what is in progress is
\* cut off.  A request answered since the last poll does not prevent it.
Overrun(s) ==
    /\ ShutdownLate(s)
    /\ stage' = [stage EXCEPT ![s] = "panicked"]
    /\ drain' = [drain EXCEPT ![s] = 0]
    /\ call' = [r \in Slot |-> IF r \in Of(s) THEN NoCall ELSE call[r]]
    /\ UNCHANGED database

\* What cannot wait: a timer that has run out, and a shutdown that has nothing to wait
\* for, since it polls more often than the clock ticks.
Urgent == \/ \E r \in Slot : HeaderLate(r) \/ RequestLate(r) \/ DriverLate(r)
          \/ \E s \in Replica : ShutdownLate(s) \/ Quiet(s)

\* The requests whose age a timer looks at.
Timed(r) == Home[r] \in RestReplica /\ (call[r].phase = "header" \/ Notices(r))

Tick ==
    /\ ~Urgent
    /\ drain' = [s \in Replica |-> IF s \in RestReplica /\ stage[s] = "draining"
                                      THEN drain[s] + 1 ELSE drain[s]]
    /\ call' = [r \in Slot |->
                   [call[r] EXCEPT
                       !.age  = IF Timed(r) THEN @ + 1 ELSE @,
                       !.held = IF call[r].phase = "querying" THEN @ + 1 ELSE @]]
    /\ UNCHANGED <<stage, database>>

RequestStep(r) == \/ Accept(r)
                  \/ Dispatch(r)
                  \/ HeaderLost(r)
                  \/ Borrow(r)
                  \/ Answer(r)
                  \/ DriverGivesUp(r)
                  \/ TimeOut(r)
                  \/ Abandon(r)

ServerStep == \/ Tick
              \/ Hang
              \/ Recover
              \/ \E r \in Slot : RequestStep(r)
              \/ \E s \in Replica : Stop(s) \/ Drained(s) \/ Overrun(s)

\* What the runtime, the kernel and the driver do sooner or later; callers, signals
\* and the database owe nothing.  Time goes on: no infinite run fits in one tick.
ServerFairness ==
    /\ SF_serverVars(Tick)
    /\ \A r \in Slot : /\ WF_serverVars(Borrow(r))
                       /\ WF_serverVars(HeaderLost(r) \/ TimeOut(r) \/ DriverGivesUp(r))
    /\ \A s \in Replica : WF_serverVars(Drained(s) \/ Overrun(s))

-----------------------------------------------------------------------------
(* Properties. *)

\* The types of the variables, and no more connections borrowed than the pool has.
ServerTypeOK ==
    /\ drain \in [Replica -> 0..RequestTimeout]
    /\ call \in [Slot -> [phase : {"none", "header", "waiting", "querying", "streaming"},
                          route : {"none", "probe", "keys", "stream"},
                          age   : 0..RequestTimeout,
                          held  : 0..DriverTimeout]]
    /\ database \in {"up", "hung"}
    /\ \A s \in Replica :
          Cardinality({r \in Of(s) : call[r].phase = "querying"}) =< MaxOpenConns

\* A REST server that is told to stop cuts off no request for keys that it had
\* dispatched before: giving Shutdown the time one request may take is enough for
\* those, though not for probes and for requests still being read.
ShutdownSparesEarlierCalls ==
    [][ \A r \in Slot :
           /\ call[r].route = "keys"
           /\ stage[Home[r]] # "panicked"
           /\ stage'[Home[r]] = "panicked"
           => call[r].age =< drain[Home[r]]
      ]_serverVars

\* A server that is told to stop ends, whatever its callers and the database do, as
\* long as no caller of a gRPC server keeps a stream open: GracefulStop has no limit.
ShutdownEnds ==
    \A s \in Replica :
        stage[s] = "draining" ~> \/ stage[s] # "draining"
                                 \/ \E r \in Of(s) : call[r].phase = "streaming"

=============================================================================
