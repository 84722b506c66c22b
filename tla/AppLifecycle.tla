---------------------------- MODULE AppLifecycle ----------------------------
(***************************************************************************)
(* The life of one process: App.New, App.Run and App.shutdown of           *)
(* internal/app, with the grid registry of internal/admission that must be *)
(* loaded before ingestion is reported ready.                              *)
(*                                                                         *)
(* The main goroutine runs beside the health, metrics and gRPC servers,    *)
(* the Kafka consumer, the registry refresher, the dependency monitor and  *)
(* whatever still uses a connection of the Postgres pool.  The consumer is *)
(* seen from outside (Consumer.tla models it): Run and Close may return or *)
(* not, and a handler that ignores cancellation is abandoned and outlives  *)
(* both.  Signals, component failures and expired deadlines come at any    *)
(* time.                                                                   *)
(***************************************************************************)
EXTENDS Integers

CONSTANTS
  Grids,     \* grid IDs
  EmptyID,   \* the empty grid ID, which the table does not exclude
  MaxCalls,  \* gRPC calls in flight at the same time
  PoolUsers, \* goroutines that use the pool besides the refresher: partition
             \* workers, the monitor, poll loops of registrations
  MaxEdits,  \* bound on changes of iot_data.grids
  MaxFaults  \* bound on component failures and query errors

ASSUME LifecycleAssumption ==
  /\ Grids # {}
  /\ PoolUsers \subseteq {"worker", "monitor", "registration"}
  /\ MaxCalls \in Nat
  /\ MaxEdits \in Nat
  /\ MaxFaults \in Nat

VARIABLES
  main,      \* what the main goroutine does next
  signal,    \* SIGINT or SIGTERM received: ctx is done
  failed,    \* Run took an error from errorChannel and cancelled runCtx
  deadline,  \* the shutdown context has expired
  errors,    \* errors in errorChannel
  part,      \* the component goroutines that report to errorChannel
  closing,   \* Consumer.Close
  handlers,  \* kinds of consumer handlers that run: of a worker the consumer
             \* has ("owned"), of one that was given up ("abandoned")
  ready,     \* what SetReady last told the health and the gRPC server
  open,      \* stores that are open
  users,     \* goroutines that hold a connection of the Postgres pool
  calls,     \* gRPC calls in flight
  forced,    \* the gRPC server cancelled the calls in flight
  grids,     \* iot_data.grids
  snapshot,  \* grids of the published snapshot, {} before the first
  refresher, \* the refresher goroutine
  loaded,    \* what LoadGrids returned
  edits,     \* changes of iot_data.grids left
  faults     \* failures left

mainVars    == <<main, failed, deadline, ready, open>>
partVars    == <<errors, part>>
callVars    == <<calls, forced>>
gridVars    == <<grids, edits>>
refreshVars == <<snapshot, refresher, loaded>>
vars == <<main, signal, failed, deadline, errors, part, closing, handlers,
          ready, open, users, calls, forced, grids, snapshot, refresher, loaded, edits,
          faults>>

Servers == {"health", "metrics", "grpc"}
Parts   == Servers \cup {"consumer"}
Stores  == {"redis", "producer", "postgres"}

\* Capacity of errorChannel.
Slots == 4

Init ==
  /\ main = "new"
  /\ signal = FALSE /\ failed = FALSE /\ deadline = FALSE
  /\ errors = 0
  /\ part = [p \in Parts |-> "new"]
  /\ closing = "no"
  /\ handlers = {}
  /\ ready = [health |-> FALSE, grpc |-> FALSE]
  /\ open = {}
  /\ users = {}
  /\ calls = 0
  /\ forced = FALSE
  /\ grids \in SUBSET Grids
  /\ snapshot = {}
  /\ refresher = "off"
  /\ loaded = {}
  /\ edits = MaxEdits
  /\ faults = MaxFaults

Fault     == faults > 0 /\ faults' = faults - 1
Cancelled == signal \/ failed     \* runCtx
Exit      == main' = "exited"

-----------------------------------------------------------------------------
(* Startup: New and the first half of Run                                  *)

StartFrame == UNCHANGED <<signal, failed, deadline, errors, closing, handlers,
                          users, calls, forced, grids, edits>>

\* Stores, consumer, producer and servers are built in turn; an error closes
\* what was opened and ends the process.
New ==
  /\ main = "new"
  /\ \/ main' = "check" /\ open' = Stores /\ UNCHANGED faults
     \/ Fault /\ Exit /\ UNCHANGED open
     \/ signal /\ Exit /\ UNCHANGED <<open, faults>>
  /\ StartFrame
  /\ UNCHANGED <<part, ready, snapshot, refresher, loaded>>

\* A wrong version, or an error reading it, ends Run; otherwise the servers
\* and the monitor are started.
EnsureMigrationsCurrent ==
  /\ main = "check"
  /\ \/ /\ main' = "bootstrap"
        /\ part' = [p \in Parts |-> IF p \in Servers THEN "running" ELSE part[p]]
        /\ UNCHANGED faults
     \/ Fault /\ Exit /\ UNCHANGED part
     \/ signal /\ Exit /\ UNCHANGED <<part, faults>>
  /\ StartFrame
  /\ UNCHANGED <<ready, open, snapshot, refresher, loaded>>

\* The grid rows of one query.
LoadGrids == loaded' = grids

\* toGridMap: neither an empty result nor one with an empty grid ID is used.
Valid(rows) == rows # {} /\ EmptyID \notin rows

Publish ==
  /\ snapshot' = IF Valid(loaded) THEN loaded ELSE snapshot
  /\ loaded' = {}

\* The first load; ctx, not runCtx.  An error ends Run without shutdown.
BootstrapLoad ==
  /\ main = "bootstrap"
  /\ \/ LoadGrids /\ main' = "publish" /\ UNCHANGED faults
     \/ Fault /\ Exit /\ UNCHANGED loaded
     \/ signal /\ Exit /\ UNCHANGED <<loaded, faults>>
  /\ StartFrame
  /\ UNCHANGED <<part, ready, open, snapshot, refresher>>

\* Mutant of Bootstrap: an invalid grid table is only logged.
BugBootstrapEmpty ==
  /\ main = "publish"
  /\ Publish
  /\ main' = "ready"
  /\ refresher' = "idle"
  /\ part' = [part EXCEPT !["consumer"] = "running"]
  /\ StartFrame
  /\ UNCHANGED <<ready, open, faults>>

\* An invalid table is fatal; otherwise the refresher and the consumer start.
Bootstrap ==
  /\ main = "publish"
  /\ Publish
  /\ IF Valid(loaded)
     THEN /\ main' = "ready"
          /\ refresher' = "idle"
          /\ part' = [part EXCEPT !["consumer"] = "running"]
     ELSE Exit /\ UNCHANGED <<part, refresher>>
  /\ StartFrame
  /\ UNCHANGED <<ready, open, faults>>

SetReady ==
  /\ main = "ready"
  /\ IF ready.health
     THEN ready' = [ready EXCEPT !.grpc = TRUE] /\ main' = "wait"
     ELSE ready' = [ready EXCEPT !.health = TRUE] /\ UNCHANGED main
  /\ StartFrame
  /\ UNCHANGED <<part, open, faults>>
  /\ UNCHANGED refreshVars

-----------------------------------------------------------------------------
(* Shutdown                                                                *)

StopFrame == /\ UNCHANGED <<signal, handlers, users, faults>>
             /\ UNCHANGED gridVars
             /\ UNCHANGED refreshVars

\* The select of Run, then the SetReady(false) calls of shutdown.
AwaitStop ==
  /\ main = "wait"
  /\ \/ signal /\ UNCHANGED <<failed, errors>>
     \/ errors > 0 /\ errors' = errors - 1 /\ failed' = TRUE
  /\ main' = "drain"
  /\ ready' = [health |-> FALSE, grpc |-> FALSE]
  /\ StopFrame
  /\ UNCHANGED <<deadline, part, closing, open>>
  /\ UNCHANGED callVars

\* The timer of the shutdown context, which shutdown creates.
DeadlineExpires ==
  /\ main \in {"drain", "close", "grpc", "health", "metrics", "redis",
               "producer", "postgres"}
  /\ ~deadline
  /\ deadline' = TRUE
  /\ StopFrame
  /\ UNCHANGED <<main, failed, ready, open, closing>>
  /\ UNCHANGED <<partVars, callVars>>

\* Waits for Consumer.Run, then calls Close in a goroutine of its own.
AwaitConsumer ==
  /\ main = "drain"
  /\ part["consumer"] = "done" \/ deadline
  /\ main' = "close"
  /\ closing' = "closing"
  /\ StopFrame
  /\ UNCHANGED <<failed, deadline, ready, open>>
  /\ UNCHANGED <<partVars, callVars>>

\* Mutant of AwaitClose: Close is waited for without the deadline.
BugCloseForever ==
  /\ main = "close"
  /\ closing = "closed"
  /\ main' = "grpc"
  /\ StopFrame
  /\ UNCHANGED <<failed, deadline, ready, open, closing>>
  /\ UNCHANGED <<partVars, callVars>>

AwaitClose ==
  /\ main = "close"
  /\ closing = "closed" \/ deadline
  /\ main' = "grpc"
  /\ StopFrame
  /\ UNCHANGED <<failed, deadline, ready, open, closing>>
  /\ UNCHANGED <<partVars, callVars>>

\* GracefulStop: no new calls; the calls in flight are waited for, after
\* gracefulStopTimeout with their contexts cancelled.
ForceStop ==
  /\ main = "grpc"
  /\ ~forced
  /\ forced' = TRUE
  /\ StopFrame
  /\ UNCHANGED <<main, failed, deadline, ready, open, closing, calls>>
  /\ UNCHANGED partVars

GrpcStop ==
  /\ main = "grpc"
  /\ calls = 0
  /\ main' = "health"
  /\ part' = [part EXCEPT !["grpc"] = IF @ = "running" THEN "done" ELSE @]
  /\ StopFrame
  /\ UNCHANGED <<failed, deadline, ready, open, closing, errors>>
  /\ UNCHANGED callVars

\* Each Shutdown returns when its requests are answered or ctx expires; its
\* error is only collected.  Tracing is flushed after the second.
ShutdownServer ==
  /\ main \in {"health", "metrics"}
  /\ part' = [part EXCEPT ![main] = IF @ = "running" THEN "done" ELSE @]
  /\ main' = IF main = "health" THEN "metrics" ELSE "redis"
  /\ StopFrame
  /\ UNCHANGED <<failed, deadline, ready, open, closing, errors>>
  /\ UNCHANGED callVars

\* Redis and the producer close at once.  The pool stops giving out
\* connections ("postgres" leaves open), then waits for the ones in use.
CloseStore ==
  /\ main \in Stores \cap open
  /\ open' = open \ {main}
  /\ main' = CASE main = "redis"    -> "producer"
               [] main = "producer" -> "postgres"
               [] main = "postgres" -> "postgres"
  /\ StopFrame
  /\ UNCHANGED <<failed, deadline, ready, closing>>
  /\ UNCHANGED <<partVars, callVars>>

PoolDrained ==
  /\ main = "postgres"
  /\ "postgres" \notin open
  /\ users = {}
  /\ refresher # "loading"
  /\ Exit
  /\ StopFrame
  /\ UNCHANGED <<failed, deadline, ready, open, closing>>
  /\ UNCHANGED <<partVars, callVars>>

MainStep ==
  \/ New \/ EnsureMigrationsCurrent \/ BootstrapLoad \/ Bootstrap \/ SetReady
  \/ AwaitStop \/ AwaitConsumer \/ AwaitClose \/ GrpcStop \/ ShutdownServer
  \/ CloseStore \/ PoolDrained

-----------------------------------------------------------------------------
(* The other goroutines                                                    *)

Alive      == main # "exited"
OtherFrame == UNCHANGED mainVars

\* A server or the consumer stops with an error.
PartFails(p) ==
  /\ Alive
  /\ part[p] = "running"
  /\ Fault
  /\ part' = [part EXCEPT ![p] = "sending"]
  /\ OtherFrame
  /\ UNCHANGED <<signal, errors, closing, handlers, users>>
  /\ UNCHANGED <<callVars, gridVars, refreshVars>>

SendError(p) ==
  /\ Alive
  /\ part[p] = "sending"
  /\ errors < Slots
  /\ errors' = errors + 1
  /\ part' = [part EXCEPT ![p] = "done"]
  /\ OtherFrame
  /\ UNCHANGED <<signal, closing, handlers, users, faults>>
  /\ UNCHANGED <<callVars, gridVars, refreshVars>>

\* Consumer.Run returns because runCtx is done or the client was closed.
ConsumerReturns ==
  /\ Alive
  /\ part["consumer"] = "running"
  /\ Cancelled \/ closing = "closed"
  /\ part' = [part EXCEPT !["consumer"] = "done"]
  /\ OtherFrame
  /\ UNCHANGED <<signal, errors, closing, handlers, users, faults>>
  /\ UNCHANGED <<callVars, gridVars, refreshVars>>

\* A worker hands a record to its handler.
HandlerStarts ==
  /\ Alive
  /\ part["consumer"] # "new"
  /\ closing # "closed"
  /\ handlers' = handlers \cup {"owned"}
  /\ OtherFrame
  /\ UNCHANGED <<signal, closing, users, faults>>
  /\ UNCHANGED <<partVars, callVars, gridVars, refreshVars>>

HandlerReturns(h) ==
  /\ Alive
  /\ h \in handlers
  /\ "worker" \notin users
  /\ handlers' = handlers \ {h}
  /\ OtherFrame
  /\ UNCHANGED <<signal, closing, users, faults>>
  /\ UNCHANGED <<partVars, callVars, gridVars, refreshVars>>

\* A rebalance or Close stops the worker; its handler outlasts the drain
\* timeout, then ignores the cancelled context for abortGrace.
Abandon ==
  /\ Alive
  /\ part["consumer"] = "running" \/ closing = "closing"
  /\ "owned" \in handlers
  /\ handlers' = {"abandoned"}
  /\ OtherFrame
  /\ UNCHANGED <<signal, closing, users, faults>>
  /\ UNCHANGED <<partVars, callVars, gridVars, refreshVars>>

\* Mutant of CloseReturns: Close does not wait for the workers it stops.
BugCloseNoWait ==
  /\ Alive
  /\ closing = "closing"
  /\ closing' = "closed"
  /\ OtherFrame
  /\ UNCHANGED <<signal, handlers, users, faults>>
  /\ UNCHANGED <<partVars, callVars, gridVars, refreshVars>>

\* stopWorkers has seen every worker exit, or has abandoned it.
CloseReturns ==
  /\ Alive
  /\ closing = "closing"
  /\ "owned" \notin handlers
  /\ closing' = "closed"
  /\ OtherFrame
  /\ UNCHANGED <<signal, handlers, users, faults>>
  /\ UNCHANGED <<partVars, callVars, gridVars, refreshVars>>

\* A pool asked with a cancelled context gives nothing; the poll loops of
\* registrations run on a context of their own.
MayAcquire(u) ==
  CASE u = "worker"       -> handlers # {}
    [] u = "monitor"      -> part["health"] # "new" /\ ~Cancelled
    [] u = "registration" -> part["grpc"] # "new"

Acquire(u) ==
  /\ Alive
  /\ "postgres" \in open
  /\ u \notin users
  /\ MayAcquire(u)
  /\ users' = users \cup {u}
  /\ OtherFrame
  /\ UNCHANGED <<signal, closing, handlers, faults>>
  /\ UNCHANGED <<partVars, callVars, gridVars, refreshVars>>

Release(u) ==
  /\ Alive
  /\ u \in users
  /\ users' = users \ {u}
  /\ OtherFrame
  /\ UNCHANGED <<signal, closing, handlers, faults>>
  /\ UNCHANGED <<partVars, callVars, gridVars, refreshVars>>

CallArrives ==
  /\ Alive
  /\ part["grpc"] = "running"
  /\ main # "grpc"
  /\ calls < MaxCalls
  /\ calls' = calls + 1
  /\ OtherFrame
  /\ UNCHANGED <<signal, closing, handlers, users, forced, faults>>
  /\ UNCHANGED <<partVars, gridVars, refreshVars>>

CallReturns ==
  /\ Alive
  /\ calls > 0
  /\ calls' = calls - 1
  /\ OtherFrame
  /\ UNCHANGED <<signal, closing, handlers, users, forced, faults>>
  /\ UNCHANGED <<partVars, gridVars, refreshVars>>

\* The refresher has ctx, not runCtx: only a signal stops it.
RefreshTick ==
  /\ Alive
  /\ refresher = "idle"
  /\ IF signal THEN refresher' = "off"
     ELSE refresher' = IF "postgres" \in open THEN "loading" ELSE "idle"
  /\ OtherFrame
  /\ UNCHANGED <<signal, closing, handlers, users, snapshot, loaded, faults>>
  /\ UNCHANGED <<partVars, callVars, gridVars>>

RefreshLoad ==
  /\ Alive
  /\ refresher = "loading"
  /\ LoadGrids
  /\ refresher' = "loaded"
  /\ OtherFrame
  /\ UNCHANGED <<signal, closing, handlers, users, snapshot, faults>>
  /\ UNCHANGED <<partVars, callVars, gridVars>>

\* Mutant of RefreshError: the first failed load ends the refresher.
BugRefreshStops ==
  /\ Alive
  /\ refresher = "loading"
  /\ IF signal THEN UNCHANGED faults ELSE Fault
  /\ refresher' = "off"
  /\ OtherFrame
  /\ UNCHANGED <<signal, closing, handlers, users, snapshot, loaded>>
  /\ UNCHANGED <<partVars, callVars, gridVars>>

\* The last known-good snapshot is kept until the next tick.
RefreshError ==
  /\ Alive
  /\ refresher = "loading"
  /\ IF signal THEN UNCHANGED faults ELSE Fault
  /\ refresher' = "idle"
  /\ OtherFrame
  /\ UNCHANGED <<signal, closing, handlers, users, snapshot, loaded>>
  /\ UNCHANGED <<partVars, callVars, gridVars>>

RefreshPublish ==
  /\ Alive
  /\ refresher = "loaded"
  /\ Publish
  /\ refresher' = "idle"
  /\ OtherFrame
  /\ UNCHANGED <<signal, closing, handlers, users, faults>>
  /\ UNCHANGED <<partVars, callVars, gridVars>>

RefreshStep == RefreshTick \/ RefreshLoad \/ RefreshPublish \/ RefreshError

-----------------------------------------------------------------------------
(* The environment                                                         *)

Signal ==
  /\ Alive
  /\ ~signal
  /\ signal' = TRUE
  /\ OtherFrame
  /\ UNCHANGED <<closing, handlers, users, faults>>
  /\ UNCHANGED <<partVars, callVars, gridVars, refreshVars>>

ProvisionGrid(g) ==
  /\ edits > 0
  /\ edits' = edits - 1
  /\ grids' = IF g \in grids THEN grids \ {g} ELSE grids \cup {g}
  /\ OtherFrame
  /\ UNCHANGED <<signal, closing, handlers, users, faults>>
  /\ UNCHANGED <<partVars, callVars, refreshVars>>

Next ==
  \/ MainStep \/ DeadlineExpires \/ ForceStop
  \/ \E p \in Parts : PartFails(p) \/ SendError(p)
  \/ ConsumerReturns \/ CloseReturns \/ HandlerStarts \/ Abandon
  \/ \E h \in {"owned", "abandoned"} : HandlerReturns(h)
  \/ \E u \in PoolUsers : Acquire(u) \/ Release(u)
  \/ CallArrives \/ CallReturns
  \/ RefreshStep
  \/ Signal
  \/ \E g \in Grids : ProvisionGrid(g)

Spec == Init /\ [][Next]_vars

\* Goroutines that can run do run, and timers fire.  A query ends: its context
\* is cancelled or the statement timeout ends it.  A gRPC call ends once its
\* context is cancelled.  Nothing makes Run or Close of the consumer return.
FairSpec ==
  /\ Spec
  /\ WF_vars(MainStep)
  /\ WF_vars(DeadlineExpires)
  /\ WF_vars(ForceStop)
  /\ \A p \in Parts : WF_vars(SendError(p))
  /\ \A u \in PoolUsers : WF_vars(Release(u))
  /\ WF_vars(forced /\ CallReturns)
  /\ WF_vars(RefreshStep)

-----------------------------------------------------------------------------
(* Properties                                                              *)

\* The state components keep their types.
TypeOK ==
  /\ main \in {"new", "check", "bootstrap", "publish", "ready", "wait",
               "drain", "close", "grpc", "health", "metrics", "redis",
               "producer", "postgres", "exited"}
  /\ signal \in BOOLEAN /\ failed \in BOOLEAN /\ deadline \in BOOLEAN
  /\ errors \in 0..Slots
  /\ part \in [Parts -> {"new", "running", "sending", "done"}]
  /\ closing \in {"no", "closing", "closed"}
  /\ handlers \in SUBSET {"owned", "abandoned"}
  /\ ready \in [health : BOOLEAN, grpc : BOOLEAN]
  /\ open \in SUBSET Stores
  /\ users \in SUBSET PoolUsers
  /\ calls \in 0..MaxCalls
  /\ forced \in BOOLEAN
  /\ grids \in SUBSET Grids /\ snapshot \in SUBSET Grids
  /\ loaded \in SUBSET Grids
  /\ refresher \in {"off", "idle", "loading", "loaded"}
  /\ edits \in 0..MaxEdits
  /\ faults \in 0..MaxFaults

\* Whoever is told that the process is ready finds the grid registry loaded,
\* the consumer started and every store open, whichever component has failed
\* meanwhile (the comment of SetReady in httphealth/server.go).
ReadyMeansIngesting ==
  ready.health \/ ready.grpc =>
    /\ snapshot # {}
    /\ part["consumer"] # "new"
    /\ open = Stores

\* A gRPC handler never works on a closed store: Stop waits for the handlers,
\* forced or not, before shutdown closes Redis, the producer and the pool.
CallsSeeOpenStores == calls > 0 => open = Stores

\* Nor does a handler of a worker that the consumer still has, unless the
\* shutdown deadline expired before Close had returned.  A handler that
\* ignored cancellation for abortGrace is abandoned and may find the stores
\* closed, and so may a poll loop of a registration: shutdown waits for
\* neither.
HandlersSeeOpenStores == "owned" \in handlers => open = Stores \/ deadline

\* The state is well typed and no store is closed under someone shutdown
\* waits for, gRPC calls and workers together, whichever of them is late.
StoresInv == TypeOK /\ CallsSeeOpenStores /\ HandlersSeeOpenStores

\* A signal or a failed component ends the process, even when Consumer.Run
\* and Consumer.Close never return and gRPC calls outlast the graceful stop.
StopsAlways == (signal \/ failed \/ errors > 0) ~> (main = "exited")

\* While the process runs, the snapshot follows the grid table through load
\* errors, invalid tables and edits that come between a load and its
\* publication, as long as the table is valid.
SnapshotConverges ==
  <>[](main = "exited" \/ ~Valid(grids) \/ snapshot = grids)
=============================================================================
