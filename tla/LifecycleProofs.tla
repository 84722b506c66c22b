-------------------------- MODULE LifecycleProofs --------------------------
(***************************************************************************)
(* Proofs about AppLifecycle for any grids, gRPC calls in flight, pool     *)
(* users, edits of the grid table and component failures.                  *)
(***************************************************************************)
EXTENDS AppLifecycle, TLAPS

\* The phases of main: before the servers run, while the stores are open,
\* after the gRPC server has stopped, while a store is being closed.
Built    == {"check", "bootstrap", "publish", "ready", "wait", "drain",
             "close", "grpc", "health", "metrics", "redis"}
Serving  == {"ready", "wait"}
Draining == {"grpc", "health", "metrics", "redis", "producer", "postgres"}
Stopped  == Draining \ {"grpc"}

\* What main has done so far: the servers start after New, every store stays
\* open until the gRPC server has stopped, the consumer is started with a
\* snapshot, and Close has returned or the deadline passed before any of them
\* is shut down.
PhaseInv ==
  /\ main \in {"new", "check"} => \A p \in Parts : part[p] = "new"
  /\ main \in Built => open = Stores
  /\ main \in Serving => snapshot # {} /\ part["consumer"] # "new"
  /\ main \in Draining => closing = "closed" \/ deadline
  /\ main \in Stopped => calls = 0 /\ part["grpc"] # "running"

\* Calls are served, and readiness is told, only by a process in those phases.
ServingInv ==
  /\ calls > 0 \/ part["grpc"] = "running" => open = Stores
  /\ ready.health \/ ready.grpc => main \in Serving

\* Handlers run only once the consumer has been started, a closed consumer has
\* none left that it has not given up, and no store is closed before Close has
\* returned or the deadline has passed.
HandlerInv ==
  /\ part["consumer"] = "new" => handlers = {}
  /\ closing = "closed" => "owned" \notin handlers
  /\ (open # Stores /\ part["consumer"] # "new") => closing = "closed" \/ deadline

\* The inductive invariant.
IInv == TypeOK /\ PhaseInv /\ ServingInv /\ HandlerInv

\* A component failure uses up one of the budget.
LEMMA FaultType ==
  ASSUME TypeOK, Fault
  PROVE  faults' \in 0..MaxFaults
BY LifecycleAssumption DEF TypeOK, Fault, LifecycleAssumption

-----------------------------------------------------------------------------
(* Startup.                                                                *)

\* Building the stores and the servers, or failing to.
LEMMA NewInv ==
  ASSUME IInv, New
  PROVE  IInv'
<1> USE DEF StartFrame, Exit, Parts, Servers, Stores, Built, Serving, Draining, Stopped
<1>1. TypeOK /\ PhaseInv /\ ServingInv /\ HandlerInv
  BY DEF IInv
<1>2. TypeOK'
  <2>1. faults' \in 0..MaxFaults
    BY <1>1, FaultType DEF New, TypeOK
  <2>2. open' \in SUBSET Stores
    BY <1>1 DEF New, TypeOK
  <2>3. QED
    BY <1>1, <2>1, <2>2 DEF TypeOK, New
<1>3. PhaseInv'
  BY <1>1 DEF TypeOK, PhaseInv, New, Fault
<1>4. ServingInv'
  BY <1>1 DEF TypeOK, PhaseInv, ServingInv, New, Fault
<1>5. HandlerInv'
  BY <1>1 DEF TypeOK, PhaseInv, HandlerInv, New, Fault
<1>6. QED
  BY <1>2, <1>3, <1>4, <1>5 DEF IInv

\* The version check, and the start of the servers.
LEMMA MigrationsInv ==
  ASSUME IInv, EnsureMigrationsCurrent
  PROVE  IInv'
<1> USE DEF StartFrame, Exit, Parts, Servers, Stores, Built, Serving, Draining, Stopped
<1>1. TypeOK /\ PhaseInv /\ ServingInv /\ HandlerInv
  BY DEF IInv
<1>2. TypeOK'
  BY <1>1, FaultType, LifecycleAssumption DEF TypeOK, LifecycleAssumption,
     EnsureMigrationsCurrent, Fault
<1>3. PhaseInv'
  BY <1>1 DEF TypeOK, PhaseInv, EnsureMigrationsCurrent, Fault
<1>4. ServingInv'
  BY <1>1 DEF TypeOK, PhaseInv, ServingInv, EnsureMigrationsCurrent, Fault
<1>5. HandlerInv'
  BY <1>1 DEF TypeOK, PhaseInv, HandlerInv, EnsureMigrationsCurrent, Fault
<1>6. QED
  BY <1>2, <1>3, <1>4, <1>5 DEF IInv

\* The first load of the grids, its publication, and the start of ingestion.
LEMMA BootstrapInv ==
  ASSUME IInv, BootstrapLoad \/ Bootstrap
  PROVE  IInv'
<1> USE DEF StartFrame, Exit, Parts, Servers, Stores, Built, Serving, Draining, Stopped
<1>1. TypeOK /\ PhaseInv /\ ServingInv /\ HandlerInv
  BY DEF IInv
<1>2. TypeOK'
  <2>1. CASE BootstrapLoad
    <3>1. loaded' \in SUBSET Grids /\ faults' \in 0..MaxFaults
      BY <1>1, <2>1, FaultType DEF TypeOK, BootstrapLoad, LoadGrids
    <3>2. QED
      BY <1>1, <2>1, <3>1 DEF TypeOK, BootstrapLoad
  <2>2. CASE Bootstrap
    <3>1. snapshot' \in SUBSET Grids /\ loaded' \in SUBSET Grids
      BY <1>1, <2>2 DEF TypeOK, Bootstrap, Publish
    <3>2. part' \in [Parts -> {"new", "running", "sending", "done"}]
      BY <1>1, <2>2 DEF TypeOK, Bootstrap
    <3>3. QED
      BY <1>1, <2>2, <3>1, <3>2 DEF TypeOK, Bootstrap
  <2>3. QED
    BY <2>1, <2>2
<1>3. PhaseInv'
  BY <1>1 DEF TypeOK, PhaseInv, BootstrapLoad, Bootstrap, LoadGrids, Publish, Valid, Fault
<1>4. ServingInv'
  BY <1>1 DEF TypeOK, PhaseInv, ServingInv, BootstrapLoad, Bootstrap, LoadGrids, Publish,
     Valid, Fault
<1>5. HandlerInv'
  BY <1>1 DEF TypeOK, PhaseInv, HandlerInv, BootstrapLoad, Bootstrap, LoadGrids, Publish, Valid, Fault
<1>6. QED
  BY <1>2, <1>3, <1>4, <1>5 DEF IInv

\* Readiness is told to the health server, then to the gRPC server.
LEMMA SetReadyInv ==
  ASSUME IInv, SetReady
  PROVE  IInv'
<1> USE DEF StartFrame, refreshVars, Exit, Parts, Servers, Stores, Built, Serving, Draining,
            Stopped
<1>1. TypeOK /\ PhaseInv /\ ServingInv /\ HandlerInv
  BY DEF IInv
<1>2. TypeOK'
  <2>1. ready' \in [health : BOOLEAN, grpc : BOOLEAN]
    <3>1. ready \in [health : BOOLEAN, grpc : BOOLEAN]
      BY <1>1 DEF TypeOK
    <3>2. \/ ready' = [ready EXCEPT !.grpc = TRUE]
          \/ ready' = [ready EXCEPT !.health = TRUE]
      BY DEF SetReady
    <3>3. QED
      BY <3>1, <3>2
  <2>2. QED
    BY <1>1, <2>1 DEF TypeOK, SetReady
<1>3. PhaseInv'
  BY <1>1 DEF TypeOK, PhaseInv, SetReady, Fault
<1>4. ServingInv'
  BY <1>1 DEF TypeOK, PhaseInv, ServingInv, SetReady, Fault
<1>5. HandlerInv'
  BY <1>1 DEF TypeOK, PhaseInv, HandlerInv, SetReady, Fault
<1>6. QED
  BY <1>2, <1>3, <1>4, <1>5 DEF IInv

-----------------------------------------------------------------------------
(* Shutdown.                                                               *)

\* A signal or an error ends the wait, and readiness with it.
LEMMA AwaitStopInv ==
  ASSUME IInv, AwaitStop
  PROVE  IInv'
<1> USE DEF StopFrame, partVars, callVars, gridVars, refreshVars, Slots, Built, Serving,
            Draining, Stopped
<1>1. TypeOK /\ PhaseInv /\ ServingInv /\ HandlerInv
  BY DEF IInv
<1>2. TypeOK'
  <2>1. errors' \in 0..Slots
    BY <1>1 DEF AwaitStop, TypeOK
  <2>2. ready' \in [health : BOOLEAN, grpc : BOOLEAN]
    BY DEF AwaitStop
  <2>3. failed' \in BOOLEAN
    BY <1>1 DEF AwaitStop, TypeOK
  <2>4. QED
    BY <1>1, <2>1, <2>2, <2>3 DEF TypeOK, AwaitStop
<1>3. PhaseInv'
  BY <1>1 DEF TypeOK, PhaseInv, AwaitStop
<1>4. ServingInv'
  BY <1>1 DEF TypeOK, PhaseInv, ServingInv, AwaitStop
<1>5. HandlerInv'
  BY <1>1 DEF TypeOK, PhaseInv, HandlerInv, AwaitStop
<1>6. QED
  BY <1>2, <1>3, <1>4, <1>5 DEF IInv

\* The deadline, the forced stop of the calls, and the wait for the consumer.
LEMMA DeadlineInv ==
  ASSUME IInv, DeadlineExpires \/ ForceStop \/ AwaitConsumer \/ AwaitClose
  PROVE  IInv'
<1> USE DEF StopFrame, partVars, callVars, gridVars, refreshVars, Built, Serving, Draining,
            Stopped
<1>1. TypeOK /\ PhaseInv /\ ServingInv /\ HandlerInv
  BY DEF IInv
<1>2. TypeOK'
  <2>1. CASE DeadlineExpires
    BY <1>1, <2>1 DEF TypeOK, DeadlineExpires
  <2>2. CASE ForceStop
    BY <1>1, <2>2 DEF TypeOK, ForceStop
  <2>3. CASE AwaitConsumer
    BY <1>1, <2>3 DEF TypeOK, AwaitConsumer
  <2>4. CASE AwaitClose
    BY <1>1, <2>4 DEF TypeOK, AwaitClose
  <2>5. QED
    BY <2>1, <2>2, <2>3, <2>4
<1>3. PhaseInv'
  BY <1>1 DEF TypeOK, PhaseInv, DeadlineExpires, ForceStop, AwaitConsumer, AwaitClose
<1>4. ServingInv'
  BY <1>1 DEF TypeOK, PhaseInv, ServingInv, DeadlineExpires, ForceStop, AwaitConsumer,
     AwaitClose
<1>5. HandlerInv'
  BY <1>1 DEF TypeOK, PhaseInv, HandlerInv, DeadlineExpires, ForceStop, AwaitConsumer, AwaitClose
<1>6. QED
  BY <1>2, <1>3, <1>4, <1>5 DEF IInv

\* The gRPC server stops with no call in flight, then the HTTP servers.
LEMMA ServersStopInv ==
  ASSUME IInv, GrpcStop \/ ShutdownServer
  PROVE  IInv'
<1> USE DEF StopFrame, partVars, callVars, gridVars, refreshVars, Parts, Servers, Built,
            Serving, Draining, Stopped
<1>1. TypeOK /\ PhaseInv /\ ServingInv /\ HandlerInv
  BY DEF IInv
<1>2. TypeOK'
  <2>1. main' \in {"health", "metrics", "redis"}
    BY DEF GrpcStop, ShutdownServer
  <2>2. part' \in [Parts -> {"new", "running", "sending", "done"}]
    <3>1. CASE GrpcStop
      BY <1>1, <3>1 DEF TypeOK, GrpcStop
    <3>2. CASE ShutdownServer
      BY <1>1, <3>2 DEF TypeOK, ShutdownServer
    <3>3. QED
      BY <3>1, <3>2
  <2>3. UNCHANGED <<signal, failed, deadline, errors, closing, handlers, ready, open, users,
                    calls, forced, grids, snapshot, loaded, refresher, edits, faults>>
    BY DEF GrpcStop, ShutdownServer
  <2>4. QED
    BY <1>1, <2>1, <2>2, <2>3 DEF TypeOK
<1>3. PhaseInv'
  BY <1>1 DEF TypeOK, PhaseInv, GrpcStop, ShutdownServer
<1>4. ServingInv'
  BY <1>1 DEF TypeOK, PhaseInv, ServingInv, GrpcStop, ShutdownServer
<1>5. HandlerInv'
  BY <1>1 DEF TypeOK, PhaseInv, HandlerInv, GrpcStop, ShutdownServer
<1>6. QED
  BY <1>2, <1>3, <1>4, <1>5 DEF IInv

\* The stores are closed one after the other.
LEMMA StoresCloseInv ==
  ASSUME IInv, CloseStore \/ PoolDrained
  PROVE  IInv'
<1> USE DEF StopFrame, partVars, callVars, gridVars, refreshVars, Exit, Stores, Built,
            Serving, Draining, Stopped
<1>1. TypeOK /\ PhaseInv /\ ServingInv /\ HandlerInv
  BY DEF IInv
<1>2. TypeOK'
  BY <1>1, FaultType, LifecycleAssumption DEF TypeOK, LifecycleAssumption, CloseStore,
     PoolDrained
<1>3. PhaseInv'
  BY <1>1 DEF TypeOK, PhaseInv, CloseStore, PoolDrained
<1>4. ServingInv'
  BY <1>1 DEF TypeOK, PhaseInv, ServingInv, CloseStore, PoolDrained
<1>5. HandlerInv'
  BY <1>1 DEF TypeOK, PhaseInv, HandlerInv, CloseStore, PoolDrained
<1>6. QED
  BY <1>2, <1>3, <1>4, <1>5 DEF IInv

-----------------------------------------------------------------------------
(* The other goroutines and the environment.                               *)

\* A component fails, reports its error, or returns; Close returns.
LEMMA PartInv ==
  ASSUME IInv,
         \/ \E p \in Parts : PartFails(p) \/ SendError(p)
         \/ ConsumerReturns \/ CloseReturns
  PROVE  IInv'
<1> USE DEF OtherFrame, mainVars, partVars, callVars, gridVars, refreshVars, Parts, Servers,
            Slots, Built, Serving, Draining, Stopped
<1>1. TypeOK /\ PhaseInv /\ ServingInv /\ HandlerInv
  BY DEF IInv
<1>2. TypeOK'
  <2>1. errors' \in 0..Slots
    BY <1>1 DEF PartFails, SendError, ConsumerReturns, CloseReturns, TypeOK
  <2>2. faults' \in 0..MaxFaults
    BY <1>1, FaultType DEF PartFails, SendError, ConsumerReturns, CloseReturns, TypeOK
  <2>3. part' \in [Parts -> {"new", "running", "sending", "done"}]
    BY <1>1 DEF PartFails, SendError, ConsumerReturns, CloseReturns, TypeOK
  <2>4. closing' \in {"no", "closing", "closed"}
    BY <1>1 DEF PartFails, SendError, ConsumerReturns, CloseReturns, TypeOK
  <2>5. UNCHANGED <<main, signal, failed, deadline, handlers, ready, open, users, calls,
                    forced, grids, snapshot, refresher, loaded, edits>>
    BY DEF PartFails, SendError, ConsumerReturns, CloseReturns
  <2>6. QED
    BY <1>1, <2>1, <2>2, <2>3, <2>4, <2>5 DEF TypeOK
<1>3. PhaseInv'
  BY <1>1 DEF TypeOK, PhaseInv, PartFails, SendError, ConsumerReturns, CloseReturns, Fault
<1>4. ServingInv'
  BY <1>1 DEF TypeOK, PhaseInv, ServingInv, PartFails, SendError, ConsumerReturns,
     CloseReturns, Fault
<1>5. HandlerInv'
  BY <1>1 DEF TypeOK, PhaseInv, HandlerInv, PartFails, SendError, ConsumerReturns, CloseReturns, Fault
<1>6. QED
  BY <1>2, <1>3, <1>4, <1>5 DEF IInv

\* A handler starts, returns, or is given up.
LEMMA HandlersInv ==
  ASSUME IInv,
         \/ HandlerStarts \/ Abandon
         \/ \E h \in {"owned", "abandoned"} : HandlerReturns(h)
  PROVE  IInv'
<1> USE DEF OtherFrame, mainVars, partVars, callVars, gridVars, refreshVars, Built, Serving,
            Draining, Stopped
<1>1. TypeOK /\ PhaseInv /\ ServingInv /\ HandlerInv
  BY DEF IInv
<1>2. TypeOK'
  <2>1. handlers' \in SUBSET {"owned", "abandoned"}
    BY <1>1 DEF HandlerStarts, Abandon, HandlerReturns, TypeOK
  <2>2. QED
    BY <1>1, <2>1 DEF TypeOK, HandlerStarts, Abandon, HandlerReturns
<1>3. PhaseInv'
  BY <1>1 DEF TypeOK, PhaseInv, HandlerStarts, Abandon, HandlerReturns
<1>4. ServingInv'
  BY <1>1 DEF TypeOK, PhaseInv, ServingInv, HandlerStarts, Abandon, HandlerReturns
<1>5. HandlerInv'
  BY <1>1 DEF TypeOK, HandlerInv, HandlerStarts, Abandon, HandlerReturns
<1>6. QED
  BY <1>2, <1>3, <1>4, <1>5 DEF IInv

\* A connection of the pool is taken or given back.
LEMMA PoolInv ==
  ASSUME IInv, NEW u \in PoolUsers, Acquire(u) \/ Release(u)
  PROVE  IInv'
<1> USE DEF OtherFrame, mainVars, partVars, callVars, gridVars, refreshVars, Built, Serving,
            Draining, Stopped
<1>1. TypeOK /\ PhaseInv /\ ServingInv /\ HandlerInv
  BY DEF IInv
<1>2. TypeOK'
  <2>1. users' \in SUBSET PoolUsers
    BY <1>1 DEF Acquire, Release, TypeOK
  <2>2. UNCHANGED <<main, signal, failed, deadline, errors, part, closing, handlers, ready,
                    open, calls, forced, grids, snapshot, refresher, loaded, edits, faults>>
    BY DEF Acquire, Release
  <2>3. QED
    BY <1>1, <2>1, <2>2 DEF TypeOK
<1>3. PhaseInv'
  BY <1>1 DEF TypeOK, PhaseInv, Acquire, Release
<1>4. ServingInv'
  BY <1>1 DEF TypeOK, PhaseInv, ServingInv, Acquire, Release
<1>5. HandlerInv'
  BY <1>1 DEF TypeOK, PhaseInv, HandlerInv, Acquire, Release
<1>6. QED
  BY <1>2, <1>3, <1>4, <1>5 DEF IInv

\* A gRPC call arrives at a server that runs, or returns.
LEMMA CallInv ==
  ASSUME IInv, CallArrives \/ CallReturns
  PROVE  IInv'
<1> USE DEF OtherFrame, mainVars, partVars, callVars, gridVars, refreshVars, Built, Serving,
            Draining, Stopped
<1>1. TypeOK /\ PhaseInv /\ ServingInv /\ HandlerInv
  BY DEF IInv
<1>2. TypeOK'
  <2>1. calls' \in 0..MaxCalls
    BY <1>1, LifecycleAssumption DEF CallArrives, CallReturns, TypeOK, LifecycleAssumption
  <2>2. UNCHANGED <<main, signal, failed, deadline, errors, part, closing, handlers, ready,
                    open, users, forced, grids, snapshot, refresher, loaded, edits, faults>>
    BY DEF CallArrives, CallReturns
  <2>3. QED
    BY <1>1, <2>1, <2>2 DEF TypeOK
<1>3. PhaseInv'
  BY <1>1 DEF TypeOK, PhaseInv, CallArrives, CallReturns
<1>4. ServingInv'
  BY <1>1 DEF TypeOK, PhaseInv, ServingInv, CallArrives, CallReturns
<1>5. HandlerInv'
  BY <1>1 DEF TypeOK, PhaseInv, HandlerInv, CallArrives, CallReturns
<1>6. QED
  BY <1>2, <1>3, <1>4, <1>5 DEF IInv

\* A refresh of the grids never publishes an empty snapshot.
LEMMA RefreshInv ==
  ASSUME IInv, RefreshStep
  PROVE  IInv'
<1> USE DEF OtherFrame, mainVars, partVars, callVars, gridVars, refreshVars, Built, Serving,
            Draining, Stopped
<1>1. TypeOK /\ PhaseInv /\ ServingInv /\ HandlerInv
  BY DEF IInv
<1>2. TypeOK'
  <2>1. faults' \in 0..MaxFaults
    BY <1>1, FaultType DEF TypeOK, RefreshStep, RefreshTick, RefreshLoad, RefreshPublish,
       RefreshError
  <2>2. snapshot' \in SUBSET Grids /\ loaded' \in SUBSET Grids
    BY <1>1 DEF TypeOK, LoadGrids, Publish, RefreshStep, RefreshTick, RefreshLoad,
       RefreshPublish, RefreshError
  <2>3. refresher' \in {"off", "idle", "loading", "loaded"}
    BY <1>1 DEF RefreshStep, RefreshTick, RefreshLoad, RefreshPublish, RefreshError
  <2>4. UNCHANGED <<main, signal, failed, deadline, errors, part, closing, handlers, ready,
                    open, users, calls, forced, grids, edits>>
    BY DEF RefreshStep, RefreshTick, RefreshLoad, RefreshPublish, RefreshError
  <2>5. QED
    BY <1>1, <2>1, <2>2, <2>3, <2>4 DEF TypeOK
<1>3. PhaseInv'
  BY <1>1 DEF TypeOK, PhaseInv, RefreshStep, RefreshTick, RefreshLoad, RefreshPublish,
     RefreshError, LoadGrids, Publish, Valid, Fault
<1>4. ServingInv'
  BY <1>1 DEF TypeOK, PhaseInv, ServingInv, RefreshStep, RefreshTick, RefreshLoad,
     RefreshPublish, RefreshError, LoadGrids, Publish, Valid, Fault
<1>5. HandlerInv'
  BY <1>1 DEF TypeOK, PhaseInv, HandlerInv, RefreshStep, RefreshTick, RefreshLoad, RefreshPublish,
     RefreshError, LoadGrids, Publish, Valid, Fault
<1>6. QED
  BY <1>2, <1>3, <1>4, <1>5 DEF IInv

\* A signal, and an edit of the grid table.
LEMMA EnvironmentInv ==
  ASSUME IInv,
         Signal \/ \E g \in Grids : ProvisionGrid(g)
  PROVE  IInv'
<1> USE DEF OtherFrame, mainVars, partVars, callVars, gridVars, refreshVars, Built, Serving,
            Draining, Stopped
<1>1. TypeOK /\ PhaseInv /\ ServingInv /\ HandlerInv
  BY DEF IInv
<1>2. TypeOK'
  <2>1. edits' \in 0..MaxEdits
    BY <1>1, LifecycleAssumption DEF Signal, ProvisionGrid, TypeOK, LifecycleAssumption
  <2>2. grids' \in SUBSET Grids
    BY <1>1 DEF Signal, ProvisionGrid, TypeOK
  <2>3. signal' \in BOOLEAN
    BY <1>1 DEF Signal, ProvisionGrid, TypeOK
  <2>4. UNCHANGED <<main, failed, deadline, errors, part, closing, handlers, ready, open,
                    users, calls, forced, snapshot, refresher, loaded, faults>>
    BY DEF Signal, ProvisionGrid
  <2>5. QED
    BY <1>1, <2>1, <2>2, <2>3, <2>4 DEF TypeOK
<1>3. PhaseInv'
  BY <1>1 DEF TypeOK, PhaseInv, Signal, ProvisionGrid
<1>4. ServingInv'
  BY <1>1 DEF TypeOK, PhaseInv, ServingInv, Signal, ProvisionGrid
<1>5. HandlerInv'
  BY <1>1 DEF TypeOK, PhaseInv, HandlerInv, Signal, ProvisionGrid
<1>6. QED
  BY <1>2, <1>3, <1>4, <1>5 DEF IInv

-----------------------------------------------------------------------------
(* The theorems.                                                           *)

\* The invariant holds when the process starts.
LEMMA InitInv == Init => IInv
<1>1. Init => TypeOK
  <2>1. 0 \in 0..Slots /\ 0 \in 0..MaxCalls /\ MaxEdits \in 0..MaxEdits
        /\ MaxFaults \in 0..MaxFaults
    BY LifecycleAssumption DEF LifecycleAssumption, Slots
  <2>2. SUFFICES ASSUME Init PROVE TypeOK
    OBVIOUS
  <2>3. ready \in [health : BOOLEAN, grpc : BOOLEAN]
    BY <2>2 DEF Init
  <2>4. /\ part \in [Parts -> {"new", "running", "sending", "done"}]
        /\ signal \in BOOLEAN /\ failed \in BOOLEAN /\ deadline \in BOOLEAN /\ forced \in BOOLEAN
    BY <2>2 DEF Init
  <2>5. QED
    BY <2>1, <2>2, <2>3, <2>4 DEF Init, TypeOK
<1>2. Init => PhaseInv /\ ServingInv /\ HandlerInv
  BY DEF Init, PhaseInv, ServingInv, HandlerInv, Built, Serving, Draining, Stopped, Parts, Servers
<1>3. QED
  BY <1>1, <1>2 DEF IInv

\* Stuttering changes nothing.
LEMMA StutterInv ==
  ASSUME IInv, UNCHANGED vars
  PROVE  IInv'
BY DEF vars, IInv, TypeOK, PhaseInv, ServingInv, HandlerInv

\* The inductive invariant holds throughout.
THEOREM InductiveInvariant == Spec => []IInv
<1>1. Init => IInv
  BY InitInv
<1>2. IInv /\ [Next]_vars => IInv'
  BY NewInv, MigrationsInv, BootstrapInv, SetReadyInv, AwaitStopInv, DeadlineInv,
     ServersStopInv, StoresCloseInv, PartInv, HandlersInv, PoolInv, CallInv, RefreshInv, EnvironmentInv,
     StutterInv DEF Next, MainStep
<1>3. QED
  BY <1>1, <1>2, PTL DEF Spec

\* StoresInv for any calls in flight, pool users and failures: no gRPC handler
\* sees a closed store, and no handler of a worker the consumer still has does
\* before the deadline.
THEOREM StoresSound == Spec => []StoresInv
<1>1. IInv => StoresInv
  <2>1. ServingInv => CallsSeeOpenStores
    BY DEF ServingInv, CallsSeeOpenStores
  <2>2. HandlerInv => HandlersSeeOpenStores
    BY DEF HandlerInv, HandlersSeeOpenStores
  <2>3. QED
    BY <2>1, <2>2 DEF IInv, StoresInv
<1>2. QED
  BY <1>1, InductiveInvariant, PTL

\* ReadyMeansIngesting for any grid table, edits and failures: readiness is
\* told only with a snapshot published, the consumer started and every store
\* open.
THEOREM ReadySound == Spec => []ReadyMeansIngesting
<1>1. IInv => ReadyMeansIngesting
  BY DEF IInv, PhaseInv, ServingInv, Serving, Built, ReadyMeansIngesting
<1>2. QED
  BY <1>1, InductiveInvariant, PTL

=============================================================================
