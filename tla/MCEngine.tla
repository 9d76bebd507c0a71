------------------------------ MODULE MCEngine ------------------------------
(* The engine's components and the client's, which share no state, on small *)
(* instances: a behaviour picks one of them and runs it, the others stand   *)
(* still.                                                                   *)
EXTENDS TaskThread, Timers, LogPump, Buses, Memory, ConfigStore, Transport, Rpc,
        ClientNet, Resources, TLC

VARIABLE focus

Foci == {"thread", "timers", "log", "events", "calls", "pool", "objects", "arena",
         "config", "net", "rpc", "client", "resources", "streamer"}

MCFileKeys == [f \in CfgFiles |-> CfgKeys]
MCFileDirs == {CfgFiles}

MCKindOf == [t1 |-> "Texture", m2 |-> "Mesh"]
MCSizeOf == [m2 |-> 2]
MCLevels == <<"Low", "High">>
MCPreset(texel, budget) == [texel |-> texel, Texture |-> budget, Mesh |-> budget]
MCDefaultPresets == [Low |-> MCPreset(1, 1), High |-> MCPreset(2, 3)]
MCPresetFiles == {[Low |-> MCPreset(1, 0)]}
MCLoadTime == [c \in Chunks |-> 1 + (c % 2)]

coreVars == <<threadVars, timerVars, logVars, busVars, memoryVars, configVars>>
farVars == <<netVars, rpcVars, clVars, resourceVars>>
engineVars == <<focus, coreVars, farVars>>

EngineInit ==
    /\ focus \in Foci
    /\ ThreadInit /\ TimersInit /\ LogInit /\ BusesInit /\ MemoryInit
    /\ ConfigInit /\ TransportInit /\ RpcInit /\ ClientInit /\ ResourcesInit
    /\ focus # "client" => ~clReconnects
    /\ focus # "resources" => rsPreset = MCDefaultPresets.Low

OnThread(A) ==
    /\ focus = "thread" /\ A
    /\ UNCHANGED <<focus, timerVars, logVars, busVars, memoryVars, configVars,
                   farVars>>
OnTimers ==
    /\ focus = "timers" /\ TimersNext
    /\ UNCHANGED <<focus, threadVars, logVars, busVars, memoryVars, configVars,
                   farVars>>
OnLog(A) ==
    /\ focus = "log" /\ A
    /\ UNCHANGED <<focus, threadVars, timerVars, busVars, memoryVars, configVars,
                   farVars>>
OnBuses ==
    /\ \/ focus = "events" /\ EventsNext
       \/ focus = "calls" /\ CallsNext
    /\ UNCHANGED <<focus, threadVars, timerVars, logVars, memoryVars, configVars,
                   farVars>>
OnMemory ==
    /\ \/ focus = "pool" /\ PoolNext
       \/ focus = "objects" /\ ObjectNext
       \/ focus = "arena" /\ ArenaNext
    /\ UNCHANGED <<focus, threadVars, timerVars, logVars, busVars, configVars,
                   farVars>>
OnConfig ==
    /\ focus = "config" /\ ConfigNext
    /\ UNCHANGED <<focus, threadVars, timerVars, logVars, busVars, memoryVars,
                   farVars>>
OnNet ==
    /\ focus = "net" /\ TransportNext
    /\ UNCHANGED <<focus, coreVars, rpcVars, clVars, resourceVars>>
OnRpc(A) ==
    /\ focus = "rpc" /\ A
    /\ UNCHANGED <<focus, coreVars, netVars, clVars, resourceVars>>
OnClient ==
    /\ focus = "client" /\ ClientNext
    /\ UNCHANGED <<focus, coreVars, netVars, rpcVars, resourceVars>>
OnResources(A) ==
    /\ A
    /\ UNCHANGED <<focus, coreVars, netVars, rpcVars, clVars>>

EngineNext ==
    OnThread(ThreadNext) \/ OnTimers \/ OnLog(LogNext) \/ OnBuses \/ OnMemory
    \/ OnConfig \/ OnNet \/ OnRpc(RpcNext) \/ OnClient
    \/ OnResources(focus = "resources" /\ ResourcesNext)
    \/ OnResources(focus = "streamer" /\ StreamerNext)

(* The fairness of the components: the machine runs their threads.         *)
EngineSpec ==
    /\ EngineInit /\ [][EngineNext]_engineVars
    /\ \A p \in Producers : WF_engineVars(OnThread(PostStep(p)))
    /\ WF_engineVars(OnThread(RunLoop))
    /\ WF_engineVars(OnLog(PumpStep))
    /\ \A w \in Writers : WF_engineVars(OnLog(CountRecord(w)))
    /\ \A c \in RpcCalls : WF_engineVars(OnRpc(Attempt(c))) /\ WF_engineVars(OnRpc(Deadline(c)))

-----------------------------------------------------------------------------
(* What is given to a component is somewhere in it, once: a posted task, a  *)
(* log record, a published event, a timer's slot, a block of memory, a call *)
(* in flight, a connection's slot, an event the client received, a resource *)
(* being loaded and the bytes it takes, whatever the threads interleave.    *)
NothingIsLost ==
    /\ TasksAccountedFor /\ SlotsPartitioned /\ NoRecordLost /\ LossIsReported
    /\ EventsAccountedFor /\ CallsAreCounted /\ BlocksPartitioned /\ IdsNeverReturn
    /\ EventsOnce /\ LoadsAreUnderWay /\ CacheIsExact

(* Work comes out in the order it was put in and no more often than allowed:*)
(* tasks of one producer, events of one subscriber, frames of one           *)
(* connection, the firings of a late timer, the retries of a call, the      *)
(* client's answers; a worker that stops leaves nothing behind but what it  *)
(* could not see, and no chunk stays loaded that is far away.               *)
OrderIsKept ==
    /\ PostOrderKept /\ OwesOnlyBehindUnpublished /\ SubscribersHearInOrder
    /\ FramesAreCut /\ CatchUpBounded /\ RetriesAreSafe
    /\ AnswersMatch /\ OneReceiver /\ LoadedIsNear

(* A reader of the configuration never goes back to an older snapshot, and  *)
(* a cancelled timer never fires again, and a chunk that was left is not    *)
(* taken away before its delay.                                             *)
NothingComesBack == ReadersNeverGoBack /\ CancelledStaysSilent /\ ChunksLinger

(* A posted task runs unless the worker is told to stop, an accepted record *)
(* reaches the sinks, a call comes back.                                    *)
WorkIsFinished == []<>(CaughtUp /\ PumpedOut /\ NobodyWaits)
=============================================================================
