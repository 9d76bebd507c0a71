----------------------------- MODULE MCServices -----------------------------
(* The services around the game loop (node failover, control, the data      *)
(* service and its stores, scripting), which share no state, on small       *)
(* instances: a behaviour picks one of them and runs it.                    *)
EXTENDS Failover, Control, MySql, Redis, WriteBehind, HotReload, ScriptContext, GameplayHost

VARIABLE focus

Foci == {"failover", "control", "store", "migrate", "breaker", "sessions", "behind",
         "reload", "scripts", "hooks"}

MCRoles == [n \in FoNodes |-> "Game"]
MCHome == [s \in FoSessions |-> 1]
MCBatches == {<<1, 3>>, <<3, 2>>}
MCMigrations == (1 :> 1) @@ (2 :> 2)
MCPlayerOf == <<1, 1, 2>>
MCRawValues == {-1, 1, 4}

Binding(name, category, hook, keys, period, enabled, needs) ==
    [name |-> name, category |-> category, hook |-> hook, keys |-> keys, period |-> period,
     enabled |-> enabled, needs |-> needs]
MCManifests ==
    {<<Binding("any", "ai", "AiDecide", {}, 0, TRUE, {}),
       Binding("wolf", "ai", "AiDecide", {"wolf"}, 2, TRUE, {})>>,
     <<Binding("wolf", "boss", "BossPhase", {"wolf"}, 0, TRUE, {"npc"}),
       Binding("any", "skill", "SkillFormula", {}, 0, FALSE, {}),
       Binding("gala", "event", "ActivityModifier", {}, 0, TRUE, {})>>,
     <<Binding("any", "quest", "QuestEvent", {"kill"}, 0, TRUE, {}),
       Binding("wolf", "ai", "QuestEvent", {"wolf"}, 0, TRUE, {})>>}
MCRequests == {<<"AiDecide", "wolf">>, <<"BossPhase", "wolf">>, <<"QuestEvent", "kill">>,
               <<"SkillFormula", "x">>, <<"ActivityModifier", "gala">>}

servicesVars == <<focus, foVars, ctlVars, mySqlVars, redisVars, wbVars, hrVars, scVars, ghVars>>

ServicesInit ==
    /\ focus \in Foci
    /\ FailoverInit /\ ControlInit /\ MySqlInit /\ RedisInit /\ WbInit
    /\ HotReloadInit /\ ScriptContextInit /\ GameplayInit
    \* a pool of one connection on tables that are empty, one of two on tables that are not
    /\ \A k \in Keys : (myRows[k] = NoRow) = (mySize = 1)
    /\ focus # "store" => mySize = 1

OnFailover(A) ==
    /\ focus = "failover" /\ A
    /\ UNCHANGED <<focus, ctlVars, mySqlVars, redisVars, wbVars, hrVars, scVars, ghVars>>
OnControl ==
    /\ focus = "control" /\ ControlNext
    /\ UNCHANGED <<focus, foVars, mySqlVars, redisVars, wbVars, hrVars, scVars, ghVars>>
OnMySql ==
    /\ \/ focus = "store" /\ StoreNext
       \/ focus = "migrate" /\ MigrateNext
    /\ UNCHANGED <<focus, foVars, ctlVars, redisVars, wbVars, hrVars, scVars, ghVars>>
OnRedis ==
    /\ \/ focus = "breaker" /\ GuardedNext
       \/ focus = "sessions" /\ SessionStoreNext
    /\ UNCHANGED <<focus, foVars, ctlVars, mySqlVars, wbVars, hrVars, scVars, ghVars>>
OnWriteBehind ==
    /\ focus = "behind" /\ WbNext
    /\ UNCHANGED <<focus, foVars, ctlVars, mySqlVars, redisVars, hrVars, scVars, ghVars>>
OnHotReload(A) ==
    /\ focus = "reload" /\ A
    /\ UNCHANGED <<focus, foVars, ctlVars, mySqlVars, redisVars, wbVars, scVars, ghVars>>
OnScripts ==
    /\ focus = "scripts" /\ ScriptContextNext
    /\ UNCHANGED <<focus, foVars, ctlVars, mySqlVars, redisVars, wbVars, hrVars, ghVars>>
OnGameplay ==
    /\ focus = "hooks" /\ GameplayNext
    /\ UNCHANGED <<focus, foVars, ctlVars, mySqlVars, redisVars, wbVars, hrVars, scVars>>

ServicesNext ==
    OnFailover(FailoverNext) \/ OnControl \/ OnMySql \/ OnRedis \/ OnWriteBehind
    \/ OnHotReload(HotReloadNext) \/ OnScripts \/ OnGameplay

\* The fairness of FailoverSpec and HotReloadSpec: who holds the monitor ticks it and drains its bus,
\* which no process of the repository does, and the scene's tick goes on.
ServicesSpec ==
    /\ ServicesInit /\ [][ServicesNext]_servicesVars
    /\ WF_servicesVars(OnFailover(SilencePasses)) /\ WF_servicesVars(OnFailover(MonitorTick))
    /\ WF_servicesVars(OnFailover(OnNodeDead)) /\ WF_servicesVars(OnFailover(NextWave))
    /\ WF_servicesVars(OnFailover(Rebind)) /\ WF_servicesVars(OnHotReload(Tick))

\* One component alone, for the questions asked of it only.
BehindOnly == ServicesInit /\ focus = "behind" /\ [][OnWriteBehind]_servicesVars

-----------------------------------------------------------------------------
(* A dead node is announced once and each of its sessions is accounted for; *)
(* between two calls of the control service its records are its state, and  *)
(* it takes the silent offline and nobody else.                             *)
NodesAreAccountedFor ==
    /\ DeathIsAnnouncedOnce /\ StrandedIsExplained /\ OverdueMeansSilent /\ RecordsAreCurrent

(* The data service: connection pools never exceed their size nor lose a    *)
(* connection, an atomic batch leaves all of its rows or none, a migration  *)
(* is recorded only after its statements ran, a queued record is in the     *)
(* queue or the store, a player's index leads to a session that exists.     *)
DataIsKept ==
    /\ PoolIsExact /\ AtomicIsAtomic /\ AppliedHasRun
    /\ QueuedIsKept /\ RedisPoolIsExact /\ IndexHasBody

(* Scripting: what is swapped in has passed its validation and is audited;  *)
(* the context's names, slots and registry references agree, failures and   *)
(* nested runs included; what the game is routed to runs, and what a script *)
(* decides is clamped.                                                      *)
ScriptsAreSound ==
    /\ OnlyValidatedRuns /\ AuditIsComplete /\ NamesAndSlotsAgree /\ RegistryIsExact
    /\ RoutedScriptsRun /\ DecisionsAreSafe

(* What is settled stays: an applied migration, the id of a loaded script,  *)
(* and, with one thread that pushes, the order of configurations.           *)
SettledStays == AppliedStays /\ IdsNeverMove /\ ConfigOnlyMovesOn

(* A node that stays silent leaves the directory, and a version of a script *)
(* is not left running unverified.                                          *)
LoopsCatchUp == SilentNodesLeave /\ VerifiedInTheEnd
=============================================================================
