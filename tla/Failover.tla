------------------------------ MODULE Failover ------------------------------
(***************************************************************************)
(* What the gateway does when a game node falls silent.  HealthMonitor     *)
(* keeps a snapshot of every registered node beside the node directory,    *)
(* counts missed heartbeats on each Tick, publishes NodeDead once and      *)
(* takes the node out of the directory; FailoverCoordinator, when it is    *)
(* handed that event, moves the sessions of the dead node to a node of the *)
(* same role.  A heartbeat time is kept as the whole intervals elapsed     *)
(* since; which sessions sit where, and whether a rebinding succeeds, is   *)
(* the business of the session directory and the rebinder, both external.  *)
(***************************************************************************)
EXTENDS Naturals, Sequences, FiniteSets, SequencesExt

CONSTANTS FoNodes,        \* node ids, positive numbers
          FoRole,         \* node -> the role it registers with
          FoLoads,        \* loads a heartbeat may report
          FoSessions,
          FoHome,         \* session -> the node it is on at first
          SuspectAfter, DeadAfter,
          MaxWave,        \* max_concurrent_
          MaxLives,       \* bound: registrations of one node
          MaxFailures     \* bound: rebindings that fail

ASSUME FailoverAssumption ==
    /\ FoNodes \subseteq Nat \ {0} /\ FoHome \in [FoSessions -> FoNodes] /\ FoLoads \subseteq Nat
    /\ IsFiniteSet(FoNodes) /\ IsFiniteSet(FoSessions)
    /\ SuspectAfter \in Nat \ {0} /\ DeadAfter \in Nat /\ DeadAfter > SuspectAfter
    /\ MaxWave \in Nat \ {0}

VARIABLES
    foNode,        \* nodes_: node -> [status, missed, load, role], or NoNode
    foDirectory,   \* the nodes registry_ holds
    foAge,         \* node -> intervals since its last_heartbeat, up to DeadAfter
    foEvents,      \* the NodeDead events published and not handled, in order
    foTo,          \* current_to_
    foQueue,       \* queue_
    foBatch,       \* the wave in flight: in_flight_ is its length
    foOn,          \* the session directory: session -> node
    foLives,       \* node -> its registrations
    foDeaths,      \* node -> NodeDead events published for it
    foFailed,      \* sessions whose last rebinding failed: stats_.failed counts them
    foLeft         \* sessions of a dead node for which there was no replacement

foVars == <<foNode, foDirectory, foAge, foEvents, foTo, foQueue, foBatch, foOn,
            foLives, foDeaths, foFailed, foLeft>>
foMonitorVars == <<foNode, foDirectory, foAge, foEvents, foLives, foDeaths>>
foSessionVars == <<foTo, foQueue, foBatch, foOn, foFailed, foLeft>>

\* One thread ticks, drains the bus and takes over: a takeover runs to its end.
Idle == foQueue = <<>> /\ foBatch = <<>>

NoNode == [status |-> "none", missed |-> 0, load |-> 0, role |-> "Unknown"]
Snapshot(status, missed, load, role) == [status |-> status, missed |-> missed, load |-> load, role |-> role]

FailoverInit ==
    /\ foNode = [n \in FoNodes |-> NoNode] /\ foDirectory = {} /\ foAge = [n \in FoNodes |-> 0]
    /\ foEvents = <<>> /\ foTo = 0 /\ foQueue = <<>> /\ foBatch = <<>> /\ foOn = FoHome
    /\ foLives = [n \in FoNodes |-> 0] /\ foDeaths = [n \in FoNodes |-> 0]
    /\ foFailed = {} /\ foLeft = {}

\* Register: a fresh healthy snapshot, whatever was known of the node.
MonitorRegister(n) ==
    /\ Idle /\ foLives[n] < MaxLives
    /\ foDirectory' = foDirectory \cup {n}
    /\ foAge' = [foAge EXCEPT ![n] = 0]
    /\ \E load \in FoLoads : foNode' = [foNode EXCEPT ![n] = Snapshot("Healthy", 0, load, FoRole[n])]
    /\ foLives' = [foLives EXCEPT ![n] = @ + 1]
    /\ UNCHANGED <<foEvents, foDeaths, foSessionVars>>

\* Heartbeat: refused unless the directory knows the node; a suspect recovers.
MonitorHeartbeat(n) ==
    /\ Idle /\ n \in foDirectory
    /\ foAge' = [foAge EXCEPT ![n] = 0]
    /\ \E load \in FoLoads :
          foNode' = [foNode EXCEPT ![n] = IF @ = NoNode THEN Snapshot("Healthy", 0, load, "Unknown")
                                          ELSE Snapshot(IF @.status = "Suspect" THEN "Healthy" ELSE @.status,
                                                        0, load, @.role)]
    /\ UNCHANGED <<foDirectory, foEvents, foLives, foDeaths, foSessionVars>>

MonitorUnregister(n) ==
    /\ Idle /\ (foNode[n] # NoNode \/ n \in foDirectory)
    /\ foNode' = [foNode EXCEPT ![n] = NoNode] /\ foDirectory' = foDirectory \ {n}
    /\ UNCHANGED <<foAge, foEvents, foLives, foDeaths, foSessionVars>>

\* An interval goes by without a heartbeat.
SilencePasses ==
    /\ foAge' = [n \in FoNodes |-> IF foAge[n] < DeadAfter THEN foAge[n] + 1 ELSE foAge[n]]
    /\ UNCHANGED <<foNode, foDirectory, foEvents, foLives, foDeaths, foSessionVars>>

\* Mutant: a suspect node is not looked at again.
ExaminedOnce == {n \in FoNodes : /\ foNode[n] # NoNode /\ foNode[n].status \notin {"Suspect", "Dead"}
                                 /\ foAge[n] # foNode[n].missed}

\* The nodes a Tick looks at: not dead already, and in another interval than last time.
Examined == {n \in FoNodes : /\ foNode[n] # NoNode /\ foNode[n].status # "Dead"
                             /\ foAge[n] # foNode[n].missed}
Judged(info, missed) ==
    [info EXCEPT !.missed = missed,
                 !.status = IF missed >= DeadAfter THEN "Dead"
                            ELSE IF missed >= SuspectAfter THEN "Suspect" ELSE @]

MonitorTick ==
    /\ Idle /\ Examined # {}
    /\ foNode' = [n \in FoNodes |-> IF n \in Examined THEN Judged(foNode[n], foAge[n]) ELSE foNode[n]]
    /\ LET dead == {n \in Examined : foAge[n] >= DeadAfter}
       IN /\ \E order \in SetToSeqs(dead) : foEvents' = foEvents \o order
          /\ foDirectory' = foDirectory \ dead
          /\ foDeaths' = [n \in FoNodes |-> IF n \in dead THEN foDeaths[n] + 1 ELSE foDeaths[n]]
    /\ UNCHANGED <<foAge, foLives, foSessionVars>>

\* RoleOf and FindReplacement: nodes of the role not dead, the least loaded first, then by id.
RoleOf(n) == foNode[n].role
Candidates(role) == {n \in FoNodes : foNode[n] # NoNode /\ foNode[n].role = role /\ foNode[n].status # "Dead"}
Before(a, b) == \/ foNode[a].load < foNode[b].load
                \/ foNode[a].load = foNode[b].load /\ a <= b
Replacement(role) == CHOOSE a \in Candidates(role) : \A b \in Candidates(role) : Before(a, b)

SessionsOn(n) == {s \in FoSessions : foOn[s] = n}

\* OnNodeDead up to the queue: no replacement, nothing moves.
OnNodeDead ==
    /\ Idle /\ foEvents # <<>>
    /\ foEvents' = Tail(foEvents)
    /\ LET dead == Head(foEvents)
       IN IF Candidates(RoleOf(dead)) = {}
          THEN foLeft' = foLeft \cup SessionsOn(dead) /\ UNCHANGED <<foTo, foQueue>>
          ELSE /\ foTo' = Replacement(RoleOf(dead))
               /\ \E order \in SetToSeqs(SessionsOn(dead)) : foQueue' = order
               /\ UNCHANGED foLeft
    /\ UNCHANGED <<foNode, foDirectory, foAge, foLives, foDeaths, foBatch, foOn, foFailed>>

\* Drain: a wave leaves the back of the queue ...
NextWave ==
    /\ foBatch = <<>> /\ foQueue # <<>>
    /\ LET k == IF Len(foQueue) < MaxWave THEN Len(foQueue) ELSE MaxWave
       IN /\ foBatch' = Reverse(SubSeq(foQueue, Len(foQueue) - k + 1, Len(foQueue)))
          /\ foQueue' = SubSeq(foQueue, 1, Len(foQueue) - k)
    /\ UNCHANGED <<foMonitorVars, foTo, foOn, foFailed, foLeft>>

\* ... and is rebound one session after the other; a failure is counted and dropped.
Rebind ==
    /\ foBatch # <<>> /\ foBatch' = Tail(foBatch)
    /\ LET s == Head(foBatch)
       IN \/ /\ foOn' = [foOn EXCEPT ![s] = foTo]
             /\ foFailed' = foFailed \ {s} /\ foLeft' = foLeft \ {s}
          \/ /\ Cardinality(foFailed) < MaxFailures
             /\ foFailed' = foFailed \cup {s} /\ UNCHANGED <<foOn, foLeft>>
    /\ UNCHANGED <<foMonitorVars, foTo, foQueue>>

FailoverNext ==
    \/ \E n \in FoNodes : MonitorRegister(n) \/ MonitorHeartbeat(n) \/ MonitorUnregister(n)
    \/ SilencePasses \/ MonitorTick \/ OnNodeDead \/ NextWave \/ Rebind

FailoverSpec == FailoverInit /\ [][FailoverNext]_foVars

\* The duty of the process that holds the monitor, to tick it and drain the bus, and the coordinator's
\* own loop.  The repository has no such process: gateway_main ticks its sessions and drains its bus only.
FailoverFairness ==
    /\ WF_foVars(SilencePasses) /\ WF_foVars(MonitorTick) /\ WF_foVars(OnNodeDead)
    /\ WF_foVars(NextWave) /\ WF_foVars(Rebind)

----------------------------------------------------------------------------
\* One NodeDead for each registration at most: the status Dead, which nothing but a new
\* registration leaves, is what keeps a silent node from being announced on every tick.
DeathIsAnnouncedOnce == \A n \in FoNodes : foDeaths[n] <= foLives[n]

\* A session on a node known dead is waiting for the event or for its turn in a wave, or it is
\* one whose rebinding failed or for which no replacement was found: none is simply forgotten.
StrandedIsExplained ==
    \A s \in FoSessions :
        foNode[foOn[s]].status = "Dead" =>
            \/ s \in foFailed \cup foLeft
            \/ \E i \in DOMAIN foEvents : foEvents[i] = foOn[s]
            \/ s \in Range(foQueue) \/ s \in Range(foBatch)

\* A node that stays silent leaves the directory, so that nothing is routed to it any more.
SilentNodesLeave ==
    \A n \in FoNodes : <>[](foAge[n] >= DeadAfter) => <>[](n \notin foDirectory)
=============================================================================
