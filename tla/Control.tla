------------------------------- MODULE Control ------------------------------
(***************************************************************************)
(* The control service: the authoritative table of nodes, kept under one   *)
(* mutex and written to the data store after every change, and the pushed  *)
(* configuration, one immutable payload replaced as a whole without that   *)
(* mutex.  Both are read back when the service starts.  Times are readings *)
(* of the machine's steady clock, which a reboot sets back to zero and a   *)
(* restart of the process does not.                                        *)
(***************************************************************************)
EXTENDS Naturals, Sequences, FiniteSets

CONSTANTS CtlNodes,
          CtlRoles,
          OddAddresses,  \* nodes whose address holds the separator of the record's fields
          Pushers,       \* threads that call PushConfig
          CtlTimeout,    \* heartbeat_timeout, in units of the clock
          MaxClock,      \* bound: the clock
          MaxConfig,     \* bound: versions pushed
          MaxCtlEvents,  \* bound: NodeDead events published for one node
          MaxBoots       \* bound: restarts and reboots

ASSUME ControlAssumption == CtlTimeout \in Nat \ {0} /\ MaxClock \in Nat /\ MaxConfig \in Nat

VARIABLES
    ctlNodes,      \* nodes_: node -> [role, status, seen], a partial function
    ctlConfig,     \* config_: the version published
    ctlPush,       \* pusher -> [pc, version]: where it is in PushConfig
    ctlStored,     \* the record control:nodes
    ctlStoredCfg,  \* the record control:config
    ctlClock,      \* the steady clock
    ctlBoots,      \* restarts so far
    ctlOffline,    \* node -> NodeOffline and NodeDead events published for it
    ctlLost,       \* the records whose last save the store refused, or whose load failed
    ctlSilent      \* node -> time since it was last heard of, up to CtlTimeout, whatever the clock says

ctlVars == <<ctlNodes, ctlConfig, ctlPush, ctlStored, ctlStoredCfg, ctlClock, ctlBoots,
             ctlOffline, ctlLost, ctlSilent>>

Ready == [pc |-> "ready", version |-> 0]
Known == DOMAIN ctlNodes

ControlInit ==
    /\ ctlNodes = <<>> /\ ctlConfig = 0 /\ ctlPush = [p \in Pushers |-> Ready]
    /\ ctlStored = {} /\ ctlStoredCfg = 0 /\ ctlClock = 0 /\ ctlBoots = 0
    /\ ctlLost = {} /\ ctlOffline = [n \in CtlNodes |-> 0]
    /\ ctlSilent = [n \in CtlNodes |-> CtlTimeout]

With(table, n, info) == [m \in DOMAIN table \cup {n} |-> IF m = n THEN info ELSE table[m]]
Without(table, n) == [m \in DOMAIN table \ {n} |-> table[m]]

\* The record is one line per node; the line of an odd address has a field too many, and one such
\* line makes the whole record unreadable.
Serialized(table) ==
    {[node |-> n, info |-> table[n], fields |-> IF n \in OddAddresses THEN 10 ELSE 9] : n \in DOMAIN table}
Readable(record) == \A line \in record : line.fields = 9
Deserialized(record) ==
    [n \in {line.node : line \in record} |-> (CHOOSE line \in record : line.node = n).info]

\* PersistNodes: the whole table, heartbeat times included, overwrites the record; its failure is ignored.
PersistNodes(table) ==
    /\ ctlNodes' = table
    /\ \/ ctlStored' = Serialized(table) /\ ctlLost' = ctlLost \ {"nodes"}
       \/ ctlStored' = ctlStored /\ ctlLost' = ctlLost \cup {"nodes"}

Heard(n) == ctlSilent' = [ctlSilent EXCEPT ![n] = 0]

\* RegisterNode: a known node is overwritten and online again.
CtlRegister(n) ==
    /\ \E role \in CtlRoles :
          PersistNodes(With(ctlNodes, n, [role |-> role, status |-> "Online", seen |-> ctlClock]))
    /\ Heard(n)
    /\ UNCHANGED <<ctlConfig, ctlPush, ctlStoredCfg, ctlClock, ctlBoots, ctlOffline>>

\* Heartbeat: only of a known node; one that is offline comes back.
CtlHeartbeat(n) ==
    /\ n \in Known
    /\ PersistNodes([ctlNodes EXCEPT ![n].seen = ctlClock, ![n].status = "Online"])
    /\ Heard(n)
    /\ UNCHANGED <<ctlConfig, ctlPush, ctlStoredCfg, ctlClock, ctlBoots, ctlOffline>>

\* MarkOffline publishes for every node it is given, offline already or not.
MarkOffline(nodes) ==
    /\ \A n \in nodes : ctlOffline[n] < MaxCtlEvents
    /\ ctlOffline' = [n \in CtlNodes |-> IF n \in nodes THEN ctlOffline[n] + 1 ELSE ctlOffline[n]]

CtlUnregister(n) ==
    /\ n \in Known
    /\ MarkOffline({n}) /\ PersistNodes(Without(ctlNodes, n))
    /\ UNCHANGED <<ctlConfig, ctlPush, ctlStoredCfg, ctlClock, ctlBoots, ctlSilent>>

\* Tick: what is silent for the timeout by the clock goes offline; nothing is saved when nothing changed.
Elapsed(seen) == ctlClock - seen
Overdue == {n \in Known : ctlNodes[n].status = "Online" /\ Elapsed(ctlNodes[n].seen) >= CtlTimeout}
\* Mutant: the verdicts of a Tick are not saved.
CtlTickUnsaved ==
    /\ Overdue # {}
    /\ MarkOffline(Overdue)
    /\ ctlNodes' = [n \in Known |-> IF n \in Overdue THEN [ctlNodes[n] EXCEPT !.status = "Offline"]
                                    ELSE ctlNodes[n]]
    /\ UNCHANGED <<ctlStored, ctlLost, ctlConfig, ctlPush, ctlStoredCfg, ctlClock, ctlBoots, ctlSilent>>

CtlTick ==
    /\ Overdue # {}
    /\ MarkOffline(Overdue)
    /\ PersistNodes([n \in Known |-> IF n \in Overdue THEN [ctlNodes[n] EXCEPT !.status = "Offline"]
                                     ELSE ctlNodes[n]])
    /\ UNCHANGED <<ctlConfig, ctlPush, ctlStoredCfg, ctlClock, ctlBoots, ctlSilent>>

\* PushConfig takes no mutex: load and compare, then store, then PersistConfig of what is current.
PushLoad(p) ==
    /\ ctlPush[p].pc = "ready"
    /\ \E v \in 1..MaxConfig : v > ctlConfig /\ ctlPush' = [ctlPush EXCEPT ![p] = [pc |-> "store", version |-> v]]
    /\ UNCHANGED <<ctlNodes, ctlConfig, ctlStored, ctlStoredCfg, ctlClock, ctlBoots, ctlOffline, ctlLost, ctlSilent>>

PushStore(p) ==
    /\ ctlPush[p].pc = "store"
    /\ ctlConfig' = ctlPush[p].version
    /\ ctlPush' = [ctlPush EXCEPT ![p].pc = "read"]
    /\ UNCHANGED <<ctlNodes, ctlStored, ctlStoredCfg, ctlClock, ctlBoots, ctlOffline, ctlLost, ctlSilent>>

PersistRead(p) ==
    /\ ctlPush[p].pc = "read"
    /\ ctlPush' = [ctlPush EXCEPT ![p] = [pc |-> "save", version |-> ctlConfig]]
    /\ UNCHANGED <<ctlNodes, ctlConfig, ctlStored, ctlStoredCfg, ctlClock, ctlBoots, ctlOffline, ctlLost, ctlSilent>>

PersistConfig(p) ==
    /\ ctlPush[p].pc = "save"
    /\ ctlPush' = [ctlPush EXCEPT ![p] = Ready]
    /\ \/ ctlStoredCfg' = ctlPush[p].version /\ ctlLost' = ctlLost \ {"config"}
       \/ ctlStoredCfg' = ctlStoredCfg /\ ctlLost' = ctlLost \cup {"config"}
    /\ UNCHANGED <<ctlNodes, ctlConfig, ctlStored, ctlClock, ctlBoots, ctlOffline, ctlSilent>>

ClockAdvances ==
    /\ ctlClock < MaxClock
    /\ ctlClock' = ctlClock + 1
    /\ ctlSilent' = [n \in CtlNodes |-> IF ctlSilent[n] < CtlTimeout THEN ctlSilent[n] + 1 ELSE ctlSilent[n]]
    /\ UNCHANGED <<ctlNodes, ctlConfig, ctlPush, ctlStored, ctlStoredCfg, ctlBoots, ctlOffline, ctlLost>>

\* RestoreIfStorePresent, after the process, or with it the machine, came up again: a record that
\* cannot be loaded, or read, leaves what the service starts with, and nobody is told.
Restored(clock) ==
    /\ ctlBoots < MaxBoots /\ ctlBoots' = ctlBoots + 1
    /\ ctlClock' = clock /\ ctlPush' = [p \in Pushers |-> Ready]
    /\ \E unread \in SUBSET {"nodes", "config"} :
          /\ ~Readable(ctlStored) => "nodes" \in unread
          /\ ctlNodes' = IF "nodes" \in unread THEN <<>> ELSE Deserialized(ctlStored)
          /\ ctlConfig' = IF "config" \in unread THEN 0 ELSE ctlStoredCfg
          /\ ctlLost' = unread
    /\ UNCHANGED <<ctlStored, ctlStoredCfg, ctlOffline, ctlSilent>>
Restart == Restored(ctlClock)
Reboot == Restored(0)

ControlNext ==
    \/ \E n \in CtlNodes : CtlRegister(n) \/ CtlHeartbeat(n) \/ CtlUnregister(n)
    \/ CtlTick \/ ClockAdvances \/ Restart \/ Reboot
    \/ \E p \in Pushers : PushLoad(p) \/ PushStore(p) \/ PersistRead(p) \/ PersistConfig(p)

ControlSpec == ControlInit /\ [][ControlNext]_ctlVars

----------------------------------------------------------------------------
\* A node is overdue by the service's clock exactly when nobody has heard of it for the
\* timeout, so that the next Tick takes the silent offline and nobody else, as long as the
\* service has not been started again with times of another clock, or times lost.
OverdueMeansSilent ==
    ctlBoots = 0 => \A n \in Known : ctlNodes[n].status = "Online" =>
                        (n \in Overdue <=> ctlSilent[n] = CtlTimeout)

\* What the header promises of every node, restarts or not: past the timeout it is judged offline.
SilenceIsNoticed ==
    \A n \in Known : ctlNodes[n].status = "Online" /\ ctlSilent[n] = CtlTimeout => n \in Overdue

\* Between two calls the records are what the service publishes, unless the store refused one or
\* gave one back unreadable: a restart then brings back the configuration and, when no address is
\* odd, the table, a Tick's verdicts included.
RecordsAreCurrent ==
    /\ "nodes" \notin ctlLost => ctlStored = Serialized(ctlNodes)
    /\ "nodes" \notin ctlLost /\ Readable(ctlStored) => Deserialized(ctlStored) = ctlNodes
    /\ "config" \notin ctlLost /\ (\A p \in Pushers : ctlPush[p] = Ready) => ctlStoredCfg = ctlConfig

\* The version of the published configuration never goes back while the service runs.
ConfigOnlyMovesOn == [][ctlBoots' = ctlBoots => ctlConfig' >= ctlConfig]_ctlVars
=============================================================================
