-------------------------------- MODULE MySql --------------------------------
(***************************************************************************)
(* The MySQL side of the data service: the pool of each shard, the store's *)
(* single, batch and atomic operations as the statements they send, and    *)
(* the runner of schema migrations.  The server is what the code uses of   *)
(* it: rows, row locks held by open transactions, statements that succeed, *)
(* match no row, or fail.  A failure is "busy" (deadlock or lock wait),    *)
(* "timeout" (the connection is lost, the effect unknown) or "error"       *)
(* (anything else).  A key is its entity's number, a row is its version.   *)
(***************************************************************************)
EXTENDS Integers, Sequences, FiniteSets

CONSTANTS Clients, Savers,   \* the clients that also write
          Keys, ShardCount, PoolSizes,   \* pool sizes a deployment may have
          Batches,       \* key sequences a batch may name
          MaxCalls,      \* bound: calls of the store
          MaxFaults,     \* bound: failures of the server
          MigrationFiles,  \* version -> number of statements
          Runners, MaxMigrationFaults

ASSUME MySqlAssumption ==
    /\ IsFiniteSet(Clients) /\ Keys \subseteq Nat /\ Batches \subseteq Seq(Keys)
    /\ DOMAIN MigrationFiles \subseteq Nat /\ MigrationFiles \in [DOMAIN MigrationFiles -> Nat]
    /\ Savers \subseteq Clients /\ ShardCount \in Nat \ {0} /\ PoolSizes \subseteq Nat \ {0}
    /\ MaxCalls \in Nat /\ MaxFaults \in Nat /\ MaxMigrationFaults \in Nat

VARIABLES
    myRows,       \* committed rows: key -> version, or NoRow
    myOpen,       \* uncommitted writes of a client's transaction: a function on the keys it has locked
    mySize,       \* pool_size_per_shard
    myIdle, myInUse,   \* of each shard's pool
    myClient,     \* what each client is doing
    mySeen,       \* the version of each key a client has last read, 0 for no row
    myFaults, myCalls,   \* bounded
    myReg,        \* schema_migrations: version -> "none" | "applied" | "failed"
    myRan,        \* version -> statements of it that have run
    myRunner,     \* runner -> [at, todo, next]
    myMigFaults

storeVars == <<mySize, myRows, myOpen, myIdle, myInUse, myClient, mySeen, myFaults, myCalls>>
migrateVars == <<myReg, myRan, myRunner, myMigFaults>>
mySqlVars == <<mySize, myRows, myOpen, myIdle, myInUse, myClient, mySeen, myFaults, myCalls,
               myReg, myRan, myRunner, myMigFaults>>

NoRow == -1
Shards == 0..(ShardCount - 1)
ShardOf(k) == k % ShardCount

Lowest(ns) == CHOOSE n \in ns : \A m \in ns : n <= m

\* A client between operations: kind, where it is, its statements, the groups left, those of the
\* current group still to be sent, what has been answered and which statements have been committed.
Resting == [kind |-> "none", at |-> "rest", stmts |-> <<>>, groups |-> {}, shard |-> 0, left |-> {},
            poisoned |-> FALSE, broken |-> FALSE, out |-> <<>>, kept |-> {}]

MySqlInit ==
    /\ myRows \in {[k \in Keys |-> v] : v \in {NoRow, 1}} /\ myOpen = [c \in Clients |-> <<>>]
    /\ myIdle = [s \in Shards |-> 1] /\ myInUse = [s \in Shards |-> 0]
    /\ myClient = [c \in Clients |-> Resting] /\ mySeen = [c \in Clients |-> [k \in Keys |-> IF myRows[k] = NoRow THEN 0 ELSE myRows[k]]]
    /\ mySize \in PoolSizes /\ myFaults = 0 /\ myCalls = 0
    /\ myReg = [v \in DOMAIN MigrationFiles |-> "none"] /\ myRan = [v \in DOMAIN MigrationFiles |-> 0]
    /\ myRunner = [r \in Runners |-> [at |-> "rest", todo |-> {}, next |-> 1]] /\ myMigFaults = 0

----------------------------------------------------------------------------
(* Statements. *)

\* DecideSaveMode; a guarded save of the caller writes the version after the one it read, the
\* guarded save of a batch the version it read.
SaveStatement(k, base, required, new) ==
    [key |-> k, base |-> base, new |-> new,
     how |-> IF ~required THEN "upsert" ELSE IF base = 0 THEN "insert" ELSE "update"]
BatchStatement(k, base) == SaveStatement(k, base, base # 0, base)

\* What a statement sees, whether it matches, and what it leaves.
View(c, k) == IF k \in DOMAIN myOpen[c] THEN myOpen[c][k] ELSE myRows[k]
Locked(c, k) == \E d \in Clients \ {c} : k \in DOMAIN myOpen[d]
Matches(row, st) == CASE st.how \in {"update", "guardedDelete"} -> row = st.base
                      [] st.how = "insert" -> row = NoRow
                      [] OTHER -> TRUE
Written(st) == IF st.how \in {"delete", "guardedDelete"} THEN NoRow ELSE st.new

Holds(open, st) == [k \in DOMAIN open \cup {st.key} |-> IF k = st.key THEN Written(st) ELSE open[k]]

Me(c) == myClient[c]
Fault == myFaults < MaxFaults /\ myFaults' = myFaults + 1

----------------------------------------------------------------------------
(* Operations: a client calls, takes a lease, runs its statements, answers. *)

\* The groups of a batch by shard: the statements' positions.
Groups(ks) == {{i \in DOMAIN ks : ShardOf(ks[i]) = s} : s \in {ShardOf(ks[i]) : i \in DOMAIN ks}}

Call(c, kind, stmts, groups) ==
    /\ Me(c).at = "rest" /\ myCalls < MaxCalls /\ myCalls' = myCalls + 1
    /\ myClient' = [myClient EXCEPT ![c] = [Resting EXCEPT !.kind = kind, !.at = "next", !.stmts = stmts,
                                                           !.groups = groups, !.out = [i \in DOMAIN stmts |-> "none"]]]
    /\ UNCHANGED <<myRows, myOpen, myIdle, myInUse, mySeen, myFaults>>

Load(c, k) == Call(c, "load", <<[key |-> k, base |-> 0, new |-> 0, how |-> "select"]>>, {{1}})
\* BatchLoad asks each shard for all of its keys in one statement; the first failure ends the call.
BatchLoad(c, ks) ==
    Call(c, "loads", [i \in DOMAIN ks |-> [key |-> ks[i], base |-> 0, new |-> 0, how |-> "select"]], Groups(ks))
Stopped(me) == me.kind = "loads" /\ \E i \in DOMAIN me.out : me.out[i] \notin {"none", "ok"}
Save(c, k, required) ==
    Call(c, "one", <<SaveStatement(k, mySeen[c][k], required, mySeen[c][k] + 1)>>, {{1}})
Delete(c, k, required) ==
    Call(c, "one", <<[key |-> k, base |-> mySeen[c][k], new |-> 0,
                      how |-> IF required /\ mySeen[c][k] # 0 THEN "guardedDelete" ELSE "delete"]>>, {{1}})
BatchSave(c, ks) ==
    Call(c, "batch", [i \in DOMAIN ks |-> BatchStatement(ks[i], mySeen[c][ks[i]])], Groups(ks))
\* BatchSaveAtomic and the repository's Put of a table with several rows; RequireSingleShard.
SaveAtomic(c, ks) ==
    /\ Cardinality(Groups(ks)) = 1
    /\ Call(c, "atomic", [i \in DOMAIN ks |-> BatchStatement(ks[i], mySeen[c][ks[i]])], Groups(ks))

\* Acquire: an idle connection, else a place under the limit and a connection made outside the
\* lock, else a wait that may time out.
Group(c) == Me(c).groups
Begins(me, g) == [me EXCEPT !.at = "leased", !.groups = @ \ {g}, !.left = g, !.poisoned = FALSE, !.broken = FALSE,
                            !.shard = ShardOf(me.stmts[CHOOSE i \in g : TRUE].key)]
Positions(me) == {i \in DOMAIN me.stmts : ShardOf(me.stmts[i].key) = me.shard}

Acquire(c, g) ==
    LET s == ShardOf(Me(c).stmts[CHOOSE i \in g : TRUE].key)
    IN /\ Me(c).at = "next" /\ g \in Group(c) /\ ~Stopped(Me(c))
       /\ \/ /\ myIdle[s] > 0 /\ myIdle' = [myIdle EXCEPT ![s] = @ - 1]
             /\ myClient' = [myClient EXCEPT ![c] = Begins(@, g)]
          \/ /\ myIdle[s] = 0 /\ myInUse[s] < mySize /\ UNCHANGED myIdle
             /\ myClient' = [myClient EXCEPT ![c] = [Begins(@, g) EXCEPT !.at = "connecting"]]
       /\ myInUse' = [myInUse EXCEPT ![s] = @ + 1]
       /\ UNCHANGED <<myRows, myOpen, mySeen, myFaults, myCalls>>

\* What a client has been told of the statements at the positions of a group.
Told(me, g, what) == [i \in DOMAIN me.out |-> IF i \in g THEN what ELSE me.out[i]]

AcquireTimesOut(c, g) ==
    LET s == ShardOf(Me(c).stmts[CHOOSE i \in g : TRUE].key)
    IN /\ Me(c).at = "next" /\ g \in Group(c) /\ ~Stopped(Me(c)) /\ myIdle[s] = 0 /\ myInUse[s] >= mySize
       /\ myClient' = [myClient EXCEPT ![c].groups = @ \ {g}, ![c].out = Told(Me(c), g, "busy")]
       /\ UNCHANGED <<myRows, myOpen, myIdle, myInUse, mySeen, myFaults, myCalls>>

Connected(c) ==
    /\ Me(c).at = "connecting"
    /\ \/ /\ myClient' = [myClient EXCEPT ![c].at = "leased"] /\ UNCHANGED <<myInUse, myFaults>>
       \/ /\ Fault /\ myInUse' = [myInUse EXCEPT ![Me(c).shard] = @ - 1]
          /\ myClient' = [myClient EXCEPT ![c].at = "next",
                                          ![c].out = Told(Me(c), Positions(Me(c)), "busy")]
    /\ UNCHANGED <<myRows, myOpen, myIdle, mySeen, myCalls>>

Here(c) == Lowest(Me(c).left)
More(c) == Me(c).at = "leased" /\ Me(c).left # {} /\ ~Me(c).poisoned
InTransaction(c) == Me(c).kind \in {"batch", "atomic"}

\* The answer to the next statement; a single operation, an atomic one or a batch of reads stops at its first failure.
Answer(c, what) ==
    myClient' = [myClient EXCEPT ![c].out[Here(c)] = what, ![c].left = @ \ {Here(c)},
                                 ![c].poisoned = what \in {"busy", "timeout"} \/ (Me(c).kind \in {"atomic", "loads"} /\ what # "ok"),
                                 ![c].broken = what = "timeout"]

\* A guarded delete that matched no row asks, as a statement of its own, whether there is one.
Asking(c) == Me(c).out[Here(c)] = "unmatched"

\* A statement that reaches the server: outside a transaction it commits at once.
StatementRuns(c) ==
    LET i == Here(c)
        st == Me(c).stmts[i]
        row == View(c, st.key)
    IN /\ More(c) /\ Me(c).kind # "loads" /\ ~Asking(c) /\ (st.how # "select" => ~Locked(c, st.key))
       /\ IF st.how = "select"
          THEN /\ mySeen' = [mySeen EXCEPT ![c][st.key] = IF row = NoRow THEN 0 ELSE row]
               /\ Answer(c, "ok") /\ UNCHANGED <<myRows, myOpen>>
          ELSE IF ~Matches(row, st)
          THEN /\ IF st.how = "guardedDelete"
                  THEN myClient' = [myClient EXCEPT ![c].out[i] = "unmatched"]
                  ELSE Answer(c, "conflict")
               /\ UNCHANGED <<myRows, myOpen, mySeen>>
          ELSE /\ UNCHANGED mySeen
               /\ IF InTransaction(c)
                  THEN /\ Answer(c, "ok") /\ UNCHANGED myRows
                       /\ myOpen' = [myOpen EXCEPT ![c] = Holds(@, st)]
                  ELSE /\ myRows' = [myRows EXCEPT ![st.key] = Written(st)] /\ UNCHANGED myOpen
                       /\ myClient' = [myClient EXCEPT ![c].out[i] = "ok", ![c].left = @ \ {i}, ![c].kept = {i}]
       /\ UNCHANGED <<myIdle, myInUse, myFaults, myCalls>>

\* The row may have come or gone since the delete.
ExistsRuns(c) ==
    LET st == Me(c).stmts[Here(c)]
    IN /\ More(c) /\ Asking(c) /\ st.how = "guardedDelete"
       /\ Answer(c, IF View(c, st.key) = NoRow THEN "ok" ELSE "conflict")
       /\ UNCHANGED <<myRows, myOpen, myIdle, myInUse, mySeen, myFaults, myCalls>>

\* The one statement of a group of reads: what it finds is kept with the call until it returns.
SelectRuns(c) ==
    LET g == Positions(Me(c))
    IN /\ More(c) /\ Me(c).kind = "loads"
       /\ myClient' = [myClient EXCEPT ![c].out = Told(Me(c), g, "ok"), ![c].left = {},
              ![c].stmts = [i \in DOMAIN @ |-> IF i \notin g \/ myRows[@[i].key] = NoRow THEN @[i]
                                               ELSE [@[i] EXCEPT !.base = myRows[Me(c).stmts[i].key]]]]
       /\ UNCHANGED <<myRows, myOpen, myIdle, myInUse, mySeen, myFaults, myCalls>>

\* A statement that fails: nothing is left of it, but for a single one whose answer never came.
\* A lost connection ends its transaction on the server.
StatementFails(c, what) ==
    LET i == Here(c)
        st == Me(c).stmts[i]
    IN /\ More(c) /\ Fault /\ Answer(c, what)
       /\ \/ UNCHANGED myRows
          \/ /\ what = "timeout" /\ ~InTransaction(c) /\ st.how # "select" /\ ~Asking(c)
             /\ ~Locked(c, st.key) /\ Matches(myRows[st.key], st)
             /\ myRows' = [myRows EXCEPT ![st.key] = Written(st)]
       /\ myOpen' = IF what = "timeout" THEN [myOpen EXCEPT ![c] = <<>>] ELSE myOpen
       /\ UNCHANGED <<myIdle, myInUse, mySeen, myCalls>>

\* The lease goes back: a broken connection is dropped, the next one is made anew.
Release(me) ==
    /\ myIdle' = [myIdle EXCEPT ![me.shard] = IF me.broken THEN @ ELSE @ + 1]
    /\ myInUse' = [myInUse EXCEPT ![me.shard] = @ - 1]

Committed(c) == {i \in Positions(Me(c)) : Me(c).out[i] = "ok"}

\* The end of a group: rolled back when it is poisoned, else committed. A poisoned group's answers
\* stand, and the statements it never sent fail as the one that poisoned it did.
Ends(c) == Me(c).at = "leased" /\ (Me(c).poisoned \/ Me(c).left = {})
Settle(c, told, kept) ==
    myClient' = [myClient EXCEPT ![c].at = "next", ![c].out = told, ![c].kept = @ \cup kept]

\* Mutant: a poisoned group is committed as far as it got.
EndGroupCommits(c) ==
    /\ Ends(c) /\ Release(Me(c)) /\ myOpen' = [myOpen EXCEPT ![c] = <<>>]
    /\ myRows' = [k \in Keys |-> IF k \in DOMAIN myOpen[c] THEN myOpen[c][k] ELSE myRows[k]]
    /\ Settle(c, Told(Me(c), Me(c).left, "busy"), IF InTransaction(c) THEN Committed(c) ELSE {})
    /\ UNCHANGED <<mySeen, myFaults, myCalls>>

EndGroup(c) ==
    /\ Ends(c) /\ Release(Me(c)) /\ myOpen' = [myOpen EXCEPT ![c] = <<>>]
    /\ IF Me(c).poisoned
       THEN /\ UNCHANGED myRows /\ Settle(c, Told(Me(c), Me(c).left, "busy"), {})
       ELSE /\ myRows' = [k \in Keys |-> IF k \in DOMAIN myOpen[c] THEN myOpen[c][k] ELSE myRows[k]]
            /\ Settle(c, Me(c).out, IF InTransaction(c) THEN Committed(c) ELSE {})
    /\ UNCHANGED <<mySeen, myFaults, myCalls>>

\* COMMIT fails: with the connection lost the server has kept all of the group or nothing; a
\* COMMIT it refuses undoes the transaction and leaves the connection good.
CommitFails(c) ==
    /\ Ends(c) /\ ~Me(c).poisoned /\ InTransaction(c) /\ Fault
    /\ myOpen' = [myOpen EXCEPT ![c] = <<>>]
    /\ \E broken, landed \in BOOLEAN :
          /\ landed => broken
          /\ Release([Me(c) EXCEPT !.broken = broken])
          /\ myRows' = [k \in Keys |-> IF landed /\ k \in DOMAIN myOpen[c] THEN myOpen[c][k] ELSE myRows[k]]
          /\ Settle(c, Told(Me(c), Positions(Me(c)), IF broken THEN "timeout" ELSE "error"), IF landed THEN Committed(c) ELSE {})
    /\ UNCHANGED <<mySeen, myCalls>>

\* The call returns: a batch its outcomes, an atomic one or a batch of reads its first failure for
\* all of it; only reads that return are seen.
Return(c) ==
    /\ Me(c).at = "next" /\ (Group(c) = {} \/ Stopped(Me(c)))
    /\ LET failed == {i \in DOMAIN Me(c).out : Me(c).out[i] # "ok"}
           whole == Me(c).kind \in {"atomic", "loads"} /\ failed # {}
           Found(k) == CHOOSE i \in DOMAIN Me(c).stmts : Me(c).stmts[i].key = k
       IN /\ myClient' = [myClient EXCEPT ![c].at = "told", ![c].groups = {},
                             ![c].out = IF whole THEN Told(Me(c), DOMAIN @, "failed") ELSE @]
          /\ mySeen' = IF Me(c).kind = "loads" /\ ~whole
                       THEN [mySeen EXCEPT ![c] = [k \in Keys |-> IF \E i \in DOMAIN Me(c).stmts : Me(c).stmts[i].key = k
                                                                  THEN Me(c).stmts[Found(k)].base ELSE @[k]]]
                       ELSE mySeen
    /\ UNCHANGED <<myRows, myOpen, myIdle, myInUse, myFaults, myCalls>>

Proceed(c) ==
    /\ Me(c).at = "told" /\ myClient' = [myClient EXCEPT ![c] = Resting]
    /\ UNCHANGED <<myRows, myOpen, myIdle, myInUse, mySeen, myFaults, myCalls>>

StoreNext ==
    /\ \E c \in Clients :
          \/ \E k \in Keys : Load(c, k)
          \/ \E ks \in Batches : BatchLoad(c, ks)
          \/ /\ c \in Savers
             /\ \/ \E k \in Keys, required \in BOOLEAN : Save(c, k, required) \/ Delete(c, k, required)
                \/ \E ks \in Batches : BatchSave(c, ks) \/ SaveAtomic(c, ks)
          \/ \E g \in Group(c) : Acquire(c, g) \/ AcquireTimesOut(c, g)
          \/ Connected(c) \/ StatementRuns(c) \/ ExistsRuns(c) \/ SelectRuns(c)
          \/ \E what \in {"busy", "timeout", "error"} : StatementFails(c, what)
          \/ EndGroup(c) \/ CommitFails(c) \/ Return(c) \/ Proceed(c)
    /\ UNCHANGED <<mySize, myReg, myRan, myRunner, myMigFaults>>

----------------------------------------------------------------------------
(* Migrations: a runner reads the registry once, then runs the files that  *)
(* it did not find applied, in order, each statement committing by itself. *)

Versions == DOMAIN MigrationFiles
Run(r) == myRunner[r]

\* Mutant: the registry is created and not read.
UpBeginsAnew(r) ==
    /\ Run(r).at = "rest"
    /\ myRunner' = [myRunner EXCEPT ![r] = [at |-> "files", todo |-> Versions, next |-> 1]]
    /\ UNCHANGED <<myReg, myRan, myMigFaults>>

UpBegins(r) ==
    /\ Run(r).at = "rest"
    /\ myRunner' = [myRunner EXCEPT ![r] = [at |-> "files", todo |-> {v \in Versions : myReg[v] # "applied"}, next |-> 1]]
    /\ UNCHANGED <<myReg, myRan, myMigFaults>>

\* A statement fails: Up writes that down, if it can, and gives up.
MigrationStatement(r) ==
    /\ Run(r).at = "files" /\ Run(r).todo # {} /\ Run(r).next <= MigrationFiles[Lowest(Run(r).todo)]
    /\ LET v == Lowest(Run(r).todo)
       IN \/ /\ myRan' = [myRan EXCEPT ![v] = IF @ >= Run(r).next THEN @ ELSE Run(r).next]
             /\ myRunner' = [myRunner EXCEPT ![r].next = @ + 1] /\ UNCHANGED <<myReg, myMigFaults>>
          \/ /\ myMigFaults < MaxMigrationFaults /\ myMigFaults' = myMigFaults + 1
             /\ myReg' \in {myReg, [myReg EXCEPT ![v] = "failed"]}
             /\ myRunner' = [myRunner EXCEPT ![r].at = "rest"] /\ UNCHANGED myRan

MigrationRecorded(r) ==
    /\ Run(r).at = "files" /\ Run(r).todo # {} /\ Run(r).next > MigrationFiles[Lowest(Run(r).todo)]
    /\ LET v == Lowest(Run(r).todo)
       IN /\ myReg' = [myReg EXCEPT ![v] = "applied"]
          /\ myRunner' = [myRunner EXCEPT ![r] = [at |-> "files", todo |-> Run(r).todo \ {v}, next |-> 1]]
    /\ UNCHANGED <<myRan, myMigFaults>>

\* Up returns, or the process dies on the way.
UpEnds(r) ==
    /\ Run(r).at = "files"
    /\ \/ Run(r).todo = {} /\ UNCHANGED myMigFaults
       \/ myMigFaults < MaxMigrationFaults /\ myMigFaults' = myMigFaults + 1
    /\ myRunner' = [myRunner EXCEPT ![r].at = "rest"] /\ UNCHANGED <<myReg, myRan>>

MigrateNext ==
    /\ \E r \in Runners : UpBegins(r) \/ MigrationStatement(r) \/ MigrationRecorded(r) \/ UpEnds(r)
    /\ UNCHANGED storeVars

MySqlSpec == MySqlInit /\ [][StoreNext \/ MigrateNext]_mySqlVars

----------------------------------------------------------------------------
\* A pool never holds more connections than its size, and counts in use exactly the places its
\* clients hold, those still connecting included.
PoolIsExact ==
    \A s \in Shards :
        /\ myIdle[s] + myInUse[s] <= mySize
        /\ myInUse[s] = Cardinality({c \in Clients : Me(c).at \in {"connecting", "leased"} /\ Me(c).shard = s})

\* Of an atomic batch all statements are kept or none, whatever failed on the way, and it answers
\* success only for all; what was refused as a conflict was never kept.
AtomicIsAtomic ==
    \A c \in Clients : Me(c).at = "told" =>
        /\ Me(c).kind = "atomic" => Me(c).kept \in {{}, DOMAIN Me(c).stmts}
        /\ Me(c).kind \in {"atomic", "one"} => \A i \in DOMAIN Me(c).out :
              Me(c).out[i] = "ok" /\ Me(c).stmts[i].how \notin {"select", "delete", "guardedDelete"} => i \in Me(c).kept
        /\ \A i \in Me(c).kept : Me(c).out[i] # "conflict"

\* Each outcome of a batch that says ok is of a record that has been kept.
ReportedSavedIsSaved ==
    \A c \in Clients : Me(c).at = "told" /\ Me(c).kind = "batch" =>
        \A i \in DOMAIN Me(c).out : Me(c).out[i] = "ok" => i \in Me(c).kept

\* A version that is recorded as applied has had all its statements run, and stays applied.
AppliedHasRun == \A v \in Versions : myReg[v] = "applied" => myRan[v] = MigrationFiles[v]
AppliedStays == [][\A v \in Versions : myReg[v] = "applied" => myReg'[v] = "applied"]_myReg

\* A write that succeeds on the condition that the version is the one it has read leaves another.
GuardedWritesMoveVersions ==
    [][\A c \in Clients : \A i \in myClient'[c].kept \ Me(c).kept :
          LET st == Me(c).stmts[i] IN st.how = "update" => myRows'[st.key] # st.base]_storeVars
==============================================================================
