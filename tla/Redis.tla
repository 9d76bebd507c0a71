------------------------------- MODULE Redis -------------------------------
(***************************************************************************)
(* The Redis side of the data service.  First part: RunGuarded, a command  *)
(* behind a circuit breaker of atomics, with retries over pooled           *)
(* connections.  Second part: the session store, whose operations are      *)
(* several guarded commands on two keys.  Redis itself answers a command,  *)
(* fails before it, or does it and is not heard.                           *)
(***************************************************************************)
EXTENDS Integers, Sequences, FiniteSets

CONSTANTS Callers, Attempts, Threshold, Cooldown, RedisPool,
          MaxRedisNow, MaxFailed,     \* bounds: the clock, failures counted
          StoreUsers, SessionIds, RedisPlayers, PlayerOf,   \* each session's player, 0 for none yet
          MaxRedisFaults

ASSUME RedisAssumption ==
    /\ IsFiniteSet(Callers) /\ {Attempts, Threshold, Cooldown, RedisPool} \subseteq Nat \ {0}
    /\ SessionIds \subseteq Nat \ {0} /\ RedisPlayers \subseteq Nat \ {0}
    /\ PlayerOf \in [SessionIds -> RedisPlayers]
    /\ {MaxRedisNow, MaxFailed, MaxRedisFaults} \subseteq Nat

VARIABLES
    rdNow,
    rdState, rdFailures, rdOpenedAt,   \* the three atomics
    rdIdle, rdInUse,                   \* the pool
    rdCall,     \* caller -> [at, left, lease, since]
    rdBody,     \* sess:{id} -> player, or Missing; 0 for a session without player
    rdIndex,    \* sess:player:{player} -> session, or Missing
    rdUser,     \* store user -> the commands it has left
    rdFaults

breakerVars == <<rdNow, rdState, rdFailures, rdOpenedAt, rdIdle, rdInUse, rdCall>>
sessionStoreVars == <<rdBody, rdIndex, rdUser, rdFaults>>
redisVars == <<rdNow, rdState, rdFailures, rdOpenedAt, rdIdle, rdInUse, rdCall,
               rdBody, rdIndex, rdUser, rdFaults>>

Missing == -1
Off == [at |-> "off", left |-> 0, lease |-> FALSE, since |-> 0]

RedisInit ==
    /\ rdNow = 0 /\ rdState = "closed" /\ rdFailures = 0 /\ rdOpenedAt = -Cooldown
    /\ rdIdle = 0 /\ rdInUse = 0 /\ rdCall = [c \in Callers |-> Off]
    /\ rdBody = [s \in SessionIds |-> Missing] /\ rdIndex = [p \in RedisPlayers |-> Missing]
    /\ rdUser = [u \in StoreUsers |-> <<>>] /\ rdFaults = 0

----------------------------------------------------------------------------
(* RunGuarded. *)

Goto(c, at) == rdCall' = [rdCall EXCEPT ![c].at = at]

RedisClock ==
    /\ rdNow < MaxRedisNow /\ rdNow' = rdNow + 1
    /\ UNCHANGED <<rdState, rdFailures, rdOpenedAt, rdIdle, rdInUse, rdCall>>

\* AllowRequest, first load: closed and half open let the request in.
AllowReads(c) ==
    /\ rdCall[c].at = "off"
    /\ IF rdState = "open" THEN Goto(c, "open")
                           ELSE rdCall' = [rdCall EXCEPT ![c] = [Off EXCEPT !.at = "try", !.left = Attempts]]
    /\ UNCHANGED <<rdNow, rdState, rdFailures, rdOpenedAt, rdIdle, rdInUse>>

\* AllowRequest of an open breaker: refused before the cooldown, else the exchange to half open,
\* which another request may have done.
AllowAfterCooldown(c) ==
    /\ rdCall[c].at = "open"
    /\ IF rdNow - rdOpenedAt < Cooldown
       THEN rdCall' = [rdCall EXCEPT ![c] = Off] /\ UNCHANGED rdState
       ELSE /\ rdState' = IF rdState = "open" THEN "half" ELSE rdState
            /\ rdCall' = [rdCall EXCEPT ![c] = [Off EXCEPT !.at = "try", !.left = Attempts]]
    /\ UNCHANGED <<rdNow, rdFailures, rdOpenedAt, rdIdle, rdInUse>>

\* Acquire: an idle connection or, under the pool's lock, a new one; the wait for one may time out,
\* the connection may fail: an attempt is spent.
TakesLease(c) ==
    /\ rdCall[c].at = "try" /\ rdCall[c].left > 0 /\ ~rdCall[c].lease
    /\ rdIdle > 0 \/ rdInUse < RedisPool
    /\ rdIdle' = (IF rdIdle > 0 THEN rdIdle - 1 ELSE 0) /\ rdInUse' = rdInUse + 1
    /\ rdCall' = [rdCall EXCEPT ![c].lease = TRUE]
    /\ UNCHANGED <<rdNow, rdState, rdFailures, rdOpenedAt>>
LeaseFails(c) ==
    /\ rdCall[c].at = "try" /\ rdCall[c].left > 0 /\ ~rdCall[c].lease /\ rdIdle = 0
    /\ rdCall' = [rdCall EXCEPT ![c].left = @ - 1]
    /\ UNCHANGED <<rdNow, rdState, rdFailures, rdOpenedAt, rdIdle, rdInUse>>

\* The command on the leased connection: an error is retried if it is a transient one, and its
\* connection is freed.
CommandEnds(c) ==
    /\ rdCall[c].at = "try" /\ rdCall[c].lease /\ rdInUse' = rdInUse - 1
    /\ \/ rdIdle' = rdIdle + 1 /\ rdCall' = [rdCall EXCEPT ![c].at = "won", ![c].lease = FALSE]
       \/ /\ UNCHANGED rdIdle
          /\ \E left \in {0, rdCall[c].left - 1} : rdCall' = [rdCall EXCEPT ![c].lease = FALSE, ![c].left = left]
    /\ UNCHANGED <<rdNow, rdState, rdFailures, rdOpenedAt>>

GivesUp(c) ==
    /\ rdCall[c].at = "try" /\ rdCall[c].left = 0 /\ rdFailures < MaxFailed
    /\ rdFailures' = rdFailures + 1
    /\ IF rdFailures' >= Threshold THEN Goto(c, "lost") ELSE rdCall' = [rdCall EXCEPT ![c] = Off]
    /\ UNCHANGED <<rdNow, rdState, rdOpenedAt, rdIdle, rdInUse>>

\* RecordSuccess: two stores.
StoresClosed(c) ==
    /\ rdCall[c].at = "won" /\ rdState' = "closed" /\ Goto(c, "reset")
    /\ UNCHANGED <<rdNow, rdFailures, rdOpenedAt, rdIdle, rdInUse>>
StoresNoFailures(c) ==
    /\ rdCall[c].at = "reset" /\ rdFailures' = 0 /\ rdCall' = [rdCall EXCEPT ![c] = Off]
    /\ UNCHANGED <<rdNow, rdState, rdOpenedAt, rdIdle, rdInUse>>

\* RecordFailure past the threshold: the state is loaded, then stored, then the time of opening.
LoadsState(c) ==
    /\ rdCall[c].at = "lost"
    /\ IF rdState = "open" THEN rdCall' = [rdCall EXCEPT ![c] = Off] ELSE Goto(c, "opening")
    /\ UNCHANGED <<rdNow, rdState, rdFailures, rdOpenedAt, rdIdle, rdInUse>>
StoresOpen(c) ==
    /\ rdCall[c].at = "opening" /\ rdState' = "open"
    /\ rdCall' = [rdCall EXCEPT ![c].at = "stamping", ![c].since = rdNow]
    /\ UNCHANGED <<rdNow, rdFailures, rdOpenedAt, rdIdle, rdInUse>>
StoresOpenedAt(c) ==
    /\ rdCall[c].at = "stamping" /\ rdOpenedAt' = rdNow /\ rdCall' = [rdCall EXCEPT ![c] = Off]
    /\ UNCHANGED <<rdNow, rdState, rdFailures, rdIdle, rdInUse>>

GuardedNext ==
    /\ \/ RedisClock
       \/ \E c \in Callers :
             \/ AllowReads(c) \/ AllowAfterCooldown(c) \/ TakesLease(c) \/ LeaseFails(c) \/ CommandEnds(c)
             \/ GivesUp(c) \/ StoresClosed(c) \/ StoresNoFailures(c)
             \/ LoadsState(c) \/ StoresOpen(c) \/ StoresOpenedAt(c)
    /\ UNCHANGED sessionStoreVars

----------------------------------------------------------------------------
(* The session store: each operation is a list of commands. *)

Cmd(do, key, val) == [do |-> do, key |-> key, val |-> val]
StorePut(u, s, p) ==
    rdUser' = [rdUser EXCEPT ![u] = <<Cmd("setBody", s, p)>> \o (IF p = 0 THEN <<>> ELSE <<Cmd("setIndex", p, s)>>)]
\* Remove reads the player first; a read that fails leaves the index alone.
StoreRemove(u, s) ==
    \/ /\ rdUser' = [rdUser EXCEPT ![u] = <<Cmd("delBody", s, 0)>> \o
                        (IF rdBody[s] > 0 THEN <<Cmd("delIndex", rdBody[s], 0)>> ELSE <<>>)]
       /\ UNCHANGED rdFaults
    \/ /\ rdFaults < MaxRedisFaults /\ rdFaults' = rdFaults + 1
       /\ rdUser' = [rdUser EXCEPT ![u] = <<Cmd("delBody", s, 0)>>]

\* A session is put without a player before its login, then with its own.
StoreCall(u) ==
    /\ rdUser[u] = <<>>
    /\ \E s \in SessionIds :
          \/ \E p \in {0, PlayerOf[s]} : (rdBody[s] > 0 => p # 0) /\ StorePut(u, s, p) /\ UNCHANGED rdFaults
          \/ StoreRemove(u, s)
    /\ UNCHANGED <<rdBody, rdIndex>>

Effect(m) ==
    /\ rdBody' = CASE m.do = "setBody" -> [rdBody EXCEPT ![m.key] = m.val]
                   [] m.do = "delBody" -> [rdBody EXCEPT ![m.key] = Missing]
                   [] OTHER -> rdBody
    /\ rdIndex' = CASE m.do = "setIndex" -> [rdIndex EXCEPT ![m.key] = m.val]
                    [] m.do = "delIndex" -> [rdIndex EXCEPT ![m.key] = Missing]
                    [] OTHER -> rdIndex

\* A command is done; or it fails, done or not, and the rest of the operation is not tried.
StoreCommand(u) ==
    /\ rdUser[u] # <<>>
    /\ \/ Effect(Head(rdUser[u])) /\ rdUser' = [rdUser EXCEPT ![u] = Tail(@)] /\ UNCHANGED rdFaults
       \/ /\ rdFaults < MaxRedisFaults /\ rdFaults' = rdFaults + 1
          /\ Effect(Head(rdUser[u])) \/ UNCHANGED <<rdBody, rdIndex>>
          /\ rdUser' = [rdUser EXCEPT ![u] = <<>>]

\* Both keys carry a time to live.
StoreExpires ==
    /\ rdFaults < MaxRedisFaults /\ rdFaults' = rdFaults + 1
    /\ \/ \E s \in SessionIds : rdBody[s] # Missing /\ rdBody' = [rdBody EXCEPT ![s] = Missing] /\ UNCHANGED rdIndex
       \/ \E p \in RedisPlayers : rdIndex[p] # Missing /\ rdIndex' = [rdIndex EXCEPT ![p] = Missing] /\ UNCHANGED rdBody
    /\ UNCHANGED rdUser

SessionStoreNext ==
    /\ StoreExpires \/ \E u \in StoreUsers : StoreCall(u) \/ StoreCommand(u)
    /\ UNCHANGED breakerVars

RedisSpec == RedisInit /\ [][GuardedNext \/ SessionStoreNext]_redisVars

\* FindByPlayer: the index, then the body.
FindByPlayer(p) == IF rdIndex[p] # Missing /\ rdBody[rdIndex[p]] # Missing THEN rdIndex[p] ELSE Missing

----------------------------------------------------------------------------
\* The pool lends what it counts, within its size, whatever attempts fail.
RedisPoolIsExact ==
    /\ rdIdle + rdInUse <= RedisPool
    /\ rdInUse = Cardinality({c \in Callers : rdCall[c].lease})

\* With one user and no fault, an index entry leads to a session that is there.
IndexHasBody ==
    rdFaults = 0 /\ (\A u \in StoreUsers : rdUser[u] = <<>>) =>
        \A p \in RedisPlayers : rdIndex[p] # Missing => rdBody[rdIndex[p]] = p

\* Open refuses until the cooldown is over: half open is not reached before.
OpenRefuses ==
    [][rdState = "open" /\ rdState' = "half" =>
          \A c \in Callers : rdCall[c].at = "stamping" => rdNow - rdCall[c].since >= Cooldown]_redisVars

\* With no fault and nobody in the middle of an operation, a player with a session is found.
LiveSessionIsFound ==
    rdFaults = 0 /\ (\A u \in StoreUsers : rdUser[u] = <<>>) =>
        \A p \in RedisPlayers : (\E s \in SessionIds : rdBody[s] = p) => FindByPlayer(p) # Missing
=============================================================================
