-------------------------------- MODULE Rpc --------------------------------
(***************************************************************************)
(* The RPC wrapper: a client that retries under a deadline per attempt,    *)
(* the pool of channels it calls through, and a server with a token bucket *)
(* and a graceful shutdown.  The network (gRPC itself) loses requests and  *)
(* answers; a handler runs on after the client has given up on it.         *)
(***************************************************************************)
EXTENDS Naturals, FiniteSets, FiniteSetsExt

CONSTANTS RpcCalls, MaxRetries, Burst, PerTarget,
          MaxRefills    \* bound: tokens the clock adds

ASSUME RpcAssumption == MaxRetries \in Nat /\ Burst \in Nat /\ PerTarget \in Nat \ {0}

VARIABLES
    rpcCall,      \* call -> [phase, attempt, idempotent, result]
    rpcFlight,    \* requests of [call, attempt] under way, with how far each is and whether it is limited
    rpcRuns,      \* call -> how often the handler has run for it
    rpcTokens,    \* tokens_ of the RateLimiter
    rpcRefills,
    rpcServer,    \* "running", "stopping" or "stopped"
    rpcChannels   \* [made, next] of the target's entry in the channel pool

rpcVars == <<rpcCall, rpcFlight, rpcRuns, rpcTokens, rpcRefills, rpcServer, rpcChannels>>

RpcInit ==
    /\ rpcCall = [c \in RpcCalls |-> [phase |-> "idle", attempt |-> 0, idempotent |-> FALSE, result |-> "OK"]]
    /\ rpcFlight = {} /\ rpcRuns = [c \in RpcCalls |-> 0]
    /\ rpcTokens = Burst /\ rpcRefills = 0
    /\ rpcServer = "running" /\ rpcChannels = [made |-> 0, next |-> 0]

\* MapGrpcCode, for the codes the model produces.
MapGrpcCode(code) ==
    CASE code = "OK" -> "OK" [] code = "DEADLINE_EXCEEDED" -> "TIMEOUT" [] code = "UNAVAILABLE" -> "BUSY"
      [] code = "RESOURCE_EXHAUSTED" -> "RATE_LIMITED" [] OTHER -> "INTERNAL_ERROR"

\* Mutant: the code of the error decides alone.
ShouldRetryOnCode(idempotent, code) == code \in {"TIMEOUT", "BUSY", "RATE_LIMITED"}

ShouldRetry(idempotent, code) == idempotent /\ code \in {"TIMEOUT", "BUSY", "RATE_LIMITED"}

\* GrpcChannelPool::Get: one more channel until the pool is full, then round robin.
ChannelTaken ==
    rpcChannels' = IF rpcChannels.made < PerTarget
                   THEN [made |-> rpcChannels.made + 1, next |-> rpcChannels.made]
                   ELSE [rpcChannels EXCEPT !.next = (@ + 1) % PerTarget]

\* Call: one idempotency key for all attempts, so the call itself stands for it.
CallBegin(c) ==
    /\ rpcCall[c].phase = "idle"
    /\ \E idempotent \in BOOLEAN :
         rpcCall' = [rpcCall EXCEPT ![c].phase = "ready", ![c].idempotent = idempotent]
    /\ ChannelTaken
    /\ UNCHANGED <<rpcFlight, rpcRuns, rpcTokens, rpcRefills, rpcServer>>

\* What an attempt's status does to the loop of Call.
AfterAnswer(call, code) ==
    LET error == MapGrpcCode(code)
        again == ShouldRetry(call.idempotent, error) /\ call.attempt < MaxRetries IN
    IF code = "OK" THEN [call EXCEPT !.phase = "done", !.result = "OK"]
    ELSE IF again THEN [call EXCEPT !.phase = "ready", !.attempt = @ + 1]
    ELSE [call EXCEPT !.phase = "done", !.result = error]

Answered(c, code) == rpcCall' = [rpcCall EXCEPT ![c] = AfterAnswer(@, code)]

\* The attempt leaves, or finds no server.
Attempt(c) ==
    /\ rpcCall[c].phase = "ready"
    /\ \/ /\ rpcCall' = [rpcCall EXCEPT ![c].phase = "waiting"]
          /\ rpcFlight' = rpcFlight \cup {[call |-> c, attempt |-> rpcCall[c].attempt, at |-> "sent", limited |-> FALSE]}
       \/ rpcServer # "running" /\ Answered(c, "UNAVAILABLE") /\ UNCHANGED rpcFlight
    /\ UNCHANGED <<rpcRuns, rpcTokens, rpcRefills, rpcServer, rpcChannels>>

Deadline(c) ==
    /\ rpcCall[c].phase = "waiting" /\ Answered(c, "DEADLINE_EXCEEDED")
    /\ UNCHANGED <<rpcFlight, rpcRuns, rpcTokens, rpcRefills, rpcServer, rpcChannels>>

\* POST_RECV_INITIAL_METADATA: a token, or the mark; the handler runs either way.
Intercept(m) ==
    /\ m \in rpcFlight /\ m.at = "sent" /\ rpcServer = "running"
    /\ rpcTokens' = IF rpcTokens > 0 THEN rpcTokens - 1 ELSE 0
    /\ rpcFlight' = (rpcFlight \ {m}) \cup {[m EXCEPT !.at = "received", !.limited = (rpcTokens = 0)]}
    /\ UNCHANGED <<rpcCall, rpcRuns, rpcRefills, rpcServer, rpcChannels>>

Handle(m) ==
    /\ m \in rpcFlight /\ m.at = "received"
    /\ rpcRuns' = [rpcRuns EXCEPT ![m.call] = @ + 1]
    /\ rpcFlight' = (rpcFlight \ {m}) \cup {[m EXCEPT !.at = "handled"]}
    /\ UNCHANGED <<rpcCall, rpcTokens, rpcRefills, rpcServer, rpcChannels>>

\* PRE_SEND_STATUS rewrites the status of a limited call; only the attempt that waits hears it.
Reply(m) ==
    /\ m \in rpcFlight /\ m.at = "handled"
    /\ rpcFlight' = rpcFlight \ {m}
    /\ IF rpcCall[m.call].phase = "waiting" /\ rpcCall[m.call].attempt = m.attempt
       THEN \E code \in (IF m.limited THEN {"RESOURCE_EXHAUSTED"} ELSE {"OK", "INTERNAL"}) : Answered(m.call, code)
       ELSE UNCHANGED rpcCall
    /\ UNCHANGED <<rpcRuns, rpcTokens, rpcRefills, rpcServer, rpcChannels>>

\* The network loses a request or an answer.
MessageLost(m) ==
    /\ m \in rpcFlight /\ m.at \in {"sent", "handled"} /\ rpcFlight' = rpcFlight \ {m}
    /\ UNCHANGED <<rpcCall, rpcRuns, rpcTokens, rpcRefills, rpcServer, rpcChannels>>

Refill ==
    /\ rpcTokens < Burst /\ rpcRefills < MaxRefills
    /\ rpcTokens' = rpcTokens + 1 /\ rpcRefills' = rpcRefills + 1
    /\ UNCHANGED <<rpcCall, rpcFlight, rpcRuns, rpcServer, rpcChannels>>

\* Shutdown: requests inside are waited for until the grace is over, then cancelled.
Shutdown ==
    /\ rpcServer = "running" /\ rpcServer' = "stopping"
    /\ UNCHANGED <<rpcCall, rpcFlight, rpcRuns, rpcTokens, rpcRefills, rpcChannels>>

ServerStopped ==
    /\ rpcServer = "stopping" /\ rpcServer' = "stopped"
    /\ rpcFlight' = {m \in rpcFlight : m.at = "sent"}
    /\ UNCHANGED <<rpcCall, rpcRuns, rpcTokens, rpcRefills, rpcChannels>>

RpcNext ==
    \/ \E c \in RpcCalls : CallBegin(c) \/ Attempt(c) \/ Deadline(c)
    \/ \E m \in rpcFlight : Intercept(m) \/ Handle(m) \/ Reply(m) \/ MessageLost(m)
    \/ Refill \/ Shutdown \/ ServerStopped

RpcSpec == RpcInit /\ [][RpcNext]_rpcVars
RpcFairness == \A c \in RpcCalls : WF_rpcVars(Attempt(c)) /\ WF_rpcVars(Deadline(c))

----------------------------------------------------------------------------
\* A call that is not idempotent runs at most once, any other at most once per
\* attempt, and a caller told OK can rely on its having run: whatever the
\* network loses and however late an answer or a handler is.
Attempts(c) == IF rpcCall[c].idempotent THEN rpcCall[c].attempt + 1 ELSE 1

RetriesAreSafe ==
    \A c \in RpcCalls :
        /\ rpcRuns[c] + Cardinality({m \in rpcFlight : m.call = c /\ m.at # "handled"}) <= Attempts(c)
        /\ rpcCall[c].phase = "done" /\ rpcCall[c].result = "OK" => rpcRuns[c] >= 1
        /\ rpcCall[c].attempt <= MaxRetries

\* Every call comes to an end: no lost message leaves a caller waiting.
NobodyWaits == \A c \in RpcCalls : rpcCall[c].phase \in {"idle", "done"}
CallsEnd == []<>NobodyWaits
=============================================================================
