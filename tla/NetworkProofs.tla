--------------------------- MODULE NetworkProofs ----------------------------
(* Theorems about the components that talk to another process or wait for   *)
(* one: calls, the transport, the client's connection, its resources and    *)
(* its chunks, and the gateway's routes.  Each of the first five has an     *)
(* inductive invariant (...IInv), lemmas that say that it holds at first    *)
(* (...Starts), that every step keeps it (...Steps) and what it implies     *)
(* (...Safe).                                                               *)
EXTENDS Transport, Rpc, ClientNet, Resources, Routing, DataLemmas


------------------------------------------------------------------------------
(* RPC.  A call's requests, answers and runs are counted by attempt.        *)

Requests == [call : RpcCalls, attempt : Nat, at : {"sent", "received", "handled"},
             limited : BOOLEAN]
CallStates == [phase : {"idle", "ready", "waiting", "done"}, attempt : Nat,
               idempotent : BOOLEAN,
               result : {"OK", "TIMEOUT", "BUSY", "RATE_LIMITED", "INTERNAL_ERROR"}]

RpcTypes ==
    /\ rpcCall \in [RpcCalls -> CallStates]
    /\ rpcRuns \in [RpcCalls -> Nat]
    /\ IsFiniteSet(rpcFlight) /\ rpcFlight \subseteq Requests

Unhandled(flight, c) == {m \in flight : m.call = c /\ m.at # "handled"}

(* The attempts a call has made.                                            *)
Sent(call) == IF call.phase \in {"idle", "ready"} THEN call.attempt ELSE call.attempt + 1

CallSound(call) ==
    /\ call.attempt <= MaxRetries
    /\ ~call.idempotent => call.attempt = 0
    /\ call.phase = "idle" => call.attempt = 0

(* Every run, past or to come, is one of an attempt, and what was handled   *)
(* has run.                                                                 *)
RpcIInv ==
    /\ RpcTypes
    /\ \A c \in RpcCalls :
          /\ CallSound(rpcCall[c])
          /\ rpcRuns[c] + Cardinality(Unhandled(rpcFlight, c)) <= Sent(rpcCall[c])
          /\ rpcCall[c].phase = "done" /\ rpcCall[c].result = "OK" => rpcRuns[c] >= 1
    /\ \A m \in rpcFlight : m.at = "handled" => rpcRuns[m.call] >= 1

LEMMA UnhandledFinite ==
  ASSUME NEW flight, IsFiniteSet(flight), NEW c
  PROVE  /\ IsFiniteSet(Unhandled(flight, c))
         /\ Cardinality(Unhandled(flight, c)) \in Nat
<1> QED BY FS_Subset, FS_CardinalityType DEF Unhandled

LEMMA FewerUnhandled ==
  ASSUME NEW more, IsFiniteSet(more), NEW fewer \in SUBSET more, NEW c
  PROVE  /\ IsFiniteSet(fewer)
         /\ Cardinality(Unhandled(fewer, c)) <= Cardinality(Unhandled(more, c))
<1> QED BY UnhandledFinite, FS_Subset DEF Unhandled

(* One request more.                                                        *)
LEMMA MoreUnhandled ==
  ASSUME NEW flight, IsFiniteSet(flight), NEW m, NEW c
  PROVE  /\ IsFiniteSet(flight \cup {m})
         /\ Cardinality(Unhandled(flight \cup {m}, c)) <=
               Cardinality(Unhandled(flight, c))
                 + (IF m.call = c /\ m.at # "handled" THEN 1 ELSE 0)
<1>1. IsFiniteSet(flight \cup {m}) BY FS_AddElement
<1>2. CASE m.call = c /\ m.at # "handled"
  <2>1. Unhandled(flight \cup {m}, c) = Unhandled(flight, c) \cup {m} BY <1>2 DEF Unhandled
  <2> DEFINE U == Unhandled(flight, c)
  <2>2. IsFiniteSet(U) /\ Cardinality(U) \in Nat BY UnhandledFinite
  <2> HIDE DEF U
  <2>3. Cardinality(U \cup {m}) = IF m \in U THEN Cardinality(U) ELSE Cardinality(U) + 1
    BY <2>2, FS_AddElement
  <2>4. Cardinality(U \cup {m}) <= Cardinality(U) + 1 BY <2>2, <2>3
  <2> QED BY <1>1, <1>2, <2>1, <2>4 DEF U
<1>3. CASE ~(m.call = c /\ m.at # "handled")
  <2>1. Unhandled(flight \cup {m}, c) = Unhandled(flight, c) BY <1>3 DEF Unhandled
  <2> QED BY <1>1, <1>3, <2>1, UnhandledFinite
<1> QED BY <1>2, <1>3

(* One request less.                                                        *)
LEMMA OneUnhandledLess ==
  ASSUME NEW flight, IsFiniteSet(flight), NEW m \in flight, m.at # "handled", NEW c
  PROVE  Cardinality(Unhandled(flight \ {m}, c)) =
            Cardinality(Unhandled(flight, c)) - (IF m.call = c THEN 1 ELSE 0)
<1>1. CASE m.call = c
  <2>1. /\ Unhandled(flight \ {m}, c) = Unhandled(flight, c) \ {m}
        /\ m \in Unhandled(flight, c)
    BY <1>1 DEF Unhandled
  <2> QED BY <1>1, <2>1, UnhandledFinite, FS_RemoveElement
<1>2. CASE m.call # c
  <2>1. Unhandled(flight \ {m}, c) = Unhandled(flight, c) BY <1>2 DEF Unhandled
  <2> QED BY <1>2, <2>1, UnhandledFinite
<1> QED BY <1>1, <1>2

(* What an answer does to a call that is under way.                         *)
LEMMA AnswerSteps ==
  ASSUME RpcIInv, NEW c \in RpcCalls, NEW code,
         rpcCall[c].phase \in {"ready", "waiting"},
         code = "OK" => rpcCall[c].phase = "waiting" /\ rpcRuns[c] >= 1,
         code \in {"OK", "DEADLINE_EXCEEDED", "UNAVAILABLE", "RESOURCE_EXHAUSTED", "INTERNAL"},
         Answered(c, code)
  PROVE  /\ rpcCall' \in [RpcCalls -> CallStates]
         /\ \A d \in RpcCalls :
               /\ CallSound(rpcCall'[d])
               /\ Sent(rpcCall[d]) <= Sent(rpcCall'[d])
               /\ rpcCall'[d].phase = "done" /\ rpcCall'[d].result = "OK" => rpcRuns[d] >= 1
<1> DEFINE call == rpcCall[c]
           error == MapGrpcCode(code)
           again == ShouldRetry(call.idempotent, error) /\ call.attempt < MaxRetries
           next == AfterAnswer(call, code)
<1>1. rpcCall' = [rpcCall EXCEPT ![c] = next] BY DEF Answered
<1>2. call \in CallStates /\ CallSound(call) /\ MaxRetries \in Nat
  BY RpcAssumption DEF RpcIInv, RpcTypes
<1>3. error \in {"OK", "TIMEOUT", "BUSY", "RATE_LIMITED", "INTERNAL_ERROR"}
      /\ (error = "OK" => code = "OK")
  BY DEF MapGrpcCode
<1>4. again => call.idempotent /\ call.attempt < MaxRetries BY DEF ShouldRetry
<1>n. next = IF code = "OK" THEN [call EXCEPT !.phase = "done", !.result = "OK"]
             ELSE IF again THEN [call EXCEPT !.phase = "ready", !.attempt = @ + 1]
             ELSE [call EXCEPT !.phase = "done", !.result = error]
  BY DEF AfterAnswer
<1> HIDE DEF error, again, call, next
<1>5. /\ next \in CallStates /\ CallSound(next) /\ Sent(call) <= Sent(next)
      /\ next.phase = "done" /\ next.result = "OK" => rpcRuns[c] >= 1
  <2>1. CASE code = "OK"
    <3>1. next \in CallStates /\ next.phase = "done" /\ next.attempt = call.attempt
          /\ next.idempotent = call.idempotent
      BY <1>n, <1>2, <2>1 DEF CallStates
    <3> QED BY <1>2, <2>1, <3>1 DEF CallSound, call, Sent, CallStates
  <2>2. CASE code # "OK" /\ again
    <3>1. next \in CallStates /\ next.phase = "ready" /\ next.attempt = call.attempt + 1
          /\ next.idempotent = call.idempotent
      <4>1. call.attempt + 1 \in Nat BY <1>2 DEF CallStates
      <4> QED BY <1>n, <1>2, <2>2, <4>1 DEF CallStates
    <3>2. call.attempt + 1 <= MaxRetries BY <1>2, <1>4, <2>2 DEF CallStates
    <3> QED BY <1>2, <1>4, <2>2, <3>1, <3>2 DEF CallSound, Sent, CallStates
  <2>3. CASE code # "OK" /\ ~again
    <3>1. next \in CallStates /\ next.phase = "done" /\ next.attempt = call.attempt
          /\ next.idempotent = call.idempotent /\ next.result # "OK"
      BY <1>n, <1>2, <1>3, <2>3 DEF CallStates
    <3> QED BY <1>2, <3>1 DEF CallSound, Sent, CallStates
  <2> QED BY <2>1, <2>2, <2>3
<1>6. ASSUME NEW d \in RpcCalls
      PROVE  /\ CallSound(rpcCall'[d])
             /\ Sent(rpcCall[d]) <= Sent(rpcCall'[d])
             /\ rpcCall'[d].phase = "done" /\ rpcCall'[d].result = "OK" => rpcRuns[d] >= 1
  <2>1. CASE d = c BY <1>1, <1>5, <2>1 DEF call, RpcIInv, RpcTypes
  <2>2. CASE d # c
    <3>1. rpcCall'[d] = rpcCall[d] /\ rpcCall[d] \in CallStates
      BY <1>1, <2>2 DEF RpcIInv, RpcTypes
    <3> QED BY <3>1 DEF RpcIInv, Sent, CallStates
  <2> QED BY <2>1, <2>2
<1> QED BY <1>1, <1>5, <1>6 DEF RpcIInv, RpcTypes

LEMMA RpcStarts == RpcInit => RpcIInv
<1> SUFFICES ASSUME RpcInit PROVE RpcIInv OBVIOUS
<1>1. RpcTypes BY FS_EmptySet DEF RpcInit, RpcTypes, CallStates
<1>2. Cardinality({}) = 0 BY FS_EmptySet
<1>3. ASSUME NEW c \in RpcCalls
      PROVE  /\ rpcCall[c].attempt = 0 /\ rpcCall[c].phase = "idle" /\ rpcRuns[c] = 0
             /\ CallSound(rpcCall[c]) /\ Sent(rpcCall[c]) = 0
  BY RpcAssumption DEF RpcInit, CallSound, Sent
<1>4. rpcFlight = {} BY DEF RpcInit
<1> QED BY <1>1, <1>2, <1>3, <1>4 DEF RpcIInv, RpcInit, Unhandled

(* A step that lets no request in and changes calls as AnswerSteps says.    *)
LEMMA RpcMoves ==
  ASSUME RpcIInv,
         rpcCall' \in [RpcCalls -> CallStates],
         rpcRuns' = rpcRuns,
         rpcFlight' \in SUBSET rpcFlight,
         \A d \in RpcCalls :
               /\ CallSound(rpcCall'[d])
               /\ Sent(rpcCall[d]) <= Sent(rpcCall'[d])
               /\ rpcCall'[d].phase = "done" /\ rpcCall'[d].result = "OK" => rpcRuns[d] >= 1
  PROVE  RpcIInv'
<1>1. IsFiniteSet(rpcFlight') /\ rpcFlight' \subseteq Requests
  BY FewerUnhandled DEF RpcIInv, RpcTypes
<1>2. ASSUME NEW d \in RpcCalls
      PROVE  rpcRuns[d] + Cardinality(Unhandled(rpcFlight', d)) <= Sent(rpcCall'[d])
  <2>1. rpcRuns[d] + Cardinality(Unhandled(rpcFlight, d)) <= Sent(rpcCall[d]) BY DEF RpcIInv
  <2>2. Sent(rpcCall[d]) \in Nat /\ Sent(rpcCall'[d]) \in Nat /\ rpcRuns[d] \in Nat
    BY DEF RpcIInv, RpcTypes, Sent, CallStates
  <2> QED BY <1>1, <2>1, <2>2, UnhandledFinite, FewerUnhandled DEF RpcIInv, RpcTypes
<1> QED BY <1>1, <1>2 DEF RpcIInv, RpcTypes

(* A request moves on; it runs if it is handled.                            *)
LEMMA RequestMoves ==
  ASSUME RpcIInv, NEW m \in rpcFlight, m.at # "handled",
         NEW n \in Requests, n.call = m.call,
         rpcFlight' = (rpcFlight \ {m}) \cup {n},
         rpcCall' = rpcCall,
         rpcRuns' = IF n.at = "handled" THEN [rpcRuns EXCEPT ![m.call] = @ + 1] ELSE rpcRuns
  PROVE  RpcIInv'
<1>0. m \in Requests /\ m.call \in RpcCalls BY DEF RpcIInv, RpcTypes, Requests
<1>1. RpcTypes'
  <2>1. IsFiniteSet(rpcFlight') BY FS_RemoveElement, FS_AddElement DEF RpcIInv, RpcTypes
  <2> QED BY <1>0, <2>1 DEF RpcIInv, RpcTypes
<1>2. ASSUME NEW d \in RpcCalls
      PROVE  rpcRuns'[d] + Cardinality(Unhandled(rpcFlight', d)) <= Sent(rpcCall'[d])
  <2> DEFINE u == Cardinality(Unhandled(rpcFlight, d))
             v == Cardinality(Unhandled(rpcFlight \ {m}, d))
             z == Cardinality(Unhandled(rpcFlight', d))
  <2>1. u \in Nat /\ z \in Nat BY <1>1, UnhandledFinite DEF RpcIInv, RpcTypes
  <2>2. v = u - (IF m.call = d THEN 1 ELSE 0) BY OneUnhandledLess DEF RpcIInv, RpcTypes
  <2>3. z <= v + (IF n.call = d /\ n.at # "handled" THEN 1 ELSE 0)
    BY FS_RemoveElement, MoreUnhandled DEF RpcIInv, RpcTypes
  <2>4. rpcRuns[d] + u <= Sent(rpcCall[d]) /\ rpcRuns[d] \in Nat /\ Sent(rpcCall[d]) \in Nat
    BY DEF RpcIInv, RpcTypes, Sent, CallStates
  <2>5. rpcRuns'[d] = rpcRuns[d] + (IF m.call = d /\ n.at = "handled" THEN 1 ELSE 0)
    BY <1>0, <2>4 DEF RpcIInv, RpcTypes
  <2> HIDE DEF u, v, z
  <2> QED BY <2>1, <2>2, <2>3, <2>4, <2>5 DEF z
<1>3. \A d \in RpcCalls : rpcRuns'[d] >= rpcRuns[d] /\ rpcRuns[d] \in Nat /\ rpcRuns'[d] \in Nat
  BY <1>0 DEF RpcIInv, RpcTypes
<1>4. ASSUME NEW k \in rpcFlight', k.at = "handled" PROVE rpcRuns'[k.call] >= 1
  <2>1. CASE k = n BY <1>0, <1>4, <2>1 DEF RpcIInv, RpcTypes
  <2>2. CASE k \in rpcFlight BY <1>3, <1>4, <2>2 DEF RpcIInv, RpcTypes, Requests
  <2> QED BY <2>1, <2>2
<1>5. \A d \in RpcCalls :
         /\ CallSound(rpcCall'[d])
         /\ rpcCall'[d].phase = "done" /\ rpcCall'[d].result = "OK" => rpcRuns'[d] >= 1
  <2> TAKE d \in RpcCalls
  <2>1. rpcCall[d].phase = "done" /\ rpcCall[d].result = "OK" => rpcRuns[d] >= 1 BY DEF RpcIInv
  <2> QED BY <1>3, <2>1 DEF RpcIInv
<1> QED BY <1>1, <1>2, <1>4, <1>5 DEF RpcIInv

LEMMA RpcSteps == RpcIInv /\ [RpcNext]_rpcVars => RpcIInv'
<1> SUFFICES ASSUME RpcIInv, [RpcNext]_rpcVars PROVE RpcIInv' OBVIOUS
<1>0. ASSUME NEW d \in RpcCalls
      PROVE  /\ rpcCall[d] \in CallStates /\ CallSound(rpcCall[d])
             /\ Sent(rpcCall[d]) \in Nat /\ rpcRuns[d] \in Nat
             /\ rpcCall[d].phase = "done" /\ rpcCall[d].result = "OK" => rpcRuns[d] >= 1
  BY DEF RpcIInv, RpcTypes, Sent, CallStates
<1>a. rpcFlight \subseteq Requests /\ rpcCall \in [RpcCalls -> CallStates]
  BY DEF RpcIInv, RpcTypes
<1>b. \A d \in RpcCalls : Sent(rpcCall[d]) <= Sent(rpcCall[d]) BY <1>0
<1>c. \A m \in rpcFlight : m.call \in RpcCalls BY <1>a DEF Requests
<1>1. ASSUME NEW c \in RpcCalls, CallBegin(c) PROVE RpcIInv'
  <2>1. PICK idempotent \in BOOLEAN :
           rpcCall' = [rpcCall EXCEPT ![c].phase = "ready", ![c].idempotent = idempotent]
    BY <1>1 DEF CallBegin
  <2> DEFINE next == [rpcCall[c] EXCEPT !.phase = "ready", !.idempotent = idempotent]
  <2>2. rpcCall' = [rpcCall EXCEPT ![c] = next] BY <2>1, <1>a
  <2>3. /\ next \in CallStates /\ next.phase = "ready" /\ next.attempt = rpcCall[c].attempt
    BY <1>0 DEF CallStates
  <2>4. CallSound(next) /\ Sent(next) = 0 /\ Sent(rpcCall[c]) = 0
    BY <1>0, <1>1, <2>3, RpcAssumption DEF CallSound, Sent, CallBegin
  <2>5. UNCHANGED <<rpcFlight, rpcRuns>> BY <1>1 DEF CallBegin
  <2> HIDE DEF next
  <2>6. ASSUME NEW d \in RpcCalls
        PROVE  /\ CallSound(rpcCall'[d])
               /\ Sent(rpcCall[d]) <= Sent(rpcCall'[d])
               /\ rpcCall'[d].phase = "done" /\ rpcCall'[d].result = "OK" => rpcRuns[d] >= 1
    <3>1. CASE d = c BY <1>a, <2>2, <2>3, <2>4, <3>1
    <3>2. CASE d # c BY <1>a, <1>0, <2>2, <3>2
    <3> QED BY <3>1, <3>2
  <2> QED BY <1>a, <2>2, <2>3, <2>5, <2>6, RpcMoves
<1>2. ASSUME NEW c \in RpcCalls, Attempt(c) PROVE RpcIInv'
  <2>1. CASE rpcServer # "running" /\ Answered(c, "UNAVAILABLE") /\ UNCHANGED rpcFlight
    <3>1. rpcRuns' = rpcRuns /\ rpcFlight' \in SUBSET rpcFlight /\ rpcCall[c].phase \in {"ready", "waiting"}
      BY <1>2, <2>1 DEF Attempt
    <3> QED BY <2>1, <3>1, AnswerSteps, RpcMoves
  <2>2. CASE /\ rpcCall' = [rpcCall EXCEPT ![c].phase = "waiting"]
             /\ rpcFlight' = rpcFlight \cup {[call |-> c, attempt |-> rpcCall[c].attempt, at |-> "sent", limited |-> FALSE]}
    <3> DEFINE m == [call |-> c, attempt |-> rpcCall[c].attempt, at |-> "sent", limited |-> FALSE]
               next == [rpcCall[c] EXCEPT !.phase = "waiting"]
    <3>1. m \in Requests /\ m.call = c /\ m.at = "sent" BY <1>0 DEF Requests, CallStates
    <3>2. rpcCall' = [rpcCall EXCEPT ![c] = next] /\ rpcFlight' = rpcFlight \cup {m} BY <1>a, <2>2
    <3>3. rpcCall[c].phase = "ready" /\ rpcRuns' = rpcRuns BY <1>2 DEF Attempt
    <3>4. /\ next \in CallStates /\ next.phase = "waiting" /\ next.attempt = rpcCall[c].attempt
          /\ next.idempotent = rpcCall[c].idempotent
      BY <1>0 DEF CallStates
    <3> HIDE DEF m, next
    <3>5. CallSound(next) /\ Sent(next) = Sent(rpcCall[c]) + 1
      <4>1. CallSound(next) BY <1>0, <3>3, <3>4 DEF CallSound
      <4> QED BY <3>3, <3>4, <4>1 DEF Sent
    <3>6. RpcTypes' BY <1>a, <3>1, <3>2, <3>3, <3>4, FS_AddElement DEF RpcIInv, RpcTypes
    <3>7. ASSUME NEW d \in RpcCalls
          PROVE  /\ CallSound(rpcCall'[d])
                 /\ rpcRuns'[d] + Cardinality(Unhandled(rpcFlight', d)) <= Sent(rpcCall'[d])
                 /\ rpcCall'[d].phase = "done" /\ rpcCall'[d].result = "OK" => rpcRuns'[d] >= 1
      <4>1. /\ Cardinality(Unhandled(rpcFlight, d)) \in Nat
            /\ Cardinality(Unhandled(rpcFlight', d)) \in Nat
            /\ Cardinality(Unhandled(rpcFlight', d)) <=
                  Cardinality(Unhandled(rpcFlight, d)) + (IF c = d THEN 1 ELSE 0)
        BY <3>1, <3>2, <3>6, MoreUnhandled, UnhandledFinite DEF RpcIInv, RpcTypes
      <4>2. rpcRuns[d] + Cardinality(Unhandled(rpcFlight, d)) <= Sent(rpcCall[d]) BY DEF RpcIInv
      <4>3. CASE d = c
        <5>1. rpcCall'[d] = next BY <1>a, <3>2, <4>3
        <5> QED BY <1>0, <3>3, <3>4, <3>5, <4>1, <4>2, <4>3, <5>1
      <4>4. CASE d # c
        <5>1. rpcCall'[d] = rpcCall[d] BY <1>a, <3>2, <4>4
        <5> QED BY <1>0, <3>3, <4>1, <4>2, <4>4, <5>1
      <4> QED BY <4>3, <4>4
    <3> QED BY <3>1, <3>2, <3>3, <3>6, <3>7 DEF RpcIInv
  <2> QED BY <1>2, <2>1, <2>2 DEF Attempt
<1>3. ASSUME NEW c \in RpcCalls, Deadline(c) PROVE RpcIInv'
  <2>1. /\ rpcRuns' = rpcRuns /\ rpcFlight' \in SUBSET rpcFlight /\ rpcCall[c].phase \in {"ready", "waiting"}
        /\ Answered(c, "DEADLINE_EXCEEDED")
    BY <1>3 DEF Deadline
  <2> QED BY <2>1, AnswerSteps, RpcMoves
<1>4. ASSUME NEW m \in rpcFlight, Intercept(m) PROVE RpcIInv'
  <2> DEFINE n == [m EXCEPT !.at = "received", !.limited = (rpcTokens = 0)]
  <2>1. n \in Requests /\ n.call = m.call /\ n.at = "received" BY <1>a DEF Requests
  <2>2. /\ m.at # "handled" /\ rpcFlight' = (rpcFlight \ {m}) \cup {n}
        /\ rpcCall' = rpcCall /\ rpcRuns' = rpcRuns
    BY <1>4 DEF Intercept
  <2> HIDE DEF n
  <2> QED BY <2>1, <2>2, RequestMoves
<1>5. ASSUME NEW m \in rpcFlight, Handle(m) PROVE RpcIInv'
  <2> DEFINE n == [m EXCEPT !.at = "handled"]
  <2>1. n \in Requests /\ n.call = m.call /\ n.at = "handled" BY <1>a DEF Requests
  <2>2. /\ m.at # "handled" /\ rpcFlight' = (rpcFlight \ {m}) \cup {n}
        /\ rpcCall' = rpcCall /\ rpcRuns' = [rpcRuns EXCEPT ![m.call] = @ + 1]
    BY <1>5 DEF Handle
  <2> HIDE DEF n
  <2> QED BY <2>1, <2>2, RequestMoves
<1>6. ASSUME NEW m \in rpcFlight, Reply(m) PROVE RpcIInv'
  <2>1. /\ rpcRuns' = rpcRuns /\ rpcFlight' \in SUBSET rpcFlight
        /\ m.at = "handled" /\ rpcRuns[m.call] >= 1
    BY <1>6 DEF Reply, RpcIInv
  <2>2. CASE rpcCall[m.call].phase = "waiting" /\ rpcCall[m.call].attempt = m.attempt
    <3>1. PICK code \in {"RESOURCE_EXHAUSTED", "OK", "INTERNAL"} : Answered(m.call, code)
      BY <1>6, <2>2 DEF Reply
    <3>2. /\ rpcCall' \in [RpcCalls -> CallStates]
          /\ \A d \in RpcCalls :
                /\ CallSound(rpcCall'[d])
                /\ Sent(rpcCall[d]) <= Sent(rpcCall'[d])
                /\ rpcCall'[d].phase = "done" /\ rpcCall'[d].result = "OK" => rpcRuns[d] >= 1
      BY <1>c, <2>1, <2>2, <3>1, AnswerSteps
    <3> QED BY <2>1, <3>2, RpcMoves
  <2>3. CASE ~(rpcCall[m.call].phase = "waiting" /\ rpcCall[m.call].attempt = m.attempt)
    <3>1. rpcCall' = rpcCall BY <1>6, <2>3 DEF Reply
    <3> QED BY <1>0, <1>a, <1>b, <2>1, <3>1, RpcMoves
  <2> QED BY <2>2, <2>3
<1>7. ASSUME NEW m \in rpcFlight, MessageLost(m) PROVE RpcIInv'
  BY <1>0, <1>a, <1>b, <1>7, RpcMoves DEF MessageLost
<1>8. CASE Refill \/ Shutdown \/ ServerStopped \/ UNCHANGED rpcVars
  BY <1>0, <1>a, <1>b, <1>8, RpcMoves DEF Refill, Shutdown, ServerStopped, rpcVars
<1> QED BY <1>1, <1>2, <1>3, <1>4, <1>5, <1>6, <1>7, <1>8 DEF RpcNext

LEMMA RpcSafe == RpcIInv => RetriesAreSafe
<1> SUFFICES ASSUME RpcIInv, NEW c \in RpcCalls
             PROVE  /\ rpcRuns[c] + Cardinality(Unhandled(rpcFlight, c)) <= Attempts(c)
                    /\ rpcCall[c].phase = "done" /\ rpcCall[c].result = "OK" => rpcRuns[c] >= 1
                    /\ rpcCall[c].attempt <= MaxRetries
  BY DEF RetriesAreSafe, Unhandled
<1>1. rpcCall[c] \in CallStates /\ rpcRuns[c] \in Nat BY DEF RpcIInv, RpcTypes
<1>2. Sent(rpcCall[c]) <= Attempts(c) /\ Sent(rpcCall[c]) \in Nat /\ Attempts(c) \in Nat
  BY <1>1 DEF RpcIInv, CallSound, Sent, Attempts, CallStates
<1> QED BY <1>1, <1>2, UnhandledFinite DEF RpcIInv, CallSound, RpcTypes

(* Whatever is lost and however late an answer is, a call that is not       *)
(* idempotent runs once and any other at most once per attempt, and a       *)
(* caller told OK can rely on it.                                           *)
THEOREM RpcCorrect == RpcSpec => []RetriesAreSafe
BY RpcStarts, RpcSteps, RpcSafe, PTL DEF RpcSpec

------------------------------------------------------------------------------
(* The transport.  What was read of a stream has been cut into the frames   *)
(* that end in it, and an id is never given twice.                          *)

(* The frames of a stream end one after the other.                          *)
FrameRecords == [payload : Nat, end : Nat]
StreamFits(frames) ==
    /\ frames \in Seq(FrameRecords)
    /\ \A i, j \in 0 .. Len(frames) : i < j => FrameEnd(frames, i) < FrameEnd(frames, j)

NoneWhole(frames, n, read) == \A m \in (n + 1) .. Len(frames) : ~Whole(frames, m, read)

LEMMA FrameEnds ==
  ASSUME NEW frames, StreamFits(frames)
  PROVE  Len(frames) \in Nat /\ \A i \in 0 .. Len(frames) : FrameEnd(frames, i) \in Nat
<1>1. Len(frames) \in Nat BY LenProperties DEF StreamFits
<1>2. ASSUME NEW i \in 0 .. Len(frames) PROVE FrameEnd(frames, i) \in Nat
  <2>1. CASE i = 0 BY <2>1 DEF FrameEnd
  <2>2. CASE i # 0
    <3>1. frames[i] \in FrameRecords BY <1>1, <1>2, <2>2, ElementOfSeq DEF StreamFits
    <3> QED BY <3>1, <2>2 DEF FrameEnd, FrameRecords
  <2> QED BY <2>1, <2>2
<1> QED BY <1>1, <1>2

(* Cutting finds the last whole frame, and a whole frame is found if there  *)
(* is one.                                                                  *)
LEMMA CutFinds ==
  ASSUME NEW frames, StreamFits(frames), NEW e \in 0 .. Len(frames), NEW read \in Nat
  PROVE  LET n == Complete(frames, e, read) IN
         /\ n \in e .. Len(frames) /\ (n > e => Whole(frames, n, read))
         /\ NoneWhole(frames, n, read)
<1> DEFINE W(n) == n > e => Whole(frames, n, read)
           good(n) == W(n) /\ \A m \in (n + 1) .. Len(frames) : ~Whole(frames, m, read)
           L == Len(frames)
           S == {k \in 0 .. L - e : W(L - k)}
<1>1. L \in Nat /\ e \in Nat /\ e <= L BY FrameEnds
<1>2. L - e \in S
  <2>1. W(e) BY <1>1
  <2> QED BY <1>1, <2>1
<1>3. S \in SUBSET Nat BY <1>1
<1> HIDE DEF S
<1>4. PICK k \in S : \A j \in S : k <= j BY <1>2, <1>3, LeastOf
<1>5. k \in 0 .. L - e /\ W(L - k) BY <1>4 DEF S
<1>6. ASSUME NEW m \in (L - k + 1) .. L, Whole(frames, m, read) PROVE FALSE
  <2>1. L - m \in S BY <1>1, <1>5, <1>6 DEF S
  <2> QED BY <1>1, <1>4, <1>5, <2>1
<1>7. L - k \in e .. L /\ good(L - k) BY <1>5, <1>6, <1>1
<1>8. \E n \in e .. L : good(n) BY <1>7
<1> HIDE DEF W
<1>9. Complete(frames, e, read) = CHOOSE n \in e .. L : good(n) BY DEF Complete, W
<1> DEFINE n == Complete(frames, e, read)
<1> HIDE DEF L, good
<1>10. n \in e .. L /\ good(n) BY <1>8, <1>9
<1> HIDE DEF n
<1> QED BY <1>10 DEF W, n, NoneWhole, good, L

(* Where no further frame is whole, cutting changes nothing.                *)
LEMMA CutSettled ==
  ASSUME NEW frames, StreamFits(frames), NEW e \in 0 .. Len(frames), NEW read \in Nat,
         NoneWhole(frames, e, read)
  PROVE  Complete(frames, e, read) = e
<1> DEFINE n == Complete(frames, e, read)
<1>1. n \in e .. Len(frames) /\ (n > e => Whole(frames, n, read)) /\ Len(frames) \in Nat
  BY CutFinds, FrameEnds
<1> HIDE DEF n
<1>2. CASE n > e BY <1>1, <1>2 DEF NoneWhole
<1> QED BY <1>1, <1>2 DEF n

LEMMA FrameAdded ==
  ASSUME NEW frames, StreamFits(frames), NEW n \in Nat
  PROVE  LET t == Append(frames, NextFrame(frames, n)) IN
         /\ StreamFits(t) /\ Len(t) = Len(frames) + 1
         /\ \A i \in 0 .. Len(frames) : FrameEnd(t, i) = FrameEnd(frames, i)
         /\ FrameEnd(t, Len(t)) = FrameEnd(frames, Len(frames)) + n + 1
         /\ \A i \in 1 .. Len(frames) : t[i] = frames[i]
<1> DEFINE L == Len(frames)
           f == NextFrame(frames, n)
           t == Append(frames, f)
<1>1. L \in Nat /\ \A i \in 0 .. L : FrameEnd(frames, i) \in Nat BY FrameEnds
<1>2. f \in FrameRecords /\ f.end = FrameEnd(frames, L) + n + 1
  BY <1>1 DEF NextFrame, FrameRecords
<1> HIDE DEF f
<1>3. /\ t \in Seq(FrameRecords) /\ Len(t) = L + 1
      /\ \A i \in 1 .. L + 1 : t[i] = IF i = L + 1 THEN f ELSE frames[i]
  BY <1>2, AppendOf DEF StreamFits
<1> HIDE DEF t
<1>4. \A i \in 1 .. L : t[i] = frames[i] BY <1>3, <1>1
<1>5. \A i \in 0 .. L : FrameEnd(t, i) = FrameEnd(frames, i) BY <1>4, <1>1 DEF FrameEnd
<1>6. FrameEnd(t, L + 1) = FrameEnd(frames, L) + n + 1 BY <1>3, <1>1, <1>2 DEF FrameEnd
<1>7. ASSUME NEW i \in 0 .. L + 1, NEW j \in 0 .. L + 1, i < j
      PROVE  FrameEnd(t, i) < FrameEnd(t, j)
  <2>1. CASE j <= L BY <1>1, <1>5, <1>7, <2>1 DEF StreamFits
  <2>2. CASE j = L + 1
    <3>1. i \in 0 .. L /\ L \in 0 .. L /\ (i = L \/ i < L) BY <2>2, <1>1, <1>7
    <3> QED BY <1>1, <1>5, <1>6, <2>2, <3>1 DEF StreamFits
  <2> QED BY <2>1, <2>2, <1>1
<1> QED BY <1>3, <1>4, <1>5, <1>6, <1>7 DEF t, f, StreamFits

LEMMA OffsetMoves ==
  ASSUME NEW r \in Nat \ {0}, NEW a \in Nat, NEW n \in Nat
  PROVE  ((a % r) + n) % r = (a + n) % r
<1> DEFINE q == a \div r
           c == a % r
<1>1. a = r * q + c /\ q \in Int /\ c \in 0 .. r - 1 OBVIOUS
<1> HIDE DEF q, c
<1> DEFINE x == (c + n) \div r
           d == (c + n) % r
           y == (a + n) \div r
           e == (a + n) % r
<1>2. /\ c + n = r * x + d /\ x \in Int /\ d \in 0 .. r - 1
      /\ a + n = r * y + e /\ y \in Int /\ e \in 0 .. r - 1
  BY <1>1
<1> HIDE DEF x, d, y, e
<1>3. r * (y - x - q) = d - e BY <1>1, <1>2
<1>4. y - x - q <= -1 => r * (y - x - q) <= -r BY <1>1, <1>2
<1>5. y - x - q = 0 BY <1>1, <1>2, <1>3, <1>4
<1> QED BY <1>1, <1>2, <1>3, <1>5 DEF c, d, e

----
(* What is read of a stream, and what of it is still in the ring.           *)
Extent(p) == FrameEnd(p.frames, Len(p.frames)) - (IF p.partial THEN 1 ELSE 0)
InRing(h, p) == h.read - FrameEnd(p.frames, h.emitted)
BufferFits(h, p) ==
    /\ h.read \in Nat /\ h.emitted \in 0 .. Len(p.frames) /\ h.read <= Extent(p)
    /\ InRing(h, p) \in 0 .. RecvBuf /\ h.off = h.read % RecvBuf
AllCut(h, p) == Complete(p.frames, h.emitted, h.read) = h.emitted

PeerFits(p) == StreamFits(p.frames) /\ (p.partial => p.frames # <<>>)

(* A connection after a round of TryEmitPackets.                            *)
CutAfter(h, p, read, g) ==
    /\ g.read = read /\ g.off = read % RecvBuf /\ g.emitted = Complete(p.frames, h.emitted, read)

LEMMA ExtentIsNat ==
  ASSUME NEW p, PeerFits(p)
  PROVE  Extent(p) \in Nat
<1> DEFINE f == p.frames
           L == Len(f)
<1>1. L \in Nat /\ (\A i \in 0 .. L : FrameEnd(f, i) \in Nat) /\ f \in Seq(FrameRecords)
  BY FrameEnds DEF PeerFits, StreamFits
<1>2. CASE f = <<>>
  <2>1. L = 0 /\ ~p.partial BY <1>2, EmptySeq DEF PeerFits
  <2> QED BY <1>1, <2>1 DEF Extent
<1>3. CASE f # <<>>
  <2>1. FrameEnd(f, 0) < FrameEnd(f, L) /\ FrameEnd(f, 0) = 0 /\ FrameEnd(f, L) \in Nat
    BY <1>1, <1>3, EmptySeq DEF PeerFits, StreamFits, FrameEnd
  <2> QED BY <2>1 DEF Extent
<1> QED BY <1>2, <1>3

LEMMA RingCut ==
  ASSUME NEW h, NEW p, NEW g, NEW read \in Nat, PeerFits(p),
         h.emitted \in 0 .. Len(p.frames), h.read \in Nat, InRing(h, p) \in 0 .. RecvBuf,
         h.read <= read, read <= Extent(p), read - FrameEnd(p.frames, h.emitted) <= RecvBuf,
         CutAfter(h, p, read, g)
  PROVE  BufferFits(g, p) /\ AllCut(g, p)
<1> DEFINE f == p.frames
           e == h.emitted
           n == Complete(f, e, read)
<1>1. n \in e .. Len(f) /\ (n > e => Whole(f, n, read)) /\ NoneWhole(f, n, read)
  BY CutFinds DEF PeerFits
<1>2. /\ Len(f) \in Nat /\ (\A i \in 0 .. Len(f) : FrameEnd(f, i) \in Nat) /\ StreamFits(f)
      /\ e \in 0 .. Len(f) /\ RecvBuf \in Nat
  BY FrameEnds, TransportAssumption DEF PeerFits
<1> HIDE DEF n
<1>3. n \in 0 .. Len(f) BY <1>1, <1>2
<1>4. FrameEnd(f, e) <= FrameEnd(f, n) /\ (n = e \/ n > e) BY <1>1, <1>2, <1>3 DEF StreamFits
<1>5. FrameEnd(f, n) <= read
  <2>1. CASE n > e BY <2>1, <1>1 DEF Whole
  <2>2. CASE n = e BY <1>2, <2>2 DEF InRing
  <2> QED BY <2>1, <2>2, <1>4
<1>6. g.read = read /\ g.off = read % RecvBuf /\ g.emitted = n BY DEF CutAfter, n
<1>7. BufferFits(g, p)
  <2>1. InRing(g, p) = read - FrameEnd(f, n) BY <1>6 DEF InRing
  <2> QED BY <1>2, <1>3, <1>4, <1>5, <1>6, <2>1 DEF BufferFits
<1> QED BY <1>1, <1>2, <1>3, <1>6, <1>7, CutSettled DEF AllCut

(* Reading without cutting.                                                 *)
LEMMA RingFilled ==
  ASSUME NEW h, NEW p, NEW g, NEW n \in Nat, PeerFits(p), BufferFits(h, p),
         h.read + n <= Extent(p), InRing(h, p) + n <= RecvBuf,
         g.read = h.read + n, g.off = (h.off + n) % RecvBuf, g.emitted = h.emitted
  PROVE  BufferFits(g, p)
<1>1. /\ RecvBuf \in Nat \ {0} /\ FrameEnd(p.frames, h.emitted) \in Nat
      /\ h.read \in Nat /\ h.emitted \in 0 .. Len(p.frames) /\ h.off = h.read % RecvBuf
      /\ InRing(h, p) \in 0 .. RecvBuf
  BY FrameEnds, TransportAssumption DEF PeerFits, BufferFits
<1>2. g.off = (h.read + n) % RecvBuf BY <1>1, OffsetMoves
<1>3. InRing(g, p) \in 0 .. RecvBuf BY <1>1 DEF InRing
<1>4. g.read \in Nat /\ g.read <= Extent(p) /\ g.emitted \in 0 .. Len(p.frames) /\ g.off = g.read % RecvBuf
  <2>1. g.read = h.read + n /\ Extent(p) \in Nat /\ h.read + n \in Nat BY <1>1, ExtentIsNat
  <2>2. g.off = g.read % RecvBuf BY ONLY <2>1, <1>2
  <2> QED BY <1>1, <2>1, <2>2
<1> QED BY <1>3, <1>4 DEF BufferFits

(* What a peer writes does not complete a frame that was read.              *)
LEMMA PeerMoves ==
  ASSUME NEW h, NEW p, NEW q, PeerFits(p),
         \/ q.frames = p.frames /\ ~q.partial
         \/ /\ ~p.partial
            /\ \E n \in Nat : q.frames = Append(p.frames, NextFrame(p.frames, n))
  PROVE  /\ PeerFits(q)
         /\ BufferFits(h, p) => BufferFits(h, q) /\ (AllCut(h, p) => AllCut(h, q))
<1> DEFINE f == p.frames
           t == q.frames
<1>1. /\ Len(f) \in Nat /\ (\A i \in 0 .. Len(f) : FrameEnd(f, i) \in Nat) /\ StreamFits(f)
      /\ f \in Seq(FrameRecords)
  BY FrameEnds DEF PeerFits, StreamFits
<1>2. CASE t = f /\ ~q.partial
  <2>1. Extent(p) <= Extent(q) /\ Extent(p) \in Nat /\ Extent(q) \in Nat
    <3>1. FrameEnd(f, Len(f)) \in Nat BY <1>1
    <3> QED BY <1>2, <3>1, ExtentIsNat DEF Extent
  <2>2. ASSUME BufferFits(h, p) PROVE BufferFits(h, q)
    BY <1>2, <2>1, <2>2 DEF BufferFits, InRing
  <2>3. AllCut(h, p) => AllCut(h, q) BY <1>2 DEF AllCut
  <2> QED BY <1>2, <2>2, <2>3 DEF PeerFits
<1>3. ASSUME ~p.partial, NEW n \in Nat, t = Append(f, NextFrame(f, n))
      PROVE  /\ PeerFits(q)
             /\ BufferFits(h, p) => BufferFits(h, q) /\ (AllCut(h, p) => AllCut(h, q))
  <2>1. /\ StreamFits(t) /\ Len(t) = Len(f) + 1
        /\ \A i \in 0 .. Len(f) : FrameEnd(t, i) = FrameEnd(f, i)
        /\ FrameEnd(t, Len(t)) = FrameEnd(f, Len(f)) + n + 1
        /\ \A i \in 1 .. Len(f) : t[i] = f[i]
    <3> HIDE DEF f, t
    <3>1. n \in Nat /\ StreamFits(f) /\ t = Append(f, NextFrame(f, n)) BY <1>1, <1>3
    <3> QED BY ONLY <3>1, FrameAdded
  <2>2. PeerFits(q) BY <1>1, <2>1, EmptySeq DEF PeerFits, StreamFits
  <2>3. Extent(p) = FrameEnd(f, Len(f)) /\ Extent(p) <= Extent(q) /\ Extent(q) \in Nat
    <3>1. FrameEnd(f, Len(f)) \in Nat BY <1>1
    <3> QED BY <1>3, <2>1, <2>2, <3>1, ExtentIsNat DEF Extent
  <2>4. ASSUME BufferFits(h, p)
        PROVE  BufferFits(h, q) /\ (AllCut(h, p) => AllCut(h, q))
    <3>1. h.emitted \in 0 .. Len(f) /\ h.read \in Nat /\ h.read <= Extent(p)
      BY <2>4 DEF BufferFits
    <3>2. InRing(h, q) = InRing(h, p) BY <3>1, <2>1 DEF InRing
    <3>3. h.emitted \in 0 .. Len(t) /\ h.read <= Extent(q)
      <4> HIDE DEF f, t
      <4> QED BY <1>1, <2>1, <2>2, <2>3, <3>1, ExtentIsNat
    <3>4. BufferFits(h, q) BY <3>2, <3>3, <2>4 DEF BufferFits
    <3>5. ASSUME AllCut(h, p) PROVE AllCut(h, q)
      <4> DEFINE e == h.emitted
                 r == h.read
      <4>1. ASSUME NEW m \in (e + 1) .. Len(t), Whole(t, m, r) PROVE FALSE
        <5>1. m <= Len(f) \/ m = Len(t) BY <2>1, <1>1, <3>1
        <5>2. CASE m <= Len(f)
          <6>1. m \in (e + 1) .. Len(f) /\ m \in 0 .. Len(f) BY <5>2, <3>1, <1>1, <2>1
          <6>2. \A j \in 1 .. m : t[j] = f[j] BY <6>1, <2>1, <1>1
          <6>3. Whole(f, m, r) BY <2>1, <4>1, <6>1, <6>2 DEF Whole
          <6> QED BY <1>1, <3>1, <3>5, <6>1, <6>3, CutFinds DEF NoneWhole, AllCut
        <5>3. CASE m = Len(t)
          <6>1. FrameEnd(t, m) <= r BY <4>1 DEF Whole
          <6> HIDE DEF f, t
          <6> QED BY <1>1, <2>1, <2>3, <3>1, <5>3, <6>1
        <5> QED BY <5>1, <5>2, <5>3
      <4>2. Complete(t, e, r) = e BY <2>1, <3>1, <3>3, <4>1, CutSettled DEF NoneWhole
      <4> QED BY <4>2 DEF AllCut
    <3> QED BY <3>4, <3>5
  <2> QED BY <2>2, <2>4
<1> QED BY <1>2, <1>3

----
(* A slot of the table: its connection, its peer, and whether ProcessRecv   *)
(* is in it.                                                                *)
HostRecords == [used : BOOLEAN, id : Nat, state : {"Open", "Closing", "Closed"},
                reason : {"None", "Graceful", "Error", "Timeout", "PeerClosed", "Stopped"}, wantWrite : BOOLEAN,
                read : Nat, off : Nat, emitted : Nat, queued : Nat, flushed : Nat]
PeerRecords == [frames : Seq(FrameRecords), partial : BOOLEAN, fin : BOOLEAN, failed : BOOLEAN]
SlotFits(h, p, busy) ==
    /\ PeerFits(p)
    /\ h.used => BufferFits(h, p) /\ (~busy => AllCut(h, p))

NetTypes ==
    /\ netHost \in [NetSlots -> HostRecords] /\ netPeer \in [NetSlots -> PeerRecords]
    /\ netCurrent \in NetSlots \cup {NoSlot}
FramesIInv == NetTypes /\ \A s \in NetSlots : SlotFits(netHost[s], netPeer[s], netCurrent = s)

LEMMA SlotNumbers == NoSlot \notin NetSlots /\ MaxConnections \in Nat \ {0}
BY TransportAssumption DEF NoSlot, NetSlots

LEMMA NothingSent == PeerFits(NoPeer) /\ NoPeer \in PeerRecords /\ NoPeer.frames = <<>>
<1>1. NoPeer.frames = <<>> /\ NoPeer.partial = FALSE /\ <<>> \in Seq(FrameRecords) /\ Len(<<>>) = 0
  BY EmptySeq DEF NoPeer
<1>2. NoPeer \in PeerRecords BY <1>1 DEF NoPeer, PeerRecords
<1> QED BY <1>1, <1>2 DEF PeerFits, StreamFits

(* A connection just accepted has read nothing.                             *)
LEMMA FreshSlot ==
  ASSUME NEW h, h.read = 0, h.off = 0, h.emitted = 0, NEW busy
  PROVE  SlotFits(h, NoPeer, busy)
<1>1. NoPeer.frames = <<>> /\ Len(<<>>) = 0 /\ PeerFits(NoPeer) /\ NoPeer.partial = FALSE
  BY NothingSent, EmptySeq DEF NoPeer
<1>2. InRing(h, NoPeer) = 0 /\ Extent(NoPeer) = 0 BY <1>1 DEF InRing, Extent, FrameEnd
<1>3. AllCut(h, NoPeer)
  <2>1. StreamFits(<<>>) /\ 0 \in 0 .. Len(<<>>) BY <1>1 DEF PeerFits
  <2> QED BY <1>1, <2>1, CutSettled DEF AllCut, NoneWhole
<1> QED BY <1>1, <1>2, <1>3, TransportAssumption DEF SlotFits, BufferFits

(* Fields that have nothing to do with reading may change.                  *)
LEMMA SlotKept ==
  ASSUME NEW h, NEW p, NEW g, NEW busy, NEW later, SlotFits(h, p, busy),
         g.used => h.used, g.read = h.read, g.off = h.off, g.emitted = h.emitted,
         busy => later
  PROVE  SlotFits(g, p, later)
<1>1. AllCut(h, p) => AllCut(g, p) BY DEF AllCut
<1> QED BY <1>1 DEF SlotFits, BufferFits, InRing

LEMMA SlotGone ==
  ASSUME NEW p, PeerFits(p), NEW g, ~g.used, NEW later
  PROVE  SlotFits(g, p, later)
BY DEF SlotFits

----
(* The table of slots: the ids that were given and who has one.             *)
Open(host) == {s \in NetSlots : host[s].used}
IdsGrow ==
    /\ netGeneration \in [NetSlots -> Nat] /\ netSerial \in Nat /\ netIds \in Seq(Nat)
    /\ \A i \in DOMAIN netIds : netIds[i] < netSerial
    /\ \A i, j \in DOMAIN netIds : i < j => netIds[i] < netIds[j]
IdsOnce(host, ids) ==
    /\ \A s \in Open(host) : host[s].id \in Members(ids)
    /\ \A s, t \in Open(host) : host[s].id = host[t].id => s = t
FreeFits ==
    netFree \in Seq(NetSlots) /\ NoRepeat(netFree) /\ Members(netFree) = NetSlots \ Open(netHost)
IdsIInv == IdsGrow /\ IdsOnce(netHost, netIds) /\ FreeFits /\ (netCurrent = NoSlot \/ netCurrent \in Open(netHost))

NetIInv == FramesIInv /\ IdsIInv

ReadTo(h, r, o, n) == [h EXCEPT !.read = r, !.off = o, !.emitted = n]
ReadOnly(h, r, o) == [h EXCEPT !.read = r, !.off = o]
ClosedFor(h, x) == [h EXCEPT !.used = FALSE, !.state = "Closed", !.reason = x]
GivenOut(h, n) == [h EXCEPT !.flushed = n]
GivenLast(h, n) == [h EXCEPT !.flushed = n, !.used = FALSE, !.state = "Closed"]
CloseReasons == {"Error", "Timeout", "PeerClosed", "Stopped"}

LEMMA ReadHost ==
  ASSUME NEW h \in HostRecords,  NEW r \in Nat, NEW o \in Nat, NEW n \in Nat
  PROVE  LET g == ReadTo(h, r, o, n) IN
         /\ g \in HostRecords /\ g.read = r /\ g.off = o /\ g.emitted = n
         /\ g.id = h.id /\ (g.used <=> h.used)
BY DEF ReadTo, HostRecords

LEMMA ReadOnlyHost ==
  ASSUME NEW h \in HostRecords,  NEW r \in Nat, NEW o \in Nat
  PROVE  LET g == ReadOnly(h, r, o) IN
         /\ g \in HostRecords /\ g.read = r /\ g.off = o /\ g.emitted = h.emitted
         /\ g.id = h.id /\ (g.used <=> h.used)
BY DEF ReadOnly, HostRecords

LEMMA ClosedHost ==
  ASSUME NEW h \in HostRecords, NEW x \in CloseReasons
  PROVE  LET g == ClosedFor(h, x) IN
         g \in HostRecords /\ ~g.used /\ g.id = h.id
BY DEF ClosedFor, HostRecords, CloseReasons

LEMMA GivenHost ==
  ASSUME NEW h \in HostRecords, NEW n \in Nat
  PROVE  /\ LET g == GivenOut(h, n) IN
            /\ g \in HostRecords /\ g.read = h.read /\ g.off = h.off /\ g.emitted = h.emitted
            /\ g.id = h.id /\ (g.used <=> h.used)
         /\ LET g == GivenLast(h, n) IN
            g \in HostRecords /\ ~g.used /\ g.id = h.id
BY DEF GivenOut, GivenLast, HostRecords

LEMMA FewerIds ==
  ASSUME NEW host, NEW ids, IdsOnce(host, ids), NEW next, Open(next) \subseteq Open(host),
         \A s \in NetSlots : next[s].id = host[s].id
  PROVE  IdsOnce(next, ids)
<1>1. ASSUME NEW s \in Open(next) PROVE s \in Open(host) /\ next[s].id = host[s].id
  BY <1>1 DEF Open
<1> QED BY <1>1 DEF IdsOnce

(* One connection changes and stays.                                        *)
LEMMA OneKept ==
  ASSUME NetIInv, NEW s \in NetSlots, NEW g \in HostRecords,
         netHost' = [netHost EXCEPT ![s] = g], (g.used <=> netHost[s].used), g.id = netHost[s].id,
         UNCHANGED <<netFree, netGeneration, netSerial, netIds, netPeer>>,
         netCurrent' = netCurrent \/ (netCurrent' = NoSlot /\ netCurrent = s),
         SlotFits(g, netPeer[s], netCurrent' = s)
  PROVE  NetIInv'
<1>1. /\ NetTypes /\ IdsIInv
      /\ \A t \in NetSlots : SlotFits(netHost[t], netPeer[t], netCurrent = t)
  BY DEF NetIInv, FramesIInv
<1>2. /\ netHost' \in [NetSlots -> HostRecords] /\ netHost'[s] = g
      /\ \A t \in NetSlots : t # s => netHost'[t] = netHost[t]
  BY <1>1 DEF NetTypes
<1>3. ASSUME NEW t \in NetSlots PROVE SlotFits(netHost'[t], netPeer'[t], netCurrent' = t)
  <2>1. CASE t = s BY <2>1, <1>2
  <2>2. CASE t # s
    <3>1. netCurrent = t => netCurrent' = t BY <2>2
    <3> QED BY <1>1, <1>2, <2>2, <3>1 DEF SlotFits
  <2> QED BY <2>1, <2>2
<1>4. FramesIInv' BY <1>1, <1>2, <1>3 DEF FramesIInv, NetTypes
<1>5. Open(netHost') = Open(netHost) /\ \A t \in NetSlots : netHost'[t].id = netHost[t].id
  BY <1>2 DEF Open
<1>6. IdsIInv'
  <2>1. Open(netHost) \subseteq NetSlots BY DEF Open
  <2>2. IdsOnce(netHost', netIds') BY <1>1, <1>5, FewerIds DEF IdsIInv
  <2>3. FreeFits' BY <1>1, <1>5 DEF IdsIInv, FreeFits
  <2>4. netCurrent' = NoSlot \/ netCurrent' \in Open(netHost') BY <1>1, <1>5 DEF IdsIInv
  <2> QED BY <1>1, <2>2, <2>3, <2>4 DEF IdsIInv, IdsGrow
<1> QED BY <1>4, <1>6 DEF NetIInv

(* One connection goes.                                                     *)
LEMMA OneFreed ==
  ASSUME NetIInv, NEW s \in NetSlots, netHost[s].used, NEW g \in HostRecords,
         netHost' = [netHost EXCEPT ![s] = g], ~g.used, g.id = netHost[s].id,
         netFree' = Append(netFree, s), UNCHANGED <<netGeneration, netSerial, netIds, netPeer>>,
         netCurrent' = NoSlot, netCurrent \in {NoSlot, s}
  PROVE  NetIInv'
<1>1. /\ NetTypes /\ IdsIInv
      /\ \A t \in NetSlots : SlotFits(netHost[t], netPeer[t], netCurrent = t)
  BY DEF NetIInv, FramesIInv
<1>2. /\ netHost' \in [NetSlots -> HostRecords] /\ netHost'[s] = g
      /\ \A t \in NetSlots : t # s => netHost'[t] = netHost[t]
  BY <1>1 DEF NetTypes
<1>3. ASSUME NEW t \in NetSlots PROVE SlotFits(netHost'[t], netPeer'[t], netCurrent' = t)
  <2>0. SlotFits(netHost[t], netPeer[t], netCurrent = t) BY <1>1
  <2>1. CASE t = s BY <1>2, <2>0, <2>1 DEF SlotFits
  <2>2. CASE t # s
    <3>1. netCurrent # t BY <2>2, SlotNumbers
    <3> QED BY <1>1, <1>2, <2>0, <2>2, <3>1 DEF SlotFits
  <2> QED BY <2>1, <2>2
<1>4. FramesIInv' BY <1>1, <1>2, <1>3 DEF FramesIInv, NetTypes
<1>5. Open(netHost') = Open(netHost) \ {s} /\ \A t \in NetSlots : netHost'[t].id = netHost[t].id
  BY <1>2 DEF Open
<1>6. IdsIInv'
  <2>1. Open(netHost) \subseteq NetSlots /\ s \in Open(netHost) BY DEF Open
  <2>2. /\ netFree' \in Seq(NetSlots) /\ Members(netFree') = Members(netFree) \cup {s}
        /\ NoRepeat(netFree')
    BY <1>1, <2>1, AppendMembers DEF IdsIInv, FreeFits
  <2>3. IdsOnce(netHost', netIds') BY <1>1, <1>5, FewerIds DEF IdsIInv
  <2>4. FreeFits' BY <1>1, <1>5, <2>1, <2>2 DEF FreeFits, IdsIInv
  <2> QED BY <1>1, <2>3, <2>4 DEF IdsIInv, IdsGrow
<1> QED BY <1>4, <1>6 DEF NetIInv

(* The actions of the polling thread.                                       *)
LEMMA SlotIs ==
  ASSUME NetIInv, NEW s \in NetSlots
  PROVE  /\ netHost[s] \in HostRecords /\ netPeer[s] \in PeerRecords /\ PeerFits(netPeer[s])
         /\ SlotFits(netHost[s], netPeer[s], netCurrent = s)
         /\ netHost[s].used => BufferFits(netHost[s], netPeer[s])
<1> QED BY DEF NetTypes, SlotFits, NetIInv, FramesIInv

LEMMA RemovedSteps ==
  ASSUME NetIInv, NEW s \in NetSlots, netHost[s].used, NEW x \in CloseReasons, Removed(s, x),
         netCurrent' = NoSlot, netCurrent \in {NoSlot, s}
  PROVE  NetIInv'
<1> DEFINE g == ClosedFor(netHost[s], x)
<1>1. g \in HostRecords /\ ~g.used /\ g.id = netHost[s].id BY SlotIs, ClosedHost
<1>2. netHost' = [netHost EXCEPT ![s] = g] BY DEF Removed, ClosedFor
<1>3. netFree' = Append(netFree, s) /\ UNCHANGED <<netGeneration, netSerial, netIds, netPeer>>
  BY DEF Removed
<1> HIDE DEF g
<1> QED BY <1>1, <1>2, <1>3, OneFreed

LEMMA EmittedSteps ==
  ASSUME NetIInv, NEW s \in NetSlots, netHost[s].used, netCurrent = s,
         NEW read \in Nat, netHost[s].read <= read, read <= Extent(netPeer[s]),
         read - FrameEnd(netPeer[s].frames, netHost[s].emitted) <= RecvBuf,
         Emitted(s, read, read % RecvBuf),
         ~Illegal(s, read) => netCurrent' \in {netCurrent, NoSlot}
  PROVE  NetIInv'
<1> DEFINE h == netHost[s]
           p == netPeer[s]
           n == Cut(s, read)
           o == read % RecvBuf
           g == ReadTo(h, read, o, n)
<1>1. h \in HostRecords /\ PeerFits(p) /\ BufferFits(h, p) /\ RecvBuf \in Nat \ {0}
  BY SlotIs, TransportAssumption
<1>2. /\ h.emitted \in 0 .. Len(p.frames) /\ h.read \in Nat /\ InRing(h, p) \in 0 .. RecvBuf
      /\ Len(p.frames) \in Nat
  BY <1>1, FrameEnds DEF BufferFits, PeerFits
<1>3. n = Complete(p.frames, h.emitted, read) /\ n \in Nat
  <2>1. Complete(p.frames, h.emitted, read) \in h.emitted .. Len(p.frames)
    BY <1>1, <1>2, CutFinds DEF PeerFits
  <2> QED BY <1>2, <2>1 DEF Cut
<1>4. o \in Nat BY <1>1
<1>5. /\ g \in HostRecords /\ g.read = read /\ g.off = o /\ g.emitted = n
      /\ g.id = h.id /\ (g.used <=> h.used)
  BY <1>1, <1>3, <1>4, ReadHost
<1>6. CutAfter(h, p, read, g) BY <1>3, <1>5 DEF CutAfter
<1>7. BufferFits(g, p) /\ AllCut(g, p)
  <2> HIDE DEF h, p, g, n
  <2> QED BY <1>1, <1>2, <1>6, RingCut DEF h, p
<1>8. CASE Illegal(s, read)
  <2> DEFINE f == ClosedFor(g, "Error")
  <2>1. netFree' = Append(netFree, s) /\ netCurrent' = NoSlot /\ UNCHANGED <<netGeneration, netSerial, netIds, netPeer>>
    BY <1>8 DEF Emitted
  <2>2. f \in HostRecords /\ ~f.used /\ f.id = h.id
    <3>1. "Error" \in CloseReasons BY DEF CloseReasons
    <3> HIDE DEF g
    <3> QED BY <1>5, <3>1, ClosedHost
  <2>3. netHost' = [netHost EXCEPT ![s] = f] BY <1>8 DEF Emitted, ClosedFor, ReadTo
  <2> HIDE DEF f
  <2> QED BY <2>1, <2>2, <2>3, OneFreed
<1>9. CASE ~Illegal(s, read)
  <2>1. UNCHANGED <<netFree, netGeneration, netSerial, netIds, netPeer>> /\ netCurrent' \in {netCurrent, NoSlot}
    BY <1>9 DEF Emitted
  <2>2. netHost' = [netHost EXCEPT ![s] = g] BY <1>9 DEF Emitted, ReadTo
  <2>3. SlotFits(g, p, netCurrent' = s) BY <1>1, <1>7 DEF SlotFits
  <2> HIDE DEF g
  <2> QED BY <2>1, <2>2, <2>3, <1>5, OneKept
<1> QED BY <1>8, <1>9

LEMMA RingSteps ==
  ASSUME NetIInv, RecvFull \/ RecvSome \/ RecvDry
  PROVE  NetIInv'
<1> DEFINE s == netCurrent
           h == netHost[s]
           p == netPeer[s]
<1>1. /\ s \in NetSlots /\ h.used /\ h \in HostRecords /\ PeerFits(p) /\ BufferFits(h, p)
  <2>1. s \in Open(netHost) BY DEF NetIInv, IdsIInv, RecvFull, RecvSome, RecvDry
  <2> QED BY <2>1, SlotIs DEF Open
<1>2. /\ h.emitted \in 0 .. Len(p.frames) /\ h.read \in Nat /\ InRing(h, p) \in 0 .. RecvBuf
      /\ Len(p.frames) \in Nat /\ FrameEnd(p.frames, h.emitted) \in Nat
      /\ h.read <= Extent(p) /\ Extent(p) \in Nat /\ h.off = h.read % RecvBuf
      /\ RecvBuf \in Nat \ {0}
  BY <1>1, FrameEnds, ExtentIsNat, TransportAssumption DEF BufferFits, PeerFits
<1>3. /\ Unread(s) = Extent(p) - h.read /\ Buffered(s) = InRing(h, p)
      /\ Contiguous(s) <= RecvBuf - InRing(h, p) /\ Contiguous(s) \in Int
  <2>1. Unread(s) = Extent(p) - h.read /\ Buffered(s) = InRing(h, p)
    BY DEF Unread, Written, Extent, Buffered, InRing
  <2>2. h.off \in 0 .. RecvBuf - 1 BY <1>2
  <2> HIDE DEF h, p
  <2> QED BY <1>2, <2>1, <2>2 DEF Contiguous, h
<1>4. h.read - FrameEnd(p.frames, h.emitted) <= RecvBuf
  <2> HIDE DEF h, p
  <2> QED BY <1>2 DEF InRing
<1>5. ASSUME Emitted(s, h.read, h.off), ~Illegal(s, h.read) => netCurrent' \in {netCurrent, NoSlot}
      PROVE  NetIInv'
  <2>1. h.read <= h.read BY <1>2
  <2> QED BY <1>1, <1>2, <1>4, <1>5, <2>1, EmittedSteps
<1>6. ASSUME NEW x \in CloseReasons, Removed(s, x), netCurrent' = NoSlot PROVE NetIInv'
  BY <1>1, <1>6, RemovedSteps
<1>7. CASE RecvFull BY <1>5, <1>6, <1>7 DEF RecvFull, CloseReasons
<1>8. CASE RecvDry BY <1>5, <1>6, <1>8 DEF RecvDry, CloseReasons
<1>9. CASE RecvSome
  <2> DEFINE n == IF Unread(s) < Contiguous(s) THEN Unread(s) ELSE Contiguous(s)
             read == h.read + n
             off == (h.off + n) % RecvBuf
  <2>1. Contiguous(s) > 0 /\ Unread(s) > 0 BY <1>9 DEF RecvSome
  <2>2. /\ n \in Nat /\ h.read + n <= Extent(p) /\ InRing(h, p) + n <= RecvBuf
        /\ n = Contiguous(s) \/ n # Contiguous(s)
    <3> HIDE DEF h, p
    <3> QED BY <1>2, <1>3, <2>1
  <2>3. /\ n = Contiguous(s) =>
              /\ netHost' = [netHost EXCEPT ![s].read = read, ![s].off = off]
              /\ UNCHANGED <<netFree, netGeneration, netSerial, netIds, netPeer, netCurrent>>
        /\ n # Contiguous(s) => Emitted(s, read, off) /\ (~Illegal(s, read) => netCurrent' = NoSlot)
    BY <1>9 DEF RecvSome
  <2>4. read \in Nat /\ off = read % RecvBuf /\ off \in Nat /\ h.read <= read
    <3> HIDE DEF n
    <3>1. off = read % RecvBuf
      <4>1. h.read \in Nat /\ n \in Nat /\ RecvBuf \in Nat \ {0} BY <1>2, <2>2
      <4>2. ((h.read % RecvBuf) + n) % RecvBuf = (h.read + n) % RecvBuf BY ONLY <4>1, OffsetMoves
      <4>3. h.off = h.read % RecvBuf BY <1>2
      <4> HIDE DEF h, p
      <4> QED BY ONLY <4>2, <4>3
    <3>2. read \in Nat /\ h.read <= read
      <4> HIDE DEF h, p
      <4> QED BY <1>2, <2>2
    <3> HIDE DEF read, off
    <3> QED BY <1>2, <3>1, <3>2
  <2>5. CASE n = Contiguous(s)
    <3> DEFINE g == ReadOnly(h, read, off)
    <3>1. netHost' = [netHost EXCEPT ![s] = g] BY <2>3, <2>5 DEF ReadOnly
    <3>2. /\ g \in HostRecords /\ g.read = read /\ g.off = off /\ g.emitted = h.emitted
          /\ g.id = h.id /\ (g.used <=> h.used)
      <4>1. h \in HostRecords /\ read \in Nat /\ off \in Nat BY <1>1, <2>4
      <4> HIDE DEF h, off, read
      <4> QED BY ONLY <4>1, ReadOnlyHost
    <3>3. BufferFits(g, p)
      <4> HIDE DEF g, n
      <4> QED BY <1>1, <2>2, <3>2, RingFilled
    <3>4. UNCHANGED <<netFree, netGeneration, netSerial, netIds, netPeer>> /\ netCurrent' = s
      BY <2>3, <2>5
    <3>5. SlotFits(g, p, netCurrent' = s) BY <1>1, <3>3, <3>4 DEF SlotFits
    <3> HIDE DEF g, n
    <3> QED BY <1>1, <3>1, <3>2, <3>4, <3>5, OneKept
  <2>6. CASE n # Contiguous(s)
    <3>1. Emitted(s, read, read % RecvBuf) /\ (~Illegal(s, read) => netCurrent' \in {netCurrent, NoSlot})
      BY <2>3, <2>4, <2>6
    <3>2. read <= Extent(p) /\ read - FrameEnd(p.frames, h.emitted) <= RecvBuf
      <4> HIDE DEF n, h, p
      <4> QED BY <1>2, <2>2 DEF InRing
    <3> HIDE DEF n, read
    <3> QED BY <1>1, <2>4, <3>1, <3>2, EmittedSteps
  <2> QED BY <2>2, <2>5, <2>6
<1> QED BY <1>7, <1>8, <1>9

LEMMA GoneSteps ==
  ASSUME NetIInv, NEW s \in NetSlots, IdleTimeout(s) \/ PollError(s)
  PROVE  NetIInv'
<1>1. /\ netHost[s].used /\ netCurrent = NoSlot /\ netCurrent' = NoSlot
      /\ Removed(s, "Timeout") \/ Removed(s, "Error")
  BY DEF IdleTimeout, PollError
<1> QED BY <1>1, RemovedSteps DEF CloseReasons

(* Sending and closing do not touch the ring of what is read.               *)
LEMMA SendSteps ==
  ASSUME NetIInv, NEW s \in NetSlots,
         (\E n \in Payloads : Send(s, n)) \/ CloseConnection(s) \/ ProcessSend(s)
  PROVE  NetIInv'
<1> DEFINE h == netHost[s]
           p == netPeer[s]
<1>1. h \in HostRecords /\ SlotFits(h, p, netCurrent = s) /\ Payloads \subseteq Nat
  BY SlotIs, TransportAssumption
<1>2. ASSUME NEW g \in HostRecords, netHost' = [netHost EXCEPT ![s] = g], (g.used <=> h.used), g.id = h.id,
             g.read = h.read, g.off = h.off, g.emitted = h.emitted,
             UNCHANGED <<netFree, netGeneration, netSerial, netIds, netPeer, netCurrent>>
      PROVE  NetIInv'
  BY <1>1, <1>2, SlotKept, OneKept
<1>3. ASSUME NEW n \in Payloads, Send(s, n) PROVE NetIInv'
  <2> DEFINE g == [h EXCEPT !.queued = @ + n + 1]
  <2>1. /\ netHost' = [netHost EXCEPT ![s] = g]
        /\ UNCHANGED <<netFree, netGeneration, netSerial, netIds, netPeer, netCurrent>>
    BY <1>3 DEF Send
  <2>2. /\ g \in HostRecords /\ (g.used <=> h.used) /\ g.id = h.id
        /\ g.read = h.read /\ g.off = h.off /\ g.emitted = h.emitted
    <3>1. n \in Nat BY <1>1
    <3> HIDE DEF h
    <3> QED BY <1>1, <3>1 DEF HostRecords
  <2> HIDE DEF g
  <2> QED BY <2>1, <2>2, <1>2
<1>4. CASE CloseConnection(s)
  <2> DEFINE g == [h EXCEPT !.state = "Closing", !.reason = "Graceful"]
  <2>1. /\ netHost' = [netHost EXCEPT ![s] = g]
        /\ UNCHANGED <<netFree, netGeneration, netSerial, netIds, netPeer, netCurrent>>
    BY <1>4 DEF CloseConnection
  <2>2. /\ g \in HostRecords /\ (g.used <=> h.used) /\ g.id = h.id
        /\ g.read = h.read /\ g.off = h.off /\ g.emitted = h.emitted
    <3> HIDE DEF h
    <3> QED BY <1>1 DEF HostRecords
  <2> HIDE DEF g
  <2> QED BY <2>1, <2>2, <1>2
<1>5. CASE ProcessSend(s)
  <2>1. /\ netCurrent = NoSlot /\ h.used
        /\ UNCHANGED <<netGeneration, netSerial, netIds, netPeer, netCurrent>>
    BY <1>5 DEF ProcessSend
  <2>2. PICK taken \in 0 .. (h.queued - h.flushed) :
          LET host == [netHost EXCEPT ![s].flushed = @ + taken] IN
          IF h.state # "Open"
          THEN /\ netFree' = Append(netFree, s)
               /\ netHost' = [host EXCEPT ![s].used = FALSE, ![s].state = "Closed"]
          ELSE netHost' = host /\ UNCHANGED netFree
    BY <1>5 DEF ProcessSend
  <2> DEFINE n == h.flushed + taken
             g == GivenOut(h, n)
             f == GivenLast(h, n)
  <2>3. n \in Nat BY <1>1 DEF HostRecords
  <2> HIDE DEF n
  <2>4. /\ g \in HostRecords /\ g.read = h.read /\ g.off = h.off /\ g.emitted = h.emitted
        /\ g.id = h.id /\ (g.used <=> h.used)
        /\ f \in HostRecords /\ ~f.used /\ f.id = h.id
    BY <1>1, <2>3, GivenHost
  <2>5. CASE h.state = "Open"
    <3>1. netHost' = [netHost EXCEPT ![s] = g] /\ UNCHANGED netFree BY <2>2, <2>5 DEF n, GivenOut
    <3> HIDE DEF g
    <3> QED BY <3>1, <2>1, <2>4, <1>2
  <2>6. CASE h.state # "Open"
    <3>1. netHost' = [netHost EXCEPT ![s] = f] /\ netFree' = Append(netFree, s)
      BY <2>2, <2>6 DEF n, GivenLast
    <3> HIDE DEF f
    <3> QED BY <2>1, <2>4, <3>1, OneFreed
  <2> QED BY <2>5, <2>6
<1> QED BY <1>3, <1>4, <1>5

(* Every connection keeps what matters for reading and for the ids.         *)
LEMMA AllKept ==
  ASSUME NetIInv, netHost' \in [NetSlots -> HostRecords],
         \A t \in NetSlots : LET h == netHost[t] g == netHost'[t] IN
            /\ (g.used <=> h.used) /\ g.id = h.id
            /\ g.read = h.read /\ g.off = h.off /\ g.emitted = h.emitted,
         UNCHANGED <<netFree, netGeneration, netSerial, netIds, netPeer>>,
         netCurrent' = netCurrent \/ (netCurrent = NoSlot /\ netCurrent' \in Open(netHost))
  PROVE  NetIInv'
<1>1. /\ NetTypes /\ IdsIInv
      /\ \A t \in NetSlots : SlotFits(netHost[t], netPeer[t], netCurrent = t)
  BY DEF NetIInv, FramesIInv
<1>2. NetTypes' BY <1>1 DEF NetTypes, Open
<1>3. ASSUME NEW t \in NetSlots PROVE SlotFits(netHost'[t], netPeer'[t], netCurrent' = t)
  <2> DEFINE h == netHost[t]
             g == netHost'[t]
             p == netPeer[t]
  <2>1. SlotFits(h, p, netCurrent = t) /\ netPeer'[t] = p BY <1>1
  <2>2. (g.used => h.used) /\ g.read = h.read /\ g.off = h.off /\ g.emitted = h.emitted OBVIOUS
  <2>3. netCurrent = t => netCurrent' = t BY SlotNumbers
  <2> HIDE DEF h, g, p
  <2>4. SlotFits(g, p, netCurrent' = t) BY ONLY <2>1, <2>2, <2>3, SlotKept
  <2> QED BY <2>4, <2>1 DEF g, p
<1>4. Open(netHost') = Open(netHost) /\ \A t \in NetSlots : netHost'[t].id = netHost[t].id
  BY DEF Open
<1>5. IdsGrow' BY <1>1 DEF IdsIInv, IdsGrow
<1>6. IdsOnce(netHost', netIds') BY <1>1, <1>4, FewerIds DEF IdsIInv
<1>7. FreeFits' BY <1>1, <1>4 DEF IdsIInv, FreeFits
<1>8. netCurrent' = NoSlot \/ netCurrent' \in Open(netHost') BY <1>1, <1>4 DEF IdsIInv
<1> QED BY <1>2, <1>3, <1>5, <1>6, <1>7, <1>8 DEF IdsIInv, NetIInv, FramesIInv

LEMMA PollSteps ==
  ASSUME NetIInv, RegisterWrites \/ \E s \in NetSlots : RecvBegin(s)
  PROVE  NetIInv'
<1>1. netHost \in [NetSlots -> HostRecords] BY DEF NetIInv, FramesIInv, NetTypes
<1>2. CASE RegisterWrites
  <2> DEFINE W(s) == netHost[s].used /\ (netHost[s].queued > netHost[s].flushed \/ netHost[s].state # "Open")
             G(s) == [netHost[s] EXCEPT !.wantWrite = W(s)]
  <2>1. /\ netHost' = [s \in NetSlots |-> G(s)]
        /\ UNCHANGED <<netFree, netGeneration, netSerial, netIds, netPeer, netCurrent>>
    BY <1>2 DEF RegisterWrites
  <2>2. ASSUME NEW s \in NetSlots
        PROVE  LET h == netHost[s] g == G(s) IN
               /\ g \in HostRecords /\ (g.used <=> h.used) /\ g.id = h.id
               /\ g.read = h.read /\ g.off = h.off /\ g.emitted = h.emitted
    <3>1. netHost[s] \in HostRecords /\ W(s) \in BOOLEAN BY <1>1
    <3> HIDE DEF W
    <3> QED BY <3>1 DEF HostRecords
  <2> HIDE DEF G
  <2> QED BY <2>1, <2>2, AllKept
<1>3. ASSUME NEW s \in NetSlots, RecvBegin(s) PROVE NetIInv'
  <2>1. /\ netCurrent = NoSlot /\ netCurrent' \in Open(netHost) /\ netHost' = netHost
        /\ UNCHANGED <<netFree, netGeneration, netSerial, netIds, netPeer>>
    BY <1>3 DEF RecvBegin, Open
  <2> QED BY <1>1, <2>1, AllKept
<1> QED BY <1>2, <1>3

PeerWent(p, fin) == IF fin THEN [p EXCEPT !.fin = TRUE] ELSE [p EXCEPT !.failed = TRUE]
PeerFinishes(p) == [p EXCEPT !.partial = FALSE]
PeerAdds(p, n, b) == [p EXCEPT !.frames = Append(@, NextFrame(@, n)), !.partial = b]

LEMMA PeerChanged ==
  ASSUME NetIInv, NEW s \in NetSlots, NEW q \in PeerRecords, netPeer' = [netPeer EXCEPT ![s] = q],
         UNCHANGED <<netFree, netGeneration, netSerial, netIds, netHost, netCurrent>>,
         SlotFits(netHost[s], q, netCurrent = s)
  PROVE  NetIInv'
<1>1. /\ NetTypes /\ IdsIInv
      /\ \A t \in NetSlots : SlotFits(netHost[t], netPeer[t], netCurrent = t)
  BY DEF NetIInv, FramesIInv
<1>2. /\ netPeer' \in [NetSlots -> PeerRecords] /\ netPeer'[s] = q
      /\ \A t \in NetSlots : t # s => netPeer'[t] = netPeer[t]
  BY <1>1 DEF NetTypes
<1>3. \A t \in NetSlots : SlotFits(netHost'[t], netPeer'[t], netCurrent' = t) BY <1>1, <1>2
<1>4. IdsIInv' BY <1>1 DEF IdsIInv, IdsGrow, FreeFits
<1> QED BY <1>1, <1>2, <1>3, <1>4 DEF NetIInv, FramesIInv, NetTypes

LEMMA PeerSteps ==
  ASSUME NetIInv, NEW s \in NetSlots, PeerWrites(s) \/ PeerGoes(s)
  PROVE  NetIInv'
<1> DEFINE h == netHost[s]
           p == netPeer[s]
<1>1. /\ SlotFits(h, p, netCurrent = s) /\ p \in PeerRecords /\ PeerFits(p)
      /\ netPeer \in [NetSlots -> PeerRecords]
      /\ UNCHANGED <<netFree, netGeneration, netSerial, netIds, netHost, netCurrent>>
  BY SlotIs DEF NetIInv, FramesIInv, NetTypes, PeerWrites, PeerGoes
<1>2. ASSUME NEW q \in PeerRecords, netPeer' = [netPeer EXCEPT ![s] = q],
             \/ q.frames = p.frames /\ ~q.partial
             \/ /\ ~p.partial
                /\ \E n \in Nat : q.frames = Append(p.frames, NextFrame(p.frames, n))
      PROVE  NetIInv'
  <2> HIDE DEF h, p
  <2>1. SlotFits(h, q, netCurrent = s) BY <1>1, <1>2, PeerMoves DEF SlotFits
  <2> QED BY <1>1, <1>2, <2>1, PeerChanged DEF h
<1>3. CASE PeerWrites(s)
  <2>1. CASE netPeer' = [netPeer EXCEPT ![s].partial = FALSE]
    <3> DEFINE q == PeerFinishes(p)
    <3>1. netPeer' = [netPeer EXCEPT ![s] = q] BY <2>1 DEF PeerFinishes
    <3>2. q \in PeerRecords /\ q.frames = p.frames /\ ~q.partial
      <4> HIDE DEF p
      <4> QED BY <1>1 DEF PeerFinishes, PeerRecords
    <3> HIDE DEF q
    <3> QED BY <3>1, <3>2, <1>2
  <2>2. ASSUME ~p.partial, NEW n \in Payloads, NEW b \in BOOLEAN,
               netPeer' = [netPeer EXCEPT ![s].frames = Append(@, NextFrame(@, n)), ![s].partial = b]
        PROVE  NetIInv'
    <3> DEFINE q == PeerAdds(p, n, b)
               t == Append(p.frames, NextFrame(p.frames, n))
    <3>1. netPeer' = [netPeer EXCEPT ![s] = q] BY <2>2 DEF PeerAdds
    <3>2. n \in Nat /\ t \in Seq(FrameRecords)
      <4>1. n \in Nat /\ StreamFits(p.frames) BY <1>1, TransportAssumption DEF PeerFits
      <4> HIDE DEF p
      <4> QED BY <4>1, FrameAdded DEF StreamFits
    <3>3. q = [p EXCEPT !.frames = t, !.partial = b] BY DEF PeerAdds
    <3>4. q \in PeerRecords /\ q.frames = t
      <4> HIDE DEF p, t, q
      <4> QED BY <1>1, <3>2, <3>3 DEF PeerRecords
    <3> HIDE DEF q
    <3> QED BY <2>2, <3>1, <3>2, <3>4, <1>2
  <2> QED BY <2>1, <2>2, <1>3 DEF PeerWrites
<1>4. CASE PeerGoes(s)
  <2>1. PICK fin \in BOOLEAN : netPeer' = [netPeer EXCEPT ![s] = PeerWent(p, fin)]
    <3>1. CASE netPeer' = [netPeer EXCEPT ![s].fin = TRUE] BY <3>1 DEF PeerWent
    <3>2. CASE netPeer' = [netPeer EXCEPT ![s].failed = TRUE] BY <3>2 DEF PeerWent
    <3> QED BY <3>1, <3>2, <1>4 DEF PeerGoes
  <2> DEFINE q == PeerWent(p, fin)
  <2>2. q \in PeerRecords /\ q.frames = p.frames /\ (q.partial <=> p.partial)
    <3> HIDE DEF p
    <3> QED BY <1>1 DEF PeerWent, PeerRecords
  <2> HIDE DEF q, p, h
  <2>3. SlotFits(h, q, netCurrent = s)
    <3>1. Extent(q) = Extent(p) /\ PeerFits(q) BY <2>2, <1>1 DEF Extent, PeerFits
    <3>2. AllCut(h, p) => AllCut(h, q) BY <2>2 DEF AllCut
    <3> QED BY <1>1, <2>2, <3>1, <3>2 DEF SlotFits, BufferFits, InRing
  <2> QED BY <1>1, <2>1, <2>2, <2>3, PeerChanged DEF h, q
<1> QED BY <1>3, <1>4

(* Allocate raises the generation until the id is above every earlier one.  *)
LEMMA RaisedIsLater ==
  ASSUME NEW slot \in NetSlots, NEW g \in Nat, netSerial \in Nat
  PROVE  /\ Raised(slot, g) \in Nat /\ Raised(slot, g) * IdBase + slot \in Nat
         /\ Raised(slot, g) * IdBase + slot >= netSerial
<1>1. IdBase \in Nat \ {0} /\ slot \in Nat BY TransportAssumption DEF NetSlots
<1> DEFINE b == IdBase
           c == g * b + slot
           a == netSerial - c
           k == CeilDiv(a, b)
<1>2. c \in Nat /\ a \in Int BY <1>1
<1>3. CASE c < netSerial
  <2>1. a >= 1 BY <1>2, <1>3
  <2> HIDE DEF a, c
  <2>2. k \in Int /\ a + b - 1 = b * k + ((a + b - 1) % b) /\ (a + b - 1) % b \in 0 .. b - 1
    BY <1>1, <1>2 DEF CeilDiv
  <2> HIDE DEF k, b
  <2>3. b * k >= a BY <2>2, <1>1, <1>2 DEF b
  <2>4. k \in Nat
    <3>1. b * k \in Int /\ k \in Int /\ a \in Int BY <2>2, <1>1, <1>2 DEF b
    <3> DEFINE x == b * k
    <3>2. x \in Int /\ x >= a /\ (k <= 0 => x <= 0) BY <1>1, <2>2, <2>3, <3>1 DEF b
    <3> HIDE DEF x
    <3> QED BY ONLY <3>1, <3>2, <2>1
  <2>5. c + b * k >= netSerial BY <1>1, <1>2, <2>2, <2>3 DEF b, a
  <2>6. Raised(slot, g) = g + k BY <1>3 DEF Raised, c, b, k, a
  <2>7. g + k \in Nat /\ c + b * k \in Nat BY <2>4, <1>1, <1>2 DEF b
  <2> QED BY <1>1, <2>4, <2>5, <2>6, <2>7 DEF b, c
<1>4. CASE ~(c < netSerial) BY <1>2, <1>4 DEF Raised
<1> QED BY <1>3, <1>4

LEMMA OpenIsFinite == ASSUME NEW host PROVE IsFiniteSet(Open(host))
<1> DEFINE n == MaxConnections - 1
<1>1. n \in Int /\ NetSlots = 0 .. n BY TransportAssumption DEF NetSlots
<1> HIDE DEF n
<1>2. IsFiniteSet(NetSlots) BY <1>1, FS_Interval
<1> QED BY <1>2, FS_Subset DEF Open

LEMMA StopSteps ==
  ASSUME NetIInv, StopTransport
  PROVE  NetIInv'
<1> DEFINE open == Open(netHost)
           G(s) == IF netHost[s].used
                   THEN [netHost[s] EXCEPT !.used = FALSE, !.state = "Closed", !.reason = "Stopped"]
                   ELSE netHost[s]
<1>1. /\ NetTypes /\ IdsIInv
      /\ \A t \in NetSlots : SlotFits(netHost[t], netPeer[t], netCurrent = t)
  BY DEF NetIInv, FramesIInv
<1>2. /\ netHost' = [s \in NetSlots |-> G(s)] /\ netCurrent' = NoSlot
      /\ UNCHANGED <<netGeneration, netSerial, netIds, netPeer>>
  BY DEF StopTransport
<1>3. PICK order \in [1 .. Cardinality(open) -> open] :
          /\ \A i, j \in DOMAIN order : i < j => order[i] < order[j]
          /\ netFree' = netFree \o order
  BY DEF StopTransport, Open
<1>4. ASSUME NEW s \in NetSlots PROVE G(s) \in HostRecords /\ ~G(s).used
  <2>1. netHost[s] \in HostRecords BY <1>1 DEF NetTypes
  <2> QED BY <2>1 DEF HostRecords
<1>5. /\ netHost' \in [NetSlots -> HostRecords] /\ \A s \in NetSlots : ~netHost'[s].used
  <2> HIDE DEF G
  <2> QED BY <1>2, <1>4
<1>6. NetTypes' BY <1>1, <1>2, <1>5 DEF NetTypes
<1>7. ASSUME NEW t \in NetSlots PROVE SlotFits(netHost'[t], netPeer'[t], netCurrent' = t)
  <2>1. ~netHost'[t].used BY <1>5
  <2> QED BY <1>1, <1>2, <2>1 DEF SlotFits
<1>8. Open(netHost') = {} BY <1>5 DEF Open
<1>9. IdsGrow' BY <1>1, <1>2 DEF IdsIInv, IdsGrow
<1>10. IdsOnce(netHost', netIds') BY <1>8 DEF IdsOnce
<1>11. order \in Seq(NetSlots) /\ NoRepeat(order) /\ Members(order) = open
  <2> DEFINE n == Cardinality(open)
  <2>1. n \in Nat /\ IsFiniteSet(open) /\ open \subseteq NetSlots /\ open \subseteq Nat
    BY OpenIsFinite, FS_CardinalityType DEF Open, NetSlots
  <2>2. order \in [1 .. n -> open] BY <1>3
  <2> HIDE DEF n
  <2>3. order \in Seq(open) /\ order \in Seq(NetSlots) /\ Len(order) = n BY <2>1, <2>2
  <2>4. NoRepeat(order)
    <3> SUFFICES ASSUME NEW i \in DOMAIN order, NEW j \in DOMAIN order, order[i] = order[j], i # j PROVE FALSE
      BY DEF NoRepeat
    <3>1. i \in Nat /\ j \in Nat /\ order[i] \in Nat BY <2>1, <2>2
    <3> QED BY <1>3, <3>1
  <2> QED BY <2>1, <2>3, <2>4, AllNamed DEF n
<1>12. FreeFits'
  <2>1. /\ netFree \in Seq(NetSlots) /\ NoRepeat(netFree) /\ Members(netFree) = NetSlots \ open
        /\ open \subseteq NetSlots
    BY <1>1 DEF IdsIInv, FreeFits, Open
  <2>2. /\ netFree \o order \in Seq(NetSlots) /\ NoRepeat(netFree \o order)
        /\ Members(netFree \o order) = Members(netFree) \cup Members(order)
    BY <1>11, <2>1, ConcatMembers
  <2> QED BY <1>3, <1>8, <1>11, <2>1, <2>2 DEF FreeFits
<1> QED BY <1>2, <1>6, <1>7, <1>9, <1>10, <1>12 DEF NetIInv, FramesIInv, IdsIInv

Accepted(id) == [NoHost EXCEPT !.used = TRUE, !.id = id, !.state = "Open"]

LEMMA AcceptedHost ==
  ASSUME NEW id \in Nat
  PROVE  LET g == Accepted(id) IN
         g \in HostRecords /\ g.used /\ g.id = id /\ g.read = 0 /\ g.off = 0 /\ g.emitted = 0
BY DEF Accepted, NoHost, HostRecords

LEMMA AcceptSteps ==
  ASSUME NetIInv, Accept
  PROVE  NetIInv'
<1> DEFINE slot == Last(netFree)
           generation == Raised(slot, netGeneration[slot] + 1)
           id == generation * IdBase + slot
           g == Accepted(id)
<1>1. /\ NetTypes /\ IdsIInv
      /\ \A t \in NetSlots : SlotFits(netHost[t], netPeer[t], netCurrent = t)
  BY DEF NetIInv, FramesIInv
<1>2. /\ netFree # <<>> /\ netCurrent = NoSlot /\ netCurrent' = NoSlot
      /\ netFree' = Front(netFree) /\ netGeneration' = [netGeneration EXCEPT ![slot] = generation]
      /\ netSerial' = id + 1 /\ netIds' = Append(netIds, id)
      /\ netHost' = [netHost EXCEPT ![slot] = g] /\ netPeer' = [netPeer EXCEPT ![slot] = NoPeer]
  BY DEF Accept, Accepted
<1>3. /\ netFree' \in Seq(NetSlots) /\ NoRepeat(netFree') /\ slot \in Members(netFree)
      /\ Members(netFree') = Members(netFree) \ {slot} /\ Members(netFree) = NetSlots \ Open(netHost)
  <2>1. netFree \in Seq(NetSlots) /\ NoRepeat(netFree) /\ Members(netFree) = NetSlots \ Open(netHost)
    BY <1>1 DEF IdsIInv, FreeFits
  <2>2. slot = netFree[Len(netFree)] /\ netFree' = SubSeq(netFree, 1, Len(netFree) - 1)
    BY <1>2 DEF Last, Front
  <2> HIDE DEF slot
  <2> QED BY <1>2, <2>1, <2>2, FrontMembers
<1>4. slot \in NetSlots /\ slot \notin Open(netHost) BY <1>3
<1> HIDE DEF slot
<1>5. /\ netGeneration[slot] + 1 \in Nat /\ netSerial \in Nat /\ netGeneration \in [NetSlots -> Nat]
      /\ netIds \in Seq(Nat)
  BY <1>1, <1>4 DEF IdsIInv, IdsGrow
<1>6. generation \in Nat /\ id \in Nat /\ id >= netSerial BY <1>4, <1>5, RaisedIsLater
<1> HIDE DEF generation
<1> HIDE DEF id
<1>7. g \in HostRecords /\ g.used /\ g.id = id /\ g.read = 0 /\ g.off = 0 /\ g.emitted = 0
  BY <1>6, AcceptedHost
<1> HIDE DEF g
<1>8. /\ netHost' \in [NetSlots -> HostRecords] /\ netHost'[slot] = g
      /\ \A t \in NetSlots : t # slot => netHost'[t] = netHost[t]
      /\ netPeer' \in [NetSlots -> PeerRecords] /\ netPeer'[slot] = NoPeer
      /\ \A t \in NetSlots : t # slot => netPeer'[t] = netPeer[t]
  BY <1>1, <1>2, <1>4, <1>7, NothingSent DEF NetTypes
<1>9. NetTypes' BY <1>1, <1>2, <1>8 DEF NetTypes
<1>10. ASSUME NEW t \in NetSlots PROVE SlotFits(netHost'[t], netPeer'[t], netCurrent' = t)
  <2>1. CASE t = slot BY <1>7, <1>8, <2>1, FreshSlot
  <2>2. CASE t # slot BY <1>1, <1>2, <1>8, <2>2
  <2> QED BY <2>1, <2>2
<1>11. Open(netHost') = Open(netHost) \cup {slot} BY <1>4, <1>7, <1>8 DEF Open
<1>12. /\ netIds' \in Seq(Nat) /\ Len(netIds) \in Nat /\ Len(netIds') = Len(netIds) + 1
       /\ \A i \in 1 .. Len(netIds) + 1 : netIds'[i] = IF i = Len(netIds) + 1 THEN id ELSE netIds[i]
       /\ Members(netIds') = Members(netIds) \cup {id}
       /\ DOMAIN netIds = 1 .. Len(netIds) /\ DOMAIN netIds' = 1 .. Len(netIds')
  <2>1. netIds \in Seq(Nat) /\ id \in Nat /\ netIds' = Append(netIds, id) BY <1>2, <1>5, <1>6
  <2> HIDE DEF id
  <2> DEFINE ids == netIds'
  <2>2. ids = Append(netIds, id) BY <2>1
  <2> HIDE DEF ids
  <2>3. /\ ids \in Seq(Nat) /\ Len(netIds) \in Nat /\ Len(ids) = Len(netIds) + 1
        /\ \A i \in 1 .. Len(netIds) + 1 : ids[i] = IF i = Len(netIds) + 1 THEN id ELSE netIds[i]
    BY ONLY <2>1, <2>2, AppendOf
  <2>4. Members(ids) = Members(netIds) \cup {id} BY ONLY <2>1, <2>2, AppendMembers
  <2>5. DOMAIN netIds = 1 .. Len(netIds) /\ DOMAIN ids = 1 .. Len(ids)
    BY ONLY <2>1, <2>3, LenProperties
  <2> QED BY <2>3, <2>4, <2>5 DEF ids
<1>13. \A i \in 1 .. Len(netIds) : netIds[i] \in Nat /\ netIds[i] < id
  <2>1. \A i \in 1 .. Len(netIds) : netIds[i] \in Nat /\ netIds[i] < netSerial
    BY <1>1, <1>5, <1>12, ElementOfSeq DEF IdsIInv, IdsGrow
  <2> QED BY <2>1, <1>5, <1>6
<1>14. IdsGrow'
  <2>1. netGeneration' \in [NetSlots -> Nat] /\ netSerial' \in Nat BY <1>2, <1>4, <1>5, <1>6
  <2>2. ASSUME NEW i \in DOMAIN netIds' PROVE netIds'[i] < netSerial'
    <3>1. CASE i = Len(netIds) + 1 BY <3>1, <1>12, <1>2, <1>6
    <3>2. CASE i \in 1 .. Len(netIds) BY <1>2, <1>6, <1>12, <1>13, <3>2
    <3> QED BY <1>12, <3>1, <3>2
  <2>3. ASSUME NEW i \in DOMAIN netIds', NEW j \in DOMAIN netIds', i < j
        PROVE  netIds'[i] < netIds'[j]
    <3>1. i \in 1 .. Len(netIds) /\ netIds'[i] = netIds[i] BY <1>12, <2>3
    <3>2. CASE j = Len(netIds) + 1 BY <3>1, <3>2, <1>12, <1>13
    <3>3. CASE j # Len(netIds) + 1 BY <1>1, <1>12, <2>3, <3>1, <3>3 DEF IdsIInv, IdsGrow
    <3> QED BY <3>2, <3>3
  <2> QED BY <2>1, <2>2, <2>3, <1>12 DEF IdsGrow
<1>15. \A t \in Open(netHost) : netHost[t].id \in Members(netIds) /\ t # slot /\ t \in NetSlots
  BY <1>1, <1>4 DEF IdsIInv, IdsOnce, Open
<1>16. id \notin Members(netIds)
  <2>1. ASSUME NEW i \in DOMAIN netIds PROVE netIds[i] # id BY <1>12, <1>13, <1>6
  <2> QED BY <2>1 DEF Members
<1>17. IdsOnce(netHost', netIds')
  <2>1. ASSUME NEW s \in Open(netHost')
        PROVE  /\ netHost'[s].id \in Members(netIds')
               /\ \/ s = slot /\ netHost'[s].id = id
                  \/ s \in Open(netHost) /\ netHost'[s].id = netHost[s].id
    <3>1. CASE s = slot BY <3>1, <1>7, <1>8, <1>12
    <3>2. CASE s \in Open(netHost) BY <1>8, <1>12, <1>15, <3>2
    <3> QED BY <3>1, <3>2, <1>11
  <2>2. ASSUME NEW s \in Open(netHost'), NEW t \in Open(netHost'), netHost'[s].id = netHost'[t].id
        PROVE  s = t
    BY <1>1, <1>15, <1>16, <2>1, <2>2 DEF IdsIInv, IdsOnce
  <2> QED BY <2>1, <2>2 DEF IdsOnce
<1>18. FreeFits' BY <1>3, <1>11 DEF FreeFits
<1> QED BY <1>2, <1>9, <1>10, <1>14, <1>17, <1>18 DEF NetIInv, FramesIInv, IdsIInv

LEMMA NetStarts == ASSUME TransportInit PROVE NetIInv
<1>1. /\ netFree = [i \in 1..MaxConnections |-> i - 1] /\ netGeneration = [s \in NetSlots |-> 0]
      /\ netSerial = 1 /\ netIds = <<>>
      /\ netHost = [s \in NetSlots |-> NoHost] /\ netPeer = [s \in NetSlots |-> NoPeer]
      /\ netCurrent = NoSlot /\ MaxConnections \in Nat \ {0}
  BY SlotNumbers DEF TransportInit
<1>2. NoHost \in HostRecords /\ ~NoHost.used BY DEF NoHost, HostRecords
<1>3. NetTypes BY <1>1, <1>2, NothingSent DEF NetTypes
<1>4. ASSUME NEW t \in NetSlots PROVE SlotFits(netHost[t], netPeer[t], netCurrent = t)
  BY <1>1, <1>2, NothingSent, SlotGone
<1>5. Open(netHost) = {} BY <1>1, <1>2 DEF Open
<1>6. IdsGrow BY <1>1, EmptySeq, LenProperties DEF IdsGrow
<1>7. FreeFits
  <2>1. ASSUME NEW i \in 1 .. MaxConnections PROVE i - 1 \in NetSlots BY <1>1 DEF NetSlots
  <2>2. netFree \in [1 .. MaxConnections -> NetSlots] BY <1>1, <2>1
  <2>3. netFree \in Seq(NetSlots) /\ DOMAIN netFree = 1 .. MaxConnections BY <1>1, <2>2
  <2>4. ASSUME NEW s \in NetSlots PROVE s \in Members(netFree)
    <3>1. s + 1 \in 1 .. MaxConnections /\ (s + 1) - 1 = s BY <1>1 DEF NetSlots
    <3> QED BY <1>1, <2>3, <3>1 DEF Members
  <2>5. Members(netFree) = NetSlots \ Open(netHost) BY <1>5, <2>2, <2>3, <2>4 DEF Members
  <2> QED BY <1>1, <2>3, <2>5 DEF FreeFits, NoRepeat
<1> QED BY <1>1, <1>3, <1>4, <1>5, <1>6, <1>7 DEF NetIInv, FramesIInv, IdsIInv, IdsOnce

LEMMA NetSteps == ASSUME NetIInv, [TransportNext]_netVars PROVE NetIInv'
<1>1. CASE UNCHANGED netVars
  BY <1>1 DEF NetIInv, FramesIInv, NetTypes, IdsIInv, IdsGrow, FreeFits, netVars
<1>2. CASE TransportNext
  BY <1>2, AcceptSteps, StopSteps, PollSteps, RingSteps, GoneSteps, SendSteps, PeerSteps DEF TransportNext
<1> QED BY <1>1, <1>2

LEMMA NetSafe == ASSUME NetIInv PROVE IdsNeverReturn /\ FramesAreCut
<1>1. /\ IdsGrow /\ IdsOnce(netHost, netIds) /\ FreeFits
      /\ \A t \in NetSlots : SlotFits(netHost[t], netPeer[t], netCurrent = t)
  BY DEF NetIInv, FramesIInv, IdsIInv
<1>2. FramesAreCut
  <2> SUFFICES ASSUME NEW s \in NetSlots, netHost[s].used
               PROVE  /\ Buffered(s) \in 0..RecvBuf /\ netHost[s].off = netHost[s].read % RecvBuf
                      /\ netCurrent # s => Cut(s, netHost[s].read) = netHost[s].emitted
    BY DEF FramesAreCut
  <2>1. Buffered(s) = InRing(netHost[s], netPeer[s]) BY DEF Buffered, InRing
  <2> QED BY <1>1, <2>1 DEF BufferFits, AllCut, Cut, SlotFits
<1>3. ASSUME NEW s \in NetSlots, netHost[s].used
      PROVE  \E i \in DOMAIN netIds : netIds[i] = netHost[s].id /\ netSerial > netIds[i]
  <2>1. PICK i \in DOMAIN netIds : netIds[i] = netHost[s].id
    BY <1>1, <1>3 DEF Members, IdsOnce, Open
  <2> QED BY <1>1, <2>1, ElementOfSeq, LenProperties DEF IdsGrow
<1>4. ASSUME NEW i \in DOMAIN netIds PROVE Cardinality(GetConnection(netIds[i])) <= 1
  <2> DEFINE C == GetConnection(netIds[i])
  <2>1. \A s, t \in C : s = t BY <1>1 DEF GetConnection, IdsOnce, Open
  <2> HIDE DEF C
  <2>2. Cardinality(C) <= 1
    <3>1. CASE C = {} BY <3>1, FS_EmptySet
    <3>2. ASSUME NEW s \in C, C = {s} PROVE Cardinality(C) = 1 BY <3>2, FS_Singleton
    <3> QED BY <2>1, <3>1, <3>2
  <2> QED BY <2>2 DEF C
<1> QED BY <1>1, <1>2, <1>3, <1>4 DEF IdsNeverReturn, IdsGrow, FreeFits, NoRepeat, Members, Open

(* No id is given to two connections, and what a connection hands on are    *)
(* the frames its peer sent, whole and in order, however the bytes arrive:  *)
(* for any number of slots and any schedule of reads, sends and closings.   *)
THEOREM TransportCorrect == TransportSpec => [](IdsNeverReturn /\ FramesAreCut)
BY NetStarts, NetSteps, NetSafe, PTL DEF TransportSpec

------------------------------------------------------------------------------
(* The client's connection, its threads and the caller that starts and      *)
(* joins them.                                                              *)

ClientPlaces == {"idle", "send", "wait", "begin", "stop", "join", "close", "dial", "try",
           "first", "start", "up", "none", "recv", "frame", "lost", "detach", "fail", "down", "ended"}
Frames == [kind : {"response", "event"}, id : Nat]

ClientTypes ==
    /\ clReconnects \in BOOLEAN
    /\ clPc \in [Actors -> ClientPlaces]
    /\ clFrame \in [RecvThreads -> Frames \cup {NoFrame}]
    /\ clLink \in [open : BOOLEAN, alive : BOOLEAN, inbox : Seq(Frames), owed : SUBSET Nat]
    /\ clNext \in Nat /\ clNext >= 1
    /\ clWaits \in Nat /\ clPending \subseteq Nat /\ clTaken \subseteq Nat
    /\ clQueue \in Seq(Nat) /\ clHeard \in Seq(Nat)
    /\ clPushed \in Nat

(* A thread holds a frame only while it is at one.                          *)
FramesInPlace == \A t \in RecvThreads : clPc[t] # "frame" => clFrame[t] = NoFrame

(* With reconnection off only the caller starts and joins threads, and the  *)
(* handle stands for the one thread that is running.                        *)
CallerAlone ==
    /\ ~clTerminated
    /\ \A t \in RecvThreads :
          /\ clPc[t] \in {"none", "recv", "frame", "lost", "fail", "down", "ended"}
          /\ clPc[t] \notin {"none", "ended"} => t = clHandle
    /\ clPc[User] \in {"idle", "stop", "join", "close", "dial", "first", "start", "up", "send",
                      "wait"}
    /\ clHandle # NoThread <=> clRunning \/ clPc[User] = "join"
    /\ clPc[User] \in {"join", "close", "dial", "first", "start"} => ~clRunning
    /\ clPc[User] = "join" => clJoin[User] = clHandle
    /\ clPc[User] \in {"stop", "join", "close"} => clGoal \in {"connect", "disconnect"}
    /\ clJoin = [a \in Actors |-> clJoin[a]]

(* Every response on its way is to a request that was made and has no       *)
(* other answer.                                                            *)
Spoken(r, owed, inbox, frame) ==
    \/ r \in owed
    \/ \E i \in 1 .. Len(inbox) : inbox[i].kind = "response" /\ inbox[i].id = r
    \/ \E t \in RecvThreads : frame[t].kind = "response" /\ frame[t].id = r

AnswersFit(owed, inbox, frame, pending, taken, next) ==
    /\ \A r \in Nat : r \in pending \cup taken \/ Spoken(r, owed, inbox, frame) => r < next
    /\ \A r \in Nat : r \in pending \cup taken => ~Spoken(r, owed, inbox, frame)
    /\ pending \cap taken = {}
    /\ \A i \in 1 .. Len(inbox) : inbox[i].kind = "response" =>
          /\ inbox[i].id \notin owed
          /\ \A j \in 1 .. Len(inbox) : j # i /\ inbox[j].kind = "response" => inbox[j].id # inbox[i].id
          /\ \A t \in RecvThreads : frame[t].kind = "response" => frame[t].id # inbox[i].id
    /\ \A t \in RecvThreads : frame[t].kind = "response" =>
          /\ frame[t].id \notin owed
          /\ \A u \in RecvThreads : u # t /\ frame[u].kind = "response" => frame[u].id # frame[t].id

(* A request that is not sent yet has no answer on its way.                 *)
Unspoken ==
    clPc[User] = "send" =>
        /\ clWaits < clNext /\ clWaits \notin clPending \cup clTaken
        /\ ~Spoken(clWaits, clLink.owed, clLink.inbox, clFrame)

(* Every event is in one place; in order, if one thread receives.           *)
EventsFit(all, inbox, frame, pushed, ordered) ==
    /\ \A i \in 1 .. Len(all) :
          /\ all[i] \in 1 .. pushed
          /\ \A j \in 1 .. Len(all) : i < j => all[i] # all[j] /\ (ordered => all[i] < all[j])
          /\ \A j \in 1 .. Len(inbox) : inbox[j].kind = "event" =>
                inbox[j].id # all[i] /\ (ordered => all[i] < inbox[j].id)
          /\ \A t \in RecvThreads : frame[t].kind = "event" =>
                frame[t].id # all[i] /\ (ordered => all[i] < frame[t].id)
    /\ \A i \in 1 .. Len(inbox) : inbox[i].kind = "event" =>
          /\ inbox[i].id \in 1 .. pushed
          /\ \A j \in 1 .. Len(inbox) : i < j /\ inbox[j].kind = "event" => inbox[i].id < inbox[j].id
          /\ \A t \in RecvThreads : frame[t].kind = "event" =>
                frame[t].id # inbox[i].id /\ (ordered => frame[t].id < inbox[i].id)
    /\ \A t \in RecvThreads : frame[t].kind = "event" =>
          /\ frame[t].id \in 1 .. pushed
          /\ \A u \in RecvThreads : u # t /\ frame[u].kind = "event" => frame[u].id # frame[t].id

ClientIInv ==
    /\ ClientTypes /\ FramesInPlace
    /\ ~clReconnects => CallerAlone
    /\ AnswersFit(clLink.owed, clLink.inbox, clFrame, clPending, clTaken, clNext)
    /\ Unspoken
    /\ EventsFit(clHeard \o clQueue, clLink.inbox, clFrame, clPushed, ~clReconnects)

------------------------------------------------------------------------------
(* What becomes of answers and events when the link or a thread's frame     *)
(* changes.                                                                 *)
FrameMap == [RecvThreads -> Frames \cup {NoFrame}]

LEMMA ActorsAre == /\ User \in Actors /\ User \notin RecvThreads /\ RecvThreads \subseteq Actors
                   /\ NoThread \notin RecvThreads
BY ClientNetAssumption DEF User, Actors, RecvThreads, NoThread

LEMMA NoFrameKind == NoFrame.kind = "none" /\ NoFrame \notin Frames
BY DEF NoFrame, Frames

(* A list that stays or is emptied.                                         *)
SameOrNone(list, before) == list = before \/ list = <<>>

LEMMA ConcatAppend ==
  ASSUME NEW S, NEW s \in Seq(S), NEW t \in Seq(S), NEW e \in S
  PROVE  s \o Append(t, e) = Append(s \o t, e)
<1>1. <<e>> \in Seq(S) /\ s \o t \in Seq(S) BY ConcatProperties
<1>2. (s \o t) \o <<e>> = s \o (t \o <<e>>) BY <1>1, ConcatAssociative
<1> QED BY <1>1, <1>2, AppendIsConcat

(* The first of one list moves behind the other.                            *)
LEMMA MovedAcross ==
  ASSUME NEW S, NEW s \in Seq(S), NEW t \in Seq(S), t # <<>>
  PROVE  /\ Append(s, Head(t)) \in Seq(S) /\ Tail(t) \in Seq(S)
         /\ Append(s, Head(t)) \o Tail(t) = s \o t
<1> DEFINE h == Head(t)
           u == Tail(t)
<1>1. h \in S /\ u \in Seq(S) /\ t = <<h>> \o u BY HeadTailProperties
<1> HIDE DEF h, u
<1>2. <<h>> \in Seq(S) /\ Append(s, h) = s \o <<h>> /\ Append(s, h) \in Seq(S)
  BY <1>1, AppendIsConcat, AppendProperties
<1> QED BY <1>1, <1>2, ConcatAssociative DEF h, u

(* Fewer answers owed, kept or under way.                                   *)
LEMMA AnswersFewer ==
  ASSUME NEW owed, NEW inbox, NEW frame, NEW pending, NEW taken, NEW next,
         AnswersFit(owed, inbox, frame, pending, taken, next),
         NEW owed2 \in SUBSET owed, NEW pending2 \in SUBSET pending,
         NEW inbox2, SameOrNone(inbox2, inbox)
  PROVE  /\ AnswersFit(owed2, inbox2, frame, pending2, taken, next)
         /\ \A r : Spoken(r, owed2, inbox2, frame) => Spoken(r, owed, inbox, frame)
<1>1. CASE inbox2 = inbox BY <1>1 DEF AnswersFit, Spoken
<1>2. CASE inbox2 = <<>> BY <1>2 DEF AnswersFit, Spoken
<1> QED BY <1>1, <1>2 DEF SameOrNone

(* A thread takes the first frame of the link.                              *)
LEMMA AnswersReceive ==
  ASSUME NEW owed, NEW inbox \in Seq(Frames), NEW frame \in FrameMap, NEW pending, NEW taken,
         NEW next, AnswersFit(owed, inbox, frame, pending, taken, next),
         inbox # <<>>, NEW t \in RecvThreads, frame[t] = NoFrame
  PROVE  LET frame2 == [frame EXCEPT ![t] = Head(inbox)] IN
         /\ AnswersFit(owed, Tail(inbox), frame2, pending, taken, next)
         /\ \A r : Spoken(r, owed, Tail(inbox), frame2) => Spoken(r, owed, inbox, frame)
<1> DEFINE f == Head(inbox)
           frame2 == [frame EXCEPT ![t] = f]
           tail == Tail(inbox)
<1>1. /\ f = inbox[1] /\ Len(inbox) \in Nat \ {0} /\ Len(tail) = Len(inbox) - 1
      /\ \A i \in 1 .. Len(tail) : tail[i] = inbox[i + 1] /\ i + 1 \in 1 .. Len(inbox)
  BY TailOf
<1>2. \A u \in RecvThreads : frame2[u] = IF u = t THEN f ELSE frame[u] BY DEF FrameMap
<1> HIDE DEF f, frame2, tail
<1>3. ASSUME NEW r, Spoken(r, owed, tail, frame2) PROVE Spoken(r, owed, inbox, frame)
  <2>1. CASE \E i \in 1 .. Len(tail) : tail[i].kind = "response" /\ tail[i].id = r
    BY <1>1, <2>1 DEF Spoken
  <2>2. CASE \E u \in RecvThreads : frame2[u].kind = "response" /\ frame2[u].id = r
    <3>1. PICK u \in RecvThreads : frame2[u].kind = "response" /\ frame2[u].id = r BY <2>2
    <3>2. CASE u = t BY <1>1, <1>2, <3>1, <3>2 DEF Spoken
    <3>3. CASE u # t BY <1>2, <3>1, <3>3 DEF Spoken
    <3> QED BY <3>2, <3>3
  <2> QED BY <1>3, <2>1, <2>2 DEF Spoken
<1>4. ASSUME NEW i \in 1 .. Len(tail), tail[i].kind = "response"
      PROVE  /\ tail[i].id \notin owed
             /\ \A j \in 1 .. Len(tail) : j # i /\ tail[j].kind = "response" => tail[j].id # tail[i].id
             /\ \A u \in RecvThreads : frame2[u].kind = "response" => frame2[u].id # tail[i].id
  <2>1. /\ i + 1 \in 1 .. Len(inbox) /\ tail[i] = inbox[i + 1] /\ i + 1 # 1
        /\ 1 \in 1 .. Len(inbox)
    BY <1>1
  <2>2. /\ inbox[i + 1].id \notin owed
        /\ \A j \in 1 .. Len(inbox) : j # i + 1 /\ inbox[j].kind = "response" => inbox[j].id # inbox[i + 1].id
        /\ \A u \in RecvThreads : frame[u].kind = "response" => frame[u].id # inbox[i + 1].id
    BY <1>4, <2>1 DEF AnswersFit
  <2>3. \A j \in 1 .. Len(tail) : j # i /\ tail[j].kind = "response" => tail[j].id # tail[i].id
    <3> TAKE j \in 1 .. Len(tail)
    <3>1. j + 1 \in 1 .. Len(inbox) /\ tail[j] = inbox[j + 1] /\ (j # i => j + 1 # i + 1) BY <1>1
    <3> QED BY <2>1, <2>2, <3>1
  <2> QED BY <1>1, <1>2, <2>1, <2>2, <2>3
<1>5. ASSUME NEW u \in RecvThreads, frame2[u].kind = "response"
      PROVE  /\ frame2[u].id \notin owed
             /\ \A v \in RecvThreads : v # u /\ frame2[v].kind = "response" => frame2[v].id # frame2[u].id
  BY <1>1, <1>2, <1>5 DEF AnswersFit
<1> QED BY <1>3, <1>4, <1>5 DEF f, frame2, tail, AnswersFit

(* The frame in a thread's hands is dealt with.                             *)
LEMMA AnswersOnFrame ==
  ASSUME NEW owed, NEW inbox \in Seq(Frames), NEW frame \in FrameMap, NEW pending \in SUBSET Nat,
         NEW taken, NEW next, AnswersFit(owed, inbox, frame, pending, taken, next),
         NEW t \in RecvThreads
  PROVE  LET f == frame[t]
             frame2 == [frame EXCEPT ![t] = NoFrame]
             pending2 == IF f.kind = "response" THEN pending \cup {f.id} ELSE pending IN
         /\ AnswersFit(owed, inbox, frame2, pending2, taken, next)
         /\ \A r : Spoken(r, owed, inbox, frame2) => Spoken(r, owed, inbox, frame)
         /\ \A r \in pending2 : r \in pending \/ Spoken(r, owed, inbox, frame)
<1> DEFINE f == frame[t]
           frame2 == [frame EXCEPT ![t] = NoFrame]
           pending2 == IF f.kind = "response" THEN pending \cup {f.id} ELSE pending
<1>1. \A u \in RecvThreads : frame2[u] = IF u = t THEN NoFrame ELSE frame[u] BY DEF FrameMap
<1>2. NoFrame.kind # "response" BY NoFrameKind
<1>3. f.kind = "response" => f.id \in Nat /\ Spoken(f.id, owed, inbox, frame)
  BY <1>2 DEF Spoken, Frames, FrameMap
<1> HIDE DEF frame2
<1>4. \A r : Spoken(r, owed, inbox, frame2) => Spoken(r, owed, inbox, frame)
  BY <1>1, <1>2 DEF Spoken
<1>5. f.kind = "response" => ~Spoken(f.id, owed, inbox, frame2)
  BY <1>1, <1>2 DEF Spoken, AnswersFit
<1>6. f.kind = "response" => f.id \notin taken /\ f.id < next BY <1>3 DEF AnswersFit
<1>7. /\ pending2 \subseteq Nat
      /\ \A r \in pending2 : r \in pending \/ (f.kind = "response" /\ r = f.id)
  BY <1>3
<1> HIDE DEF pending2, f
<1>8. AnswersFit(owed, inbox, frame2, pending2, taken, next)
  <2>1. ASSUME NEW r \in Nat, r \in pending2 \cup taken \/ Spoken(r, owed, inbox, frame2)
        PROVE  r < next
    BY <1>4, <1>6, <1>7, <2>1 DEF AnswersFit
  <2>2. ASSUME NEW r \in Nat, r \in pending2 \cup taken PROVE ~Spoken(r, owed, inbox, frame2)
    BY <1>4, <1>5, <1>7, <2>2 DEF AnswersFit
  <2> QED BY <1>1, <1>2, <1>6, <1>7, <2>1, <2>2 DEF AnswersFit
<1> QED BY <1>3, <1>4, <1>7, <1>8 DEF f, frame2, pending2

(* A frame goes into the link: an event, or the answer to a request owed.   *)
LEMMA AnswersAppend ==
  ASSUME NEW owed \in SUBSET Nat, NEW inbox \in Seq(Frames), NEW frame \in FrameMap,
         NEW pending, NEW taken, NEW next,
         AnswersFit(owed, inbox, frame, pending, taken, next), NEW g \in Frames,
         g.kind = "response" => g.id \in owed
  PROVE  LET owed2 == IF g.kind = "response" THEN owed \ {g.id} ELSE owed IN
         /\ AnswersFit(owed2, Append(inbox, g), frame, pending, taken, next)
         /\ \A r : Spoken(r, owed2, Append(inbox, g), frame) => Spoken(r, owed, inbox, frame)
<1> DEFINE owed2 == IF g.kind = "response" THEN owed \ {g.id} ELSE owed
           box == Append(inbox, g)
           n == Len(inbox)
<1>1. /\ n \in Nat /\ Len(box) = n + 1
      /\ \A i \in 1 .. n + 1 : box[i] = IF i = n + 1 THEN g ELSE inbox[i]
  BY AppendOf
<1>2. owed2 \subseteq owed /\ (g.kind = "response" => g.id \notin owed2) OBVIOUS
<1> HIDE DEF owed2, box
<1>3. \A i \in 1 .. Len(box) : \/ i \in 1 .. n /\ box[i] = inbox[i]
                               \/ i = n + 1 /\ box[i] = g
  BY <1>1
<1>4. ASSUME NEW r, Spoken(r, owed2, box, frame) PROVE Spoken(r, owed, inbox, frame)
  BY <1>2, <1>3, <1>4 DEF Spoken
<1>5. g.kind = "response" =>
        /\ \A j \in 1 .. n : inbox[j].kind = "response" => inbox[j].id # g.id
        /\ \A t \in RecvThreads : frame[t].kind = "response" => frame[t].id # g.id
  BY DEF AnswersFit
<1>6. ASSUME NEW i \in 1 .. Len(box), box[i].kind = "response"
      PROVE  /\ box[i].id \notin owed2
             /\ \A j \in 1 .. Len(box) : j # i /\ box[j].kind = "response" => box[j].id # box[i].id
             /\ \A t \in RecvThreads : frame[t].kind = "response" => frame[t].id # box[i].id
  <2>1. CASE i \in 1 .. n /\ box[i] = inbox[i] BY <1>2, <1>3, <1>5, <1>6, <2>1 DEF AnswersFit
  <2>2. CASE i = n + 1 /\ box[i] = g BY <1>2, <1>3, <1>5, <1>6, <2>2 DEF AnswersFit
  <2> QED BY <1>3, <2>1, <2>2
<1> QED BY <1>2, <1>4, <1>6 DEF owed2, box, AnswersFit

------------------------------------------------------------------------------
LEMMA EventsCut ==
  ASSUME NEW all, NEW inbox, NEW frame, NEW pushed, NEW ordered,
         EventsFit(all, inbox, frame, pushed, ordered), NEW inbox2, SameOrNone(inbox2, inbox)
  PROVE  EventsFit(all, inbox2, frame, pushed, ordered)
<1>1. CASE inbox2 = inbox BY <1>1
<1>2. CASE inbox2 = <<>> BY <1>2 DEF EventsFit
<1> QED BY <1>1, <1>2 DEF SameOrNone

LEMMA EventsReceive ==
  ASSUME NEW all \in Seq(Nat), NEW inbox \in Seq(Frames), NEW frame \in FrameMap,
         NEW pushed \in Nat, NEW ordered \in BOOLEAN,
         EventsFit(all, inbox, frame, pushed, ordered), inbox # <<>>,
         NEW t \in RecvThreads, frame[t] = NoFrame
  PROVE  EventsFit(all, Tail(inbox), [frame EXCEPT ![t] = Head(inbox)], pushed, ordered)
<1> DEFINE f == Head(inbox)
           frame2 == [frame EXCEPT ![t] = f]
           tail == Tail(inbox)
<1>1. /\ f = inbox[1] /\ Len(inbox) \in Nat \ {0} /\ Len(tail) = Len(inbox) - 1
      /\ \A i \in 1 .. Len(tail) : tail[i] = inbox[i + 1] /\ i + 1 \in 1 .. Len(inbox)
  BY TailOf
<1>2. \A u \in RecvThreads : frame2[u] = IF u = t THEN f ELSE frame[u] BY DEF FrameMap
<1>3. 1 \in 1 .. Len(inbox) BY <1>1
<1> HIDE DEF f, frame2, tail
<1>4. /\ \A i \in 1 .. Len(inbox) : inbox[i].kind = "event" => inbox[i].id \in 1 .. pushed
      /\ \A i, j \in 1 .. Len(inbox) :
            inbox[i].kind = "event" /\ inbox[j].kind = "event" /\ i < j => inbox[i].id < inbox[j].id
      /\ pushed \in Nat
  BY DEF EventsFit
<1>5. \A i \in 1 .. Len(inbox), u \in RecvThreads :
        inbox[i].kind = "event" /\ frame[u].kind = "event" =>
          frame[u].id # inbox[i].id /\ (ordered => frame[u].id < inbox[i].id)
  BY DEF EventsFit
<1>6. /\ \A u \in RecvThreads : frame[u].kind = "event" => frame[u].id \in 1 .. pushed
      /\ \A u, v \in RecvThreads :
            u # v /\ frame[u].kind = "event" /\ frame[v].kind = "event" => frame[u].id # frame[v].id
  BY DEF EventsFit
<1>7. ASSUME NEW i \in 1 .. Len(all)
      PROVE  /\ all[i] \in 1 .. pushed
             /\ \A j \in 1 .. Len(all) : i < j => all[i] # all[j] /\ (ordered => all[i] < all[j])
             /\ \A j \in 1 .. Len(tail) : tail[j].kind = "event" =>
                   tail[j].id # all[i] /\ (ordered => all[i] < tail[j].id)
             /\ \A u \in RecvThreads : frame2[u].kind = "event" =>
                   frame2[u].id # all[i] /\ (ordered => all[i] < frame2[u].id)
  <2>1. \A j \in 1 .. Len(inbox) : inbox[j].kind = "event" =>
           inbox[j].id # all[i] /\ (ordered => all[i] < inbox[j].id)
    BY DEF EventsFit
  <2>2. \A u \in RecvThreads : frame[u].kind = "event" =>
           frame[u].id # all[i] /\ (ordered => all[i] < frame[u].id)
    BY DEF EventsFit
  <2>3. /\ all[i] \in 1 .. pushed
        /\ \A j \in 1 .. Len(all) : i < j => all[i] # all[j] /\ (ordered => all[i] < all[j])
    BY DEF EventsFit
  <2>4. \A j \in 1 .. Len(tail) : tail[j].kind = "event" =>
           tail[j].id # all[i] /\ (ordered => all[i] < tail[j].id)
    BY ONLY <1>1, <2>1
  <2>5. \A u \in RecvThreads : frame2[u].kind = "event" =>
           frame2[u].id # all[i] /\ (ordered => all[i] < frame2[u].id)
    BY ONLY <1>1, <1>2, <1>3, <2>1, <2>2
  <2> QED BY ONLY <2>3, <2>4, <2>5
<1>8. ASSUME NEW i \in 1 .. Len(tail), tail[i].kind = "event"
      PROVE  /\ tail[i].id \in 1 .. pushed
             /\ \A j \in 1 .. Len(tail) : i < j /\ tail[j].kind = "event" => tail[i].id < tail[j].id
             /\ \A u \in RecvThreads : frame2[u].kind = "event" =>
                   frame2[u].id # tail[i].id /\ (ordered => frame2[u].id < tail[i].id)
  <2>1. i + 1 \in 1 .. Len(inbox) /\ tail[i] = inbox[i + 1] /\ 1 < i + 1 /\ inbox[i + 1].kind = "event"
    BY <1>1, <1>8
  <2>2. tail[i].id \in 1 .. pushed BY ONLY <1>4, <2>1
  <2>3. ASSUME NEW j \in 1 .. Len(tail), i < j, tail[j].kind = "event"
        PROVE  tail[i].id < tail[j].id
    <3>1. j + 1 \in 1 .. Len(inbox) /\ tail[j] = inbox[j + 1] BY ONLY <1>1
    <3>2. i + 1 < j + 1
      <4>1. Len(tail) \in Int BY ONLY <1>1
      <4> QED BY ONLY <2>3, <4>1
    <3> QED BY ONLY <1>4, <2>1, <2>3, <3>1, <3>2
  <2>4. ASSUME NEW u \in RecvThreads, frame2[u].kind = "event"
        PROVE  frame2[u].id # tail[i].id /\ (ordered => frame2[u].id < tail[i].id)
    <3>1. CASE u = t
      <4>1. frame2[u] = inbox[1] /\ inbox[1].kind = "event" BY ONLY <1>1, <1>2, <2>4, <3>1
      <4>2. inbox[1].id < inbox[i + 1].id BY ONLY <1>3, <1>4, <2>1, <4>1
      <4>3. inbox[1].id \in Nat /\ inbox[i + 1].id \in Nat BY ONLY <1>3, <1>4, <2>1, <4>1
      <4> QED BY ONLY <2>1, <4>1, <4>2, <4>3
    <3>2. CASE u # t
      <4>1. frame2[u] = frame[u] /\ frame[u].kind = "event" BY ONLY <1>2, <2>4, <3>2
      <4> QED BY ONLY <1>5, <2>1, <4>1
    <3> QED BY <3>1, <3>2
  <2> QED BY <2>2, <2>3, <2>4
<1>9. ASSUME NEW u \in RecvThreads, frame2[u].kind = "event"
      PROVE  /\ frame2[u].id \in 1 .. pushed
             /\ \A v \in RecvThreads : v # u /\ frame2[v].kind = "event" => frame2[v].id # frame2[u].id
  <2>1. frame2[u].id \in 1 .. pushed BY ONLY <1>1, <1>2, <1>3, <1>4, <1>6, <1>9
  <2>2. ASSUME NEW v \in RecvThreads, v # u, frame2[v].kind = "event"
        PROVE  frame2[v].id # frame2[u].id
    <3>1. CASE u = t
      <4>1. frame2[u] = inbox[1] /\ inbox[1].kind = "event" /\ frame2[v] = frame[v]
        BY ONLY <1>1, <1>2, <1>9, <2>2, <3>1
      <4> QED BY ONLY <1>3, <1>5, <2>2, <4>1
    <3>2. CASE v = t
      <4>1. frame2[v] = inbox[1] /\ inbox[1].kind = "event" /\ frame2[u] = frame[u]
        BY ONLY <1>1, <1>2, <1>9, <2>2, <3>2
      <4> QED BY ONLY <1>3, <1>5, <1>9, <4>1
    <3>3. CASE u # t /\ v # t
      <4>1. frame2[u] = frame[u] /\ frame2[v] = frame[v] BY ONLY <1>2, <2>2, <3>3
      <4> QED BY ONLY <1>6, <1>9, <2>2, <4>1
    <3> QED BY <3>1, <3>2, <3>3
  <2> QED BY <2>1, <2>2
<1>10. EventsFit(all, tail, frame2, pushed, ordered) BY ONLY <1>7, <1>8, <1>9 DEF EventsFit
<1> QED BY <1>10 DEF f, frame2, tail

WithEvent(all, f) == IF f.kind = "event" THEN Append(all, f.id) ELSE all
OnlyFrame(frame, t) == \A u \in RecvThreads \ {t} : frame[u] = NoFrame
PutDown(frame, t) == [frame EXCEPT ![t] = NoFrame]

(* A thread puts its event down behind the others.                          *)
LEMMA EventsOnFrame ==
  ASSUME NEW all \in Seq(Nat), NEW inbox \in Seq(Frames), NEW frame \in FrameMap,
         NEW pushed \in Nat, NEW ordered \in BOOLEAN,
         EventsFit(all, inbox, frame, pushed, ordered), NEW t \in RecvThreads,
         ordered => OnlyFrame(frame, t)
  PROVE  EventsFit(WithEvent(all, frame[t]), inbox, PutDown(frame, t), pushed, ordered)
<1> DEFINE f == frame[t]
           frame2 == PutDown(frame, t)
           all2 == WithEvent(all, f)
           n == Len(all)
<1>1. \A u \in RecvThreads : frame2[u] = IF u = t THEN NoFrame ELSE frame[u]
  BY DEF FrameMap, PutDown
<1>2. NoFrame.kind # "event" BY NoFrameKind
<1>3. f.kind = "event" => f.id \in Nat BY <1>2 DEF Frames, FrameMap
<1>4. n \in Nat BY LenProperties
<1>5. \A i \in 1 .. Len(all2) : \/ i \in 1 .. n /\ all2[i] = all[i]
                                \/ i = n + 1 /\ f.kind = "event" /\ all2[i] = f.id
  <2>1. CASE f.kind = "event" BY <1>3, <1>4, <2>1, AppendOf DEF WithEvent
  <2>2. CASE f.kind # "event" BY <2>2 DEF WithEvent
  <2> QED BY <2>1, <2>2
<1> HIDE DEF all2, frame2
<1>6. ASSUME NEW i \in 1 .. Len(all2)
      PROVE  /\ all2[i] \in 1 .. pushed
             /\ \A j \in 1 .. Len(inbox) : inbox[j].kind = "event" =>
                   inbox[j].id # all2[i] /\ (ordered => all2[i] < inbox[j].id)
             /\ \A u \in RecvThreads : frame2[u].kind = "event" =>
                   frame2[u].id # all2[i] /\ (ordered => all2[i] < frame2[u].id)
  <2>1. CASE i \in 1 .. n /\ all2[i] = all[i] BY <1>1, <1>2, <2>1 DEF EventsFit
  <2>2. CASE i = n + 1 /\ f.kind = "event" /\ all2[i] = f.id
    BY <1>1, <1>2, <2>2 DEF EventsFit, OnlyFrame
  <2> QED BY <1>5, <2>1, <2>2
<1>7. ASSUME NEW i \in 1 .. Len(all2), NEW j \in 1 .. Len(all2), i < j
      PROVE  all2[i] # all2[j] /\ (ordered => all2[i] < all2[j])
  <2>1. i \in 1 .. n /\ all2[i] = all[i] BY <1>4, <1>5, <1>7
  <2>2. CASE j \in 1 .. n /\ all2[j] = all[j] BY <1>7, <2>1, <2>2 DEF EventsFit
  <2>3. CASE j = n + 1 /\ f.kind = "event" /\ all2[j] = f.id BY <2>1, <2>3 DEF EventsFit
  <2> QED BY <1>5, <2>2, <2>3
<1>8. ASSUME NEW i \in 1 .. Len(inbox), inbox[i].kind = "event"
      PROVE  /\ inbox[i].id \in 1 .. pushed
             /\ \A j \in 1 .. Len(inbox) : i < j /\ inbox[j].kind = "event" => inbox[i].id < inbox[j].id
             /\ \A u \in RecvThreads : frame2[u].kind = "event" =>
                   frame2[u].id # inbox[i].id /\ (ordered => frame2[u].id < inbox[i].id)
  BY <1>1, <1>2, <1>8 DEF EventsFit
<1>9. ASSUME NEW u \in RecvThreads, frame2[u].kind = "event"
      PROVE  /\ frame2[u].id \in 1 .. pushed
             /\ \A v \in RecvThreads : v # u /\ frame2[v].kind = "event" => frame2[v].id # frame2[u].id
  BY <1>1, <1>2, <1>9 DEF EventsFit
<1>10. EventsFit(all2, inbox, frame2, pushed, ordered)
  BY ONLY <1>6, <1>7, <1>8, <1>9 DEF EventsFit
<1> QED BY <1>10 DEF all2, frame2

LEMMA EventsAppend ==
  ASSUME NEW all, NEW inbox \in Seq(Frames), NEW frame \in FrameMap,
         NEW pushed \in Nat, NEW ordered \in BOOLEAN,
         EventsFit(all, inbox, frame, pushed, ordered), NEW g \in Frames,
         NEW pushed2 \in Nat, pushed <= pushed2,
         g.kind = "event" => pushed2 = pushed + 1 /\ g.id = pushed + 1
  PROVE  EventsFit(all, Append(inbox, g), frame, pushed2, ordered)
<1> DEFINE box == Append(inbox, g)
           n == Len(inbox)
<1>1. /\ n \in Nat /\ Len(box) = n + 1
      /\ \A i \in 1 .. n + 1 : box[i] = IF i = n + 1 THEN g ELSE inbox[i]
  BY AppendOf
<1> HIDE DEF box
<1>2. \A i \in 1 .. Len(box) : \/ i \in 1 .. n /\ box[i] = inbox[i]
                               \/ i = n + 1 /\ box[i] = g
  BY <1>1
<1>3. 1 .. pushed \subseteq 1 .. pushed2
      /\ (g.kind = "event" => g.id \in 1 .. pushed2 /\ \A k \in 1 .. pushed : k < g.id /\ k # g.id)
  OBVIOUS
<1>4. ASSUME NEW i \in 1 .. Len(all)
      PROVE  /\ all[i] \in 1 .. pushed2
             /\ \A j \in 1 .. Len(box) : box[j].kind = "event" =>
                   box[j].id # all[i] /\ (ordered => all[i] < box[j].id)
  <2>1. all[i] \in 1 .. pushed BY DEF EventsFit
  <2>2. ASSUME NEW j \in 1 .. Len(box), box[j].kind = "event"
        PROVE  box[j].id # all[i] /\ (ordered => all[i] < box[j].id)
    <3>1. CASE j \in 1 .. n /\ box[j] = inbox[j] BY <2>2, <3>1 DEF EventsFit
    <3>2. CASE j = n + 1 /\ box[j] = g BY <1>3, <2>1, <2>2, <3>2
    <3> QED BY <1>2, <3>1, <3>2
  <2> QED BY <1>3, <2>1, <2>2
<1>5. ASSUME NEW i \in 1 .. Len(box), box[i].kind = "event"
      PROVE  /\ box[i].id \in 1 .. pushed2
             /\ \A j \in 1 .. Len(box) : i < j /\ box[j].kind = "event" => box[i].id < box[j].id
             /\ \A t \in RecvThreads : frame[t].kind = "event" =>
                   frame[t].id # box[i].id /\ (ordered => frame[t].id < box[i].id)
  <2>1. CASE i \in 1 .. n /\ box[i] = inbox[i]
    <3>1. inbox[i].id \in 1 .. pushed BY <1>5, <2>1 DEF EventsFit
    <3>2. ASSUME NEW j \in 1 .. Len(box), i < j, box[j].kind = "event" PROVE box[i].id < box[j].id
      <4>1. CASE j \in 1 .. n /\ box[j] = inbox[j] BY <1>5, <2>1, <3>2, <4>1 DEF EventsFit
      <4>2. CASE j = n + 1 /\ box[j] = g BY <1>3, <2>1, <3>1, <3>2, <4>2
      <4> QED BY <1>2, <4>1, <4>2
    <3> QED BY <1>3, <1>5, <2>1, <3>1, <3>2 DEF EventsFit
  <2>2. CASE i = n + 1 /\ box[i] = g
    <3>1. \A t \in RecvThreads : frame[t].kind = "event" => frame[t].id \in 1 .. pushed
      BY DEF EventsFit
    <3> QED BY <1>1, <1>3, <1>5, <2>2, <3>1
  <2> QED BY <1>2, <2>1, <2>2
<1>6. EventsFit(all, box, frame, pushed2, ordered)
  <2>1. \A i \in 1 .. Len(all) :
          /\ \A j \in 1 .. Len(all) : i < j => all[i] # all[j] /\ (ordered => all[i] < all[j])
          /\ \A t \in RecvThreads : frame[t].kind = "event" =>
                frame[t].id # all[i] /\ (ordered => all[i] < frame[t].id)
    BY DEF EventsFit
  <2>2. \A t \in RecvThreads : frame[t].kind = "event" =>
           \A u \in RecvThreads : u # t /\ frame[u].kind = "event" => frame[u].id # frame[t].id
    BY DEF EventsFit
  <2> QED BY <1>3, <1>4, <1>5, <2>1, <2>2 DEF EventsFit
<1> QED BY <1>6 DEF box

------------------------------------------------------------------------------
LEMMA ClientStarts == ClientInit => ClientIInv
<1> SUFFICES ASSUME ClientInit PROVE ClientIInv OBVIOUS
<1>1. \A t \in RecvThreads : clFrame[t] = NoFrame /\ clFrame[t].kind = "none"
  BY NoFrameKind DEF ClientInit
<1>2. /\ \A t \in RecvThreads : clPc[t] = "none"
      /\ clPc[User] = "idle"
  BY ActorsAre DEF ClientInit
<1>3. CallerAlone BY <1>2 DEF ClientInit, CallerAlone, NoThread
<1>4. clLink.inbox = <<>> /\ clLink.owed = {} /\ Len(<<>>) = 0 BY DEF ClientInit, ClosedLink
<1>5. AnswersFit(clLink.owed, clLink.inbox, clFrame, clPending, clTaken, clNext)
  BY <1>1, <1>4 DEF AnswersFit, ClientInit, Spoken
<1>6. EventsFit(clHeard \o clQueue, clLink.inbox, clFrame, clPushed, ~clReconnects)
  BY <1>1, <1>4, ConcatEmptySeq, EmptySeq DEF EventsFit, ClientInit
<1> QED
  BY <1>1, <1>2, <1>3, <1>5, <1>6, EmptySeq DEF ClientIInv, FramesInPlace, Unspoken, ClientInit,
     ClientTypes, ClientPlaces, ClosedLink

(* A step that moves threads and at most cuts the link.                     *)
LEMMA ThreadsMove ==
  ASSUME ClientIInv,
         clPc' \in [Actors -> ClientPlaces],
         \A t \in RecvThreads : clPc'[t] # "frame" => clPc[t] # "frame",
         clPc'[User] = "send" => clPc[User] = "send",
         clLink' \in {clLink, ClosedLink, NewLink, [clLink EXCEPT !.alive = FALSE]},
         clPending' \in SUBSET clPending,
         UNCHANGED <<clReconnects, clFrame, clNext, clWaits, clTaken, clQueue, clHeard, clPushed>>,
         ~clReconnects => CallerAlone'
  PROVE  ClientIInv'
<1>1. /\ SameOrNone(clLink'.inbox, clLink.inbox) /\ clLink'.owed \in SUBSET clLink.owed
      /\ clLink' \in [open : BOOLEAN, alive : BOOLEAN, inbox : Seq(Frames), owed : SUBSET Nat]
  <2>1. CASE clLink' \in {ClosedLink, NewLink}
    <3>1. PICK up \in BOOLEAN : clLink' = [open |-> up, alive |-> up, inbox |-> <<>>, owed |-> {}]
      BY <2>1 DEF ClosedLink, NewLink
    <3>2. clLink'.inbox = <<>> /\ clLink'.owed = {} BY <3>1
    <3> QED BY <3>1, <3>2, EmptySeq DEF SameOrNone
  <2>2. CASE clLink' \in {clLink, [clLink EXCEPT !.alive = FALSE]}
    BY <2>2 DEF SameOrNone, ClientIInv, ClientTypes
  <2> QED BY <2>1, <2>2
<1>2. /\ AnswersFit(clLink'.owed, clLink'.inbox, clFrame, clPending', clTaken, clNext)
      /\ \A r : Spoken(r, clLink'.owed, clLink'.inbox, clFrame)
                  => Spoken(r, clLink.owed, clLink.inbox, clFrame)
  <2>1. AnswersFit(clLink.owed, clLink.inbox, clFrame, clPending, clTaken, clNext)
    BY DEF ClientIInv
  <2>2. /\ clLink'.owed \in SUBSET clLink.owed /\ clPending' \in SUBSET clPending
        /\ SameOrNone(clLink'.inbox, clLink.inbox)
    BY <1>1
  <2> QED BY ONLY <2>1, <2>2, AnswersFewer
<1>3. ClientTypes' BY <1>1 DEF ClientIInv, ClientTypes
<1>4. FramesInPlace' BY DEF ClientIInv, FramesInPlace
<1>5. Unspoken'
  <2>1. SUFFICES ASSUME clPc'[User] = "send"
                 PROVE  /\ clWaits < clNext /\ clWaits \notin clPending' \cup clTaken
                        /\ ~Spoken(clWaits, clLink'.owed, clLink'.inbox, clFrame)
    BY DEF Unspoken
  <2> QED BY <1>2, <2>1 DEF ClientIInv, Unspoken
<1> QED BY <1>1, <1>2, <1>3, <1>4, <1>5, EventsCut DEF ClientIInv

(* With reconnection off no thread but the caller's starts or joins one.    *)
LEMMA CallerStays ==
  ASSUME ClientTypes, ~clReconnects, CallerAlone, ClientNext
  PROVE  CallerAlone'
<1>0. /\ clPc \in [Actors -> ClientPlaces] /\ clJoin = [a \in Actors |-> clJoin[a]]
      /\ User \in Actors /\ User \notin RecvThreads /\ RecvThreads \subseteq Actors
      /\ NoThread \notin RecvThreads /\ Actors = {User} \cup RecvThreads
  BY ActorsAre DEF ClientTypes, CallerAlone, Actors
<1>1. ASSUME NEW a \in Actors, ReconnectStep(a) PROVE CallerAlone'
  <2>1. a = User
    <3>1. a \notin RecvThreads
      BY <1>1 DEF CallerAlone, ReconnectStep, ReconnectBegins, StopRecvThread, Joined, CloseLink,
                  Dial, ConnectOnce, StartRecvThread, Connected, At
    <3> QED BY <1>0, <3>1
  <2>2. ~ReconnectBegins(a) BY <2>1 DEF CallerAlone, ReconnectBegins, At
  <2>3. ASSUME StopRecvThread(a) PROVE CallerAlone'
    BY <1>0, <2>1, <2>3 DEF CallerAlone, StopRecvThread, At, Goes
  <2>4. ASSUME Joined(a) PROVE CallerAlone' BY <1>0, <2>1, <2>4 DEF CallerAlone, Joined, At, Goes
  <2>5. ASSUME CloseLink(a) PROVE CallerAlone'
    BY <1>0, <2>1, <2>5 DEF CallerAlone, CloseLink, At, Goes
  <2>6. ASSUME ConnectOnce(a) PROVE CallerAlone'
    <3>1. clPc[User] = "first" /\ UNCHANGED <<clRunning, clHandle, clJoin, clTerminated>>
      BY <2>1, <2>6 DEF CallerAlone, ConnectOnce, At
    <3> QED BY <1>0, <2>1, <2>6, <3>1 DEF CallerAlone, ConnectOnce, Goes
  <2>7. ASSUME StartRecvThread(a) PROVE CallerAlone'
    <3>1. clPc[User] = "start" /\ ~clRunning /\ clHandle = NoThread
      BY <2>1, <2>7 DEF CallerAlone, StartRecvThread, At
    <3>2. PICK t : /\ clRunning' = TRUE /\ clHandle' = t
                   /\ clPc' = [clPc EXCEPT ![User] = "up", ![t] = "recv"]
                   /\ t = (CHOOSE t2 \in Unstarted : \A u \in Unstarted : t2 <= u)
                   /\ UNCHANGED <<clJoin, clTerminated, clGoal>>
      BY <2>1, <2>7, <3>1 DEF StartRecvThread
    <3>3. t \in RecvThreads
      <4>1. Unstarted \in SUBSET Nat /\ Unstarted # {}
        BY <2>7 DEF StartRecvThread, Unstarted, RecvThreads
      <4>2. t \in Unstarted BY <3>2, <4>1, LeastOf
      <4> QED BY <4>2 DEF Unstarted
    <3>4. clPc'[User] = "up" BY <1>0, <3>2, <3>3
    <3> QED BY <1>0, <3>1, <3>2, <3>3, <3>4 DEF CallerAlone
  <2>8. ASSUME Connected(a) PROVE CallerAlone'
    BY <1>0, <2>1, <2>8 DEF CallerAlone, Connected, At, Goes
  <2>9. ASSUME Dial(a) PROVE CallerAlone' BY <1>0, <2>1, <2>9 DEF CallerAlone, Dial, At, Goes
  <2> QED BY <1>1, <2>2, <2>3, <2>4, <2>5, <2>6, <2>7, <2>8, <2>9 DEF ReconnectStep
<1>2. ASSUME NEW t \in RecvThreads, RecvLoopStep(t) PROVE CallerAlone'
  <2>1. ~Detach(t) BY DEF CallerAlone, Detach, At
  <2>2. /\ UNCHANGED <<clHandle, clJoin, clGoal, clTerminated, clRunning>>
        /\ clPc[t] \notin {"none", "ended"}
        /\ \E p \in {"recv", "frame", "lost", "fail", "down", "ended"} : clPc' = [clPc EXCEPT ![t] = p]
    BY <1>2, <2>1 DEF RecvLoopStep, Receive, LinkLost, OnFrame, ShouldReconnect, ForgetResponses,
                      GoDown, At, Goes
  <2> QED BY <1>0, <2>2 DEF CallerAlone
<1>3. ASSUME Connect \/ Disconnect PROVE CallerAlone'
  BY <1>0, <1>3 DEF CallerAlone, Connect, Disconnect, At, Goes
<1>4. ASSUME Request \/ SendRequest \/ WaitResponse PROVE CallerAlone'
  BY <1>0, <1>4 DEF CallerAlone, Request, SendRequest, WaitResponse, At, Goes
<1>5. ASSUME TryRecvEvent \/ GatewayAnswers \/ GatewayPushes \/ GatewayBreaks PROVE CallerAlone'
  <2>1. UNCHANGED <<clThreadVars, clTerminated>>
    BY <1>5 DEF TryRecvEvent, GatewayAnswers, GatewayPushes, GatewayBreaks
  <2> QED BY <2>1 DEF CallerAlone, clThreadVars
<1> QED BY <1>1, <1>2, <1>3, <1>4, <1>5 DEF ClientNext

LEMMA ClientSteps == ClientIInv /\ [ClientNext]_clVars => ClientIInv'
<1> SUFFICES ASSUME ClientIInv, [ClientNext]_clVars PROVE ClientIInv' OBVIOUS
<1>0. /\ clPc \in [Actors -> ClientPlaces] /\ clFrame \in FrameMap
      /\ clLink \in [open : BOOLEAN, alive : BOOLEAN, inbox : Seq(Frames), owed : SUBSET Nat]
      /\ clReconnects \in BOOLEAN /\ clPushed \in Nat
      /\ User \in Actors /\ User \notin RecvThreads /\ RecvThreads \subseteq Actors
      /\ Actors = {User} \cup RecvThreads
  BY ActorsAre DEF ClientIInv, ClientTypes, FrameMap, Actors
<1>a. ClientNext /\ ~clReconnects => CallerAlone' BY CallerStays DEF ClientIInv
<1>b. clLink.inbox \in Seq(Frames) /\ clLink.owed \in SUBSET Nat BY <1>0
<1>c. clHeard \o clQueue \in Seq(Nat) BY ConcatProperties DEF ClientIInv, ClientTypes
<1>1. ASSUME NEW a \in Actors, ReconnectStep(a) PROVE ClientIInv'
  <2>1. UNCHANGED <<clReconnects, clFrame, clNext, clWaits, clTaken, clQueue, clHeard, clPushed>>
    BY <1>1 DEF ReconnectStep, ReconnectBegins, StopRecvThread, Joined, CloseLink, Dial,
                ConnectOnce, StartRecvThread, Connected, clInboxVars, clBoundVars
  <2>2. /\ clLink' \in {clLink, ClosedLink, NewLink}
        /\ clPending' \in SUBSET clPending
    BY <1>1 DEF ReconnectStep, ReconnectBegins, StopRecvThread, Joined, CloseLink, Dial,
                ConnectOnce, StartRecvThread, Connected, clInboxVars
  <2>3. \/ clPc' = clPc
        \/ \E p \in ClientPlaces \ {"frame", "send"} :
              clPc[a] # "frame" /\ clPc' = [clPc EXCEPT ![a] = p]
        \/ \E t \in Unstarted : clPc[a] # "frame" /\ clPc' = [clPc EXCEPT ![a] = "up", ![t] = "recv"]
    <3>1. ASSUME StartRecvThread(a), clPc' # clPc
          PROVE  \E t \in Unstarted : clPc[a] # "frame" /\ clPc' = [clPc EXCEPT ![a] = "up", ![t] = "recv"]
      <4> DEFINE t == CHOOSE t2 \in Unstarted : \A u \in Unstarted : t2 <= u
      <4>1. clPc' = [clPc EXCEPT ![a] = "up", ![t] = "recv"] /\ clPc[a] = "start" /\ Unstarted # {}
        BY <3>1 DEF StartRecvThread, At
      <4>2. Unstarted \in SUBSET Nat BY DEF Unstarted, RecvThreads
      <4>3. t \in Unstarted BY <4>1, <4>2, LeastOf
      <4> QED BY <4>1, <4>3
    <3>2. ASSUME ~StartRecvThread(a), clPc' # clPc
          PROVE  \E p \in ClientPlaces \ {"frame", "send"} :
                    clPc[a] # "frame" /\ clPc' = [clPc EXCEPT ![a] = p]
      BY <1>1, <3>2 DEF ReconnectStep, ReconnectBegins, StopRecvThread, Joined, CloseLink,
                        Dial, ConnectOnce, Connected, At, Goes, ClientPlaces
    <3> QED BY <3>1, <3>2
  <2>4. /\ clPc' \in [Actors -> ClientPlaces]
        /\ \A t \in RecvThreads : clPc'[t] # "frame" => clPc[t] # "frame"
        /\ clPc'[User] = "send" => clPc[User] = "send"
    BY <1>0, <2>3 DEF ClientPlaces, Unstarted
  <2> QED BY <1>a, <1>1, <2>1, <2>2, <2>4, ThreadsMove DEF ClientNext
<1>2. ASSUME NEW t \in RecvThreads, Receive(t) PROVE ClientIInv'
  <2> DEFINE f == Head(clLink.inbox)
             tail == Tail(clLink.inbox)
  <2>1. /\ clFrame' = [clFrame EXCEPT ![t] = f] /\ clLink' = [clLink EXCEPT !.inbox = tail]
        /\ clPc' = [clPc EXCEPT ![t] = "frame"] /\ clPc[t] = "recv" /\ clLink.inbox # <<>>
        /\ UNCHANGED <<clReconnects, clInboxVars, clPushed>>
    BY <1>2 DEF Receive, At, Goes, clBoundVars
  <2>2. clFrame[t] = NoFrame BY <2>1 DEF ClientIInv, FramesInPlace
  <2>3. f \in Frames /\ tail \in Seq(Frames) BY <1>b, <2>1, TailOf
  <2>4. /\ AnswersFit(clLink.owed, tail, clFrame', clPending, clTaken, clNext)
        /\ \A r : Spoken(r, clLink.owed, tail, clFrame') => Spoken(r, clLink.owed, clLink.inbox, clFrame)
    BY <1>0, <1>b, <2>1, <2>2, AnswersReceive DEF ClientIInv
  <2>5. EventsFit(clHeard \o clQueue, tail, clFrame', clPushed, ~clReconnects)
    BY <1>0, <1>b, <1>c, <2>1, <2>2, EventsReceive DEF ClientIInv
  <2> HIDE DEF f, tail
  <2>6. clLink'.inbox = tail /\ clLink'.owed = clLink.owed BY <1>0, <2>1
  <2>7. ClientTypes' BY <1>0, <2>1, <2>3 DEF ClientIInv, ClientTypes, clInboxVars, ClientPlaces
  <2>8. FramesInPlace' /\ clPc'[User] = clPc[User] BY <1>0, <2>1 DEF ClientIInv, FramesInPlace
  <2>9. Unspoken' BY <2>1, <2>4, <2>6, <2>8 DEF ClientIInv, Unspoken, clInboxVars
  <2>10. ~clReconnects' => CallerAlone' BY <1>2, <1>a, <2>1 DEF ClientNext, RecvLoopStep
  <2> QED BY <2>1, <2>4, <2>5, <2>6, <2>7, <2>8, <2>9, <2>10 DEF ClientIInv, clInboxVars
<1>3. ASSUME NEW t \in RecvThreads, OnFrame(t) PROVE ClientIInv'
  <2> DEFINE f == clFrame[t]
  <2>1. /\ clPending' = IF f.kind = "response" THEN clPending \cup {f.id} ELSE clPending
        /\ clQueue' = IF f.kind = "event" THEN Append(clQueue, f.id) ELSE clQueue
        /\ clFrame' = [clFrame EXCEPT ![t] = NoFrame]
        /\ clPc' = [clPc EXCEPT ![t] = "recv"] /\ clPc[t] = "frame"
        /\ UNCHANGED <<clReconnects, clLink, clNext, clWaits, clTaken, clHeard, clPushed>>
    BY <1>3 DEF OnFrame, At, Goes, clBoundVars
  <2>2. clFrame' \in FrameMap /\ (f.kind \in {"response", "event"} => f.id \in Nat)
    BY <1>0, <2>1, NoFrameKind DEF FrameMap, Frames
  <2>3. /\ AnswersFit(clLink.owed, clLink.inbox, clFrame', clPending', clTaken, clNext)
        /\ \A r : Spoken(r, clLink.owed, clLink.inbox, clFrame')
                    => Spoken(r, clLink.owed, clLink.inbox, clFrame)
        /\ \A r \in clPending' : r \in clPending \/ Spoken(r, clLink.owed, clLink.inbox, clFrame)
    BY <1>0, <1>b, <2>1, AnswersOnFrame DEF ClientIInv, ClientTypes
  <2>4. ~clReconnects => \A u \in RecvThreads \ {t} : clFrame[u] = NoFrame
    <3>1. SUFFICES ASSUME ~clReconnects, NEW u \in RecvThreads \ {t} PROVE clFrame[u] = NoFrame
      OBVIOUS
    <3>2. t = clHandle /\ (clPc[u] = "frame" => u = clHandle)
      BY <2>1, <3>1 DEF CallerAlone, ClientIInv
    <3> QED BY <3>2 DEF ClientIInv, FramesInPlace
  <2>5. clHeard \o clQueue' = IF f.kind = "event" THEN Append(clHeard \o clQueue, f.id)
                              ELSE clHeard \o clQueue
    <3>1. clHeard \in Seq(Nat) /\ clQueue \in Seq(Nat) BY DEF ClientIInv, ClientTypes
    <3>2. CASE f.kind = "event" BY <2>1, <2>2, <3>1, <3>2, ConcatAppend
    <3>3. CASE f.kind # "event" BY <2>1, <3>3
    <3> QED BY <3>2, <3>3
  <2>6. EventsFit(clHeard \o clQueue', clLink.inbox, clFrame', clPushed, ~clReconnects)
    <3> DEFINE all == clHeard \o clQueue
               ordered == ~clReconnects
               inbox == clLink.inbox
    <3>1. all \in Seq(Nat) /\ ordered \in BOOLEAN /\ inbox \in Seq(Frames) BY <1>0, <1>b, <1>c
    <3>2. EventsFit(all, inbox, clFrame, clPushed, ordered) BY DEF ClientIInv
    <3>3. ordered => OnlyFrame(clFrame, t) BY <2>4 DEF OnlyFrame
    <3>4. clFrame \in FrameMap /\ clPushed \in Nat /\ t \in RecvThreads
      BY <1>0, <1>3 DEF ClientIInv, ClientTypes
    <3> HIDE DEF all, ordered, inbox
    <3>5. EventsFit(WithEvent(all, clFrame[t]), inbox, PutDown(clFrame, t), clPushed, ordered)
      BY ONLY <3>1, <3>2, <3>3, <3>4, EventsOnFrame
    <3> QED BY <2>1, <2>5, <3>5 DEF all, ordered, inbox, WithEvent, PutDown
  <2>7. clQueue' \in Seq(Nat) /\ clPending' \subseteq Nat
    BY <2>1, <2>2, AppendOf DEF ClientIInv, ClientTypes
  <2> HIDE DEF f
  <2>8. ClientTypes'
    BY <1>0, <2>1, <2>2, <2>7 DEF ClientIInv, ClientTypes, ClientPlaces, FrameMap
  <2>9. FramesInPlace' /\ clPc'[User] = clPc[User]
    BY <1>0, <2>1 DEF ClientIInv, FramesInPlace, FrameMap
  <2>10. ~clReconnects' => CallerAlone' BY <1>3, <1>a, <2>1 DEF ClientNext, RecvLoopStep
  <2> QED BY <2>1, <2>3, <2>6, <2>8, <2>9, <2>10 DEF ClientIInv, Unspoken
<1>4. ASSUME NEW t \in RecvThreads,
             LinkLost(t) \/ ShouldReconnect(t) \/ Detach(t) \/ ForgetResponses(t) \/ GoDown(t)
      PROVE  ClientIInv'
  <2>1. \/ clPc' = clPc
        \/ \E p \in ClientPlaces \ {"frame", "send"} : clPc[t] # "frame" /\ clPc' = [clPc EXCEPT ![t] = p]
    BY <1>4 DEF LinkLost, ShouldReconnect, Detach, ForgetResponses, GoDown, At, Goes, ClientPlaces
  <2>2. /\ clPc' \in [Actors -> ClientPlaces]
        /\ \A u \in RecvThreads : clPc'[u] # "frame" => clPc[u] # "frame"
        /\ clPc'[User] = "send" => clPc[User] = "send"
    BY <1>0, <2>1
  <2>3. ~clReconnects => CallerAlone' BY <1>4, <1>a DEF ClientNext, RecvLoopStep
  <2> QED
    BY <1>4, <2>2, <2>3, ThreadsMove DEF LinkLost, ShouldReconnect, Detach, ForgetResponses, GoDown,
       clInboxVars, clBoundVars
<1>5. ASSUME Connect \/ Disconnect PROVE ClientIInv'
  <2>1. /\ UNCHANGED <<clReconnects, clFrame, clNext, clWaits, clTaken, clQueue, clHeard, clPushed>>
        /\ clLink' = clLink /\ clPending' = clPending
        /\ clPc' = [clPc EXCEPT ![User] = "stop"]
    BY <1>5 DEF Connect, Disconnect, Goes, clInboxVars, clBoundVars
  <2>2. ~clReconnects => CallerAlone' BY <1>5, <1>a DEF ClientNext
  <2> QED BY <1>0, <2>1, <2>2, ThreadsMove DEF ClientPlaces
<1>6. ASSUME Request PROVE ClientIInv'
  <2>1. /\ clWaits' = clNext /\ clNext' = clNext + 1 /\ clPending' = clPending \ {clNext}
        /\ clPc' = [clPc EXCEPT ![User] = "send"]
        /\ UNCHANGED <<clReconnects, clFrame, clLink, clQueue, clTaken, clHeard, clPushed>>
    BY <1>6 DEF Request, Goes, clBoundVars
  <2>2. clNext \in Nat BY DEF ClientIInv, ClientTypes
  <2>3. /\ AnswersFit(clLink.owed, clLink.inbox, clFrame, clPending, clTaken, clNext)
        /\ clNext \notin clTaken /\ ~Spoken(clNext, clLink.owed, clLink.inbox, clFrame)
    BY <2>2 DEF ClientIInv, AnswersFit
  <2>4. AnswersFit(clLink.owed, clLink.inbox, clFrame, clPending', clTaken, clNext')
    BY <2>1, <2>2, <2>3 DEF AnswersFit
  <2>5. ClientTypes' BY <1>0, <2>1, <2>2 DEF ClientIInv, ClientTypes, ClientPlaces
  <2>6. Unspoken' BY <2>1, <2>2, <2>3 DEF Unspoken
  <2>7. ~clReconnects' => CallerAlone' BY <1>6, <1>a, <2>1 DEF ClientNext
  <2> QED BY <1>0, <2>1, <2>4, <2>5, <2>6, <2>7 DEF ClientIInv, FramesInPlace
<1>7. ASSUME SendRequest PROVE ClientIInv'
  <2>1. /\ clPc[User] = "send"
        /\ UNCHANGED <<clReconnects, clFrame, clNext, clTaken, clQueue, clHeard, clPushed, clPending>>
        /\ \E p \in {"wait", "begin", "idle"} : clPc' = [clPc EXCEPT ![User] = p]
        /\ clWaits' \in {clWaits, 0}
        /\ \/ clLink' = clLink
           \/ clLink' = [clLink EXCEPT !.owed = @ \cup {clWaits}]
    BY <1>7 DEF SendRequest, At, Goes, clBoundVars
  <2>2. clWaits \in Nat /\ clNext \in Nat BY DEF ClientIInv, ClientTypes
  <2>3. /\ clLink'.inbox = clLink.inbox
        /\ \/ clLink'.owed = clLink.owed
           \/ clLink'.owed = clLink.owed \cup {clWaits}
        /\ clLink' \in [open : BOOLEAN, alive : BOOLEAN, inbox : Seq(Frames), owed : SUBSET Nat]
    BY <1>0, <2>1, <2>2
  <2>4. /\ AnswersFit(clLink.owed, clLink.inbox, clFrame, clPending, clTaken, clNext)
        /\ clWaits < clNext /\ clWaits \notin clPending \cup clTaken
        /\ ~Spoken(clWaits, clLink.owed, clLink.inbox, clFrame)
    BY <2>1 DEF ClientIInv, Unspoken
  <2>5. AnswersFit(clLink'.owed, clLink'.inbox, clFrame, clPending, clTaken, clNext)
    BY <2>2, <2>3, <2>4 DEF AnswersFit, Spoken
  <2>6. ClientTypes' BY <1>0, <2>1, <2>2, <2>3 DEF ClientIInv, ClientTypes, ClientPlaces
  <2>7. FramesInPlace' BY <1>0, <2>1 DEF ClientIInv, FramesInPlace
  <2>8. clPc'[User] # "send" BY <1>0, <2>1
  <2>9. ~clReconnects' => CallerAlone' BY <1>7, <1>a, <2>1 DEF ClientNext
  <2> QED BY <2>1, <2>3, <2>5, <2>6, <2>7, <2>8, <2>9 DEF ClientIInv, Unspoken
<1>8. ASSUME WaitResponse PROVE ClientIInv'
  <2>1. /\ clWaits' = 0 /\ clPc' = [clPc EXCEPT ![User] = "idle"]
        /\ UNCHANGED <<clReconnects, clFrame, clLink, clNext, clQueue, clHeard, clPushed>>
        /\ \/ /\ clWaits \in clPending
              /\ clPending' = clPending \ {clWaits} /\ clTaken' = clTaken \cup {clWaits}
           \/ UNCHANGED <<clPending, clTaken>>
    BY <1>8 DEF WaitResponse, Goes, clBoundVars
  <2>2. AnswersFit(clLink.owed, clLink.inbox, clFrame, clPending', clTaken', clNext)
    BY <2>1 DEF AnswersFit, ClientIInv
  <2>3. FramesInPlace' /\ clPc'[User] # "send" BY <1>0, <2>1 DEF ClientIInv, FramesInPlace
  <2>4. ~clReconnects' => CallerAlone' BY <1>8, <1>a, <2>1 DEF ClientNext
  <2> QED BY <1>0, <2>1, <2>2, <2>3, <2>4 DEF ClientIInv, Unspoken, ClientTypes, ClientPlaces
<1>9. ASSUME TryRecvEvent PROVE ClientIInv'
  <2>1. /\ clHeard' = Append(clHeard, Head(clQueue)) /\ clQueue' = Tail(clQueue) /\ clQueue # <<>>
        /\ UNCHANGED <<clReconnects, clFrame, clPc, clLink, clNext, clWaits, clPending, clTaken, clPushed>>
    BY <1>9 DEF TryRecvEvent, clThreadVars, clBoundVars
  <2>2. /\ clHeard' \in Seq(Nat) /\ clQueue' \in Seq(Nat)
        /\ clHeard' \o clQueue' = clHeard \o clQueue
    <3>1. clHeard \in Seq(Nat) /\ clQueue \in Seq(Nat) /\ clQueue # <<>>
      BY <2>1 DEF ClientIInv, ClientTypes
    <3>2. /\ Append(clHeard, Head(clQueue)) \in Seq(Nat) /\ Tail(clQueue) \in Seq(Nat)
          /\ Append(clHeard, Head(clQueue)) \o Tail(clQueue) = clHeard \o clQueue
      BY ONLY <3>1, MovedAcross
    <3> QED BY ONLY <3>2, <2>1
  <2>3. ~clReconnects' => CallerAlone' BY <1>9, <1>a, <2>1 DEF ClientNext
  <2> QED BY <2>1, <2>2, <2>3 DEF ClientIInv, FramesInPlace, Unspoken, ClientTypes
<1>10. ASSUME NEW g \in Frames, NEW owed2 \in SUBSET clLink.owed,
              g.kind = "response" => g.id \in clLink.owed,
              owed2 = IF g.kind = "response" THEN clLink.owed \ {g.id} ELSE clLink.owed,
              clLink' = [clLink EXCEPT !.owed = owed2, !.inbox = Append(@, g)],
              clPushed' \in Nat, clPushed <= clPushed',
              g.kind = "event" => clPushed' = clPushed + 1 /\ g.id = clPushed + 1,
              UNCHANGED <<clReconnects, clThreadVars, clInboxVars, clTerminated>>,
              ClientNext
       PROVE  ClientIInv'
  <2> DEFINE box == Append(clLink.inbox, g)
  <2>1. /\ AnswersFit(owed2, box, clFrame, clPending, clTaken, clNext)
        /\ \A r : Spoken(r, owed2, box, clFrame) => Spoken(r, clLink.owed, clLink.inbox, clFrame)
    BY <1>0, <1>b, <1>10, AnswersAppend DEF ClientIInv
  <2>2. EventsFit(clHeard \o clQueue, box, clFrame, clPushed', ~clReconnects)
    BY <1>0, <1>b, <1>10, EventsAppend DEF ClientIInv
  <2>3. box \in Seq(Frames) BY <1>b, <1>10, AppendOf
  <2>4. clLink' = [clLink EXCEPT !.owed = owed2, !.inbox = box] BY <1>10
  <2> HIDE DEF box
  <2>5. /\ clLink'.owed = owed2 /\ clLink'.inbox = box
        /\ clLink' \in [open : BOOLEAN, alive : BOOLEAN, inbox : Seq(Frames), owed : SUBSET Nat]
    BY <1>0, <2>3, <2>4
  <2>6. /\ UNCHANGED <<clReconnects, clPc, clFrame, clNext, clWaits, clPending, clTaken, clQueue, clHeard>>
        /\ clPushed' \in Nat
    BY <1>10 DEF clThreadVars, clInboxVars
  <2>7. ~clReconnects' => CallerAlone' BY <1>10, <1>a, <2>6
  <2> QED BY <2>1, <2>2, <2>5, <2>6, <2>7 DEF ClientIInv, FramesInPlace, Unspoken, ClientTypes
<1>11. ASSUME GatewayAnswers PROVE ClientIInv'
  <2>1. PICK r \in clLink.owed :
           /\ clLink' = [clLink EXCEPT !.owed = @ \ {r},
                                       !.inbox = Append(@, [kind |-> "response", id |-> r])]
           /\ UNCHANGED <<clReconnects, clState, clThreadVars, clInboxVars, clBoundVars, clTerminated>>
    BY <1>11 DEF GatewayAnswers
  <2> DEFINE g == [kind |-> "response", id |-> r]
             owed2 == clLink.owed \ {r}
  <2>2. g \in Frames /\ g.kind = "response" /\ g.id = r BY <1>b, <2>1 DEF Frames
  <2>3. clLink' = [clLink EXCEPT !.owed = owed2, !.inbox = Append(@, g)] BY <2>1
  <2>4. owed2 \in SUBSET clLink.owed OBVIOUS
  <2>5. clPushed' = clPushed /\ ClientNext BY <1>11, <2>1 DEF clBoundVars, ClientNext
  <2> HIDE DEF g
  <2>6. owed2 = IF g.kind = "response" THEN clLink.owed \ {g.id} ELSE clLink.owed BY <2>2
  <2> HIDE DEF owed2
  <2>7. /\ clPushed' \in Nat /\ clPushed <= clPushed' /\ ClientNext
        /\ g.kind = "response" => g.id \in clLink.owed
        /\ UNCHANGED <<clReconnects, clThreadVars, clInboxVars, clTerminated>>
    BY <1>0, <2>1, <2>2, <2>5
  <2> QED BY <1>10, <2>2, <2>3, <2>4, <2>6, <2>7
<1>12. ASSUME GatewayPushes PROVE ClientIInv'
  <2> DEFINE g == [kind |-> "event", id |-> clPushed + 1]
  <2>1. /\ clPushed' = clPushed + 1 /\ clLink' = [clLink EXCEPT !.inbox = Append(@, g)]
        /\ UNCHANGED <<clReconnects, clThreadVars, clInboxVars, clTerminated>>
    BY <1>12 DEF GatewayPushes
  <2>2. g \in Frames /\ g.kind = "event" /\ g.id = clPushed + 1 BY <1>0 DEF Frames
  <2> DEFINE owed2 == clLink.owed
  <2> HIDE DEF g
  <2>3. clLink' = [clLink EXCEPT !.owed = owed2, !.inbox = Append(@, g)] BY <1>0, <2>1
  <2>4. owed2 = IF g.kind = "response" THEN clLink.owed \ {g.id} ELSE clLink.owed BY <2>2
  <2>5. g.kind # "response" /\ owed2 \in SUBSET clLink.owed BY <2>2
  <2>6. clPushed' \in Nat /\ clPushed <= clPushed' BY <1>0, <2>1
  <2>7. ClientNext BY <1>12 DEF ClientNext
  <2> HIDE DEF owed2
  <2> QED BY <1>10, <2>1, <2>2, <2>3, <2>4, <2>5, <2>6, <2>7
<1>13. ASSUME GatewayBreaks PROVE ClientIInv'
  <2>1. ~clReconnects => CallerAlone' BY <1>13, <1>a DEF ClientNext
  <2> QED BY <1>0, <1>13, <2>1, ThreadsMove DEF GatewayBreaks, clThreadVars, clInboxVars
<1>14. ASSUME UNCHANGED clVars PROVE ClientIInv'
  <2>1. UNCHANGED <<clReconnects, clPc, clFrame, clLink, clNext, clWaits, clPending, clTaken, clQueue,
                    clHeard, clPushed, clTerminated, clHandle, clRunning, clJoin, clGoal>>
    BY <1>14 DEF clVars, clThreadVars, clInboxVars, clBoundVars
  <2> QED BY <2>1 DEF ClientIInv, ClientTypes, FramesInPlace, CallerAlone, Unspoken
<1> QED BY <1>1, <1>2, <1>3, <1>4, <1>5, <1>6, <1>7, <1>8, <1>9, <1>11, <1>12, <1>13, <1>14
        DEF ClientNext, RecvLoopStep

------------------------------------------------------------------------------
LEMMA ClientSafe == ClientIInv => AnswersMatch /\ EventsOnce /\ OneReceiver
<1> SUFFICES ASSUME ClientIInv PROVE AnswersMatch /\ EventsOnce /\ OneReceiver OBVIOUS
<1>1. AnswersMatch
  <2>1. \A r \in clLink.owed : Spoken(r, clLink.owed, clLink.inbox, clFrame) BY DEF Spoken
  <2> QED BY <2>1 DEF AnswersMatch, AnswersFit, ClientIInv, ClientTypes
<1>2. EventsOnce
  <2> DEFINE all == clHeard \o clQueue
             n == Len(all)
  <2>1. all \in Seq(Nat) /\ n \in Nat /\ DOMAIN all = 1 .. n
    <3>1. all \in Seq(Nat) BY ConcatProperties DEF ClientIInv, ClientTypes
    <3> HIDE DEF all
    <3> QED BY <3>1, LenProperties
  <2>2. EventsFit(all, clLink.inbox, clFrame, clPushed, ~clReconnects) BY DEF ClientIInv
  <2> HIDE DEF all
  <2>3. n = Cardinality(Range(all))
    <3>1. all \in Surjection(1 .. n, Range(all)) BY <2>1 DEF Surjection, Range
    <3>2. all \in Injection(1 .. n, Range(all))
      BY <2>1, <2>2, <3>1 DEF Surjection, Injection, IsInjective, EventsFit
    <3>3. IsFiniteSet(1 .. n) /\ Cardinality(1 .. n) = n
      <4>1. n \in Nat /\ 0 \in Int /\ 1 \in Int /\ n \in Int BY <2>1
      <4>2. IsFiniteSet(1 .. n) /\ Cardinality(1 .. n) = IF 1 > n THEN 0 ELSE n - 1 + 1
        BY ONLY <4>1, FS_Interval
      <4> QED BY ONLY <4>1, <4>2
    <3> QED BY <3>1, <3>2, <3>3, FS_Surjection
  <2>4. Range(all) \cap InHand = {}
    <3> SUFFICES ASSUME NEW e \in Range(all), e \in InHand PROVE FALSE OBVIOUS
    <3>1. PICK i \in 1 .. n : e = all[i] BY <2>1 DEF Range
    <3>2. PICK t \in RecvThreads : clFrame[t].kind = "event" /\ clFrame[t].id = e BY DEF InHand
    <3> QED BY <2>2, <3>1, <3>2 DEF EventsFit
  <2> QED BY <2>1, <2>2, <2>3, <2>4 DEF EventsOnce, all, EventsFit
<1>3. OneReceiver
  <2> SUFFICES ASSUME ~clReconnects PROVE Cardinality(Receivers) <= 1 /\ ~clTerminated
    BY DEF OneReceiver
  <2>1. CallerAlone BY DEF ClientIInv
  <2>2. IsFiniteSet({clHandle}) /\ Cardinality({clHandle}) = 1 BY FS_Singleton
  <2>3. Cardinality(Receivers) <= 1 BY <2>1, <2>2, FS_Subset DEF Receivers, CallerAlone
  <2> QED BY <2>1, <2>3 DEF CallerAlone
<1> QED BY <1>1, <1>2, <1>3

(* Whatever is reconnected in between, answers are given to the request     *)
(* that asked for them, once, and events are in one place; with             *)
(* reconnection off there is one receiver and the handle is not misused.    *)
THEOREM ClientCorrect == ClientSpec => [](AnswersMatch /\ EventsOnce /\ OneReceiver)
BY ClientStarts, ClientSteps, ClientSafe, PTL DEF ClientSpec

------------------------------------------------------------------------------
(* The chunks around the player.  A loaded chunk is near, and the timer of  *)
(* one that unloads says how long it has been away.                         *)

ChunkStates == {"Pending", "Loaded", "Unloading", "Unloaded"}
ChunkRecords == [state : ChunkStates, progress : Nat, timer : Int]

(* A chunk that unloads has been away for the updates its timer counted.    *)
ChunkFits(c, r, away, at) ==
    /\ r \in ChunkRecords
    /\ r.state = "Loaded" => Near(c, at)
    /\ r.state = "Unloading" => away + r.timer >= UnloadDelay + 1

StreamerIInv ==
    /\ DOMAIN stChunks \subseteq Chunks
    /\ \A c \in DOMAIN stChunks : ChunkFits(c, stChunks[c], stAway[c], stAt)
    /\ stAway \in [Chunks -> Nat] /\ \A c \in Chunks : stAway[c] <= UnloadDelay + 1

LEMMA MinOf == ASSUME NEW a \in Int, NEW b \in Int
               PROVE  Min({a, b}) = IF a <= b THEN a ELSE b
<1> DEFINE m == IF a <= b THEN a ELSE b
<1>1. m \in {a, b} /\ \A y \in {a, b} : m <= y OBVIOUS
<1>2. \A x \in {a, b} : (\A y \in {a, b} : x <= y) => x = m OBVIOUS
<1> HIDE DEF m
<1> QED BY <1>1, <1>2 DEF m, Min

Placed(r, x) == [r EXCEPT !.state = x]
Timed(r, x, n) == [r EXCEPT !.state = x, !.timer = n]
Counted(r, x, n) == [r EXCEPT !.timer = n, !.state = x]
Progressed(r, x, n) == [r EXCEPT !.progress = n, !.state = x]

LEMMA PlacedChunk ==
  ASSUME NEW r \in ChunkRecords, NEW x \in ChunkStates
  PROVE  Placed(r, x) \in ChunkRecords /\ Placed(r, x).state = x
BY DEF ChunkRecords, Placed

LEMMA TimedChunk ==
  ASSUME NEW r \in ChunkRecords, NEW x \in ChunkStates, NEW n \in Int
  PROVE  /\ Timed(r, x, n) \in ChunkRecords /\ Timed(r, x, n).state = x /\ Timed(r, x, n).timer = n
         /\ Counted(r, x, n) \in ChunkRecords /\ Counted(r, x, n).state = x
         /\ Counted(r, x, n).timer = n
BY DEF ChunkRecords, Timed, Counted

LEMMA ProgressedChunk ==
  ASSUME NEW r \in ChunkRecords, NEW x \in ChunkStates, NEW n \in Nat
  PROVE  Progressed(r, x, n) \in ChunkRecords /\ Progressed(r, x, n).state = x
BY DEF ChunkRecords, Progressed

LEMMA AdvancedChunk ==
  ASSUME NEW chunks, NEW done, NEW c \in DOMAIN chunks, chunks[c] \in ChunkRecords
  PROVE  LET a == Advanced(chunks, done) IN
         /\ DOMAIN a = DOMAIN chunks /\ a[c] \in ChunkRecords
         /\ a[c].state = "Unloading" =>
               chunks[c].state = "Unloading" /\ chunks[c].timer > 1 /\ a[c].timer = chunks[c].timer - 1
         /\ a[c].state = "Unloaded" /\ chunks[c].state = "Unloading" => chunks[c].timer <= 1
<1> DEFINE r == chunks[c]
           p == [r EXCEPT !.progress = IF @ < LoadTime[c] THEN @ + 1 ELSE @,
                          !.state = IF c \in done THEN "Loaded" ELSE @]
           u == [r EXCEPT !.timer = @ - 1, !.state = IF r.timer <= 1 THEN "Unloaded" ELSE @]
           a == Advanced(chunks, done)
<1>1. DOMAIN a = DOMAIN chunks
      /\ a[c] = IF r.state = "Pending" THEN p ELSE IF r.state = "Unloading" THEN u ELSE r
  BY DEF Advanced
<1>2. r \in ChunkRecords /\ r.timer \in Int /\ r.progress \in Nat BY DEF ChunkRecords
<1>a. r.state \in ChunkStates BY DEF ChunkRecords
<1>3. r.state = "Pending" => p \in ChunkRecords /\ p.state \in {"Loaded", "Pending"}
  <2> DEFINE n == IF r.progress < LoadTime[c] THEN r.progress + 1 ELSE r.progress
             x == IF c \in done THEN "Loaded" ELSE r.state
  <2> SUFFICES ASSUME r.state = "Pending" PROVE p \in ChunkRecords /\ p.state \in {"Loaded", "Pending"}
    OBVIOUS
  <2>1. n \in Nat /\ x \in ChunkStates /\ x \in {"Loaded", "Pending"}
    BY <1>2, <1>a DEF ChunkStates
  <2>2. p = Progressed(r, x, n) BY DEF Progressed
  <2> HIDE DEF n, x, r, p
  <2> QED BY <1>2, <2>1, <2>2, ProgressedChunk
<1>4. r.state = "Unloading" => /\ u \in ChunkRecords /\ u.timer = r.timer - 1
                               /\ u.state = IF r.timer <= 1 THEN "Unloaded" ELSE "Unloading"
  <2> DEFINE n == r.timer - 1
             x == IF r.timer <= 1 THEN "Unloaded" ELSE r.state
  <2> SUFFICES ASSUME r.state = "Unloading"
               PROVE  /\ u \in ChunkRecords /\ u.timer = n
                      /\ u.state = IF r.timer <= 1 THEN "Unloaded" ELSE "Unloading"
    OBVIOUS
  <2>1. n \in Int /\ x \in ChunkStates /\ x = IF r.timer <= 1 THEN "Unloaded" ELSE "Unloading"
    BY <1>2, <1>a DEF ChunkStates
  <2>2. u = Counted(r, x, n) BY DEF Counted
  <2> HIDE DEF n, x, r, u
  <2>3. u \in ChunkRecords /\ u.timer = n /\ u.state = x
    <3>1. n \in Int /\ x \in ChunkStates /\ r \in ChunkRecords BY <1>2, <2>1
    <3>2. Counted(r, x, n) \in ChunkRecords /\ Counted(r, x, n).state = x /\ Counted(r, x, n).timer = n
      BY ONLY <3>1, TimedChunk
    <3> QED BY ONLY <2>2, <3>2
  <2> QED BY <2>1, <2>3
<1> HIDE DEF r, p, u, a
<1>5. CASE r.state = "Pending" BY <1>1, <1>3, <1>5 DEF a, r
<1>6. CASE r.state = "Unloading" BY <1>1, <1>4, <1>2, <1>6 DEF a, r
<1>7. CASE r.state \notin {"Pending", "Unloading"} BY <1>1, <1>2, <1>7 DEF a, r
<1> QED BY <1>5, <1>6, <1>7

LEMMA LeftChunk ==
  ASSUME NEW chunks, NEW at, NEW c \in DOMAIN chunks, chunks[c] \in ChunkRecords
  PROVE  LET l == Left(chunks, at) IN
         /\ DOMAIN l = DOMAIN chunks /\ l[c] \in ChunkRecords
         /\ l[c].state = "Loaded" => Near(c, at)
         /\ l[c].state = "Unloading" => l[c] = chunks[c] \/ (~Near(c, at) /\ l[c].timer = UnloadDelay)
         /\ l[c].state = "Unloaded" => l[c] = chunks[c]
<1> DEFINE r == chunks[c]
           u == [r EXCEPT !.state = "Unloading", !.timer = UnloadDelay]
           l == Left(chunks, at)
<1>1. DOMAIN l = DOMAIN chunks /\ l[c] = IF r.state = "Loaded" /\ ~Near(c, at) THEN u ELSE r
  BY DEF Left
<1>2. u \in ChunkRecords /\ u.state = "Unloading" /\ u.timer = UnloadDelay
  <2>1. UnloadDelay \in Int /\ "Unloading" \in ChunkStates BY ResourcesAssumption DEF ChunkStates
  <2>2. u = Timed(r, "Unloading", UnloadDelay) BY DEF Timed
  <2> HIDE DEF r, u
  <2> QED BY <2>1, <2>2, TimedChunk DEF r
<1> HIDE DEF r, u, l
<1> QED BY <1>1, <1>2 DEF r, l

LEMMA EnteredChunk ==
  ASSUME NEW chunks, NEW at, NEW c \in DOMAIN chunks \cup Asked(chunks, at),
         c \in DOMAIN chunks => chunks[c] \in ChunkRecords
  PROVE  LET e == Entered(chunks, at) IN
         /\ DOMAIN e = DOMAIN chunks \cup Asked(chunks, at) /\ e[c] \in ChunkRecords
         /\ e[c].state = "Loaded" => Near(c, at) \/ (c \in DOMAIN chunks /\ e[c] = chunks[c])
         /\ e[c].state = "Unloading" => c \in DOMAIN chunks /\ e[c] = chunks[c] /\ ~Near(c, at)
         /\ e[c].state = "Unloaded" => c \in DOMAIN chunks /\ e[c] = chunks[c]
<1> DEFINE r == chunks[c]
           n == [state |-> "Pending", progress |-> 0, timer |-> 0]
           k == [r EXCEPT !.state = "Loaded", !.timer = 0]
           e == Entered(chunks, at)
<1>1. DOMAIN e = DOMAIN chunks \cup Asked(chunks, at)
      /\ e[c] = IF c \notin DOMAIN chunks THEN n
                ELSE IF Near(c, at) /\ r.state = "Unloading" THEN k ELSE r
  BY DEF Entered
<1>2. n \in ChunkRecords /\ n.state = "Pending" BY DEF ChunkRecords, ChunkStates
<1>3. c \in DOMAIN chunks => k \in ChunkRecords /\ k.state = "Loaded"
  <2>1. 0 \in Int /\ "Loaded" \in ChunkStates BY DEF ChunkStates
  <2>2. k = Timed(r, "Loaded", 0) BY DEF Timed
  <2> HIDE DEF r, k
  <2> QED BY <2>1, <2>2, TimedChunk DEF r
<1> HIDE DEF r, n, k, e
<1>4. CASE c \notin DOMAIN chunks BY <1>1, <1>2, <1>4 DEF e
<1>5. CASE c \in DOMAIN chunks BY <1>1, <1>3, <1>5 DEF e, r
<1> QED BY <1>4, <1>5

(* What one update makes of one chunk.                                      *)
LEMMA UpdatedChunk ==
  ASSUME StreamerIInv, NEW at \in Chunks, Update(at)
  PROVE  /\ DOMAIN stChunks' \subseteq Chunks
         /\ \A c \in DOMAIN stChunks' : ChunkFits(c, stChunks'[c], stAway'[c], at)
         /\ \A c \in DOMAIN stChunks :
               stChunks[c].state = "Unloading" /\ stChunks'[c].state = "Unloaded"
                 => stAway[c] >= UnloadDelay
         /\ stAway' \in [Chunks -> Nat] /\ \A c \in Chunks : stAway'[c] <= UnloadDelay + 1
<1>0. UnloadDelay \in Nat \ {0} BY ResourcesAssumption
<1>1. PICK done : stChunks' = Entered(Left(Advanced(stChunks, done), at), at) BY DEF Update
<1> DEFINE a == Advanced(stChunks, done)
           l == Left(a, at)
           e == Entered(l, at)
<1>2. \A c \in DOMAIN stChunks : /\ stChunks[c] \in ChunkRecords /\ stAway[c] \in Nat
                                 /\ stChunks[c].timer \in Int
                                 /\ stChunks[c].state = "Unloading" => stAway[c] + stChunks[c].timer >= UnloadDelay + 1
  BY DEF StreamerIInv, ChunkFits, ChunkRecords
<1>3. ASSUME NEW c \in Chunks
      PROVE  /\ stAway'[c] \in Nat /\ stAway'[c] <= UnloadDelay + 1
             /\ ~Near(c, at) => /\ stAway'[c] = stAway[c] + 1 \/ stAway'[c] = UnloadDelay + 1
                                /\ stAway'[c] >= 1
  <2>1. stAway'[c] = IF Near(c, at) THEN 0 ELSE Min({stAway[c] + 1, UnloadDelay + 1})
    BY DEF Update
  <2>2. stAway[c] \in Nat BY DEF StreamerIInv
  <2> DEFINE m == Min({stAway[c] + 1, UnloadDelay + 1})
  <2>3. m = IF stAway[c] + 1 <= UnloadDelay + 1 THEN stAway[c] + 1 ELSE UnloadDelay + 1
    BY <1>0, <2>2, MinOf
  <2> HIDE DEF m
  <2> QED BY <1>0, <2>1, <2>2, <2>3 DEF m
<1>4. stAway' \in [Chunks -> Nat]
  <2>1. stAway' = [c \in Chunks |-> stAway'[c]] BY DEF Update
  <2> QED BY <1>3, <2>1
<1>5. DOMAIN a = DOMAIN stChunks BY DEF Advanced
<1>6. DOMAIN l = DOMAIN stChunks BY <1>5 DEF Left
<1>7. DOMAIN e = DOMAIN stChunks \cup Asked(l, at) /\ DOMAIN e \subseteq Chunks
  BY <1>6 DEF Entered, Asked, StreamerIInv
<1>8. ASSUME NEW c \in DOMAIN stChunks
      PROVE  /\ a[c] \in ChunkRecords /\ l[c] \in ChunkRecords
             /\ a[c].state = "Unloading" =>
                 stChunks[c].state = "Unloading" /\ stChunks[c].timer > 1 /\ a[c].timer = stChunks[c].timer - 1
             /\ a[c].state = "Unloaded" /\ stChunks[c].state = "Unloading" => stChunks[c].timer <= 1
             /\ l[c].state = "Loaded" => Near(c, at)
             /\ l[c].state = "Unloading" => l[c] = a[c] \/ (~Near(c, at) /\ l[c].timer = UnloadDelay)
             /\ l[c].state = "Unloaded" => l[c] = a[c]
  <2>1. /\ a[c] \in ChunkRecords
        /\ a[c].state = "Unloading" =>
                 stChunks[c].state = "Unloading" /\ stChunks[c].timer > 1 /\ a[c].timer = stChunks[c].timer - 1
        /\ a[c].state = "Unloaded" /\ stChunks[c].state = "Unloading" => stChunks[c].timer <= 1
    BY <1>2, AdvancedChunk
  <2> HIDE DEF a
  <2> QED BY <1>5, <2>1, LeftChunk
<1> HIDE DEF a, l
<1>9. ASSUME NEW c \in DOMAIN e
      PROVE  /\ e[c] \in ChunkRecords
             /\ e[c].state = "Loaded" => Near(c, at) \/ (c \in DOMAIN l /\ e[c] = l[c])
             /\ e[c].state = "Unloading" => c \in DOMAIN l /\ e[c] = l[c] /\ ~Near(c, at)
             /\ e[c].state = "Unloaded" => c \in DOMAIN l /\ e[c] = l[c]
  <2>1. c \in DOMAIN l \cup Asked(l, at) BY ONLY <1>6, <1>7, <1>9
  <2>2. c \in DOMAIN l => l[c] \in ChunkRecords BY ONLY <1>6, <1>8
  <2> QED BY ONLY <2>1, <2>2, EnteredChunk DEF e
<1> HIDE DEF e
<1>10. ASSUME NEW c \in DOMAIN e PROVE ChunkFits(c, e[c], stAway'[c], at)
  <2>1. ASSUME e[c].state = "Unloading" PROVE stAway'[c] + e[c].timer >= UnloadDelay + 1
    <3>1. c \in DOMAIN stChunks /\ e[c] = l[c] /\ ~Near(c, at) /\ c \in Chunks
      BY <1>6, <1>7, <1>9, <2>1
    <3>2. CASE l[c] = a[c] BY <1>0, <1>2, <1>3, <1>8, <2>1, <3>1, <3>2
    <3>3. CASE l[c].timer = UnloadDelay BY <1>0, <1>3, <3>1, <3>3
    <3> QED BY <1>8, <2>1, <3>1, <3>2, <3>3
  <2> QED BY <1>6, <1>8, <1>9, <2>1 DEF ChunkFits
<1>11. ASSUME NEW c \in DOMAIN stChunks, stChunks[c].state = "Unloading", e[c].state = "Unloaded"
       PROVE  stAway[c] >= UnloadDelay
  BY <1>0, <1>2, <1>7, <1>8, <1>9, <1>11
<1> QED BY <1>1, <1>3, <1>4, <1>7, <1>10, <1>11 DEF a, l, e

LEMMA StreamerStarts == ResourcesInit => StreamerIInv /\ stAt \in Int
<1> SUFFICES ASSUME ResourcesInit PROVE StreamerIInv /\ stAt \in Int OBVIOUS
<1> QED BY ResourcesAssumption DEF StreamerIInv, ResourcesInit

LEMMA StreamerSteps ==
  StreamerIInv /\ [StreamerNext]_stVars
      => /\ StreamerIInv'
         /\ \A c \in DOMAIN stChunks :
               stChunks[c].state = "Unloading" /\ stChunks'[c].state = "Unloaded" /\ stUpdates' # stUpdates
                 => stAway[c] >= UnloadDelay
<1> SUFFICES ASSUME StreamerIInv, [StreamerNext]_stVars
             PROVE  /\ StreamerIInv'
                    /\ \A c \in DOMAIN stChunks :
                          stChunks[c].state = "Unloading" /\ stChunks'[c].state = "Unloaded"
                            /\ stUpdates' # stUpdates
                            => stAway[c] >= UnloadDelay
  OBVIOUS
<1>1. CASE ForceUnloadAll
  <2>1. stChunks' = [c \in DOMAIN stChunks |-> [stChunks[c] EXCEPT !.state = "Unloaded"]]
        /\ UNCHANGED <<stAway, stAt, stUpdates>>
    BY <1>1 DEF ForceUnloadAll
  <2>2. ASSUME NEW c \in DOMAIN stChunks PROVE ChunkFits(c, stChunks'[c], stAway[c], stAt)
    <3> DEFINE r == stChunks[c]
               u == [r EXCEPT !.state = "Unloaded"]
    <3>1. r \in ChunkRecords BY DEF StreamerIInv, ChunkFits
    <3>2. u \in ChunkRecords /\ u.state = "Unloaded"
      <4>1. "Unloaded" \in ChunkStates BY DEF ChunkStates
      <4>2. u = Placed(r, "Unloaded") BY DEF Placed
      <4> HIDE DEF r, u
      <4> QED BY <3>1, <4>1, <4>2, PlacedChunk
    <3>3. stChunks'[c] = u BY <2>1
    <3> HIDE DEF u
    <3> QED BY <3>2, <3>3 DEF ChunkFits
  <2> QED BY <2>1, <2>2 DEF StreamerIInv
<1>2. ASSUME NEW at \in Chunks, Update(at)
      PROVE  /\ StreamerIInv'
             /\ \A c \in DOMAIN stChunks :
                   stChunks[c].state = "Unloading" /\ stChunks'[c].state = "Unloaded"
                     => stAway[c] >= UnloadDelay
  BY <1>2, UpdatedChunk DEF StreamerIInv, Update
<1>3. CASE UNCHANGED stVars BY <1>3 DEF stVars, StreamerIInv
<1> QED BY <1>1, <1>2, <1>3 DEF StreamerNext

LEMMA StreamerSafe == StreamerIInv => LoadedIsNear
BY DEF StreamerIInv, ChunkFits, LoadedIsNear

------------------------------------------------------------------------------
(* The cache of the client's resources.  The bytes counted are those of     *)
(* the entries that are loaded, and a load that is not finished is in the   *)
(* queue or with one worker.                                                *)

EntryType == [uri : Uris, refs : Nat, stamp : Nat, committed : BOOLEAN, bytes : Nat]
EntriesType(e, next) ==
  /\ e = [i \in DOMAIN e |-> e[i]] /\ DOMAIN e \subseteq 1 .. next - 1
  /\ \A i \in DOMAIN e : e[i] \in EntryType
WorkerType == [at : {"wait", "look", "commit", "gone"}, id : Nat, bytes : Nat]

CacheType ==
  /\ rsNext \in Nat \ {0} /\ rsClock \in Nat /\ rsPreset \in Presets
  /\ \A l \in Range(Levels) : rsPresets[l] \in Presets
  /\ EntriesType(rsEntries, rsNext) /\ rsUsed \in [RsKinds -> Int]
  /\ rsJobs \in Seq(Nat) /\ rsWorker \in [RsWorkers -> WorkerType]

HeldOf(e, k) == {i \in DOMAIN e : e[i].committed /\ KindOf[e[i].uri] = k}
Exact(e, used) == \A k \in RsKinds : used[k] = BytesOf(e, HeldOf(e, k))
WithinBudget(e, used, preset) == \A k \in RsKinds :
  used[k] > Budget(preset, k) => \A i \in HeldOf(e, k) : e[i].refs > 0
Indexed(e, index) ==
  /\ \A u \in DOMAIN index : index[u] \in DOMAIN e /\ e[index[u]].uri = u
  /\ \A i \in DOMAIN e : e[i].uri \in DOMAIN index /\ index[e[i].uri] = i
UnderWay(e, jobs, worker) ==
  /\ NoRepeat(jobs)
  /\ \A i \in Members(jobs) : i \in DOMAIN e /\ ~e[i].committed /\ \A w \in RsWorkers : worker[w].id # i
  /\ \A w \in RsWorkers : worker[w].id # 0 <=> worker[w].at \in {"look", "commit"}
  /\ \A w \in RsWorkers : worker[w].id # 0 => worker[w].id \in DOMAIN e /\ ~e[worker[w].id].committed
  /\ \A v, w \in RsWorkers : worker[v].id = worker[w].id /\ worker[v].id # 0 => v = w
  /\ \A i \in DOMAIN e : ~e[i].committed => i \in Members(jobs) \/ \E w \in RsWorkers : worker[w].id = i

CacheIInv ==
  /\ CacheType /\ Exact(rsEntries, rsUsed) /\ WithinBudget(rsEntries, rsUsed, rsPreset)
  /\ Indexed(rsEntries, rsIndex) /\ UnderWay(rsEntries, rsJobs, rsWorker)

LEMMA CacheSafe == CacheIInv => CacheIsExact /\ LoadsAreUnderWay
<1> SUFFICES ASSUME CacheIInv PROVE CacheIsExact /\ LoadsAreUnderWay OBVIOUS
<1>1. CacheIsExact BY DEF CacheIInv, CacheIsExact, Exact, WithinBudget, Indexed, InUse, HeldOf
<1>2. LoadsAreUnderWay
  <2>1. /\ EntriesType(rsEntries, rsNext) /\ rsNext \in Nat \ {0} /\ rsJobs \in Seq(Nat)
        /\ UnderWay(rsEntries, rsJobs, rsWorker)
    BY DEF CacheIInv, CacheType
  <2>2. ASSUME NEW i \in DOMAIN rsEntries
        PROVE  ~rsEntries[i].committed <=>
                 i \in Members(rsJobs) \/ \E w \in RsWorkers : rsWorker[w].id = i
    BY <2>1 DEF UnderWay, EntriesType
  <2> QED BY <2>2 DEF LoadsAreUnderWay, Members
<1> QED BY <1>1, <1>2

LEMMA CacheStarts == ResourcesInit => CacheIInv
<1> SUFFICES ASSUME ResourcesInit PROVE CacheIInv OBVIOUS
<1>1. rsEntries = <<>> /\ DOMAIN rsEntries = {} /\ DOMAIN rsIndex = {} /\ Members(rsJobs) = {}
      /\ rsJobs \in Seq(Nat) /\ DOMAIN rsJobs = {}
  BY EmptySeq DEF ResourcesInit, Members
<1>2. CacheType
  <2>1. EntriesType(rsEntries, rsNext) BY <1>1 DEF EntriesType
  <2>2. rsWorker \in [RsWorkers -> WorkerType] /\ rsUsed \in [RsKinds -> Int]
    BY DEF ResourcesInit, Waiting, WorkerType
  <2> QED BY <1>1, <2>1, <2>2, ResourcesAssumption DEF CacheType, ResourcesInit
<1>3. Exact(rsEntries, rsUsed) /\ WithinBudget(rsEntries, rsUsed, rsPreset)
  <2>1. ASSUME NEW k \in RsKinds PROVE HeldOf(rsEntries, k) = {} /\ rsUsed[k] = 0
    BY <1>1 DEF HeldOf, ResourcesInit
  <2>2. \A f : SumFunctionOnSet(f, {}) = 0 BY FS_EmptySet, SumChoose DEF Sum
  <2> QED BY <2>1, <2>2 DEF Exact, WithinBudget, BytesOf
<1>4. UnderWay(rsEntries, rsJobs, rsWorker)
  BY <1>1 DEF UnderWay, NoRepeat, ResourcesInit, Waiting
<1> QED BY <1>1, <1>2, <1>3, <1>4 DEF CacheIInv, Indexed

LEMMA EntriesAreFinite ==
  ASSUME NEW e, NEW next \in Nat, EntriesType(e, next), NEW S \in SUBSET DOMAIN e
  PROVE  IsFiniteSet(S)
<1>1. next - 1 \in Int /\ S \subseteq 1 .. next - 1 BY DEF EntriesType
<1> QED BY <1>1, FS_Interval, FS_Subset

(* The victims EvictOne takes leave the kind within its budget, or none.    *)
LEMMA EnoughIsTaken ==
  ASSUME NEW e, NEW next \in Nat, EntriesType(e, next),
         NEW used \in Int, NEW budget \in Int, NEW k
  PROVE  /\ Taken(e, used, budget, k) \subseteq Victims(e, k)
         /\ \/ Taken(e, used, budget, k) = Victims(e, k)
            \/ used - BytesOf(e, Taken(e, used, budget, k)) <= budget
<1> DEFINE T == Taken(e, used, budget, k)
           V == Victims(e, k)
           f == [i \in DOMAIN e |-> e[i].bytes]
           Older(i) == {j \in V : e[j].stamp < e[i].stamp}
<1>1. T \subseteq V /\ V \subseteq DOMAIN e BY DEF Taken, Victims
<1>2. IsFiniteSet(DOMAIN e) BY EntriesAreFinite
<1>3. \A i \in DOMAIN e : f[i] \in Nat /\ e[i].stamp \in Nat BY DEF EntriesType, EntryType
<1>4. \A S : BytesOf(e, S) = Sum(f, S) BY DEF BytesOf, Sum
<1>5. \A i \in V : i \in T <=> used - Sum(f, Older(i)) > budget BY <1>4 DEF Taken
<1>6. \A i \in V : Older(i) \in SUBSET V OBVIOUS
<1>7. ASSUME T # V PROVE used - Sum(f, T) <= budget
  <2> DEFINE S == {e[i].stamp : i \in V \ T}
  <2>1. S \in SUBSET Nat /\ S # {} BY <1>1, <1>3, <1>7
  <2>2. PICK m \in S : \A n \in S : m <= n
    <3> HIDE DEF S
    <3> QED BY <2>1, LeastOf
  <2>3. PICK i \in V \ T : e[i].stamp = m BY <2>2
  <2>4. Older(i) \subseteq T
    <3>1. ASSUME NEW j \in V, e[j].stamp < e[i].stamp, j \notin T PROVE FALSE
      <4>1. m <= e[j].stamp BY <2>2, <3>1
      <4> QED BY <1>1, <1>3, <2>3, <3>1, <4>1
    <3> QED BY <3>1
  <2>5. ~(used - Sum(f, Older(i)) > budget) BY <1>5, <2>3
  <2>6. T \in SUBSET DOMAIN e /\ Older(i) \in SUBSET T BY <1>1, <2>4
  <2> DEFINE P == Older(i)
  <2> HIDE DEF f, T, V, P
  <2>7. IsFiniteSet(T) /\ IsFiniteSet(P) /\ \A x \in T : f[x] \in Nat
    BY <1>2, <1>3, <2>6, FS_Subset DEF P
  <2>8. Sum(f, P) <= Sum(f, T) BY <2>6, <2>7, SumIsMonotone DEF P
  <2> QED BY <2>5, <2>6, <2>7, <2>8, SumOfNaturals DEF P
<1> QED BY <1>1, <1>4, <1>7

(* What EvictToBudget makes of the entries, the index and the bytes.        *)
Evicted(e, index, used, preset, f, indexAfter, usedAfter) ==
  LET gone == UNION {Taken(e, used[k], Budget(preset, k), k) : k \in RsKinds}
  IN /\ f = Restrict(e, DOMAIN e \ gone)
     /\ indexAfter = Restrict(index, {u \in DOMAIN index : index[u] \notin gone})
     /\ usedAfter = [k \in RsKinds |-> used[k] - BytesOf(e, {g \in gone : KindOf[e[g].uri] = k})]

LEMMA EvictionKeepsBooks ==
  ASSUME NEW e, NEW index, NEW used, NEW preset, NEW f, NEW indexAfter, NEW usedAfter,
         Evicted(e, index, used, preset, f, indexAfter, usedAfter),
         NEW next \in Nat, EntriesType(e, next), used \in [RsKinds -> Int], preset \in Presets,
         Exact(e, used), Indexed(e, index)
  PROVE  /\ EntriesType(f, next) /\ usedAfter \in [RsKinds -> Int]
         /\ Exact(f, usedAfter) /\ WithinBudget(f, usedAfter, preset) /\ Indexed(f, indexAfter)
         /\ DOMAIN f \subseteq DOMAIN e /\ \A i \in DOMAIN f : f[i] = e[i]
         /\ \A i \in DOMAIN e \ DOMAIN f : e[i].committed
<1> DEFINE T(k) == Taken(e, used[k], Budget(preset, k), k)
           gone == UNION {T(k) : k \in RsKinds}
           value == [i \in DOMAIN e |-> e[i].bytes]
<1>1. /\ f = Restrict(e, DOMAIN e \ gone)
      /\ indexAfter = Restrict(index, {u \in DOMAIN index : index[u] \notin gone})
      /\ usedAfter = [k \in RsKinds |-> used[k] - BytesOf(e, {g \in gone : KindOf[e[g].uri] = k})]
  BY DEF Evicted
<1>2. DOMAIN f = DOMAIN e \ gone /\ \A i \in DOMAIN f : f[i] = e[i] BY <1>1 DEF Restrict
<1>3. \A k \in RsKinds : Budget(preset, k) \in Int
  BY ResourcesAssumption DEF Budget, RsKinds, Presets
<1>4. ASSUME NEW k \in RsKinds
      PROVE  /\ T(k) \subseteq Victims(e, k)
             /\ T(k) = Victims(e, k) \/ used[k] - BytesOf(e, T(k)) <= Budget(preset, k)
  BY <1>3, <1>4, EnoughIsTaken
<1>5. ASSUME NEW k \in RsKinds PROVE {g \in gone : KindOf[e[g].uri] = k} = T(k)
  BY <1>4 DEF Victims
<1>6. \A i \in gone : i \in DOMAIN e /\ e[i].committed BY <1>4 DEF Victims
<1> HIDE DEF gone
<1>7. ASSUME NEW k \in RsKinds
      PROVE  /\ usedAfter[k] \in Int /\ usedAfter[k] = used[k] - BytesOf(e, T(k))
             /\ usedAfter[k] = BytesOf(f, HeldOf(f, k))
  <2> DEFINE H == HeldOf(e, k)
             G == T(k)
  <2>1. G \in SUBSET H /\ H \in SUBSET DOMAIN e BY <1>4 DEF HeldOf, Victims
  <2>2. HeldOf(f, k) = H \ G
    <3>1. ASSUME NEW i \in DOMAIN e, KindOf[e[i].uri] = k PROVE i \in gone <=> i \in G
      BY <1>5, <1>6, <3>1
    <3>2. ASSUME NEW i PROVE i \in HeldOf(f, k) <=> i \in H \ G BY <1>2, <3>1 DEF HeldOf
    <3> QED BY <3>2
  <2>3. usedAfter[k] = used[k] - BytesOf(e, G) /\ used[k] = BytesOf(e, H) /\ used[k] \in Int
    BY <1>1, <1>5 DEF Exact
  <2> DEFINE after == [i \in DOMAIN f |-> f[i].bytes]
  <2>4. \A S : BytesOf(e, S) = Sum(value, S) /\ BytesOf(f, S) = Sum(after, S) BY DEF BytesOf, Sum
  <2>5. \A i \in DOMAIN e : value[i] \in Nat BY DEF EntriesType, EntryType
  <2>6. \A i \in H \ G : after[i] = value[i] BY <1>2, <2>1, <2>2 DEF HeldOf
  <2>7. IsFiniteSet(DOMAIN e) BY EntriesAreFinite
  <2> HIDE DEF H, G, value, after
  <2>8. IsFiniteSet(H) /\ IsFiniteSet(H \ G) /\ IsFiniteSet(G) BY <2>1, <2>7, FS_Subset
  <2>9. Sum(value, H) = Sum(value, G) + Sum(value, H \ G) BY <2>1, <2>5, <2>8, SumOfParts
  <2>10. Sum(value, G) \in Int /\ Sum(value, H \ G) \in Int BY <2>1, <2>5, <2>8, SumOfIntegers
  <2>11. Sum(after, H \ G) = Sum(value, H \ G) BY <2>6, <2>8, SumDependsOnValues
  <2> QED BY <2>2, <2>3, <2>4, <2>9, <2>10, <2>11 DEF G
<1>8. EntriesType(f, next) BY <1>1, <1>2 DEF EntriesType, Restrict
<1>9. usedAfter \in [RsKinds -> Int] BY <1>1, <1>7
<1>10. WithinBudget(f, usedAfter, preset)
  <2>1. ASSUME NEW k \in RsKinds, usedAfter[k] > Budget(preset, k), NEW i \in HeldOf(f, k)
        PROVE  f[i].refs > 0
    <3>1. used[k] - BytesOf(e, T(k)) > Budget(preset, k) BY <1>7, <2>1
    <3>2. T(k) = Victims(e, k)
      <4>1. used[k] - BytesOf(e, T(k)) \in Int /\ Budget(preset, k) \in Int BY <1>3, <1>7
      <4> HIDE DEF T
      <4> QED BY <1>4, <3>1, <4>1
    <3>3. i \in DOMAIN e /\ i \notin gone /\ f[i] = e[i] /\ e[i].committed /\ KindOf[e[i].uri] = k
      BY <1>2, <2>1 DEF HeldOf
    <3>4. ~(e[i].refs = 0) BY <1>5, <3>2, <3>3 DEF Victims
    <3> QED BY <3>3, <3>4 DEF EntriesType, EntryType
  <2> QED BY <2>1 DEF WithinBudget
<1>11. Indexed(f, indexAfter) BY <1>1, <1>2 DEF Indexed, Restrict
<1> QED BY <1>2, <1>6, <1>7, <1>8, <1>9, <1>10, <1>11 DEF Exact

(* Loads stay under way when resources that are loaded go.                  *)
LEMMA LoadsSurviveEviction ==
  ASSUME NEW e, NEW f, NEW jobs, NEW worker, UnderWay(e, jobs, worker),
         DOMAIN f \subseteq DOMAIN e, \A i \in DOMAIN f : f[i] = e[i],
         \A i \in DOMAIN e \ DOMAIN f : e[i].committed
  PROVE  UnderWay(f, jobs, worker)
BY DEF UnderWay

(* References and stamps are in nobody's books.                             *)
Alike(e, f) ==
  /\ DOMAIN f = DOMAIN e
  /\ \A i \in DOMAIN e : /\ f[i].uri = e[i].uri /\ f[i].bytes = e[i].bytes
                         /\ f[i].committed <=> e[i].committed

LEMMA AlikeKeepBooks ==
  ASSUME NEW e, NEW f, Alike(e, f), NEW next \in Nat, EntriesType(e, next),
         NEW used, NEW index, NEW jobs, NEW worker
  PROVE  /\ \A k : HeldOf(f, k) = HeldOf(e, k)
         /\ Exact(e, used) => Exact(f, used)
         /\ Indexed(e, index) => Indexed(f, index)
         /\ UnderWay(e, jobs, worker) => UnderWay(f, jobs, worker)
<1>1. ASSUME NEW k PROVE HeldOf(f, k) = HeldOf(e, k) /\ HeldOf(e, k) \subseteq DOMAIN e
  BY DEF Alike, HeldOf
<1>2. ASSUME NEW k \in RsKinds PROVE BytesOf(f, HeldOf(e, k)) = BytesOf(e, HeldOf(e, k))
  <2> DEFINE a == [i \in DOMAIN e |-> e[i].bytes]
             b == [i \in DOMAIN f |-> f[i].bytes]
             S == HeldOf(e, k)
  <2>1. IsFiniteSet(S)
    <3>1. S \in SUBSET DOMAIN e BY <1>1
    <3> HIDE DEF S
    <3> QED BY <3>1, EntriesAreFinite
  <2>2. \A i \in S : b[i] = a[i] BY <1>1 DEF Alike
  <2>3. Sum(b, S) = Sum(a, S)
    <3> HIDE DEF a, b, S
    <3> QED BY <2>1, <2>2, SumDependsOnValues
  <2> QED BY <2>3 DEF BytesOf, Sum
<1>3. Indexed(e, index) => Indexed(f, index) BY DEF Alike, Indexed
<1>4. UnderWay(e, jobs, worker) => UnderWay(f, jobs, worker) BY DEF Alike, UnderWay
<1> QED BY <1>1, <1>2, <1>3, <1>4 DEF Exact

Touched(r, n, stamp) == [r EXCEPT !.refs = n, !.stamp = stamp]
Loaded(r, n) == [r EXCEPT !.committed = TRUE, !.bytes = n]

LEMMA TouchedEntry ==
  ASSUME NEW r \in EntryType, NEW n \in Nat, NEW stamp \in Nat
  PROVE  LET t == Touched(r, n, stamp) IN
         /\ t \in EntryType /\ t.uri = r.uri /\ t.bytes = r.bytes
         /\ (t.committed <=> r.committed) /\ t.refs = n
BY DEF Touched, EntryType

LEMMA LoadedEntry ==
  ASSUME NEW r \in EntryType, NEW n \in Nat
  PROVE  LET t == Loaded(r, n) IN
         /\ t \in EntryType /\ t.uri = r.uri /\ t.bytes = n /\ t.committed
BY DEF Loaded, EntryType

LEMMA LoadAsyncKeepsCache ==
  ASSUME CacheIInv, NEW u \in Uris, LoadAsync(u) PROVE CacheIInv'
<1>0. CacheType /\ rsClock + 1 \in Nat BY DEF CacheIInv, CacheType
<1>1. CASE u \in DOMAIN rsIndex /\ rsEntries' = [rsEntries EXCEPT ![rsIndex[u]].refs = @ + 1,
                                                            ![rsIndex[u]].stamp = rsClock + 1]
           /\ UNCHANGED <<rsIndex, rsNext, rsJobs>>
  <2> DEFINE i == rsIndex[u]
             e == rsEntries
             f == rsEntries'
  <2>1. i \in DOMAIN e BY <1>1 DEF CacheIInv, Indexed
  <2>2. e[i] \in EntryType /\ EntriesType(e, rsNext) /\ rsNext \in Nat
    BY <1>0, <2>1 DEF CacheType, EntriesType
  <2> DEFINE r == Touched(e[i], e[i].refs + 1, rsClock + 1)
  <2>3. r \in EntryType /\ r.uri = e[i].uri /\ r.bytes = e[i].bytes
        /\ (r.committed <=> e[i].committed) /\ r.refs = e[i].refs + 1 /\ e[i].refs \in Nat
    <3>1. e[i].refs \in Nat /\ e[i].refs + 1 \in Nat BY <2>2 DEF EntryType
    <3> DEFINE x == e[i]
               n == e[i].refs + 1
               c == rsClock + 1
    <3>2. x \in EntryType /\ n \in Nat /\ c \in Nat /\ r = Touched(x, n, c) BY <1>0, <2>2, <3>1
    <3> HIDE DEF x, n, c, r
    <3>3. /\ r \in EntryType /\ r.uri = x.uri /\ r.bytes = x.bytes
          /\ (r.committed <=> x.committed) /\ r.refs = n
      BY ONLY <3>2, TouchedEntry
    <3> QED BY <3>1, <3>3 DEF x, n
  <2>4. f = [e EXCEPT ![i] = r] BY <1>1 DEF Touched
  <2> HIDE DEF i, e, f, r
  <2>5. DOMAIN f = DOMAIN e /\ f[i] = r /\ \A j \in DOMAIN e : j # i => f[j] = e[j] BY <2>1, <2>4
  <2>6. EntriesType(f, rsNext)
    <3>1. \A j \in DOMAIN f : f[j] \in EntryType BY <2>2, <2>3, <2>5 DEF EntriesType
    <3> QED BY <2>2, <2>4, <2>5, <3>1 DEF EntriesType
  <2>7. /\ \A k : HeldOf(f, k) = HeldOf(e, k)
        /\ Exact(f, rsUsed) /\ Indexed(f, rsIndex) /\ UnderWay(f, rsJobs, rsWorker)
    BY <2>1, <2>2, <2>3, <2>5, AlikeKeepBooks DEF CacheIInv, e, Alike
  <2>8. WithinBudget(f, rsUsed, rsPreset)
    <3>1. ASSUME NEW j \in DOMAIN e, e[j].refs > 0 PROVE f[j].refs > 0 BY <2>3, <2>5, <3>1
    <3>2. WithinBudget(e, rsUsed, rsPreset) BY DEF CacheIInv, e
    <3> QED BY <2>7, <3>1, <3>2 DEF WithinBudget, HeldOf
  <2> QED BY <1>0, <1>1, <2>6, <2>7, <2>8 DEF CacheIInv, LoadAsync, f, CacheType
<1>2. CASE /\ u \notin DOMAIN rsIndex
           /\ rsEntries' = [i \in DOMAIN rsEntries \cup {rsNext} |->
                IF i = rsNext THEN [uri |-> u, refs |-> 1, stamp |-> rsClock + 1,
                                    committed |-> FALSE, bytes |-> 0]
                ELSE rsEntries[i]]
           /\ rsIndex' = [v \in DOMAIN rsIndex \cup {u} |-> IF v = u THEN rsNext ELSE rsIndex[v]]
           /\ rsNext' = rsNext + 1 /\ rsJobs' = Append(rsJobs, rsNext)
  <2> DEFINE e == rsEntries
             f == rsEntries'
             n == rsNext
             r == [uri |-> u, refs |-> 1, stamp |-> rsClock + 1, committed |-> FALSE, bytes |-> 0]
  <2>1. n \in Nat \ {0} /\ EntriesType(e, n) /\ rsJobs \in Seq(Nat) BY <1>0 DEF CacheType
  <2>2. n \notin DOMAIN e BY <2>1 DEF EntriesType
  <2>3. r \in EntryType /\ ~r.committed /\ r.uri = u BY <1>0 DEF EntryType
  <2>4. f = [i \in DOMAIN e \cup {n} |-> IF i = n THEN r ELSE e[i]] BY <1>2
  <2> HIDE DEF e, f, n, r
  <2>5. DOMAIN f = DOMAIN e \cup {n} /\ f[n] = r /\ \A i \in DOMAIN e : i # n /\ f[i] = e[i]
    BY <2>2, <2>4
  <2>6. EntriesType(f, n + 1)
    <3>1. \A j \in DOMAIN f : f[j] \in EntryType /\ j \in 1 .. (n + 1) - 1
      BY <2>1, <2>3, <2>5 DEF EntriesType
    <3> QED BY <2>4, <3>1 DEF EntriesType
  <2>7. \A k : HeldOf(f, k) = HeldOf(e, k) /\ HeldOf(e, k) \in SUBSET DOMAIN e
    <3>1. ASSUME NEW k PROVE HeldOf(f, k) = HeldOf(e, k) BY <2>2, <2>3, <2>5 DEF HeldOf
    <3> QED BY <3>1 DEF HeldOf
  <2>8. Exact(f, rsUsed)
    <3>1. Exact(e, rsUsed) BY DEF CacheIInv, e
    <3>2. ASSUME NEW k \in RsKinds PROVE BytesOf(f, HeldOf(e, k)) = BytesOf(e, HeldOf(e, k))
      <4> DEFINE a == [i \in DOMAIN e |-> e[i].bytes]
                 b == [i \in DOMAIN f |-> f[i].bytes]
                 S == HeldOf(e, k)
      <4>1. S \in SUBSET DOMAIN e BY <2>7
      <4>2. \A i \in S : b[i] = a[i] BY <2>5, <4>1
      <4> HIDE DEF a, b, S
      <4>3. Sum(b, S) = Sum(a, S) BY <2>1, <4>1, <4>2, EntriesAreFinite, SumDependsOnValues
      <4> QED BY <4>3 DEF BytesOf, Sum, a, b, S
    <3> QED BY <2>7, <3>1, <3>2 DEF Exact
  <2>9. WithinBudget(f, rsUsed, rsPreset) BY <2>5, <2>7 DEF WithinBudget, CacheIInv, e
  <2>10. Indexed(f, rsIndex') BY <1>2, <2>3, <2>5 DEF Indexed, CacheIInv, e, n
  <2>11. UnderWay(f, rsJobs', rsWorker)
    <3>1. UnderWay(e, rsJobs, rsWorker) /\ rsJobs' = Append(rsJobs, n) BY <1>2 DEF CacheIInv, e, n
    <3>2. n \notin Members(rsJobs) /\ \A w \in RsWorkers : rsWorker[w].id # n
      BY <2>1, <2>2, <3>1 DEF UnderWay
    <3> DEFINE jobs == rsJobs'
    <3>3. Members(jobs) = Members(rsJobs) \cup {n} /\ NoRepeat(jobs)
      BY <2>1, <3>1, <3>2, AppendMembers DEF UnderWay
    <3> HIDE DEF jobs
    <3> QED BY <2>3, <2>5, <3>1, <3>2, <3>3 DEF jobs, UnderWay
  <2>12. CacheType' BY <1>0, <1>2, <2>1, <2>6, AppendProperties DEF CacheType, LoadAsync, n, f
  <2> QED BY <2>8, <2>9, <2>10, <2>11, <2>12 DEF CacheIInv, f, LoadAsync
<1> QED BY <1>1, <1>2 DEF LoadAsync

(* What an action that ends in EvictToBudget has to see to.                 *)
LEMMA EvictionKeepsCache ==
  ASSUME CacheType, NEW e, NEW used, NEW preset, EvictToBudget(e, used, preset),
         rsPreset' = preset, preset \in Presets, EntriesType(e, rsNext),
         used \in [RsKinds -> Int], Exact(e, used), Indexed(e, rsIndex),
         UnderWay(e, rsJobs, rsWorker'), rsWorker' \in [RsWorkers -> WorkerType],
         rsClock' \in Nat, UNCHANGED <<rsPresets, rsNext, rsJobs>>
  PROVE  CacheIInv'
<1> DEFINE f == rsEntries'
           indexAfter == rsIndex'
           usedAfter == rsUsed'
           w == rsWorker'
<1>1. Evicted(e, rsIndex, used, preset, f, indexAfter, usedAfter) BY DEF EvictToBudget, Evicted
<1>2. rsNext \in Nat BY DEF CacheType
<1> HIDE DEF f, indexAfter, usedAfter, w
<1>3. /\ EntriesType(f, rsNext) /\ usedAfter \in [RsKinds -> Int]
      /\ Exact(f, usedAfter) /\ WithinBudget(f, usedAfter, preset) /\ Indexed(f, indexAfter)
      /\ DOMAIN f \subseteq DOMAIN e /\ \A i \in DOMAIN f : f[i] = e[i]
      /\ \A i \in DOMAIN e \ DOMAIN f : e[i].committed
  BY ONLY <1>1, <1>2, EntriesType(e, rsNext), used \in [RsKinds -> Int], preset \in Presets,
          Exact(e, used), Indexed(e, rsIndex), EvictionKeepsBooks
<1>4. UnderWay(e, rsJobs, w) BY DEF w
<1>5. UnderWay(f, rsJobs, w) BY ONLY <1>3, <1>4, LoadsSurviveEviction
<1> QED BY <1>3, <1>5 DEF CacheIInv, f, indexAfter, usedAfter, w, CacheType

LEMMA UnloadKeepsCache ==
  ASSUME CacheIInv, NEW i, Unload(i) PROVE CacheIInv'
<1> DEFINE e == rsEntries
           f == [rsEntries EXCEPT ![i].refs = @ - 1, ![i].stamp = rsClock + 1]
           r == Touched(e[i], e[i].refs - 1, rsClock + 1)
<1>0. CacheType /\ rsClock + 1 \in Nat /\ rsNext \in Nat /\ EntriesType(e, rsNext)
      /\ rsPreset \in Presets /\ rsUsed \in [RsKinds -> Int] /\ rsWorker \in [RsWorkers -> WorkerType]
  BY DEF CacheIInv, CacheType
<1>1. i \in DOMAIN e /\ e[i].refs > 0 /\ e[i] \in EntryType BY <1>0 DEF Unload, EntriesType
<1>2. r \in EntryType /\ r.uri = e[i].uri /\ r.bytes = e[i].bytes
      /\ (r.committed <=> e[i].committed)
  <2> DEFINE x == e[i]
             n == e[i].refs - 1
             c == rsClock + 1
  <2>1. x \in EntryType /\ n \in Nat /\ c \in Nat /\ r = Touched(x, n, c)
    BY <1>0, <1>1 DEF EntryType
  <2> HIDE DEF x, n, c, r
  <2>2. /\ r \in EntryType /\ r.uri = x.uri /\ r.bytes = x.bytes
        /\ (r.committed <=> x.committed)
    BY ONLY <2>1, TouchedEntry
  <2> QED BY <2>2 DEF x
<1>3. f = [e EXCEPT ![i] = r] BY DEF Touched
<1>4. EvictToBudget(f, rsUsed, rsPreset) /\ rsClock' = rsClock + 1
      /\ UNCHANGED <<rsPresets, rsPreset, rsNext, rsJobs, rsWorker>>
  BY DEF Unload
<1> HIDE DEF e, f, r
<1>5. DOMAIN f = DOMAIN e /\ f[i] = r /\ \A j \in DOMAIN e : j # i => f[j] = e[j] BY <1>1, <1>3
<1>6. EntriesType(f, rsNext)
  <2>1. \A j \in DOMAIN f : f[j] \in EntryType BY <1>0, <1>2, <1>5 DEF EntriesType
  <2> QED BY <1>0, <1>3, <1>5, <2>1 DEF EntriesType
<1>7. Exact(f, rsUsed) /\ Indexed(f, rsIndex) /\ UnderWay(f, rsJobs, rsWorker)
  BY <1>0, <1>1, <1>2, <1>5, AlikeKeepBooks DEF CacheIInv, e, Alike
<1> QED BY <1>0, <1>4, <1>6, <1>7, EvictionKeepsCache

LEMMA SetQualityKeepsCache ==
  ASSUME CacheIInv, NEW l \in Range(Levels), SetQuality(l) PROVE CacheIInv'
<1> DEFINE p == rsPresets[l]
<1>1. CacheType /\ p \in Presets BY DEF CacheIInv, CacheType
<1>2. EvictToBudget(rsEntries, rsUsed, p) /\ rsPreset' = p
      /\ UNCHANGED <<rsPresets, rsClock, rsNext, rsJobs, rsWorker>>
  BY DEF SetQuality
<1> HIDE DEF p
<1> QED BY <1>1, <1>2, EvictionKeepsCache DEF CacheIInv, CacheType

LEMMA LoadPresetsKeepsCache ==
  ASSUME CacheIInv, NEW f \in PresetFiles, LoadPresets(f) PROVE CacheIInv'
<1>1. ASSUME NEW l \in Range(Levels) PROVE rsPresets'[l] \in Presets
  <2>1. ASSUME NEW n \in DOMAIN Levels, Levels[n] = l,
               \A m \in 1 .. n : Levels[m] \in DOMAIN f
        PROVE  f[l] \in Presets
    <3>1. l \in DOMAIN f BY <2>1, ResourcesAssumption, LenProperties
    <3> QED BY <3>1, ResourcesAssumption
  <2> QED BY <2>1 DEF LoadPresets, CacheIInv, CacheType
<1>2. UNCHANGED <<rsPreset, rsEntries, rsIndex, rsUsed, rsClock, rsNext, rsJobs, rsWorker>>
  BY DEF LoadPresets
<1> QED BY <1>1, <1>2 DEF CacheIInv, CacheType

LEMMA WorkerStepKeepsCache ==
  ASSUME CacheIInv, NEW w \in RsWorkers, WorkerStep(w) PROVE CacheIInv'
<1> DEFINE e == rsEntries
           i == rsWorker[w].id
           after == rsWorker'
<1>0. CacheType /\ rsNext \in Nat \ {0} /\ EntriesType(e, rsNext) /\ rsJobs \in Seq(Nat)
      /\ rsPreset \in Presets /\ rsUsed \in [RsKinds -> Int]
      /\ rsWorker \in [RsWorkers -> WorkerType] /\ UnderWay(e, rsJobs, rsWorker)
      /\ Exact(e, rsUsed) /\ Indexed(e, rsIndex) /\ WithinBudget(e, rsUsed, rsPreset)
  BY DEF CacheIInv, CacheType
<1>w. rsWorker[w] \in WorkerType BY <1>0
<1>n. NextJob \in WorkerType /\ NextJob.id = 0 /\ NextJob.at \in {"wait", "gone"}
  BY DEF NextJob, Waiting, WorkerType
<1>1. CASE WorkerTakes(w)
  <2> DEFINE h == Head(rsJobs)
             rest == Tail(rsJobs)
             look == [Waiting EXCEPT !.at = "look", !.id = h]
  <2>1. rsWorker[w].at = "wait" /\ rsJobs # <<>> /\ rsJobs' = rest
        /\ after = [rsWorker EXCEPT ![w] = look]
        /\ UNCHANGED <<rsPresets, rsPreset, rsEntries, rsIndex, rsUsed, rsClock, rsNext>>
    BY <1>1 DEF WorkerTakes
  <2>2. h \in Nat /\ rest \in Seq(Nat) BY <1>0, <2>1, TailOf
  <2>3. look \in WorkerType /\ look.id = h /\ look.at = "look" BY <2>2 DEF Waiting, WorkerType
  <2> HIDE DEF h, rest, look, after, e
  <2>4. NoRepeat(rest) /\ h \in Members(rsJobs) /\ Members(rest) = Members(rsJobs) \ {h}
    BY <1>0, <2>1, TailMembers DEF h, rest, UnderWay
  <2>5. Members(rsJobs) = Members(rest) \cup {h} /\ h \notin Members(rest) BY <2>4
  <2>6. h \in DOMAIN e /\ ~e[h].committed /\ h # 0 /\ \A v \in RsWorkers : rsWorker[v].id # h
    BY <1>0, <2>4 DEF EntriesType, UnderWay
  <2>7. after[w] = look /\ (\A v \in RsWorkers : v # w => after[v] = rsWorker[v])
        /\ after \in [RsWorkers -> WorkerType]
    BY <1>0, <2>1, <2>3
  <2>8. UnderWay(e, rest, after)
    <3>1. \A j \in DOMAIN e : ~e[j].committed => j \in Members(rest) \/ \E v \in RsWorkers : after[v].id = j
      <4>1. SUFFICES ASSUME NEW j \in DOMAIN e, ~e[j].committed, j \notin Members(rest)
                     PROVE  \E v \in RsWorkers : after[v].id = j
        OBVIOUS
      <4>2. CASE j = h BY <2>3, <2>7, <4>2
      <4>3. CASE j # h
        <5>1. PICK v \in RsWorkers : rsWorker[v].id = j BY <1>0, <2>5, <4>1, <4>3 DEF UnderWay
        <5>2. j # 0 BY <1>0, <4>1 DEF EntriesType
        <5> QED BY <1>0, <2>1, <2>7, <5>1, <5>2 DEF UnderWay
      <4> QED BY <4>2, <4>3
    <3>2. \A j \in Members(rest) : j \in DOMAIN e /\ ~e[j].committed
                                   /\ \A v \in RsWorkers : after[v].id # j
      BY <1>0, <2>3, <2>5, <2>7 DEF UnderWay
    <3>3. \A v \in RsWorkers : after[v].id # 0 <=> after[v].at \in {"look", "commit"}
      BY <1>0, <2>3, <2>6, <2>7 DEF UnderWay
    <3>4. \A v \in RsWorkers : after[v].id # 0 => after[v].id \in DOMAIN e /\ ~e[after[v].id].committed
      BY <1>0, <2>3, <2>6, <2>7 DEF UnderWay
    <3>5. \A v, x \in RsWorkers : after[v].id = after[x].id /\ after[v].id # 0 => v = x
      BY <1>0, <2>3, <2>6, <2>7 DEF UnderWay
    <3> QED BY <2>4, <3>1, <3>2, <3>3, <3>4, <3>5 DEF UnderWay
  <2> QED BY <1>0, <2>1, <2>2, <2>7, <2>8 DEF CacheIInv, after, e, CacheType
<1>2. CASE WorkerLooks(w)
  <2> DEFINE r == [at |-> "commit", id |-> i, bytes |-> ComputePayload(rsEntries[i].uri)]
  <2>1. i # 0 /\ i \in DOMAIN e /\ rsWorker[w].at = "look"
    BY <1>0, <1>2 DEF WorkerLooks, UnderWay
  <2>2. after = [rsWorker EXCEPT ![w] = r]
        /\ UNCHANGED <<rsPresets, rsPreset, rsEntries, rsIndex, rsUsed, rsClock, rsNext, rsJobs>>
    BY <1>2, <2>1 DEF WorkerLooks
  <2>3. r \in WorkerType /\ r.id = i /\ r.at = "commit"
    <3>1. ComputePayload(rsEntries[i].uri) \in Nat
      BY <1>0, <2>1, ResourcesAssumption DEF ComputePayload, Presets, EntriesType, EntryType
    <3> QED BY <1>w, <3>1 DEF WorkerType
  <2> HIDE DEF r, after, e
  <2>4. after[w].id = i /\ after[w].at = "commit" /\ (\A v \in RsWorkers : v # w => after[v] = rsWorker[v])
        /\ after \in [RsWorkers -> WorkerType]
    BY <1>0, <2>2, <2>3
  <2>5. \A v \in RsWorkers : after[v].id = rsWorker[v].id
          /\ (after[v].at \in {"look", "commit"} <=> rsWorker[v].at \in {"look", "commit"})
    <3>1. ASSUME NEW v \in RsWorkers, v # w
          PROVE  /\ after[v].id = rsWorker[v].id
                 /\ after[v].at \in {"look", "commit"} <=> rsWorker[v].at \in {"look", "commit"}
      BY <2>4, <3>1
    <3> QED BY <2>1, <2>4, <3>1
  <2>6. UnderWay(e, rsJobs, after)
    <3>1. ASSUME NEW v \in RsWorkers
          PROVE  /\ after[v].id # 0 <=> after[v].at \in {"look", "commit"}
                 /\ after[v].id # 0 => after[v].id \in DOMAIN e /\ ~e[after[v].id].committed
      BY <1>0, <2>5 DEF UnderWay
    <3>2. \A v, x \in RsWorkers : after[v].id = after[x].id /\ after[v].id # 0 => v = x
      BY <1>0, <2>5 DEF UnderWay
    <3>3. \A j \in DOMAIN e : ~e[j].committed => j \in Members(rsJobs) \/ \E v \in RsWorkers : after[v].id = j
      BY <1>0, <2>5 DEF UnderWay
    <3> QED BY <1>0, <2>5, <3>1, <3>2, <3>3 DEF UnderWay
  <2> QED BY <1>0, <2>2, <2>4, <2>6 DEF CacheIInv, after, e, CacheType
<1>3. CASE WorkerCommits(w)
  <2> DEFINE n == rsWorker[w].bytes
             k == KindOf[e[i].uri]
             f == [rsEntries EXCEPT ![i].committed = TRUE, ![i].bytes = n]
             r == Loaded(e[i], n)
             used == [rsUsed EXCEPT ![k] = @ + n]
  <2>1. i # 0 /\ i \in DOMAIN e /\ ~e[i].committed /\ rsWorker[w].at = "commit" /\ n \in Nat
        /\ e[i] \in EntryType
    BY <1>0, <1>3, <1>w DEF WorkerCommits, UnderWay, WorkerType, EntriesType
  <2>2. EvictToBudget(f, used, rsPreset) /\ after = [rsWorker EXCEPT ![w] = NextJob]
        /\ UNCHANGED <<rsPresets, rsPreset, rsClock, rsNext, rsJobs>>
    BY <1>3, <2>1 DEF WorkerCommits
  <2>3. r \in EntryType /\ r.committed /\ r.bytes = n /\ r.uri = e[i].uri
    <3> HIDE DEF e, i, n
    <3> QED BY <2>1, LoadedEntry
  <2>4. f = [e EXCEPT ![i] = r] BY DEF Loaded
  <2>5. k \in RsKinds /\ rsUsed[k] \in Int BY <1>0, <2>1, ResourcesAssumption DEF EntryType
  <2>6. used \in [RsKinds -> Int] /\ used[k] = rsUsed[k] + n /\ \A h \in RsKinds : h # k => used[h] = rsUsed[h]
    BY <1>0, <2>1, <2>5
  <2> HIDE DEF e, n, k, f, r, used, after
  <2>7. DOMAIN f = DOMAIN e /\ f[i] = r /\ \A j \in DOMAIN e : j # i => f[j] = e[j] BY <2>1, <2>4
  <2>8. EntriesType(f, rsNext)
    <3>1. \A j \in DOMAIN f : f[j] \in EntryType BY <1>0, <2>3, <2>7 DEF EntriesType
    <3> QED BY <1>0, <2>4, <2>7, <3>1 DEF EntriesType
  <2>9. Indexed(f, rsIndex) BY <1>0, <2>3, <2>7 DEF Indexed
  <2>10. Exact(f, used)
    <3> DEFINE a == [j \in DOMAIN e |-> e[j].bytes]
               b == [j \in DOMAIN f |-> f[j].bytes]
    <3>1. \A S : BytesOf(e, S) = Sum(a, S) /\ BytesOf(f, S) = Sum(b, S) BY DEF BytesOf, Sum
    <3>2. \A h : HeldOf(e, h) \in SUBSET DOMAIN e /\ i \notin HeldOf(e, h) BY <2>1 DEF HeldOf
    <3>3. \A j \in DOMAIN e : j # i => b[j] = a[j] /\ a[j] \in Int
      BY <1>0, <2>7 DEF EntriesType, EntryType
    <3>4. b[i] = n /\ n \in Int BY <2>1, <2>3, <2>7
    <3> HIDE DEF a, b
    <3>5. ASSUME NEW h \in RsKinds
          PROVE  IsFiniteSet(HeldOf(e, h)) /\ Sum(b, HeldOf(e, h)) = rsUsed[h] /\ rsUsed[h] \in Int
      <4> DEFINE S == HeldOf(e, h)
      <4>1. S \in SUBSET DOMAIN e /\ i \notin S BY <3>2
      <4>2. rsUsed[h] = Sum(a, S) /\ rsUsed[h] \in Int BY <1>0, <3>1 DEF Exact
      <4> HIDE DEF S
      <4>3. IsFiniteSet(S) BY <1>0, <4>1, EntriesAreFinite
      <4>4. Sum(b, S) = Sum(a, S) BY <3>3, <4>1, <4>3, SumDependsOnValues
      <4> QED BY <4>2, <4>3, <4>4 DEF S
    <3>6. ASSUME NEW h \in RsKinds, h # k PROVE used[h] = BytesOf(f, HeldOf(f, h))
      <4>1. HeldOf(f, h) = HeldOf(e, h) BY <2>1, <2>3, <2>7, <3>6 DEF HeldOf, k
      <4> QED BY <2>6, <3>1, <3>5, <3>6, <4>1
    <3>7. used[k] = BytesOf(f, HeldOf(f, k))
      <4> DEFINE S == HeldOf(e, k)
                 P == HeldOf(f, k)
      <4>1. \A j : j \in P <=> j \in S \/ j = i BY <2>1, <2>3, <2>7 DEF HeldOf, k
      <4>2. P = S \cup {i} /\ P \ {i} = S /\ i \in P BY <3>2, <4>1
      <4>3. IsFiniteSet(S) /\ Sum(b, S) = rsUsed[k] BY <2>5, <3>5
      <4>4. \A j \in P : b[j] \in Int BY <3>2, <3>3, <3>4, <4>1
      <4> HIDE DEF P, S
      <4>5. IsFiniteSet(P) BY <4>2, <4>3, FS_AddElement
      <4>6. Sum(b, P) = n + rsUsed[k] BY <3>4, <4>2, <4>3, <4>4, <4>5, SumRemove
      <4> QED BY <2>5, <2>6, <3>1, <3>4, <4>6 DEF P
    <3> QED BY <3>6, <3>7 DEF Exact
  <2>11. after \in [RsWorkers -> WorkerType] /\ after[w].id = 0 /\ after[w].at \in {"wait", "gone"}
         /\ \A v \in RsWorkers : v # w => after[v] = rsWorker[v] /\ rsWorker[v].id # i
    BY <1>0, <1>n, <2>1, <2>2 DEF UnderWay
  <2>12. UnderWay(f, rsJobs, after)
    <3>1. \A j \in Members(rsJobs) : /\ j \in DOMAIN f /\ ~f[j].committed
                                     /\ \A v \in RsWorkers : after[v].id # j
      <4>1. \A j \in Members(rsJobs) : j # 0 /\ j # i /\ j \in DOMAIN e
        BY <1>0, <2>3, <2>7 DEF UnderWay, EntriesType
      <4> QED BY <1>0, <2>7, <2>11, <4>1 DEF UnderWay
    <3>2. \A v \in RsWorkers : after[v].id # 0 => after[v].id \in DOMAIN f /\ ~f[after[v].id].committed
      <4>1. SUFFICES ASSUME NEW v \in RsWorkers, after[v].id # 0
                     PROVE  after[v].id \in DOMAIN f /\ ~f[after[v].id].committed
        OBVIOUS
      <4>2. v # w /\ after[v] = rsWorker[v] /\ rsWorker[v].id # i BY <2>11, <4>1
      <4>3. rsWorker[v].id \in DOMAIN e /\ ~e[rsWorker[v].id].committed BY <1>0, <4>1, <4>2 DEF UnderWay
      <4> QED BY <2>7, <4>2, <4>3
    <3>3. \A v, x \in RsWorkers : after[v].id = after[x].id /\ after[v].id # 0 => v = x
      BY <1>0, <2>11 DEF UnderWay
    <3>4. \A j \in DOMAIN f : ~f[j].committed => j \in Members(rsJobs) \/ \E v \in RsWorkers : after[v].id = j
      <4>1. SUFFICES ASSUME NEW j \in DOMAIN f, ~f[j].committed, j \notin Members(rsJobs)
                     PROVE  \E v \in RsWorkers : after[v].id = j
        OBVIOUS
      <4>2. j # i /\ j \in DOMAIN e /\ ~e[j].committed BY <2>3, <2>7, <4>1
      <4>3. PICK v \in RsWorkers : rsWorker[v].id = j BY <1>0, <4>1, <4>2 DEF UnderWay
      <4> QED BY <2>11, <4>2, <4>3
    <3> QED BY <1>0, <2>11, <3>1, <3>2, <3>3, <3>4 DEF UnderWay
  <2>13. rsClock' \in Nat /\ CacheType BY <1>0, <2>2 DEF CacheType
  <2> QED BY <1>0, <2>2, <2>6, <2>8, <2>9, <2>10, <2>11, <2>12, <2>13, EvictionKeepsCache DEF after
<1> QED BY <1>1, <1>2, <1>3 DEF WorkerStep

LEMMA CacheSteps == CacheIInv /\ [ResourcesNext]_rsVars => CacheIInv'
<1> SUFFICES ASSUME CacheIInv, [ResourcesNext]_rsVars PROVE CacheIInv' OBVIOUS
<1>1. CASE \E u \in Uris : LoadAsync(u) BY <1>1, LoadAsyncKeepsCache
<1>2. CASE \E i \in 1 .. MaxIds : Unload(i) BY <1>2, UnloadKeepsCache
<1>3. CASE \E l \in Range(Levels) : SetQuality(l) BY <1>3, SetQualityKeepsCache
<1>4. CASE \E f \in PresetFiles : LoadPresets(f) BY <1>4, LoadPresetsKeepsCache
<1>5. CASE \E w \in RsWorkers : WorkerStep(w) BY <1>5, WorkerStepKeepsCache
<1>6. CASE StopWorkers \/ UNCHANGED rsVars BY <1>6 DEF StopWorkers, rsVars, CacheIInv, CacheType
<1> QED BY <1>1, <1>2, <1>3, <1>4, <1>5, <1>6 DEF ResourcesNext

------------------------------------------------------------------------------
(* Routing, for any nodes, players, scenes and capacities.                  *)
(* The types, without the recency lists: SelectSeq is recursive.            *)
RouteTypes ==
    /\ registry \in [Nodes -> Info \cup {Absent}]
    /\ cache \in [Keys -> Nodes \cup {NoNode}]
    /\ events \in Seq(Nodes) /\ Len(events) <= EventSlots
    /\ departed \in SUBSET Nodes
    /\ granted \in SUBSET (Scenes \X Nodes)

LEMMA AbsentIsNoInfo == Absent \notin Info
BY DEF Absent, Info

LEMMA RegisteredInfo ==
  ASSUME RouteTypes, NEW n \in Nodes
  PROVE  /\ n \in Registered <=> registry[n] \in Info
         /\ n \notin Registered <=> registry[n] = Absent
BY AbsentIsNoInfo DEF RouteTypes, Registered

------------------------------------------------------------------------------
(* What the cache's operations do to the routes.                            *)

(* A new route is put where none was; what goes for it was in its shard,    *)
(* and the shard was full.                                                  *)
PutsRoute(k, n) ==
    /\ cache[k] = NoNode /\ n \in Registered
    /\ cache'[k] = n
    /\ \A j \in Keys \ {k} :
          \/ cache'[j] = cache[j]
          \/ /\ cache'[j] = NoNode
             /\ Shard[j] = Shard[k]
             /\ Cardinality(Cached(Shard[k])) >= Capacity

LEMMA PutPutsRoute ==
  ASSUME RouteTypes, NEW k \in Keys, NEW n \in AliveFor("GameNode"),
         cache[k] = NoNode, Put(k, n)
  PROVE  /\ PutsRoute(k, n)
         /\ cache' \in [Keys -> Nodes \cup {NoNode}]
<1> DEFINE s == Shard[k]
           v == Victim(s)
<1>1. cache' = [j \in Keys |-> IF j = k THEN n
                               ELSE IF j \in Cached(s) \cap v THEN NoNode
                               ELSE cache[j]]
  BY DEF Put
<1>2. ASSUME NEW j \in Cached(s) \cap v
      PROVE  Shard[j] = s /\ Cardinality(Cached(s)) >= Capacity
  BY <1>2 DEF Victim, Cached
<1>3. n \in Nodes /\ n \in Registered BY DEF AliveFor, Registered
<1> HIDE DEF v, s
<1>4. ASSUME NEW j \in Keys \ {k}
      PROVE  \/ cache'[j] = cache[j]
             \/ /\ cache'[j] = NoNode
                /\ Shard[j] = s
                /\ Cardinality(Cached(s)) >= Capacity
  <2>1. CASE j \in Cached(s) \cap v BY <1>1, <1>2, <2>1
  <2>2. CASE j \notin Cached(s) \cap v BY <1>1, <2>2
  <2> QED BY <2>1, <2>2
<1>5. cache'[k] = n BY <1>1
<1> QED BY <1>1, <1>3, <1>4, <1>5 DEF PutsRoute, s, RouteTypes

(* Only routes in S go, and all of them.                                    *)
LEMMA EraseErases ==
  ASSUME RouteTypes, NEW S, Erase(S)
  PROVE  /\ cache' \in [Keys -> Nodes \cup {NoNode}]
         /\ \A k \in Keys : cache'[k] = IF k \in S THEN NoNode ELSE cache[k]
BY DEF Erase, RouteTypes

------------------------------------------------------------------------------
(* What the queue does to a batch of deaths: every one is published or      *)
(* counted as departed, and nothing queued before is lost.                  *)

LEMMA OrdersCover ==
  ASSUME NEW silent \in SUBSET Nodes, NEW q \in OrdersOf(silent)
  PROVE  /\ q \in Seq(silent)
         /\ \A n \in silent : \E i \in 1 .. Len(q) : q[i] = n
<1>1. IsFiniteSet(silent) BY FS_Subset, RoutingAssumption
<1> DEFINE c == Cardinality(silent)
<1>2. c \in Nat BY <1>1, FS_CardinalityType
<1>3. q \in [1 .. c -> silent] /\ \A i, j \in 1 .. c : q[i] = q[j] => i = j BY DEF OrdersOf
<1> HIDE DEF c
<1>4. Cardinality(1 .. c) = c BY <1>2, FS_Interval
<1>5. q \in Surjection(1 .. c, silent)
  BY <1>1, <1>3, <1>4, FS_Injection DEF c, Injection, IsInjective
<1> QED BY <1>2, <1>3, <1>5 DEF Surjection

LEMMA PublishAccounts ==
  ASSUME RouteTypes, NEW silent \in SUBSET Nodes, NEW q \in OrdersOf(silent), PublishDeaths(q)
  PROVE  /\ events' \in Seq(Nodes) /\ Len(events') <= EventSlots
         /\ departed' \in SUBSET Nodes
         /\ Announced \subseteq Announced'
         /\ Announced' \subseteq Announced \cup silent
         /\ departed \subseteq departed'
         /\ silent \subseteq Announced' \cup departed'
<1> DEFINE s == events \o q
           l == Len(events)
           t == IF l + Len(q) > EventSlots THEN EventSlots ELSE l + Len(q)
<1>1. q \in Seq(Nodes) /\ q \in Seq(silent) BY OrdersCover
<1>2. /\ l \in Nat /\ Len(q) \in Nat /\ EventSlots \in Nat /\ l <= EventSlots
      /\ t \in Nat /\ l <= t /\ t <= EventSlots /\ t <= l + Len(q)
  BY <1>1, RoutingAssumption DEF RouteTypes
<1>3. /\ s \in Seq(Nodes) /\ Len(s) = l + Len(q)
      /\ \A i \in 1 .. l + Len(q) : s[i] = IF i <= l THEN events[i] ELSE q[i - l]
  BY <1>1, ConcatProperties DEF RouteTypes
<1>4. events' = SubSeq(s, 1, t) BY DEF PublishDeaths
<1>5. departed' = departed \cup {q[i] : i \in {i \in DOMAIN q : l + i > EventSlots}}
  BY DEF PublishDeaths
<1>6. DOMAIN q = 1 .. Len(q) BY <1>1
<1>t. \A i \in 1 .. t : i \in 1 .. l + Len(q) BY <1>2
<1> HIDE DEF s, l, t
<1>7. /\ events' \in Seq(Nodes) /\ Len(events') = t
      /\ \A i \in 1 .. t : events'[i] = s[i]
  <2>1. \A i \in 1 .. t : s[i] \in Nodes BY <1>t, <1>2, <1>3
  <2> QED BY <1>2, <1>4, <2>1, SubSeqProperties
<1>8. departed' \in SUBSET Nodes BY <1>1, <1>5, <1>6 DEF RouteTypes
<1>9. \A i \in 1 .. l : i \in 1 .. t /\ events'[i] = events[i] BY <1>2, <1>3, <1>7, <1>t
<1>10. Announced \subseteq Announced'
  <2> SUFFICES ASSUME NEW i \in 1 .. l PROVE events[i] \in Announced' BY DEF Announced, l
  <2> QED BY <1>7, <1>9 DEF Announced
<1>11. Announced' \subseteq Announced \cup silent
  <2> SUFFICES ASSUME NEW i \in 1 .. t PROVE events'[i] \in Announced \cup silent
    BY <1>7 DEF Announced
  <2>1. CASE i <= l BY <1>2, <1>9, <2>1 DEF Announced, l
  <2>2. CASE ~(i <= l) BY <1>t, <1>1, <1>2, <1>3, <1>7, <2>2
  <2> QED BY <2>1, <2>2
<1>12. silent \subseteq Announced' \cup departed'
  <2> SUFFICES ASSUME NEW n \in silent PROVE n \in Announced' \cup departed' OBVIOUS
  <2>1. PICK i \in 1 .. Len(q) : q[i] = n BY OrdersCover
  <2>2. CASE l + i > EventSlots BY <1>5, <1>6, <2>1, <2>2
  <2>3. CASE ~(l + i > EventSlots)
    <3>1. l + i \in 1 .. t BY <1>2, <2>3 DEF t
    <3>2. s[l + i] = q[i] BY <1>2, <1>3
    <3> QED BY <1>7, <2>1, <3>1, <3>2 DEF Announced
  <2> QED BY <2>2, <2>3
<1> QED BY <1>2, <1>5, <1>7, <1>8, <1>10, <1>11, <1>12

------------------------------------------------------------------------------
(* Steps of the routing operations, told by what they do to the routes.     *)

KeepsRoutes == cache' = cache

LEMMA RoutePlayerShape ==
  ASSUME RouteTypes, NEW k \in Players, RoutePlayer(k)
  PROVE  /\ \/ KeepsRoutes
            \/ \E n \in Nodes : /\ PutsRoute(k, n)
                                /\ cache' \in [Keys -> Nodes \cup {NoNode}]
         /\ UNCHANGED <<registry, events, departed, granted>>
<1>1. CASE Touch(k) BY <1>1 DEF Touch, KeepsRoutes, RoutePlayer
<1>2. CASE cache[k] = NoNode /\ \E n \in Pick : Put(k, n)
  <2>1. PICK n \in AliveFor("GameNode") : Put(k, n) BY <1>2 DEF Pick
  <2>2. n \in Nodes BY DEF AliveFor, Registered
  <2> QED BY <1>2, <2>1, <2>2, PutPutsRoute DEF RoutePlayer, Keys
<1> QED BY <1>1, <1>2 DEF RoutePlayer

LEMMA RouteSceneShape ==
  ASSUME RouteTypes, NEW k \in Scenes, RouteScene(k)
  PROVE  /\ \/ KeepsRoutes /\ granted' = granted
            \/ \E n \in Nodes : /\ PutsRoute(k, n)
                                /\ cache' \in [Keys -> Nodes \cup {NoNode}]
                                /\ granted' = granted \cup {<<k, n>>}
         /\ UNCHANGED <<registry, events, departed>>
<1>1. CASE Touch(k) /\ UNCHANGED granted BY <1>1 DEF Touch, KeepsRoutes, RouteScene
<1>2. CASE /\ cache[k] = NoNode
           /\ \E n \in Pick : Put(k, n) /\ granted' = granted \cup {<<k, n>>}
  <2>1. PICK n \in AliveFor("GameNode") :
              Put(k, n) /\ granted' = granted \cup {<<k, n>>}
    BY <1>2 DEF Pick
  <2>2. n \in Nodes BY DEF AliveFor, Registered
  <2> QED BY <1>2, <2>1, <2>2, PutPutsRoute DEF RouteScene, Keys
<1> QED BY <1>1, <1>2 DEF RouteScene

LEMMA BindSceneShape ==
  ASSUME RouteTypes, NEW k \in Scenes, NEW n \in Nodes, BindScene(k, n)
  PROVE  /\ \/ KeepsRoutes /\ cache[k] = n /\ Grant(k, n)
            \/ KeepsRoutes /\ granted' = granted
            \/ /\ PutsRoute(k, n)
               /\ cache' \in [Keys -> Nodes \cup {NoNode}]
               /\ Grant(k, n)
         /\ UNCHANGED <<registry, events, departed>>
<1>1. CASE cache[k] = n /\ Touch(k) /\ Grant(k, n) BY <1>1 DEF Touch, KeepsRoutes, BindScene
<1>2. CASE cache[k] # n /\ Touch(k) /\ UNCHANGED granted
  BY <1>2 DEF Touch, KeepsRoutes, BindScene
<1>3. CASE /\ cache[k] = NoNode /\ n \in AliveFor("GameNode")
           /\ Put(k, n) /\ Grant(k, n)
  BY <1>3, PutPutsRoute DEF BindScene, Keys
<1> QED BY <1>1, <1>2, <1>3 DEF BindScene

LEMMA UnbindShape ==
  ASSUME RouteTypes, NEW k \in Scenes, NEW n \in Nodes, Unbind(k, n)
  PROVE  /\ \/ KeepsRoutes /\ granted' = granted
            \/ /\ cache[k] = n
               /\ cache' \in [Keys -> Nodes \cup {NoNode}]
               /\ \A j \in Keys : cache'[j] = IF j = k THEN NoNode ELSE cache[j]
               /\ granted' = granted \ {<<k, n>>}
         /\ UNCHANGED <<registry, events, departed>>
<1>1. CASE cache[k] = n /\ Erase({k}) /\ granted' = granted \ {<<k, n>>}
  BY <1>1, EraseErases DEF Unbind
<1>2. CASE cache[k] # n /\ Touch(k) /\ UNCHANGED granted BY <1>2 DEF Touch, KeepsRoutes, Unbind
<1> QED BY <1>1, <1>2 DEF Unbind

LEMMA InvalidateShape ==
  ASSUME RouteTypes, NEW k \in Players, Invalidate(k)
  PROVE  /\ cache' \in [Keys -> Nodes \cup {NoNode}]
         /\ \A j \in Keys : cache'[j] = IF j = k THEN NoNode ELSE cache[j]
         /\ UNCHANGED <<registry, events, departed, granted>>
BY EraseErases DEF Invalidate

------------------------------------------------------------------------------
(* Steps of the registry, told by who is registered after them.             *)

LEMMA RegisterNodeShape ==
  ASSUME RouteTypes, NEW n \in Nodes, NEW role \in Roles, RegisterNode(n, role)
  PROVE  /\ registry' \in [Nodes -> Info \cup {Absent}]
         /\ Registered' = Registered \cup {n}
         /\ n \in Registered \/ n \notin Announced \/ ReturnsEarly
         /\ UNCHANGED <<cache, lru, events, departed, granted>>
<1> DEFINE new == IF n \in Registered THEN [registry[n] EXCEPT !.role = role]
                  ELSE [role |-> role, age |-> 0, missed |-> 0, health |-> "Healthy"]
<1>1. new \in Info
  <2>1. CASE n \in Registered BY <2>1, RegisteredInfo DEF Info
  <2>2. CASE n \notin Registered BY <2>2, RoutingAssumption DEF Info
  <2> QED BY <2>1, <2>2
<1>2. registry' = [registry EXCEPT ![n] = new] BY DEF RegisterNode
<1> HIDE DEF new
<1>3. Registered' = Registered \cup {n} BY <1>1, <1>2, AbsentIsNoInfo DEF RouteTypes, Registered
<1> QED BY <1>1, <1>2, <1>3 DEF RegisterNode, RouteTypes

LEMMA HeartbeatShape ==
  ASSUME RouteTypes, NEW n \in Nodes, Heartbeat(n)
  PROVE  /\ registry' \in [Nodes -> Info \cup {Absent}]
         /\ Registered' = Registered
         /\ UNCHANGED <<cache, lru, events, departed, granted>>
<1> DEFINE new == [registry[n] EXCEPT !.age = 0, !.missed = 0, !.health = "Healthy"]
<1>1. registry[n] \in Info /\ n \in Registered BY RegisteredInfo DEF Heartbeat
<1>2. new \in Info
  <2>1. ASSUME NEW r \in Info
        PROVE  [r EXCEPT !.age = 0, !.missed = 0, !.health = "Healthy"] \in Info
    <3>1. 0 \in 0 .. DeadAfter BY RoutingAssumption
    <3> QED BY <3>1 DEF Info
  <2> QED BY <1>1, <2>1
<1>3. registry' = [registry EXCEPT ![n] = new] BY DEF Heartbeat
<1> HIDE DEF new
<1>4. Registered' = Registered BY <1>1, <1>2, <1>3, AbsentIsNoInfo DEF RouteTypes, Registered
<1> QED BY <1>2, <1>3, <1>4 DEF Heartbeat, RouteTypes

LEMMA ElapseShape ==
  ASSUME RouteTypes, NEW n \in Nodes, Elapse(n)
  PROVE  /\ registry' \in [Nodes -> Info \cup {Absent}]
         /\ Registered' = Registered
         /\ UNCHANGED <<cache, lru, events, departed, granted>>
<1> DEFINE a == registry[n].age
           new == [registry[n] EXCEPT !.age = a + 1]
<1>1. registry[n] \in Info /\ n \in Registered /\ a < DeadAfter BY RegisteredInfo DEF Elapse
<1>2. a \in 0 .. DeadAfter BY <1>1 DEF Info
<1>3. a + 1 \in 0 .. DeadAfter BY <1>1, <1>2, RoutingAssumption
<1>4. registry' = [registry EXCEPT ![n] = new] BY DEF Elapse
<1> HIDE DEF a
<1>5. new \in Info BY <1>1, <1>3 DEF Info
<1> HIDE DEF new
<1>6. Registered' = Registered BY <1>1, <1>4, <1>5, AbsentIsNoInfo DEF RouteTypes, Registered
<1> QED BY <1>4, <1>5, <1>6 DEF Elapse, RouteTypes

LEMMA UnregisterShape ==
  ASSUME RouteTypes, NEW n \in Nodes, UnregisterNode(n)
  PROVE  /\ registry' \in [Nodes -> Info \cup {Absent}]
         /\ Registered' = Registered \ {n}
         /\ departed' = departed \cup {n}
         /\ EndOwnership({n})
         /\ UNCHANGED <<cache, lru, events>>
<1>1. Registered' = Registered \ {n} BY DEF UnregisterNode, RouteTypes, Registered
<1> QED BY <1>1 DEF UnregisterNode, RouteTypes

(* A scan removes the dead and suspects the others that missed beats.       *)
LEMMA TickShape ==
  ASSUME RouteTypes, Tick
  PROVE  \E silent \in SUBSET Registered :
            /\ registry' \in [Nodes -> Info \cup {Absent}]
            /\ Registered' = Registered \ silent
            /\ \E q \in OrdersOf(silent) : PublishDeaths(q)
            /\ EndOwnership(silent)
            /\ UNCHANGED <<cache, lru>>
<1> DEFINE silent == {n \in Overdue : registry[n].age >= DeadAfter}
           seen(n) == [registry[n] EXCEPT !.missed = registry[n].age,
                                          !.health = "Suspect"]
<1>1. registry' = [n \in Nodes |-> IF n \in silent THEN Absent
                                   ELSE IF n \in Overdue THEN seen(n)
                                   ELSE registry[n]]
  BY DEF Tick
<1>2. silent \in SUBSET Registered /\ Overdue \subseteq Registered /\ silent \subseteq Overdue
  BY DEF Overdue
<1>3. ASSUME NEW n \in Overdue PROVE seen(n) \in Info
  <2>1. registry[n] \in Info BY <1>2, RegisteredInfo DEF Registered
  <2> QED BY <2>1 DEF Info
<1> HIDE DEF silent, seen
<1>4. Registered' = Registered \ silent
  <2> SUFFICES ASSUME NEW n \in Nodes
               PROVE  registry'[n] # Absent <=> registry[n] # Absent /\ n \notin silent
    BY DEF Registered
  <2>1. CASE n \in silent BY <1>1, <2>1
  <2>2. CASE n \notin silent /\ n \in Overdue
    <3>1. registry[n] # Absent BY <1>2, <2>2 DEF Registered
    <3> QED BY <1>1, <1>3, <2>2, <3>1, AbsentIsNoInfo
  <2>3. CASE n \notin silent /\ n \notin Overdue BY <1>1, <2>3
  <2> QED BY <2>1, <2>2, <2>3
<1>5. /\ \E q \in OrdersOf(silent) : PublishDeaths(q)
      /\ EndOwnership(silent)
      /\ UNCHANGED <<cache, lru>>
  BY DEF Tick, silent
<1> QED BY <1>1, <1>2, <1>3, <1>4, <1>5 DEF RouteTypes

LEMMA DispatchShape ==
  ASSUME RouteTypes, DispatchDeath
  PROVE  \E n \in Announced :
            /\ events' \in Seq(Nodes) /\ Len(events') <= EventSlots
            /\ Announced \subseteq Announced' \cup {n}
            /\ Announced' \subseteq Announced
            /\ departed' = departed \ {n}
            /\ cache' \in [Keys -> Nodes \cup {NoNode}]
            /\ \A k \in Keys : cache'[k] = IF cache[k] = n THEN NoNode ELSE cache[k]
            /\ UNCHANGED <<registry, granted>>
<1>1. events \in Seq(Nodes) /\ events # <<>> /\ Len(events) <= EventSlots
  BY DEF DispatchDeath, RouteTypes
<1> DEFINE n == Head(events)
<1>2. /\ Tail(events) \in Seq(Nodes) /\ Len(Tail(events)) = Len(events) - 1
      /\ \A i \in 1 .. Len(Tail(events)) : Tail(events)[i] = events[i + 1]
  BY <1>1, HeadTailProperties
<1>3. events' = Tail(events) /\ departed' = departed \ {n} /\ UNCHANGED <<registry, granted>>
  BY DEF DispatchDeath
<1>4. n = events[1] /\ Len(events) \in Nat /\ Len(events) >= 1 BY <1>1
<1>5. n \in Announced BY <1>4 DEF Announced
<1>6. Len(events') <= EventSlots BY <1>1, <1>2, <1>3, <1>4, RoutingAssumption
<1>7. Announced' \subseteq Announced
  <2> SUFFICES ASSUME NEW i \in 1 .. Len(Tail(events)) PROVE Tail(events)[i] \in Announced
    BY <1>3 DEF Announced
  <2> QED BY <1>2, <1>4 DEF Announced
<1>8. Announced \subseteq Announced' \cup {n}
  <2> SUFFICES ASSUME NEW i \in 1 .. Len(events), events[i] # n PROVE events[i] \in Announced'
    BY DEF Announced
  <2>1. i - 1 \in 1 .. Len(Tail(events)) /\ (i - 1) + 1 = i BY <1>2, <1>4
  <2> QED BY <1>2, <1>3, <2>1 DEF Announced
<1>9. /\ cache' \in [Keys -> Nodes \cup {NoNode}]
      /\ \A k \in Keys : cache'[k] = IF k \in RoutesTo(n) THEN NoNode ELSE cache[k]
  BY EraseErases DEF DispatchDeath
<1>10. \A k \in Keys : cache'[k] = IF cache[k] = n THEN NoNode ELSE cache[k]
  BY <1>9 DEF RoutesTo
<1> HIDE DEF n
<1> QED BY <1>1, <1>2, <1>3, <1>5, <1>6, <1>7, <1>8, <1>9, <1>10

------------------------------------------------------------------------------
(* One step of the system, told once, for the invariants below to cite.     *)

(* The routes and the grants change and the nodes do not.                   *)
RouteStep ==
    /\ UNCHANGED <<registry, events, departed>>
    /\ \/ KeepsRoutes /\ granted' = granted
       \/ \E k \in Keys : \E n \in Nodes :
             /\ PutsRoute(k, n) /\ cache' \in [Keys -> Nodes \cup {NoNode}]
             /\ \/ granted' = granted
                \/ k \in Scenes /\ granted' = granted \cup {<<k, n>>}
       \/ \E k \in Scenes : \E n \in Registered :
             /\ KeepsRoutes /\ cache[k] = n
             /\ granted' = granted \cup {<<k, n>>}
       \/ \E k \in Keys :
             /\ cache' \in [Keys -> Nodes \cup {NoNode}]
             /\ \A j \in Keys : cache'[j] = IF j = k THEN NoNode ELSE cache[j]
             /\ \/ k \in Players /\ granted' = granted
                \/ \E n \in Nodes : /\ k \in Scenes /\ cache[k] = n
                                    /\ granted' = granted \ {<<k, n>>}

LEMMA RoutingIsRouteStep ==
  ASSUME RouteTypes,
         \/ \E k \in Players : RoutePlayer(k) \/ Invalidate(k)
         \/ \E k \in Scenes : RouteScene(k)
         \/ \E k \in Scenes : \E n \in Nodes : BindScene(k, n) \/ Unbind(k, n)
  PROVE  RouteStep
<1> USE DEF Keys
<1>1. ASSUME NEW k \in Players, RoutePlayer(k) PROVE RouteStep
  BY <1>1, RoutePlayerShape DEF RouteStep
<1>2. ASSUME NEW k \in Players, Invalidate(k) PROVE RouteStep
  BY <1>2, InvalidateShape DEF RouteStep
<1>3. ASSUME NEW k \in Scenes, RouteScene(k) PROVE RouteStep
  BY <1>3, RouteSceneShape DEF RouteStep
<1>4. ASSUME NEW k \in Scenes, NEW n \in Nodes, BindScene(k, n) PROVE RouteStep
  <2>1. UNCHANGED <<registry, events, departed>> BY <1>4, BindSceneShape
  <2>2. CASE KeepsRoutes /\ cache[k] = n /\ Grant(k, n)
    <3>1. CASE n \in Registered BY <2>1, <2>2, <3>1 DEF RouteStep, Grant
    <3>2. CASE n \notin Registered BY <2>1, <2>2, <3>2 DEF RouteStep, Grant
    <3> QED BY <3>1, <3>2
  <2>3. CASE KeepsRoutes /\ granted' = granted BY <2>1, <2>3 DEF RouteStep
  <2>4. CASE /\ PutsRoute(k, n)
             /\ cache' \in [Keys -> Nodes \cup {NoNode}]
             /\ Grant(k, n)
    BY <2>1, <2>4 DEF RouteStep, Grant, PutsRoute
  <2> QED BY <1>4, <2>2, <2>3, <2>4, BindSceneShape
<1>5. ASSUME NEW k \in Scenes, NEW n \in Nodes, Unbind(k, n) PROVE RouteStep
  <2>1. UNCHANGED <<registry, events, departed>> BY <1>5, UnbindShape
  <2>2. CASE KeepsRoutes /\ granted' = granted BY <2>1, <2>2 DEF RouteStep
  <2>3. CASE /\ cache[k] = n
             /\ cache' \in [Keys -> Nodes \cup {NoNode}]
             /\ \A j \in Keys : cache'[j] = IF j = k THEN NoNode ELSE cache[j]
             /\ granted' = granted \ {<<k, n>>}
    BY <2>1, <2>3 DEF RouteStep
  <2> QED BY <1>5, <2>2, <2>3, UnbindShape
<1> QED BY <1>1, <1>2, <1>3, <1>4, <1>5

LEMMA RouteStepTypes ==
  ASSUME RouteTypes, RouteStep
  PROVE  RouteTypes'
<1>1. cache' \in [Keys -> Nodes \cup {NoNode}] BY DEF RouteStep, KeepsRoutes, RouteTypes
<1>2. granted' \in SUBSET (Scenes \X Nodes) BY DEF RouteStep, RouteTypes, Registered
<1> QED BY <1>1, <1>2 DEF RouteTypes, RouteStep

(* A step is one of the registry, of the bus or of a route, or none.        *)
StepCases ==
    \/ \E n \in Nodes : \/ \E role \in Roles : RegisterNode(n, role)
                        \/ Heartbeat(n) \/ UnregisterNode(n) \/ Elapse(n)
    \/ Tick \/ DispatchDeath \/ RouteStep \/ UNCHANGED vars

LEMMA NextCases ==
  ASSUME RouteTypes, [Next]_vars
  PROVE  StepCases
<1>1. CASE \E n \in Nodes : Membership(n) BY <1>1 DEF Membership, StepCases
<1>2. CASE Tick \/ DispatchDeath \/ UNCHANGED vars BY <1>2 DEF StepCases
<1>3. CASE \/ \E k \in Players : RoutePlayer(k) \/ Invalidate(k)
           \/ \E k \in Scenes : RouteScene(k)
           \/ \E k \in Scenes : \E n \in Nodes : BindScene(k, n) \/ Unbind(k, n)
  BY <1>3, RoutingIsRouteStep DEF StepCases
<1> QED BY <1>1, <1>2, <1>3 DEF Next

LEMMA TypesInit == Init => RouteTypes
BY RoutingAssumption DEF Init, RouteTypes

LEMMA TypesStep == RouteTypes /\ [Next]_vars => RouteTypes'
<1> SUFFICES ASSUME RouteTypes, [Next]_vars PROVE RouteTypes' OBVIOUS
<1>1. ASSUME NEW n \in Nodes, NEW role \in Roles, RegisterNode(n, role) PROVE RouteTypes'
  BY <1>1, RegisterNodeShape DEF RouteTypes
<1>2. ASSUME NEW n \in Nodes, Heartbeat(n) PROVE RouteTypes'
  BY <1>2, HeartbeatShape DEF RouteTypes
<1>3. ASSUME NEW n \in Nodes, UnregisterNode(n) PROVE RouteTypes'
  BY <1>3, UnregisterShape DEF RouteTypes, EndOwnership
<1>4. ASSUME NEW n \in Nodes, Elapse(n) PROVE RouteTypes' BY <1>4, ElapseShape DEF RouteTypes
<1>5. ASSUME Tick PROVE RouteTypes'
  <2>1. PICK silent \in SUBSET Registered :
              /\ registry' \in [Nodes -> Info \cup {Absent}]
              /\ Registered' = Registered \ silent
              /\ \E q \in OrdersOf(silent) : PublishDeaths(q)
              /\ EndOwnership(silent)
              /\ UNCHANGED <<cache, lru>>
    BY <1>5, TickShape
  <2>2. PICK q \in OrdersOf(silent) : PublishDeaths(q) BY <2>1
  <2>3. /\ events' \in Seq(Nodes) /\ Len(events') <= EventSlots
        /\ departed' \in SUBSET Nodes
    BY <2>2, PublishAccounts DEF Registered
  <2> QED BY <2>1, <2>3 DEF RouteTypes, EndOwnership
<1>6. ASSUME DispatchDeath PROVE RouteTypes' BY <1>6, DispatchShape DEF RouteTypes
<1>7. CASE RouteStep BY <1>7, RouteStepTypes
<1>8. CASE UNCHANGED vars BY <1>8 DEF vars, RouteTypes
<1> QED BY <1>1, <1>2, <1>3, <1>4, <1>5, <1>6, <1>7, <1>8, NextCases DEF StepCases

------------------------------------------------------------------------------
(* The routes.                                                              *)

LEMMA AccountedStep ==
  RouteTypes /\ RoutesAreAccounted /\ [Next]_vars => RoutesAreAccounted'
<1> SUFFICES ASSUME RouteTypes, RoutesAreAccounted, [Next]_vars
             PROVE  RoutesAreAccounted'
  OBVIOUS
<1>1. ASSUME NEW n \in Nodes, NEW role \in Roles, RegisterNode(n, role)
      PROVE  RoutesAreAccounted'
  BY <1>1, RegisterNodeShape DEF RoutesAreAccounted, Announced
<1>2. ASSUME NEW n \in Nodes, Heartbeat(n) \/ Elapse(n) PROVE RoutesAreAccounted'
  BY <1>2, HeartbeatShape, ElapseShape DEF RoutesAreAccounted, Announced
<1>3. ASSUME NEW n \in Nodes, UnregisterNode(n) PROVE RoutesAreAccounted'
  <2>1. /\ Registered' = Registered \ {n} /\ departed' = departed \cup {n}
        /\ UNCHANGED <<cache, events>>
    BY <1>3, UnregisterShape
  <2> QED BY <2>1 DEF RoutesAreAccounted, Announced
<1>4. ASSUME Tick PROVE RoutesAreAccounted'
  <2>1. PICK silent \in SUBSET Registered :
              /\ Registered' = Registered \ silent
              /\ \E q \in OrdersOf(silent) : PublishDeaths(q)
              /\ UNCHANGED cache
    BY <1>4, TickShape
  <2>2. PICK q \in OrdersOf(silent) : PublishDeaths(q) BY <2>1
  <2>3. /\ Announced \subseteq Announced' /\ departed \subseteq departed'
        /\ silent \subseteq Announced' \cup departed'
    BY <2>2, PublishAccounts DEF Registered
  <2> QED BY <2>1, <2>3 DEF RoutesAreAccounted
<1>5. ASSUME DispatchDeath PROVE RoutesAreAccounted'
  <2>1. PICK n \in Announced :
              /\ Announced \subseteq Announced' \cup {n}
              /\ departed' = departed \ {n}
              /\ \A k \in Keys : cache'[k] = IF cache[k] = n THEN NoNode ELSE cache[k]
              /\ UNCHANGED registry
    BY <1>5, DispatchShape
  <2> QED BY <2>1 DEF RoutesAreAccounted, Registered
<1>6. CASE RouteStep
  <2>1. ASSUME NEW j \in Keys
        PROVE  cache'[j] \in Registered \cup Announced \cup departed \cup {NoNode}
    BY <1>6, <2>1 DEF RouteStep, RoutesAreAccounted, PutsRoute, KeepsRoutes
  <2> QED BY <1>6, <2>1 DEF RoutesAreAccounted, RouteStep, Registered, Announced
<1>7. CASE UNCHANGED vars BY <1>7 DEF vars, RoutesAreAccounted, Registered, Announced
<1> QED BY <1>1, <1>2, <1>3, <1>4, <1>5, <1>6, <1>7, NextCases DEF StepCases

(* However the nodes come and go and whatever the queue drops, a cached     *)
(* route leads to a registered node, to one whose purge is queued, or to    *)
(* one that left without an event: nothing else is ever looked up.          *)
THEOREM NoRouteIsForgotten == Spec => []RoutesAreAccounted
<1>1. Init => RoutesAreAccounted BY DEF Init, RoutesAreAccounted
<1>2. RouteTypes /\ RoutesAreAccounted /\ [Next]_vars => (RouteTypes /\ RoutesAreAccounted)'
  BY TypesStep, AccountedStep
<1> QED BY <1>1, <1>2, TypesInit, PTL DEF Spec

------------------------------------------------------------------------------
(* The beats a node has missed.                                             *)

BeatsAgree(r) ==
    /\ r.health = "Suspect" <=> r.missed > 0
    /\ r.missed <= r.age

LEMMA SuspectIsBeatsAgree ==
  SuspectIsMissed <=> \A n \in Registered : BeatsAgree(registry[n])
BY DEF SuspectIsMissed, BeatsAgree

LEMMA SuspectStep ==
  RouteTypes /\ SuspectIsMissed /\ [Next]_vars => SuspectIsMissed'
<1> SUFFICES ASSUME RouteTypes, SuspectIsMissed, [Next]_vars
             PROVE  \A n \in Registered' : BeatsAgree(registry'[n])
  BY DEF SuspectIsMissed, BeatsAgree
<1>1. \A n \in Registered : BeatsAgree(registry[n]) BY SuspectIsBeatsAgree
<1>2. ASSUME NEW m \in Nodes, NEW role \in Roles, RegisterNode(m, role),
             NEW n \in Registered'
      PROVE  BeatsAgree(registry'[n])
  <2>1. n \in Nodes BY DEF Registered
  <2>2. CASE n # m BY <1>1, <1>2, <2>1, <2>2 DEF Registered, RegisterNode, RouteTypes
  <2>3. CASE n = m /\ n \in Registered
    <3>1. registry'[n] = [registry[n] EXCEPT !.role = role]
      BY <1>2, <2>1, <2>3 DEF RegisterNode, RouteTypes
    <3>2. /\ registry'[n].health = registry[n].health
          /\ registry'[n].missed = registry[n].missed
          /\ registry'[n].age = registry[n].age
      BY <2>1, <2>3, <3>1, RegisteredInfo DEF Info
    <3> QED BY <1>1, <2>3, <3>2 DEF BeatsAgree
  <2>4. CASE n = m /\ n \notin Registered
    BY <1>2, <2>1, <2>4 DEF BeatsAgree, RegisterNode, RouteTypes
  <2> QED BY <2>2, <2>3, <2>4
<1>3. ASSUME NEW m \in Nodes, Heartbeat(m), NEW n \in Registered'
      PROVE  BeatsAgree(registry'[n])
  <2>1. n \in Nodes /\ n \in Registered BY <1>3, HeartbeatShape DEF Registered
  <2>2. CASE n # m BY <1>1, <1>3, <2>1, <2>2 DEF Heartbeat, RouteTypes
  <2>3. CASE n = m
    <3>1. registry'[n] =
            [registry[n] EXCEPT !.age = 0, !.missed = 0, !.health = "Healthy"]
      BY <1>3, <2>1, <2>3 DEF Heartbeat, RouteTypes
    <3>2. /\ registry'[n].age = 0 /\ registry'[n].missed = 0
          /\ registry'[n].health = "Healthy"
      BY <2>1, <3>1, RegisteredInfo DEF Info
    <3> QED BY <3>2 DEF BeatsAgree
  <2> QED BY <2>2, <2>3
<1>4. ASSUME NEW m \in Nodes, Elapse(m), NEW n \in Registered'
      PROVE  BeatsAgree(registry'[n])
  <2>1. n \in Nodes /\ n \in Registered BY <1>4, ElapseShape DEF Registered
  <2>2. registry[n] \in Info BY <2>1, RegisteredInfo
  <2>3. CASE n # m BY <1>1, <1>4, <2>1, <2>3 DEF Elapse, RouteTypes
  <2>4. CASE n = m
    <3> DEFINE a == registry[n].age
    <3>1. registry'[n] = [registry[n] EXCEPT !.age = a + 1]
      BY <1>4, <2>1, <2>4 DEF Elapse, RouteTypes
    <3>2. a \in 0 .. DeadAfter /\ registry[n].missed \in 0 .. DeadAfter BY <2>2 DEF Info
    <3> HIDE DEF a
    <3>3. BeatsAgree(registry[n]) BY <1>1, <2>1
    <3>4. registry[n].missed <= a + 1 BY <3>2, <3>3, RoutingAssumption DEF BeatsAgree, a
    <3> QED BY <2>2, <3>1, <3>3, <3>4 DEF BeatsAgree, Info
  <2> QED BY <2>3, <2>4
<1>5. ASSUME NEW m \in Nodes, UnregisterNode(m), NEW n \in Registered'
      PROVE  BeatsAgree(registry'[n])
  <2>1. n \in Registered /\ n # m /\ n \in Nodes BY <1>5, UnregisterShape DEF Registered
  <2> QED BY <1>1, <1>5, <2>1 DEF UnregisterNode, RouteTypes
<1>6. ASSUME Tick, NEW n \in Registered'
      PROVE  BeatsAgree(registry'[n])
  <2> DEFINE silent == {m \in Overdue : registry[m].age >= DeadAfter}
             a == registry[n].age
  <2>1. n \in Nodes /\ n \in Registered BY <1>6, TickShape DEF Registered
  <2>2. registry[n] \in Info /\ BeatsAgree(registry[n]) BY <1>1, <2>1, RegisteredInfo
  <2>3. registry'[n] = IF n \in silent THEN Absent
                       ELSE IF n \in Overdue
                            THEN [registry[n] EXCEPT !.missed = a, !.health = "Suspect"]
                            ELSE registry[n]
    BY <1>6, <2>1 DEF Tick
  <2>4. registry'[n] # Absent BY DEF Registered
  <2> HIDE DEF silent
  <2>5. CASE n \notin Overdue BY <2>2, <2>3, <2>4, <2>5
  <2>6. CASE n \in Overdue
    <3>1. /\ registry'[n].missed = a /\ registry'[n].age = a
          /\ registry'[n].health = "Suspect"
      BY <2>2, <2>3, <2>4, <2>6 DEF Info
    <3>2. a \in 0 .. DeadAfter /\ registry[n].missed \in 0 .. DeadAfter BY <2>2 DEF Info
    <3>3. registry[n].missed # a /\ registry[n].missed <= a BY <2>2, <2>6 DEF Overdue, BeatsAgree
    <3> HIDE DEF a
    <3> QED BY <3>1, <3>2, <3>3, RoutingAssumption DEF BeatsAgree
  <2> QED BY <2>5, <2>6
<1>7. ASSUME UNCHANGED registry, NEW n \in Registered'
      PROVE  BeatsAgree(registry'[n])
  BY <1>1, <1>7 DEF Registered
<1>8. DispatchDeath \/ RouteStep \/ UNCHANGED vars => UNCHANGED registry
  BY DEF DispatchDeath, RouteStep, vars
<1> QED BY <1>2, <1>3, <1>4, <1>5, <1>6, <1>7, <1>8, NextCases DEF StepCases

(* Whatever the order of beats, scans and returns, a node is under          *)
(* suspicion exactly while the last scan found beats of it missing.         *)
THEOREM SuspicionIsExact == Spec => []SuspectIsMissed
<1>1. Init => SuspectIsMissed BY DEF Init, SuspectIsMissed, Registered
<1>2. RouteTypes /\ SuspectIsMissed /\ [Next]_vars => (RouteTypes /\ SuspectIsMissed)'
  BY TypesStep, SuspectStep
<1> QED BY <1>1, <1>2, TypesInit, PTL DEF Spec

------------------------------------------------------------------------------
(* The owners of scenes.  No shard that holds a scene can overflow.         *)

ScenesAreKept ==
    \A s \in Scenes : Cardinality({k \in Keys : Shard[k] = Shard[s]}) <= Capacity

(* Nobody is registered while its death is under way, and an owner is       *)
(* registered and has the route.                                            *)
OwnerInv ==
    /\ Registered \cap Announced = {}
    /\ \A g \in granted : cache[g[1]] = g[2] /\ g[2] \in Registered

LEMMA OwnerIsUnique == OwnerInv => SceneOwnerUnique
BY DEF OwnerInv, SceneOwnerUnique

(* A route that is put evicts no scene's entry.                             *)
LEMMA PutKeepsScenes ==
  ASSUME RouteTypes, ScenesAreKept, NEW k \in Keys, NEW n, PutsRoute(k, n),
         NEW s \in Scenes, cache[s] # NoNode
  PROVE  cache'[s] = cache[s]
<1>1. s \in Keys \ {k} BY DEF Keys, PutsRoute
<1>2. ASSUME Shard[s] = Shard[k], Cardinality(Cached(Shard[k])) >= Capacity
      PROVE  FALSE
  <2> DEFINE S == {j \in Keys : Shard[j] = Shard[s]}
  <2>1. IsFiniteSet(S) BY FS_Subset, RoutingAssumption
  <2>2. Cached(Shard[k]) \in SUBSET (S \ {k}) /\ k \in S BY <1>2 DEF Cached, PutsRoute
  <2>3. IsFiniteSet(S \ {k}) /\ Cardinality(S \ {k}) = Cardinality(S) - 1
    BY <2>1, <2>2, FS_RemoveElement
  <2>4. IsFiniteSet(Cached(Shard[k])) /\ Cardinality(Cached(Shard[k])) <= Cardinality(S \ {k})
    BY <2>2, <2>3, FS_Subset
  <2>5. Cardinality(S) <= Capacity BY DEF ScenesAreKept
  <2>6. Cardinality(S) \in Nat /\ Cardinality(Cached(Shard[k])) \in Nat
    BY <2>1, <2>4, FS_CardinalityType
  <2> HIDE DEF S
  <2> QED BY <1>2, <2>3, <2>4, <2>5, <2>6, RoutingAssumption
<1> QED BY <1>1, <1>2 DEF PutsRoute

LEMMA OwnerStep ==
  ASSUME Players \cap Scenes = {}, ~ReturnsEarly, ScenesAreKept,
         RouteTypes, OwnerInv, [Next]_vars
  PROVE  OwnerInv'
<1>g. \A g \in granted : g[1] \in Scenes /\ g[2] \in Nodes /\ g[1] \in Keys
                         /\ g = <<g[1], g[2]>>
  BY DEF RouteTypes, Keys
<1>1. ASSUME NEW n \in Nodes, NEW role \in Roles, RegisterNode(n, role)
      PROVE  OwnerInv'
  BY <1>1, RegisterNodeShape DEF OwnerInv, Announced
<1>2. ASSUME NEW n \in Nodes, Heartbeat(n) \/ Elapse(n) PROVE OwnerInv'
  BY <1>2, HeartbeatShape, ElapseShape DEF OwnerInv, Announced
<1>3. ASSUME NEW n \in Nodes, UnregisterNode(n) PROVE OwnerInv'
  BY <1>3, UnregisterShape DEF OwnerInv, Announced, EndOwnership
<1>4. ASSUME Tick PROVE OwnerInv'
  <2>1. PICK silent \in SUBSET Registered :
              /\ Registered' = Registered \ silent
              /\ \E q \in OrdersOf(silent) : PublishDeaths(q)
              /\ EndOwnership(silent)
              /\ UNCHANGED cache
    BY <1>4, TickShape
  <2>2. PICK q \in OrdersOf(silent) : PublishDeaths(q) BY <2>1
  <2>3. Announced' \subseteq Announced \cup silent BY <2>2, PublishAccounts DEF Registered
  <2> QED BY <2>1, <2>3 DEF OwnerInv, EndOwnership
<1>5. ASSUME DispatchDeath PROVE OwnerInv'
  <2>1. PICK n \in Announced :
              /\ Announced' \subseteq Announced
              /\ \A k \in Keys : cache'[k] = IF cache[k] = n THEN NoNode ELSE cache[k]
              /\ UNCHANGED <<registry, granted>>
    BY <1>5, DispatchShape
  <2> QED BY <1>g, <2>1 DEF OwnerInv, Registered
<1>6. CASE RouteStep
  <2> SUFFICES ASSUME NEW g \in granted'
               PROVE  cache'[g[1]] = g[2] /\ g[2] \in Registered
    BY <1>6 DEF OwnerInv, RouteStep, Registered, Announced
  <2>1. CASE KeepsRoutes /\ granted' = granted BY <2>1 DEF OwnerInv, KeepsRoutes
  <2>2. ASSUME NEW k \in Keys, NEW n \in Nodes, PutsRoute(k, n),
               \/ granted' = granted
               \/ k \in Scenes /\ granted' = granted \cup {<<k, n>>}
        PROVE  cache'[g[1]] = g[2] /\ g[2] \in Registered
    <3>1. CASE g \in granted
      <4>1. cache[g[1]] = g[2] /\ g[2] \in Registered /\ g[2] \in Nodes BY <1>g, <3>1 DEF OwnerInv
      <4> QED BY <1>g, <2>2, <3>1, <4>1, RoutingAssumption, PutKeepsScenes
    <3>2. CASE g = <<k, n>> BY <2>2, <3>2 DEF PutsRoute
    <3> QED BY <2>2, <3>1, <3>2
  <2>3. ASSUME NEW k \in Scenes, NEW n \in Registered, KeepsRoutes, cache[k] = n,
               granted' = granted \cup {<<k, n>>}
        PROVE  cache'[g[1]] = g[2] /\ g[2] \in Registered
    BY <2>3 DEF OwnerInv, KeepsRoutes
  <2>4. ASSUME NEW k \in Keys,
               \A j \in Keys : cache'[j] = IF j = k THEN NoNode ELSE cache[j],
               \/ k \in Players /\ granted' = granted
               \/ \E n \in Nodes : /\ k \in Scenes /\ cache[k] = n
                                   /\ granted' = granted \ {<<k, n>>}
        PROVE  cache'[g[1]] = g[2] /\ g[2] \in Registered
    <3>1. g \in granted /\ g[1] \in Scenes /\ g[1] \in Keys /\ g = <<g[1], g[2]>> BY <1>g, <2>4
    <3>2. cache[g[1]] = g[2] /\ g[2] \in Registered BY <3>1 DEF OwnerInv
    <3> QED BY <2>4, <3>1, <3>2
  <2> QED BY <1>6, <2>1, <2>2, <2>3, <2>4 DEF RouteStep
<1>7. CASE UNCHANGED vars BY <1>7 DEF vars, OwnerInv, Registered, Announced
<1> QED BY <1>1, <1>2, <1>3, <1>4, <1>5, <1>6, <1>7, NextCases DEF StepCases

(* When players and scenes have different numbers, dead nodes do not come   *)
(* back before their death is dispatched, and no shard with a scene can     *)
(* overflow, a scene never has two owners.                                  *)
THEOREM OneOwnerPerScene ==
  ASSUME Players \cap Scenes = {}, ~ReturnsEarly, ScenesAreKept
  PROVE  Spec => []SceneOwnerUnique
<1>1. Init => OwnerInv BY DEF Init, OwnerInv, Registered
<1>2. RouteTypes /\ OwnerInv /\ [Next]_vars => (RouteTypes /\ OwnerInv)' BY TypesStep, OwnerStep
<1> QED BY <1>1, <1>2, TypesInit, OwnerIsUnique, PTL DEF Spec
=============================================================================
