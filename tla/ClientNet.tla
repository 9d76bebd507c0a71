------------------------------ MODULE ClientNet ------------------------------
(* The client's connection: a caller's thread that connects, asks and takes *)
(* events, and a receiving thread per connection.  When the link breaks the *)
(* receiving thread reconnects by itself, and so does a request that cannot *)
(* be sent: the same steps, run by two threads, over the same link and the  *)
(* same std::thread handle.  One action per atomic access or locked block.  *)
(*                                                                         *)
(* The gateway is the other end: it answers what it was asked, pushes       *)
(* events and breaks off.                                                   *)
EXTENDS Integers, Sequences, FiniteSets, SequencesExt

CONSTANTS
  MaxRecvThreads,   \* bound: receiving threads started
  MaxAttempts,      \* max_reconnect_attempts
  MaxRequests,      \* bound: requests of the caller
  MaxPushes,        \* bound: events the gateway pushes
  MaxLosses,        \* bound: links the gateway breaks
  MaxSessions       \* bound: calls of Connect

ASSUME ClientNetAssumption ==
  /\ MaxRecvThreads \in Nat /\ MaxAttempts \in Nat \ {0} /\ MaxRequests \in Nat
  /\ MaxPushes \in Nat /\ MaxLosses \in Nat /\ MaxSessions \in Nat

VARIABLES
  clReconnects,     \* reconnect_enabled
  clState,          \* state_
  clRunning,        \* recv_running_
  clHandle,         \* recv_thread_: the thread it stands for, or NoThread
  clPc,             \* actor -> where it is
  clGoal,           \* what the caller's teardown is for
  clTry,            \* actor -> attempts made in its Reconnect
  clJoin,           \* actor -> the thread its join waits for
  clFrame,          \* thread -> the frame in its hands
  clLink,           \* the socket: [open, alive, inbox, owed]
  clNext,           \* next_msg_id_
  clWaits,          \* the request the caller waits for
  clPending,        \* pending_resp_: ids with a response
  clQueue,          \* event_queue_
  clTaken,          \* ids the caller was answered
  clHeard,          \* events the caller took, in order
  clPushed,         \* bound: events pushed so far
  clLosses,         \* bound: links broken so far
  clSessions,       \* bound: calls of Connect so far
  clTerminated      \* std::terminate was called

clThreadVars == <<clRunning, clHandle, clPc, clGoal, clTry, clJoin, clFrame>>
clInboxVars == <<clNext, clWaits, clPending, clQueue, clTaken, clHeard>>
clBoundVars == <<clPushed, clLosses, clSessions>>
clVars == <<clReconnects, clState, clThreadVars, clLink, clInboxVars, clBoundVars, clTerminated>>

User == 0
RecvThreads == 1 .. MaxRecvThreads
Actors == {User} \cup RecvThreads
NoThread == 0
NoFrame == [kind |-> "none", id |-> 0]
ClosedLink == [open |-> FALSE, alive |-> FALSE, inbox |-> <<>>, owed |-> {}]
NewLink == [open |-> TRUE, alive |-> TRUE, inbox |-> <<>>, owed |-> {}]

ClientInit ==
  /\ clReconnects \in BOOLEAN /\ clState = "Disconnected"
  /\ clRunning = FALSE /\ clHandle = NoThread
  /\ clPc = [a \in Actors |-> IF a = User THEN "idle" ELSE "none"]
  /\ clGoal = "none" /\ clTry = [a \in Actors |-> 0] /\ clJoin = [a \in Actors |-> NoThread]
  /\ clFrame = [t \in RecvThreads |-> NoFrame]
  /\ clLink = ClosedLink
  /\ clNext = 1 /\ clWaits = 0 /\ clPending = {} /\ clQueue = <<>>
  /\ clTaken = {} /\ clHeard = <<>>
  /\ clPushed = 0 /\ clLosses = 0 /\ clSessions = 0 /\ clTerminated = FALSE

At(a, place) == clPc[a] = place /\ ~clTerminated
Goes(a, place) == clPc' = [clPc EXCEPT ![a] = place]

-----------------------------------------------------------------------------
(* Reconnect, by the caller or by a receiving thread that is ending.        *)
ReconnectBegins(a) ==
  /\ At(a, "begin") /\ clState' = "Reconnecting" /\ Goes(a, "stop")
  /\ UNCHANGED <<clReconnects, clRunning, clHandle, clGoal, clTry, clJoin, clFrame, clLink,
                 clInboxVars, clBoundVars, clTerminated>>

\* recv_running_ is taken down; who took it down closes the link and joins the thread.
StopRecvThread(a) ==
  /\ At(a, "stop")
  /\ clRunning' = FALSE
  /\ clLink' = IF clRunning THEN ClosedLink ELSE clLink
  /\ LET joins == clRunning /\ clHandle # NoThread IN
     /\ clJoin' = [clJoin EXCEPT ![a] = IF joins THEN clHandle ELSE NoThread]
     /\ Goes(a, IF joins THEN "join" ELSE "close")
  /\ UNCHANGED <<clReconnects, clState, clHandle, clGoal, clTry, clFrame, clInboxVars,
                 clBoundVars, clTerminated>>

\* join returns when its thread has ended, and empties the handle, whatever it holds by then.
Joined(a) ==
  /\ At(a, "join") /\ clPc[clJoin[a]] = "ended"
  /\ clHandle' = NoThread /\ clJoin' = [clJoin EXCEPT ![a] = NoThread] /\ Goes(a, "close")
  /\ UNCHANGED <<clReconnects, clState, clRunning, clGoal, clTry, clFrame, clLink,
                 clInboxVars, clBoundVars, clTerminated>>

CloseLink(a) ==
  /\ At(a, "close") /\ clLink' = ClosedLink
  /\ \/ /\ a # User \/ clGoal = "reconnect"
        /\ clTry' = [clTry EXCEPT ![a] = 1] /\ Goes(a, "try")
        /\ UNCHANGED <<clState, clGoal, clPending>>
     \/ /\ a = User /\ clGoal \in {"connect", "disconnect"}
        /\ clPending' = {} /\ UNCHANGED clTry
        /\ clState' = "Disconnected"
        /\ Goes(a, IF clGoal = "connect" THEN "dial" ELSE "idle")
        /\ clGoal' = IF clGoal = "connect" THEN clGoal ELSE "none"
  /\ UNCHANGED <<clReconnects, clRunning, clHandle, clJoin, clFrame, clNext, clWaits, clQueue,
                 clTaken, clHeard, clBoundVars, clTerminated>>

\* Connect goes on after the teardown; until then a thread that ends finds Disconnected.
Dial(a) ==
  /\ At(a, "dial") /\ clState' = "Connecting" /\ Goes(a, "first")
  /\ UNCHANGED <<clReconnects, clRunning, clHandle, clGoal, clTry, clJoin, clFrame, clLink,
                 clInboxVars, clBoundVars, clTerminated>>

\* One attempt; a link that is open already counts as a connection.
ConnectOnce(a) ==
  /\ At(a, "try") \/ At(a, "first")
  /\ \/ /\ clLink' = IF clLink.open THEN clLink ELSE NewLink
        /\ clTry' = [clTry EXCEPT ![a] = 0]
        /\ Goes(a, "start") /\ UNCHANGED <<clState, clGoal>>
     \/ /\ ~clLink.open /\ clPc[a] = "try" /\ clTry[a] < MaxAttempts
        /\ clTry' = [clTry EXCEPT ![a] = @ + 1]
        /\ UNCHANGED <<clLink, clState, clGoal, clPc>>
     \/ /\ ~clLink.open /\ clPc[a] = "try" /\ clTry[a] = MaxAttempts
        /\ clState' = "Disconnected" /\ Goes(a, IF a = User THEN "idle" ELSE "fail")
        /\ clGoal' = IF a = User THEN "none" ELSE clGoal
        /\ clTry' = [clTry EXCEPT ![a] = 0] /\ UNCHANGED clLink
     \/ /\ ~clLink.open /\ clPc[a] = "first"
        /\ clState' = IF clReconnects THEN clState ELSE "Disconnected"
        /\ Goes(a, IF clReconnects THEN "begin" ELSE "idle")
        /\ clGoal' = IF clReconnects THEN "reconnect" ELSE "none"
        /\ UNCHANGED <<clLink, clTry>>
  /\ UNCHANGED <<clReconnects, clRunning, clHandle, clJoin, clFrame, clInboxVars, clBoundVars,
                 clTerminated>>

Unstarted == {t \in RecvThreads : clPc[t] = "none"}

\* Assigning to a handle that still stands for a thread ends the program.
StartRecvThread(a) ==
  /\ At(a, "start") /\ Unstarted # {}
  /\ LET t == CHOOSE t \in Unstarted : \A u \in Unstarted : t <= u IN
     IF clHandle # NoThread
     THEN clTerminated' = TRUE /\ UNCHANGED <<clRunning, clHandle, clPc>>
     ELSE /\ clRunning' = TRUE /\ clHandle' = t
          /\ clPc' = [clPc EXCEPT ![a] = "up", ![t] = "recv"]
          /\ UNCHANGED clTerminated
  /\ UNCHANGED <<clReconnects, clState, clGoal, clTry, clJoin, clFrame, clLink, clInboxVars,
                 clBoundVars>>

Connected(a) ==
  /\ At(a, "up") /\ clState' = "Connected"
  /\ Goes(a, IF a = User THEN "idle" ELSE "ended")
  /\ clGoal' = IF a = User THEN "none" ELSE clGoal
  /\ UNCHANGED <<clReconnects, clRunning, clHandle, clTry, clJoin, clFrame, clLink, clInboxVars,
                 clBoundVars, clTerminated>>

-----------------------------------------------------------------------------
(* RecvLoop.                                                                *)
Receive(t) ==
  /\ At(t, "recv") /\ clRunning /\ clLink.open /\ clLink.inbox # <<>>
  /\ clFrame' = [clFrame EXCEPT ![t] = Head(clLink.inbox)]
  /\ clLink' = [clLink EXCEPT !.inbox = Tail(@)]
  /\ Goes(t, "frame")
  /\ UNCHANGED <<clReconnects, clState, clRunning, clHandle, clGoal, clTry, clJoin, clInboxVars,
                 clBoundVars, clTerminated>>

LinkLost(t) ==
  /\ At(t, "recv")
  /\ ~clRunning \/ ~clLink.open \/ (~clLink.alive /\ clLink.inbox = <<>>)
  /\ Goes(t, "lost")
  /\ UNCHANGED <<clReconnects, clState, clRunning, clHandle, clGoal, clTry, clJoin, clFrame,
                 clLink, clInboxVars, clBoundVars, clTerminated>>

OnFrame(t) ==
  /\ At(t, "frame")
  /\ LET f == clFrame[t] IN
     /\ clPending' = IF f.kind = "response" THEN clPending \cup {f.id} ELSE clPending
     /\ clQueue' = IF f.kind = "event" THEN Append(clQueue, f.id) ELSE clQueue
  /\ clFrame' = [clFrame EXCEPT ![t] = NoFrame] /\ Goes(t, "recv")
  /\ UNCHANGED <<clReconnects, clState, clRunning, clHandle, clGoal, clTry, clJoin, clLink, clNext,
                 clWaits, clTaken, clHeard, clBoundVars, clTerminated>>

ShouldReconnect(t) ==
  /\ At(t, "lost")
  /\ LET should == clReconnects /\ clState # "Disconnected" IN
     /\ clRunning' = IF should THEN FALSE ELSE clRunning
     /\ Goes(t, IF should THEN "detach" ELSE "fail")
  /\ UNCHANGED <<clReconnects, clState, clHandle, clGoal, clTry, clJoin, clFrame, clLink,
                 clInboxVars, clBoundVars, clTerminated>>

\* The thread detaches the handle, its own or another's; an empty one throws out of the thread.
Detach(t) ==
  /\ At(t, "detach")
  /\ IF clHandle = NoThread THEN clTerminated' = TRUE /\ UNCHANGED <<clHandle, clPc>>
     ELSE clHandle' = NoThread /\ Goes(t, "begin") /\ UNCHANGED clTerminated
  /\ UNCHANGED <<clReconnects, clState, clRunning, clGoal, clTry, clJoin, clFrame, clLink,
                 clInboxVars, clBoundVars>>

ForgetResponses(t) ==
  /\ At(t, "fail") /\ clPending' = {} /\ Goes(t, "down")
  /\ UNCHANGED <<clReconnects, clState, clRunning, clHandle, clGoal, clTry, clJoin, clFrame,
                 clLink, clNext, clWaits, clQueue, clTaken, clHeard, clBoundVars, clTerminated>>

GoDown(t) ==
  /\ At(t, "down") /\ clState' = "Disconnected" /\ Goes(t, "ended")
  /\ UNCHANGED <<clReconnects, clRunning, clHandle, clGoal, clTry, clJoin, clFrame, clLink,
                 clInboxVars, clBoundVars, clTerminated>>

-----------------------------------------------------------------------------
(* The caller.                                                              *)
Connect ==
  /\ At(User, "idle") /\ clSessions < MaxSessions
  /\ clSessions' = clSessions + 1 /\ clGoal' = "connect" /\ Goes(User, "stop")
  /\ UNCHANGED <<clReconnects, clState, clRunning, clHandle, clTry, clJoin, clFrame, clLink,
                 clInboxVars, clPushed, clLosses, clTerminated>>

Disconnect ==
  /\ At(User, "idle") /\ clGoal' = "disconnect" /\ Goes(User, "stop")
  /\ clState # "Disconnected"
  /\ UNCHANGED <<clReconnects, clState, clRunning, clHandle, clTry, clJoin, clFrame, clLink,
                 clInboxVars, clBoundVars, clTerminated>>

Request ==
  /\ At(User, "idle") /\ clState = "Connected" /\ clNext <= MaxRequests
  /\ clWaits' = clNext /\ clNext' = clNext + 1 /\ clPending' = clPending \ {clNext}
  /\ Goes(User, "send")
  /\ UNCHANGED <<clReconnects, clState, clRunning, clHandle, clGoal, clTry, clJoin, clFrame,
                 clLink, clQueue, clTaken, clHeard, clBoundVars, clTerminated>>

\* A peer that is gone may still take the bytes; a closed link never does.
SendRequest ==
  /\ At(User, "send")
  /\ \/ /\ clLink.open
        /\ clLink' = IF clLink.alive THEN [clLink EXCEPT !.owed = @ \cup {clWaits}] ELSE clLink
        /\ Goes(User, "wait") /\ UNCHANGED <<clGoal, clWaits>>
     \/ /\ ~(clLink.open /\ clLink.alive) /\ UNCHANGED clLink
        /\ Goes(User, IF clReconnects THEN "begin" ELSE "idle")
        /\ clGoal' = (IF clReconnects THEN "reconnect" ELSE "none") /\ clWaits' = 0
  /\ UNCHANGED <<clReconnects, clState, clRunning, clHandle, clTry, clJoin, clFrame, clNext,
                 clPending, clQueue, clTaken, clHeard, clBoundVars, clTerminated>>

WaitResponse ==
  /\ At(User, "wait") /\ clWaits' = 0 /\ Goes(User, "idle")
  /\ \/ /\ clWaits \in clPending
        /\ clPending' = clPending \ {clWaits} /\ clTaken' = clTaken \cup {clWaits}
     \/ /\ clWaits \notin clPending                       \* not connected, or timed out
        /\ UNCHANGED <<clPending, clTaken>>
  /\ UNCHANGED <<clReconnects, clState, clRunning, clHandle, clGoal, clTry, clJoin, clFrame,
                 clLink, clNext, clQueue, clHeard, clBoundVars, clTerminated>>

TryRecvEvent ==
  /\ At(User, "idle") /\ clQueue # <<>>
  /\ clHeard' = Append(clHeard, Head(clQueue)) /\ clQueue' = Tail(clQueue)
  /\ UNCHANGED <<clReconnects, clState, clThreadVars, clLink, clNext, clWaits, clPending,
                 clTaken, clBoundVars, clTerminated>>

-----------------------------------------------------------------------------
(* The gateway's end of the link.                                           *)
Carries == clLink.open /\ clLink.alive /\ ~clTerminated

GatewayAnswers == \E r \in clLink.owed :
  /\ Carries
  /\ clLink' = [clLink EXCEPT !.owed = @ \ {r},
                              !.inbox = Append(@, [kind |-> "response", id |-> r])]
  /\ UNCHANGED <<clReconnects, clState, clThreadVars, clInboxVars, clBoundVars, clTerminated>>

GatewayPushes ==
  /\ Carries /\ clPushed < MaxPushes /\ clPushed' = clPushed + 1
  /\ clLink' = [clLink EXCEPT !.inbox = Append(@, [kind |-> "event", id |-> clPushed + 1])]
  /\ UNCHANGED <<clReconnects, clState, clThreadVars, clInboxVars, clLosses, clSessions,
                 clTerminated>>

GatewayBreaks ==
  /\ Carries /\ clLosses < MaxLosses /\ clLosses' = clLosses + 1
  /\ clLink' = [clLink EXCEPT !.alive = FALSE]
  /\ UNCHANGED <<clReconnects, clState, clThreadVars, clInboxVars, clPushed, clSessions,
                 clTerminated>>

-----------------------------------------------------------------------------
ReconnectStep(a) ==
  \/ ReconnectBegins(a) \/ StopRecvThread(a) \/ Joined(a) \/ CloseLink(a)
  \/ Dial(a) \/ ConnectOnce(a) \/ StartRecvThread(a) \/ Connected(a)
RecvLoopStep(t) ==
  \/ Receive(t) \/ LinkLost(t) \/ OnFrame(t) \/ ShouldReconnect(t) \/ Detach(t)
  \/ ForgetResponses(t) \/ GoDown(t)
ClientNext ==
  \/ Connect \/ Disconnect \/ Request \/ SendRequest \/ WaitResponse \/ TryRecvEvent
  \/ \E a \in Actors : ReconnectStep(a)
  \/ \E t \in RecvThreads : RecvLoopStep(t)
  \/ GatewayAnswers \/ GatewayPushes \/ GatewayBreaks
ClientSpec == ClientInit /\ [][ClientNext]_clVars

-----------------------------------------------------------------------------
Receivers == {t \in RecvThreads : clPc[t] \in {"recv", "frame"}}
InHand == {clFrame[t].id : t \in {u \in RecvThreads : clFrame[u].kind = "event"}}

(* A response is given to the request that asked for it, once, whatever is *)
(* reconnected in between and however late it comes: nothing is kept for a *)
(* request that was not made, nor again for one that was answered.          *)
AnswersMatch ==
  /\ clPending \cap clTaken = {}
  /\ \A r \in clPending \cup clTaken \cup clLink.owed : r < clNext
  /\ clLink.owed \cap (clPending \cup clTaken) = {}

(* An event that was received is queued or taken, once, also while two      *)
(* threads receive; with a single receiver events stay in order.            *)
EventsOnce ==
  LET all == clHeard \o clQueue IN
  /\ Len(all) = Cardinality(Range(all)) /\ Range(all) \cap InHand = {}
  /\ ~clReconnects => \A i, j \in DOMAIN all : i < j => all[i] < all[j]

(* With reconnection off the caller alone starts and joins threads: there   *)
(* is one receiver at most and the handle is never misused.                 *)
OneReceiver ==
  ~clReconnects => Cardinality(Receivers) <= 1 /\ ~clTerminated

(* Claims that do not hold.  The comment in RecvLoop (net_client.cpp:114)   *)
(* takes care that reconnecting does not end the program; a request that    *)
(* fails at the same moment reconnects too, and it does.                    *)
NeverTerminates == ~clTerminated
\* Connected means that somebody receives, or is about to say that nobody does.
ConnectedListens ==
  clState = "Connected" /\ ~clTerminated =>
    \E t \in RecvThreads : clPc[t] \in {"recv", "frame", "lost", "detach", "begin", "fail", "down"}
=============================================================================
