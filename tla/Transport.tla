----------------------------- MODULE Transport -----------------------------
(***************************************************************************)
(* The TCP transport.  One thread polls: it accepts, reads what the kernel *)
(* has into a ring, cuts frames (a length prefix and a payload) out of it, *)
(* writes the send buffer, and removes connections.  Any thread sends and  *)
(* closes; peers write, stop reading, close and fail when they like.       *)
(* Bytes are counted in units of the prefix: a frame of payload n takes    *)
(* n + 1 units of the stream, and a position in the stream is a number.    *)
(***************************************************************************)
EXTENDS Integers, Sequences, FiniteSets, SequencesExt

CONSTANTS MaxConnections,   \* max_connections
          IdBase,           \* 2^kSlotBits
          RecvBuf, SendBuf, \* capacities of the two rings, in units
          Payloads,         \* payload lengths a peer sends; those above MaxPayload are illegal
          MaxPayload,       \* kMaxPayloadBytes, in units
          MaxFrames,        \* bound: frames per connection and direction
          MaxAccepts        \* bound: connections accepted in all

ASSUME TransportAssumption ==
    /\ MaxConnections \in Nat \ {0} /\ IdBase \in Nat /\ IdBase > MaxConnections
    /\ RecvBuf \in Nat \ {0} /\ SendBuf \in Nat
    /\ Payloads \subseteq Nat /\ MaxPayload \in Nat

VARIABLES
    netFree,       \* free_ of the id allocator: a stack of slots
    netGeneration, \* slot -> generation
    netSerial,     \* next_serial_
    netIds,        \* the ids handed out, in order
    netHost,       \* slot -> the connection in it
    netPeer,       \* slot -> the peer at the other end of it
    netCurrent     \* the slot ProcessRecv is in, or NoSlot

netVars == <<netFree, netGeneration, netSerial, netIds, netHost, netPeer, netCurrent>>

NetSlots == 0..(MaxConnections - 1)
NoSlot == MaxConnections
\* used, id, state and reason; wantWrite; read: units read; off: write_off_ of the ring; emitted: frames
\* delivered; queued and flushed: units accepted by Send and units given to the kernel.
NoHost == [used |-> FALSE, id |-> 0, state |-> "Closed", reason |-> "None", wantWrite |-> FALSE,
           read |-> 0, off |-> 0, emitted |-> 0, queued |-> 0, flushed |-> 0]
\* frames: what was written, each frame with its payload's length and its end in the stream;
\* partial: the last frame has only begun; fin: closed; failed: reset.
NoPeer == [frames |-> <<>>, partial |-> FALSE, fin |-> FALSE, failed |-> FALSE]

TransportInit ==
    /\ netFree = [i \in 1..MaxConnections |-> i - 1] /\ netGeneration = [s \in NetSlots |-> 0]
    /\ netSerial = 1 /\ netIds = <<>>
    /\ netHost = [s \in NetSlots |-> NoHost] /\ netPeer = [s \in NetSlots |-> NoPeer]
    /\ netCurrent = NoSlot

\* The stream: where frame i ends, and how much of the stream the kernel has.
FrameEnd(frames, i) == IF i = 0 THEN 0 ELSE frames[i].end
NextFrame(frames, n) == [payload |-> n, end |-> FrameEnd(frames, Len(frames)) + n + 1]
Written(s) == FrameEnd(netPeer[s].frames, Len(netPeer[s].frames)) - (IF netPeer[s].partial THEN 1 ELSE 0)
Unread(s) == Written(s) - netHost[s].read
Buffered(s) == netHost[s].read - FrameEnd(netPeer[s].frames, netHost[s].emitted)
Contiguous(s) ==   \* WritableRegion0
    LET free == RecvBuf - Buffered(s) IN
    IF free < RecvBuf - netHost[s].off THEN free ELSE RecvBuf - netHost[s].off

----------------------------------------------------------------------------
(* Accepting and removing. *)

\* ConnectionIdAllocator::Allocate: the generation is raised until the id is above all earlier ones.
CeilDiv(a, b) == (a + b - 1) \div b
Raised(slot, generation) ==
    LET candidate == generation * IdBase + slot IN
    IF candidate < netSerial THEN generation + CeilDiv(netSerial - candidate, IdBase) ELSE generation

\* ProcessAccept; at the limit the socket is closed again and nothing changes.
Accept ==
    /\ netCurrent = NoSlot /\ netFree # <<>> /\ Len(netIds) < MaxAccepts
    /\ LET slot == Last(netFree)
           generation == Raised(slot, netGeneration[slot] + 1)
           id == generation * IdBase + slot IN
       /\ netFree' = Front(netFree)
       /\ netGeneration' = [netGeneration EXCEPT ![slot] = generation]
       /\ netSerial' = id + 1 /\ netIds' = Append(netIds, id)
       /\ netHost' = [netHost EXCEPT ![slot] = [NoHost EXCEPT !.used = TRUE, !.id = id, !.state = "Open"]]
       /\ netPeer' = [netPeer EXCEPT ![slot] = NoPeer]
    /\ UNCHANGED netCurrent

\* RemoveConnection: Disconnected is reported, the slot returns to the stack, the socket closes.
Removed(s, reason) ==
    /\ netFree' = Append(netFree, s)
    /\ netHost' = [netHost EXCEPT ![s].used = FALSE, ![s].state = "Closed", ![s].reason = reason]
    /\ UNCHANGED <<netGeneration, netSerial, netIds, netPeer>>

\* CheckIdleTimeouts: nothing came in for keepalive_idle_s.
IdleTimeout(s) ==
    /\ netCurrent = NoSlot /\ netHost[s].used /\ Removed(s, "Timeout") /\ UNCHANGED netCurrent

\* Poll reports error or hangup: the connection goes before anything is read.
PollError(s) ==
    /\ netCurrent = NoSlot /\ netHost[s].used /\ netPeer[s].failed
    /\ Removed(s, "Error") /\ UNCHANGED netCurrent

\* Stop: every connection is dropped where it stands.
StopTransport ==
    /\ netCurrent = NoSlot /\ \E s \in NetSlots : netHost[s].used
    /\ LET open == {s \in NetSlots : netHost[s].used} IN
       \E order \in [1..Cardinality(open) -> open] :
          /\ \A i, j \in DOMAIN order : i < j => order[i] < order[j]
          /\ netFree' = netFree \o order
    /\ netHost' = [s \in NetSlots |->
                    IF netHost[s].used THEN [netHost[s] EXCEPT !.used = FALSE, !.state = "Closed", !.reason = "Stopped"]
                    ELSE netHost[s]]
    /\ UNCHANGED <<netGeneration, netSerial, netIds, netPeer, netCurrent>>

----------------------------------------------------------------------------
(* Reading. *)

RecvBegin(s) ==
    /\ netCurrent = NoSlot /\ netHost[s].used /\ (Unread(s) > 0 \/ netPeer[s].fin)
    /\ netCurrent' = s
    /\ UNCHANGED <<netFree, netGeneration, netSerial, netIds, netHost, netPeer>>

\* TryEmitPackets over what is read: every complete frame up to an illegal length or half a frame.
Whole(frames, i, read) ==
    FrameEnd(frames, i) <= read /\ \A j \in 1..i : frames[j].payload <= MaxPayload
Complete(frames, emitted, read) ==
    CHOOSE n \in emitted..Len(frames) :
        /\ n > emitted => Whole(frames, n, read)
        /\ \A m \in (n + 1)..Len(frames) : ~Whole(frames, m, read)
Cut(s, read) == Complete(netPeer[s].frames, netHost[s].emitted, read)
IllegalNext(frames, n, read) ==
    n < Len(frames) /\ frames[n + 1].payload > MaxPayload /\ read > FrameEnd(frames, n)
Illegal(s, read) == IllegalNext(netPeer[s].frames, Cut(s, read), read)

Emitted(s, read, off) ==
    LET n == Cut(s, read)
        host == [netHost EXCEPT ![s].read = read, ![s].off = off, ![s].emitted = n] IN
    IF Illegal(s, read)
    THEN /\ netFree' = Append(netFree, s) /\ netCurrent' = NoSlot
         /\ netHost' = [host EXCEPT ![s].used = FALSE, ![s].state = "Closed", ![s].reason = "Error"]
         /\ UNCHANGED <<netGeneration, netSerial, netIds, netPeer>>
    ELSE /\ netHost' = host
         /\ UNCHANGED <<netFree, netGeneration, netSerial, netIds, netPeer>>

\* One turn of the loop of ProcessRecv.  A read that fills the region goes round again without
\* cutting frames; a full ring is cut, and a frame it cannot hold ends the connection.
RecvFull ==
    /\ netCurrent # NoSlot /\ Contiguous(netCurrent) = 0
    /\ LET s == netCurrent IN
       IF Cut(s, netHost[s].read) = netHost[s].emitted
       THEN Removed(s, "Error") /\ netCurrent' = NoSlot
       ELSE /\ Emitted(s, netHost[s].read, netHost[s].off)
            /\ ~Illegal(s, netHost[s].read) => UNCHANGED netCurrent

RecvSome ==
    /\ netCurrent # NoSlot /\ Contiguous(netCurrent) > 0 /\ Unread(netCurrent) > 0
    /\ LET s == netCurrent
           n == IF Unread(s) < Contiguous(s) THEN Unread(s) ELSE Contiguous(s)
           read == netHost[s].read + n
           off == (netHost[s].off + n) % RecvBuf IN
       IF n = Contiguous(s)
       THEN /\ netHost' = [netHost EXCEPT ![s].read = read, ![s].off = off]
            /\ UNCHANGED <<netFree, netGeneration, netSerial, netIds, netPeer, netCurrent>>
       ELSE /\ Emitted(s, read, off)
            /\ ~Illegal(s, read) => netCurrent' = NoSlot

\* recv would block, fails, or returns 0 because the peer has closed.
RecvDry ==
    /\ netCurrent # NoSlot /\ Contiguous(netCurrent) > 0 /\ Unread(netCurrent) = 0
    /\ LET s == netCurrent IN
       IF netPeer[s].fin \/ netPeer[s].failed
       THEN Removed(s, IF netPeer[s].failed THEN "Error" ELSE "PeerClosed") /\ netCurrent' = NoSlot
       ELSE /\ Emitted(s, netHost[s].read, netHost[s].off)
            /\ ~Illegal(s, netHost[s].read) => netCurrent' = NoSlot

----------------------------------------------------------------------------
(* Sending. *)

\* TcpConnection::Send: the whole frame or nothing, and only while Open.
Send(s, n) ==
    /\ netHost[s].used /\ netHost[s].state = "Open" /\ n <= MaxPayload
    /\ n + 1 <= SendBuf - (netHost[s].queued - netHost[s].flushed)
    /\ netHost[s].queued < MaxFrames * 2
    /\ netHost' = [netHost EXCEPT ![s].queued = @ + n + 1]
    /\ UNCHANGED <<netFree, netGeneration, netSerial, netIds, netPeer, netCurrent>>

CloseConnection(s) ==
    /\ netHost[s].used /\ netHost[s].state = "Open"
    /\ netHost' = [netHost EXCEPT ![s].state = "Closing", ![s].reason = "Graceful"]
    /\ UNCHANGED <<netFree, netGeneration, netSerial, netIds, netPeer, netCurrent>>

\* The head of Poll registers the interest in writing.
RegisterWrites ==
    /\ netCurrent = NoSlot
    /\ netHost' = [s \in NetSlots |-> [netHost[s] EXCEPT !.wantWrite =
                    netHost[s].used /\ (netHost[s].queued > netHost[s].flushed \/ netHost[s].state # "Open")]]
    /\ UNCHANGED <<netFree, netGeneration, netSerial, netIds, netPeer, netCurrent>>

\* ProcessSend: the kernel takes some of the buffer; a connection asked to close goes, drained or not.
ProcessSend(s) ==
    /\ netCurrent = NoSlot /\ netHost[s].used /\ netHost[s].wantWrite
    /\ \E taken \in 0..(netHost[s].queued - netHost[s].flushed) :
         LET host == [netHost EXCEPT ![s].flushed = @ + taken] IN
         IF netHost[s].state # "Open"
         THEN /\ netFree' = Append(netFree, s)
              /\ netHost' = [host EXCEPT ![s].used = FALSE, ![s].state = "Closed"]
         ELSE netHost' = host /\ UNCHANGED netFree
    /\ UNCHANGED <<netGeneration, netSerial, netIds, netPeer, netCurrent>>

----------------------------------------------------------------------------
(* Peers. *)

PeerWrites(s) ==
    /\ netHost[s].used /\ ~netPeer[s].fin /\ ~netPeer[s].failed
    /\ \/ /\ netPeer[s].partial /\ netPeer' = [netPeer EXCEPT ![s].partial = FALSE]
       \/ /\ ~netPeer[s].partial /\ Len(netPeer[s].frames) < MaxFrames
          /\ \E n \in Payloads, partial \in BOOLEAN :
               netPeer' = [netPeer EXCEPT ![s].frames = Append(@, NextFrame(@, n)), ![s].partial = partial]
    /\ UNCHANGED <<netFree, netGeneration, netSerial, netIds, netHost, netCurrent>>

PeerGoes(s) ==
    /\ netHost[s].used /\ ~netPeer[s].fin /\ ~netPeer[s].failed
    /\ netPeer' \in {[netPeer EXCEPT ![s].fin = TRUE], [netPeer EXCEPT ![s].failed = TRUE]}
    /\ UNCHANGED <<netFree, netGeneration, netSerial, netIds, netHost, netCurrent>>

TransportNext ==
    \/ Accept \/ StopTransport \/ RegisterWrites \/ RecvFull \/ RecvSome \/ RecvDry
    \/ \E s \in NetSlots :
          \/ IdleTimeout(s) \/ PollError(s) \/ RecvBegin(s)
          \/ CloseConnection(s) \/ ProcessSend(s) \/ PeerWrites(s) \/ PeerGoes(s)
          \/ \E n \in Payloads : Send(s, n)

TransportSpec == TransportInit /\ [][TransportNext]_netVars

----------------------------------------------------------------------------
\* Get(id): what an id leads to, for as long as its slot is not given away again.
GetConnection(id) == {s \in NetSlots : netHost[s].used /\ netHost[s].id = id}

\* An id is never handed out twice and ids only grow, so a stale one finds no
\* connection; the slots in use and the stack of free ones make up the table.
IdsNeverReturn ==
    /\ \A i, j \in DOMAIN netIds : i < j => netIds[i] < netIds[j]
    /\ \A s \in NetSlots : netHost[s].used => \E i \in DOMAIN netIds : netIds[i] = netHost[s].id /\ netSerial > netIds[i]
    /\ \A i \in DOMAIN netIds : Cardinality(GetConnection(netIds[i])) <= 1
    /\ \A i, j \in DOMAIN netFree : netFree[i] = netFree[j] => i = j
    /\ {netFree[i] : i \in DOMAIN netFree} = {s \in NetSlots : ~netHost[s].used}

\* Outside ProcessRecv no whole legal frame waits in a ring, a ring never holds
\* more than it can, and frames leave it at their ends.
FramesAreCut ==
    \A s \in NetSlots : netHost[s].used =>
        /\ Buffered(s) \in 0..RecvBuf /\ netHost[s].off = netHost[s].read % RecvBuf
        /\ netCurrent # s => Cut(s, netHost[s].read) = netHost[s].emitted

\* A connection closed gracefully has given everything Send accepted to the kernel first.
GracefulDrains ==
    \A s \in NetSlots : netHost[s].state = "Closed" /\ netHost[s].reason = "Graceful" =>
        netHost[s].flushed = netHost[s].queued
=============================================================================
