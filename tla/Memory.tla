------------------------------- MODULE Memory -------------------------------
(***************************************************************************)
(* The three allocators.  MemoryPool: fixed blocks, a free list only the   *)
(* owner thread touches, blocks freed elsewhere come home through a        *)
(* bounded queue and, when it is full, an overflow list.  ObjectPool: one  *)
(* thread, slots constructed and destroyed in place.  Arena: a bump        *)
(* allocator over a list of blocks, emptied once per frame.  A block is    *)
(* its number; addresses and contents are left out.                        *)
(***************************************************************************)
EXTENDS Integers, Sequences, FiniteSets, SequencesExt

CONSTANTS Foreign,          \* threads that free blocks and do not own the pool
          ChunkBlocks,      \* blocks_per_chunk_
          MaxChunks,        \* chunks the system grants before it is out of memory
          RemoteCapacity,   \* kRemoteCapacity
          MaxInvalid,       \* bound: double frees
          ArenaBlock,       \* block_bytes_ of the arena, in units of its alignment
          ArenaSizes,       \* sizes pushed, in the same unit
          MaxArenaBlocks    \* arena blocks the system grants

ASSUME MemoryAssumption ==
    /\ ChunkBlocks \in Nat \ {0} /\ MaxChunks \in Nat /\ RemoteCapacity \in Nat
    /\ ArenaBlock \in Nat \ {0} /\ ArenaSizes \subseteq Nat \ {0}

VARIABLES
    memFree,       \* free_head_: the free list, its head first
    memChunks,     \* chunks_
    memMagic,      \* the blocks whose header holds kPoolMagic
    memHeld,       \* the blocks some caller has the pointer of
    memRemote,     \* remote_
    memOverflow,   \* overflow_
    memHand,       \* foreign thread -> the block it is giving back, 0 for none
    memInvalid,    \* invalid_frees_
    objFree,       \* free_ of the object pool
    objChunks,     \* its chunks_
    objInUse,      \* the slots acquired; in_use_ is their number
    arenaBlocks,   \* blocks_: [size, used]
    arenaCur       \* cur_ + 1

poolVars == <<memFree, memChunks, memMagic, memHeld, memRemote, memOverflow, memHand, memInvalid>>
objVars == <<objFree, objChunks, objInUse>>
arenaVars == <<arenaBlocks, arenaCur>>
memoryVars == <<poolVars, objVars, arenaVars>>

Blocks == 1..(memChunks * ChunkBlocks)
ObjectSlots == 1..(objChunks * ChunkBlocks)
ChunkSeq(n) == [i \in 1..ChunkBlocks |-> n * ChunkBlocks + i]
ArenaAdded(blocks, size) == Append(blocks, [size |-> size, used |-> 0])
Bigger(a, b) == IF a > b THEN a ELSE b

MemoryInit ==
    /\ memFree = <<>> /\ memChunks = 0 /\ memMagic = {} /\ memHeld = {}
    /\ memRemote = <<>> /\ memOverflow = <<>> /\ memHand = [t \in Foreign |-> 0]
    /\ memInvalid = 0
    /\ objFree = <<>> /\ objChunks = 0 /\ objInUse = {}
    /\ arenaBlocks = ArenaAdded(<<>>, ArenaBlock) /\ arenaCur = 1

----------------------------------------------------------------------------
(* MemoryPool. *)

\* The free list as Allocate finds it: drained of the blocks that came back when it was empty.
Refilled == Reverse(memRemote \o memOverflow)

PoolTake(list) ==
    /\ memFree' = Tail(list)
    /\ memMagic' = memMagic \cup {Head(list)} /\ memHeld' = memHeld \cup {Head(list)}
    /\ UNCHANGED <<memHand, memInvalid, objVars, arenaVars>>

Allocate ==
    \/ /\ memFree # <<>> /\ PoolTake(memFree) /\ UNCHANGED <<memChunks, memRemote, memOverflow>>
    \/ /\ memFree = <<>> /\ Refilled # <<>> /\ PoolTake(Refilled)
       /\ memRemote' = <<>> /\ memOverflow' = <<>> /\ UNCHANGED memChunks
    \/ /\ memFree = <<>> /\ Refilled = <<>> /\ memChunks < MaxChunks
       /\ memChunks' = memChunks + 1 /\ PoolTake(ChunkSeq(memChunks))
       /\ UNCHANGED <<memRemote, memOverflow>>

\* Deallocate on the owner thread.
FreeLocal(b) ==
    /\ b \in memHeld /\ b \in memMagic
    /\ memHeld' = memHeld \ {b} /\ memMagic' = memMagic \ {b}
    /\ memFree' = <<b>> \o memFree
    /\ UNCHANGED <<memChunks, memRemote, memOverflow, memHand, memInvalid, objVars, arenaVars>>

\* Deallocate elsewhere: the magic is cleared first, the block goes home later.
FreeRemote(t, b) ==
    /\ memHand[t] = 0 /\ b \in memHeld /\ b \in memMagic
    /\ memHeld' = memHeld \ {b} /\ memMagic' = memMagic \ {b}
    /\ memHand' = [memHand EXCEPT ![t] = b]
    /\ UNCHANGED <<memFree, memChunks, memRemote, memOverflow, memInvalid, objVars, arenaVars>>

GoHome(t) ==
    /\ memHand[t] # 0
    /\ memHand' = [memHand EXCEPT ![t] = 0]
    /\ \/ /\ Len(memRemote) < RemoteCapacity
          /\ memRemote' = Append(memRemote, memHand[t]) /\ UNCHANGED memOverflow
       \/ /\ Len(memRemote) >= RemoteCapacity
          /\ memOverflow' = Append(memOverflow, memHand[t]) /\ UNCHANGED memRemote
    /\ UNCHANGED <<memFree, memChunks, memMagic, memHeld, memInvalid, objVars, arenaVars>>

\* A second free of a block nobody holds: its magic is gone, it is counted and left alone.
FreeAgain(b) ==
    /\ b \in Blocks \ memHeld /\ memInvalid < MaxInvalid
    /\ b \notin memMagic
    /\ memInvalid' = memInvalid + 1
    /\ UNCHANGED <<memFree, memChunks, memMagic, memHeld, memRemote, memOverflow, memHand, objVars, arenaVars>>

----------------------------------------------------------------------------
(* ObjectPool: the last slot released is the next acquired. *)

Acquire ==
    LET list == IF objFree = <<>> THEN ChunkSeq(objChunks) ELSE objFree IN
    /\ objFree = <<>> => objChunks < MaxChunks
    /\ objChunks' = IF objFree = <<>> THEN objChunks + 1 ELSE objChunks
    /\ objFree' = Front(list) /\ objInUse' = objInUse \cup {Last(list)}
    /\ UNCHANGED <<poolVars, arenaVars>>

Release(s) ==
    /\ s \in objInUse
    /\ objInUse' = objInUse \ {s} /\ objFree' = Append(objFree, s)
    /\ UNCHANGED <<objChunks, poolVars, arenaVars>>

----------------------------------------------------------------------------
(* Arena. *)

\* Push: what does not fit the current block goes into a new one, which becomes current.
Push(bytes) ==
    LET block == arenaBlocks[arenaCur]
        grown == ArenaAdded(arenaBlocks, Bigger(bytes + 1, ArenaBlock)) IN
    /\ UNCHANGED <<poolVars, objVars>>
    /\ \/ /\ block.size - block.used >= bytes
          /\ arenaBlocks' = [arenaBlocks EXCEPT ![arenaCur].used = @ + bytes] /\ UNCHANGED arenaCur
       \/ /\ block.size - block.used < bytes /\ Len(arenaBlocks) < MaxArenaBlocks
          /\ arenaCur' = Len(grown) /\ arenaBlocks' = [grown EXCEPT ![Len(grown)].used = bytes]

ArenaReset ==
    /\ arenaBlocks' = [i \in DOMAIN arenaBlocks |-> [arenaBlocks[i] EXCEPT !.used = 0]]
    /\ arenaCur' = 1
    /\ UNCHANGED <<poolVars, objVars>>

PoolNext ==
    \/ Allocate
    \/ \E b \in Blocks : FreeLocal(b) \/ FreeAgain(b) \/ \E t \in Foreign : FreeRemote(t, b)
    \/ \E t \in Foreign : GoHome(t)
ObjectNext == Acquire \/ \E s \in objInUse : Release(s)
ArenaNext == ArenaReset \/ \E bytes \in ArenaSizes : Push(bytes)

MemoryNext == PoolNext \/ ObjectNext \/ ArenaNext
MemorySpec == MemoryInit /\ [][MemoryNext]_memoryVars

----------------------------------------------------------------------------
InHands(hand) == {hand[t] : t \in Foreign} \ {0}
Apart(sets) == \A i, j \in DOMAIN sets : i # j => sets[i] \cap sets[j] = {}
\* A block is in one place only: with a caller, on the free list, on its way
\* home, in the queue or in the overflow.  Two pointers to one block, or a
\* block nobody can ever allocate again, would break it.
BlocksPartitioned ==
    /\ LET places == <<ToSet(memFree), ToSet(memRemote), ToSet(memOverflow), memHeld, InHands(memHand)>> IN
       Apart(places) /\ UNION ToSet(places) = Blocks
    /\ IsInjective(memFree) /\ IsInjective(memRemote) /\ IsInjective(memOverflow)
    /\ \A t, u \in Foreign : memHand[t] = memHand[u] /\ memHand[t] # 0 => t = u
    /\ memMagic = memHeld
    /\ IsInjective(objFree) /\ ToSet(objFree) \cap objInUse = {}
    /\ ToSet(objFree) \cup objInUse = ObjectSlots

\* The arena asks the system for a block only when none it has could take the request.
ArenaReusesBlocks ==
    [][\A bytes \in ArenaSizes : Push(bytes) /\ Len(arenaBlocks') > Len(arenaBlocks) =>
        \A i \in DOMAIN arenaBlocks : arenaBlocks[i].size - arenaBlocks[i].used < bytes]_memoryVars
=============================================================================
