------------------------------ MODULE Resources ------------------------------
(* The client's resources: a cache of textures, meshes and sounds that      *)
(* worker threads fill and that is cut back to the budgets of the quality   *)
(* preset, and the streaming of the chunks around the player.               *)
(*                                                                         *)
(* Bytes are small numbers.  The chunks lie on a line; the map iterates     *)
(* over them in no particular order.                                        *)
EXTENDS Integers, Sequences, FiniteSets, SequencesExt, FiniteSetsExt, Functions

CONSTANTS
  Uris,             \* what can be loaded
  KindOf,           \* uri -> "Texture", "Mesh" or "Audio"
  SizeOf,           \* uri of a mesh or a sound -> bytes
  Levels,           \* quality levels, in the order of the file's sections
  DefaultPresets,   \* level -> [texel, Texture, Mesh]: a texture's bytes, the budgets
  PresetFiles,      \* contents of quality.json: the sections present -> their preset
  AudioBudget,      \* kAudioBudgetBytes
  RsWorkers,        \* worker threads
  MaxIds,           \* bound: resources loaded
  MaxTouches,       \* bound: values of tick_counter_
  Chunks,           \* positions
  Radius,           \* load_radius
  LoadTime,         \* chunk -> updates its load takes
  UnloadDelay,      \* updates a chunk lingers out of the radius
  MaxPendingLoads,  \* max_pending_loads
  MaxUpdates        \* bound: calls of Update

RsKinds == {"Texture", "Mesh", "Audio"}
Presets == [texel : Nat, Texture : Nat, Mesh : Nat]

ASSUME ResourcesAssumption ==
  /\ \A u \in Uris : KindOf[u] \in RsKinds /\ (KindOf[u] # "Texture" => SizeOf[u] \in Nat)
  /\ Levels \in Seq(Range(Levels))
  /\ \A l \in Range(Levels) : DefaultPresets[l] \in Presets
  /\ \A f \in PresetFiles : \A l \in DOMAIN f : f[l] \in Presets
  /\ MaxIds \in Nat /\ MaxTouches \in Nat /\ AudioBudget \in Nat
  /\ Chunks \subseteq Int /\ Radius \in Nat /\ UnloadDelay \in Nat \ {0}
  /\ MaxPendingLoads \in Nat /\ MaxUpdates \in Nat
  /\ \A c \in Chunks : LoadTime[c] \in Nat \ {0}

VARIABLES
  rsPresets,        \* g_presets: level -> its preset
  rsPreset,         \* preset_: the copy in force
  rsEntries,        \* id -> [uri, refs, stamp, committed, bytes]
  rsIndex,          \* uri_index_: uri -> id
  rsUsed,           \* kind -> bytes in use
  rsClock,          \* tick_counter_
  rsNext,           \* next_id_
  rsJobs,           \* job_queue_
  rsWorker,         \* worker -> [at, id, bytes]
  rsStop,
  stChunks,         \* chunk -> [state, progress, timer]
  stAway,           \* chunk -> updates since the player left its radius, ghost
  stAt,             \* where the player is
  stUpdates         \* bound: updates so far

rsVars == <<rsPresets, rsPreset, rsEntries, rsIndex, rsUsed, rsClock, rsNext, rsJobs, rsWorker, rsStop>>
stVars == <<stChunks, stAway, stAt, stUpdates>>
resourceVars == <<rsVars, stVars>>

Waiting == [at |-> "wait", id |-> 0, bytes |-> 0]
\* The head of the worker's loop: it goes on waiting unless it was told to stop.
NextJob == IF rsStop THEN [Waiting EXCEPT !.at = "gone"] ELSE Waiting

ResourcesInit ==
  /\ rsPresets = DefaultPresets /\ \E l \in Range(Levels) : rsPreset = DefaultPresets[l]
  /\ rsEntries = <<>> /\ rsIndex = <<>> /\ rsUsed = [k \in RsKinds |-> 0]
  /\ rsClock = 0 /\ rsNext = 1 /\ rsJobs = <<>>
  /\ rsWorker = [w \in RsWorkers |-> Waiting] /\ rsStop = FALSE
  /\ stChunks = <<>> /\ stAway = [c \in Chunks |-> 0] /\ stAt = 0 /\ stUpdates = 0

Budget(preset, k) == IF k = "Audio" THEN AudioBudget ELSE preset[k]
ComputePayload(u) == IF KindOf[u] = "Texture" THEN rsPreset.texel ELSE SizeOf[u]

\* Entries of a kind that may go: loaded, with no reference.
Victims(entries, k) ==
  {i \in DOMAIN entries : KindOf[entries[i].uri] = k /\ entries[i].committed /\ entries[i].refs = 0}
BytesOf(entries, S) == SumFunctionOnSet([i \in DOMAIN entries |-> entries[i].bytes], S)

\* EvictOne takes them, the least recently used first, while the kind is over its budget.
Taken(entries, used, budget, k) ==
  {i \in Victims(entries, k) :
     used - BytesOf(entries, {j \in Victims(entries, k) : entries[j].stamp < entries[i].stamp}) > budget}

\* EvictToBudget: entries, the index and the bytes in use after it.
EvictToBudget(entries, used, preset) ==
  LET gone == UNION {Taken(entries, used[k], Budget(preset, k), k) : k \in RsKinds}
      kept == Restrict(entries, DOMAIN entries \ gone)
  IN /\ rsEntries' = kept
     /\ rsIndex' = Restrict(rsIndex, {u \in DOMAIN rsIndex : rsIndex[u] \notin gone})
     /\ rsUsed' = [k \in RsKinds |->
          used[k] - BytesOf(entries, {g \in gone : KindOf[entries[g].uri] = k})]

LoadAsync(u) ==
  /\ rsClock < MaxTouches /\ rsClock' = rsClock + 1
  /\ \/ /\ u \in DOMAIN rsIndex
        /\ rsEntries' = [rsEntries EXCEPT ![rsIndex[u]].refs = @ + 1,
                                          ![rsIndex[u]].stamp = rsClock + 1]
        /\ UNCHANGED <<rsIndex, rsNext, rsJobs>>
     \/ /\ u \notin DOMAIN rsIndex /\ rsNext <= MaxIds
        /\ rsEntries' = [i \in DOMAIN rsEntries \cup {rsNext} |->
             IF i = rsNext THEN [uri |-> u, refs |-> 1, stamp |-> rsClock + 1,
                                 committed |-> FALSE, bytes |-> 0]
             ELSE rsEntries[i]]
        /\ rsIndex' = [v \in DOMAIN rsIndex \cup {u} |-> IF v = u THEN rsNext ELSE rsIndex[v]]
        /\ rsNext' = rsNext + 1 /\ rsJobs' = Append(rsJobs, rsNext)
  /\ UNCHANGED <<rsPresets, rsPreset, rsUsed, rsWorker, rsStop>>

\* A handle may be given back more often than it was taken, and after its resource has gone.
Unload(i) ==
  /\ i \in DOMAIN rsEntries /\ rsEntries[i].refs > 0
  /\ rsClock < MaxTouches /\ rsClock' = rsClock + 1
  /\ EvictToBudget([rsEntries EXCEPT ![i].refs = @ - 1, ![i].stamp = rsClock + 1],
                   rsUsed, rsPreset)
  /\ UNCHANGED <<rsPresets, rsPreset, rsNext, rsJobs, rsWorker, rsStop>>

\* The sections are taken over one by one; the first that is missing fails the load there.
LoadPresets(f) ==
  LET read == {n \in DOMAIN Levels : \A m \in 1 .. n : Levels[m] \in DOMAIN f} IN
  /\ rsPresets' = [l \in Range(Levels) |->
       IF \E n \in read : Levels[n] = l THEN f[l] ELSE rsPresets[l]]
  /\ UNCHANGED <<rsPreset, rsEntries, rsIndex, rsUsed, rsClock, rsNext, rsJobs, rsWorker, rsStop>>

SetQuality(l) ==
  /\ rsPreset' = rsPresets[l] /\ EvictToBudget(rsEntries, rsUsed, rsPresets[l])
  /\ UNCHANGED <<rsPresets, rsClock, rsNext, rsJobs, rsWorker, rsStop>>

WorkerTakes(w) ==
  /\ rsWorker[w].at = "wait" /\ rsJobs # <<>>
  /\ rsWorker' = [rsWorker EXCEPT ![w] = [Waiting EXCEPT !.at = "look", !.id = Head(rsJobs)]]
  /\ rsJobs' = Tail(rsJobs)
  /\ UNCHANGED <<rsPresets, rsPreset, rsEntries, rsIndex, rsUsed, rsClock, rsNext, rsStop>>

\* The size is that of the preset of this moment; the bytes are filled in outside the lock.
WorkerLooks(w) ==
  /\ rsWorker[w].at = "look"
  /\ LET i == rsWorker[w].id IN
     rsWorker' = [rsWorker EXCEPT ![w] =
       IF i \in DOMAIN rsEntries
       THEN [at |-> "commit", id |-> i, bytes |-> ComputePayload(rsEntries[i].uri)] ELSE NextJob]
  /\ UNCHANGED <<rsPresets, rsPreset, rsEntries, rsIndex, rsUsed, rsClock, rsNext, rsJobs, rsStop>>

WorkerCommits(w) ==
  /\ rsWorker[w].at = "commit"
  /\ rsWorker' = [rsWorker EXCEPT ![w] = NextJob]
  /\ LET i == rsWorker[w].id
         n == rsWorker[w].bytes IN
     IF i \in DOMAIN rsEntries /\ ~rsEntries[i].committed
     THEN EvictToBudget([rsEntries EXCEPT ![i].committed = TRUE, ![i].bytes = n],
                        [rsUsed EXCEPT ![KindOf[rsEntries[i].uri]] = @ + n], rsPreset)
     ELSE UNCHANGED <<rsEntries, rsIndex, rsUsed>>
  /\ UNCHANGED <<rsPresets, rsPreset, rsClock, rsNext, rsJobs, rsStop>>

\* A worker finishes the load in hand, or one more, and leaves the rest of the queue.
StopWorkers ==
  /\ ~rsStop /\ rsStop' = TRUE
  /\ UNCHANGED <<rsPresets, rsPreset, rsEntries, rsIndex, rsUsed, rsClock, rsNext, rsJobs, rsWorker>>

WorkerStep(w) == WorkerTakes(w) \/ WorkerLooks(w) \/ WorkerCommits(w)
ResourcesNext ==
  /\ \/ \E u \in Uris : LoadAsync(u)
     \/ \E i \in 1 .. MaxIds : Unload(i)
     \/ \E l \in Range(Levels) : SetQuality(l)
     \/ \E f \in PresetFiles : LoadPresets(f)
     \/ \E w \in RsWorkers : WorkerStep(w)
     \/ StopWorkers
  /\ UNCHANGED stVars

-----------------------------------------------------------------------------
(* SceneStreamer::Update: loads advance and unloading counts down, chunks   *)
(* that were left begin to unload, missing ones near the player begin to    *)
(* load and those that unload there are kept.                               *)
Near(c, at) == c - at <= Radius /\ at - c <= Radius

Advanced(chunks, done) == [c \in DOMAIN chunks |->
  CASE chunks[c].state = "Pending" ->
         [chunks[c] EXCEPT !.progress = IF @ < LoadTime[c] THEN @ + 1 ELSE @,
                           !.state = IF c \in done THEN "Loaded" ELSE @]
    [] chunks[c].state = "Unloading" ->
         [chunks[c] EXCEPT !.timer = @ - 1,
                           !.state = IF chunks[c].timer <= 1 THEN "Unloaded" ELSE @]
    [] OTHER -> chunks[c]]

Left(chunks, at) == [c \in DOMAIN chunks |->
  IF chunks[c].state = "Loaded" /\ ~Near(c, at)
  THEN [chunks[c] EXCEPT !.state = "Unloading", !.timer = UnloadDelay] ELSE chunks[c]]

\* The missing chunks are asked for in order, as many as one update may ask for.
Asked(chunks, at) ==
  LET missing == {c \in Chunks \ DOMAIN chunks : Near(c, at)}
  IN {c \in missing : Cardinality({d \in missing : d < c}) < MaxPendingLoads}

Entered(chunks, at) == [c \in DOMAIN chunks \cup Asked(chunks, at) |->
  CASE c \notin DOMAIN chunks -> [state |-> "Pending", progress |-> 0, timer |-> 0]
    [] c \in DOMAIN chunks /\ Near(c, at) /\ chunks[c].state = "Unloading" ->
         [chunks[c] EXCEPT !.state = "Loaded", !.timer = 0]
    [] OTHER -> chunks[c]]

Ready(chunks) == {c \in DOMAIN chunks : chunks[c].state = "Pending" /\ chunks[c].progress + 1 >= LoadTime[c]}

Update(at) ==
  /\ stUpdates < MaxUpdates /\ stUpdates' = stUpdates + 1 /\ stAt' = at
  /\ \E done \in SUBSET Ready(stChunks) :
       /\ Cardinality(done) = Min({Cardinality(Ready(stChunks)), MaxPendingLoads})
       /\ stChunks' = Entered(Left(Advanced(stChunks, done), at), at)
  /\ stAway' = [c \in Chunks |-> IF Near(c, at) THEN 0 ELSE Min({stAway[c] + 1, UnloadDelay + 1})]

ForceUnloadAll ==
  /\ stChunks # <<>>
  /\ stChunks' = [c \in DOMAIN stChunks |-> [stChunks[c] EXCEPT !.state = "Unloaded"]]
  /\ UNCHANGED <<stAway, stAt, stUpdates>>

StreamerNext ==
  /\ ForceUnloadAll \/ \E at \in Chunks : Update(at)
  /\ UNCHANGED rsVars

-----------------------------------------------------------------------------
InUse(k) == {i \in DOMAIN rsEntries : rsEntries[i].committed /\ KindOf[rsEntries[i].uri] = k}

(* The bytes counted are the bytes held, a uri leads to its resource and    *)
(* only a resource in use keeps a kind over its budget, however loads,      *)
(* releases and changes of quality interleave with the workers.             *)
CacheIsExact ==
  /\ \A k \in RsKinds :
       /\ rsUsed[k] = BytesOf(rsEntries, InUse(k))
       /\ rsUsed[k] > Budget(rsPreset, k) => \A i \in InUse(k) : rsEntries[i].refs > 0
  /\ \A u \in DOMAIN rsIndex : rsIndex[u] \in DOMAIN rsEntries /\ rsEntries[rsIndex[u]].uri = u
  /\ \A i \in DOMAIN rsEntries : rsIndex[rsEntries[i].uri] = i

\* A resource that is not loaded is with exactly one worker or waits in the queue.
LoadsAreUnderWay == \A i \in DOMAIN rsEntries :
  ~rsEntries[i].committed <=>
    (\E n \in DOMAIN rsJobs : rsJobs[n] = i) \/ (\E w \in RsWorkers : rsWorker[w].id = i)

(* A chunk around the player is never taken away, one that is left stays    *)
(* until the delay has passed, and after an update every loaded chunk is    *)
(* near.                                                                    *)
ChunksLinger ==
  [][\A c \in DOMAIN stChunks :
       stChunks[c].state = "Unloading" /\ stChunks'[c].state = "Unloaded" /\ stUpdates' # stUpdates
         => stAway[c] >= UnloadDelay]_stVars
LoadedIsNear == \A c \in DOMAIN stChunks : stChunks[c].state = "Loaded" => Near(c, stAt)

(* A claim that does not hold: entering the radius loads a chunk            *)
(* (scene_streamer.cpp:3).  A chunk that was unloaded keeps its record, so  *)
(* it is neither missing nor unloading, and it is never loaded again.       *)
NearIsNeverUnloaded == \A c \in DOMAIN stChunks : stChunks[c].state = "Unloaded" => ~Near(c, stAt)
=============================================================================
