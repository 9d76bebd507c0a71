---------------------------- MODULE ConfigStore ----------------------------
(***************************************************************************)
(* The configuration of a process: an immutable snapshot that writers      *)
(* replace as a whole under write_mutex, and readers that never lock: each *)
(* thread keeps the snapshot it read last and looks only at one version    *)
(* number.  A load parses its file before it takes the mutex; a reload     *)
(* reads every registered source while it holds it.  A value is the file   *)
(* it comes from and that file's revision; JSON itself is left out.        *)
(***************************************************************************)
EXTENDS Naturals, FiniteSets, Functions

CONSTANTS CfgFiles, CfgKeys,
          FileKeys,       \* file -> the keys it defines
          CfgDirs,        \* the directories, each a set of files
          CfgWriters, CfgReaders,
          MaxRevision,    \* bound: edits of one file
          MaxVersion      \* bound: snapshots published

Nobody == "nobody"

ASSUME ConfigAssumption ==
    /\ FileKeys \in [CfgFiles -> SUBSET CfgKeys] /\ MaxVersion \in Nat
    /\ Nobody \notin CfgWriters

VARIABLES
    cfgFile,      \* file -> [rev, ok]: its revision, and whether it exists and parses
    cfgCurrent,   \* current: [version, values]
    cfgVersion,   \* version
    cfgSources,   \* source_files and source_dirs: <<"file" or "dir", its files>>
    cfgLock,      \* the writer inside write_mutex
    cfgParsed,    \* writer -> what its load has parsed
    cfgCache,     \* reader -> its ThreadCache
    cfgSeen       \* reader -> the version it read in AcquireSnapshot

configVars == <<cfgFile, cfgCurrent, cfgVersion, cfgSources, cfgLock, cfgParsed, cfgCache, cfgSeen>>

Nothing == [from |-> <<"none", {}>>, values |-> <<>>]
NotRead == MaxVersion + 1   \* kInvalidCacheVersion

ConfigInit ==
    /\ cfgFile = [f \in CfgFiles |-> [rev |-> 0, ok |-> TRUE]]
    /\ cfgCurrent = [version |-> 0, values |-> <<>>] /\ cfgVersion = 0
    /\ cfgSources = {} /\ cfgLock = Nobody
    /\ cfgParsed = [w \in CfgWriters |-> Nothing]
    /\ cfgCache = [r \in CfgReaders |-> [version |-> NotRead, values |-> <<>>]]
    /\ cfgSeen = [r \in CfgReaders |-> NotRead]

\* ParseFileInto over a list of files, then Build: all must parse and no key may come twice.
Parses(files) == \A f \in files : cfgFile[f].ok
Conflicts(files) == \E f, g \in files : f # g /\ FileKeys[f] \cap FileKeys[g] # {}
ValueOf(files, k) == LET f == CHOOSE g \in files : k \in FileKeys[g] IN <<f, cfgFile[f].rev>>
KeysIn(files) == UNION {FileKeys[f] : f \in files}
Built(files) == [k \in KeysIn(files) |-> ValueOf(files, k)]

\* MergeFrom: the keys of the newcomer override.
Merged(values, added) ==
    [k \in DOMAIN values \cup DOMAIN added |-> IF k \in DOMAIN added THEN added[k] ELSE values[k]]

\* An operator edits, breaks or mends a file at any time.
EditFile(f) ==
    /\ cfgFile[f].rev < MaxRevision
    /\ \E ok \in BOOLEAN : cfgFile' = [cfgFile EXCEPT ![f] = [rev |-> @.rev + 1, ok |-> ok]]
    /\ UNCHANGED <<cfgCurrent, cfgVersion, cfgSources, cfgLock, cfgParsed, cfgCache, cfgSeen>>

\* PublishSnapshot stores the snapshot, which carries its version ...
Stored(values) == cfgCurrent' = [version |-> cfgVersion + 1, values |-> values]

\* ... and then the version; the mutex is released after it.
PublishVersion ==
    /\ cfgLock # Nobody
    /\ cfgVersion' = cfgCurrent.version /\ cfgLock' = Nobody
    /\ UNCHANGED <<cfgFile, cfgCurrent, cfgSources, cfgParsed, cfgCache, cfgSeen>>

\* LoadFile and LoadDir up to the mutex; a failure leaves nothing behind.
LoadParse(w, kind, files) ==
    /\ cfgParsed[w] = Nothing /\ Parses(files) /\ ~Conflicts(files)
    /\ cfgParsed' = [cfgParsed EXCEPT ![w] = [from |-> <<kind, files>>, values |-> Built(files)]]
    /\ UNCHANGED <<cfgFile, cfgCurrent, cfgVersion, cfgSources, cfgLock, cfgCache, cfgSeen>>

LoadMerge(w) ==
    /\ cfgParsed[w] # Nothing /\ cfgLock = Nobody /\ cfgVersion < MaxVersion
    /\ cfgLock' = w /\ Stored(Merged(cfgCurrent.values, cfgParsed[w].values))
    /\ cfgSources' = cfgSources \cup {cfgParsed[w].from}
    /\ cfgParsed' = [cfgParsed EXCEPT ![w] = Nothing]
    /\ UNCHANGED <<cfgFile, cfgVersion, cfgCache, cfgSeen>>

\* Reload: from nothing, every file and every directory again; any failure keeps the old
\* snapshot.  A file that was loaded and lies in a loaded directory is read twice, and Build
\* refuses its keys.
SourcesConflict ==
    \/ \E s \in cfgSources : Conflicts(s[2])
    \/ \E s, t \in cfgSources : s # t /\ KeysIn(s[2]) \cap KeysIn(t[2]) # {}

Reload(w) ==
    LET files == UNION {s[2] : s \in cfgSources} IN
    /\ cfgLock = Nobody /\ cfgVersion < MaxVersion
    /\ Parses(files) /\ ~SourcesConflict
    /\ cfgLock' = w /\ Stored(Built(files))
    /\ UNCHANGED <<cfgFile, cfgVersion, cfgSources, cfgParsed, cfgCache, cfgSeen>>

\* Set: one key over a copy of the snapshot.
SetKey(w, k) ==
    /\ cfgLock = Nobody /\ cfgVersion < MaxVersion
    /\ cfgLock' = w /\ Stored(Merged(cfgCurrent.values, [x \in {k} |-> <<"set", 0>>]))
    /\ UNCHANGED <<cfgFile, cfgVersion, cfgSources, cfgParsed, cfgCache, cfgSeen>>

\* ResetForTest clears the sources and publishes an empty snapshot.
ResetConfig(w) ==
    /\ cfgLock = Nobody /\ cfgVersion < MaxVersion
    /\ cfgLock' = w /\ cfgSources' = {} /\ Stored(<<>>)
    /\ UNCHANGED <<cfgFile, cfgVersion, cfgParsed, cfgCache, cfgSeen>>

\* AcquireSnapshot: the version first, the snapshot only when the cache has another.
ReadVersion(r) ==
    /\ cfgSeen[r] = NotRead
    /\ cfgSeen' = [cfgSeen EXCEPT ![r] = cfgVersion]
    /\ UNCHANGED <<cfgFile, cfgCurrent, cfgVersion, cfgSources, cfgLock, cfgParsed, cfgCache>>

AcquireSnapshot(r) ==
    /\ cfgSeen[r] # NotRead
    /\ cfgCache' = [cfgCache EXCEPT ![r] = IF @.version # cfgSeen[r] THEN cfgCurrent ELSE @]
    /\ cfgSeen' = [cfgSeen EXCEPT ![r] = NotRead]
    /\ UNCHANGED <<cfgFile, cfgCurrent, cfgVersion, cfgSources, cfgLock, cfgParsed>>

ConfigNext ==
    \/ \E f \in CfgFiles : EditFile(f)
    \/ PublishVersion
    \/ \E w \in CfgWriters :
          \/ \E f \in CfgFiles : LoadParse(w, "file", {f})
          \/ \E dir \in CfgDirs : LoadParse(w, "dir", dir)
          \/ LoadMerge(w) \/ Reload(w) \/ ResetConfig(w)
          \/ \E k \in CfgKeys : SetKey(w, k)
    \/ \E r \in CfgReaders : ReadVersion(r) \/ AcquireSnapshot(r)

ConfigSpec == ConfigInit /\ [][ConfigNext]_configVars

----------------------------------------------------------------------------
\* A read returns a whole snapshot no older than any version the reader could
\* know of when it began, and a reader never goes back to an older one.
ReadersNeverGoBack ==
    [][\A r \in CfgReaders : AcquireSnapshot(r) =>
        /\ cfgCache'[r].version >= cfgSeen[r]
        /\ cfgCache[r].version # NotRead => cfgCache'[r].version >= cfgCache[r].version
        /\ cfgCache'[r].version = cfgCurrent.version => cfgCache'[r] = cfgCurrent]_configVars

\* The documented refusal of a key two sources define, so that what was loaded can be reloaded.
LoadedCanBeReloaded == ~SourcesConflict
=============================================================================
