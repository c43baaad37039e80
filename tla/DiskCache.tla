------------------------------- MODULE DiskCache -------------------------------
(***************************************************************************)
(* The disk tier of Squiddish's cache (cache/disk.rs).                     *)
(*                                                                         *)
(* An entry is two files, hash.meta and hash.data, written one after the   *)
(* other.  put and remove hold write_mutex; get holds nothing and reads    *)
(* between any two of their file-system calls.  The size in use and the    *)
(* eviction order live in memory and are rebuilt from the .meta files when *)
(* the proxy starts.                                                       *)
(*                                                                         *)
(* Data: an entry is the number of the put that wrote it (its position in  *)
(* log), and a file is what put wrote in it and how much of it.  Files are *)
(* told from their names, since a reader that has opened a file still      *)
(* reads it after it was unlinked.  A file is named by the put that        *)
(* created it.  Times are readings of the system clock, which may stand    *)
(* still or go back between two puts.                                      *)
(*                                                                         *)
(* The process may stop at any step and be started again.  What it wrote   *)
(* is then in the files: losing the operating system's page cache is not   *)
(* modelled.  Unlinking a file that exists succeeds.                       *)
(***************************************************************************)
EXTENDS Integers, Sequences, SequencesExt, FiniteSetsExt

CONSTANTS
    Keys,      \* cache keys (one .meta and one .data name each)
    Readers,   \* concurrent calls of get
    Sizes,     \* sizes of the bodies put
    Times,     \* bound: readings of the system clock
    MetaSize,  \* size of a .meta file
    MaxSize,   \* max_size
    MaxPuts,   \* bound: puts in a behaviour
    MaxFaults, \* bound: calls of put and remove that fail or are cut short
    None       \* absence of a value

ASSUME SizesAssumption ==
    /\ Sizes \subseteq Nat \ {0} /\ Times \subseteq Nat
    /\ MetaSize \in Nat \ {0} /\ MaxSize \in Nat
    /\ MaxPuts \in Nat /\ MaxFaults \in Nat
ASSUME KeysAssumption == IsFiniteSet(Keys)
ASSUME NoneAssumption ==
    /\ None \notin Keys \cup Nat
    /\ None \notin [op : {"put", "remove"}, key : Keys]
    /\ None \notin [meta : Nat, data : Nat, len : Nat]

VARIABLES
    log,       \* the entries put so far: their keys, body sizes, and times
    metaAt,    \* key -> file its .meta name refers to, or None
    dataAt,    \* key -> file its .data name refers to, or None
    meta,      \* .meta file -> the put that wrote it, and bytes written
    data,      \* .data file -> the same
    size,      \* current_size
    order,     \* eviction_order, oldest first
    writer,    \* control state of the holder of write_mutex
    job,       \* what that holder works on
    detached,  \* unlinks left to the blocking pool by a dropped remove
    reader,    \* control state of each get
    read,      \* what each get has opened and read
    damaged,   \* keys that a failure or an interruption left half written,
               \* half removed or wrongly counted (no part of the code)
    faults,    \* calls that failed or were cut short (no part of the code)
    earlier    \* puts begun before the process was started last (no part of
               \* the code)

files == <<metaAt, dataAt, meta, data>>
index == <<size, order>>
gets  == <<reader, read>>
ghosts == <<damaged, faults, earlier>>
vars  == <<log, files, index, writer, job, detached, gets, ghosts>>

Puts == 1..MaxPuts
File == [of : Puts, len : Nat]
\* put has made room and replaces the entry.
Replacing ==
    {"unlinkMeta", "unlinkData", "createMeta", "writeMeta", "createData",
     "writeData"}

WriterState ==
    {"idle", "evict", "evictMeta", "evictData", "rmMeta", "rmData"}
        \cup Replacing
ReaderState == {"idle", "metaOpen", "open", "metaRead", "answered"}

NoJob  == [key |-> None, victim |-> None, freed |-> 0, removed |-> 0,
           file |-> None]
NoRead == [key |-> None, meta |-> None, data |-> None, len |-> 0,
           steady |-> FALSE]

Job  == [key : Keys \cup {None}, victim : Keys \cup {None},
         freed : Nat, removed : Nat, file : Puts \cup {None}]
Read == [key : Keys \cup {None}, meta : Puts \cup {None},
         data : Puts \cup {None}, len : Nat, steady : BOOLEAN]

TypeOK ==
    /\ log      \in Seq([key : Keys, size : Sizes, time : Times]) /\ Len(log) <= MaxPuts
    /\ metaAt   \in [Keys -> Puts \cup {None}]
    /\ dataAt   \in [Keys -> Puts \cup {None}]
    /\ meta     \in [Puts -> File]
    /\ data     \in [Puts -> File]
    /\ size     \in Nat
    /\ order    \in Seq(Keys)
    /\ writer   \in WriterState
    /\ job      \in Job
    /\ detached \subseteq {"meta", "data"} \X Keys
    /\ reader   \in [Readers -> ReaderState]
    /\ read     \in [Readers -> Read]
    /\ damaged  \subseteq Keys
    /\ faults   \in 0..MaxFaults
    /\ earlier  \in 0..MaxPuts

\* A new cache directory, as DiskCache::new leaves it.
Init ==
    /\ log      = <<>>
    /\ metaAt   = [k \in Keys |-> None]
    /\ dataAt   = [k \in Keys |-> None]
    /\ meta     = [f \in Puts |-> [of |-> f, len |-> 0]]
    /\ data     = [f \in Puts |-> [of |-> f, len |-> 0]]
    /\ size     = 0
    /\ order    = <<>>
    /\ writer   = "idle"
    /\ job      = NoJob
    /\ detached = {}
    /\ reader   = [r \in Readers |-> "idle"]
    /\ read     = [r \in Readers |-> NoRead]
    /\ damaged  = {}
    /\ faults   = 0
    /\ earlier  = 0

-----------------------------------------------------------------------------
(* The files of a key.                                                     *)

Monus(a, b) == IF a > b THEN a - b ELSE 0

MetaLen(k) == IF metaAt[k] = None THEN 0 ELSE meta[metaAt[k]].len
DataLen(k) == IF dataAt[k] = None THEN 0 ELSE data[dataAt[k]].len

\* The lengths fs::metadata reports for the two names, 0 for a missing one.
BytesOf(k) == MetaLen(k) + DataLen(k)

\* The bytes of all files that still have a name.
UsedBytes == SumFunction([k \in Keys |-> BytesOf(k)])

\* The metadata m and the data file content d are one entry, all of it.
Entire(m, d) ==
    m.len = MetaSize /\ d.of = m.of /\ d.len = log[m.of].size

\* The two names of k hold one entire entry, or neither exists.
Intact(k) ==
    \/ metaAt[k] = None /\ dataAt[k] = None
    \/ metaAt[k] # None /\ dataAt[k] # None
       /\ Entire(meta[metaAt[k]], data[dataAt[k]])

\* One more call fails or is cut short.
Fault ==
    faults < MaxFaults /\ faults' = faults + 1 /\ UNCHANGED earlier

\* The order with every mention of k removed (retain).
Without(k) ==
    FoldLeft(LAMBDA kept, h : IF h = k THEN kept ELSE Append(kept, h), <<>>, order)

-----------------------------------------------------------------------------
(* put.  The number of the put that runs is Len(log).                      *)

PutSize == MetaSize + log[Len(log)].size

\* put has the mutex.  An entry larger than the cache is left out.  The time is
\* the one its .meta file will have: chosen here, seen by a restart only.
PutStart(k, n, t) ==
    /\ writer = "idle" /\ Len(log) < MaxPuts
    /\ MetaSize + n <= MaxSize
    /\ log' = Append(log, [key |-> k, size |-> n, time |-> t])
    /\ writer' = "evict"
    /\ job' = [NoJob EXCEPT !.key = k]
    /\ UNCHANGED <<files, index, detached, gets, ghosts>>

\* Mutant: evict_if_needed leaves the size of the new entry out.
RoomWithoutNew == Monus(size, job.freed) <= MaxSize

\* evict_if_needed need not evict, or has evicted enough.
Room == Monus(size, job.freed) <= MaxSize - PutSize

\* Mutant: the youngest entry is popped.
EvictPopYoungest ==
    /\ writer = "evict" /\ ~Room /\ order # <<>>
    /\ order' = Front(order)
    /\ job' = [job EXCEPT !.victim = Last(order),
                          !.freed = @ + BytesOf(Last(order))]
    /\ writer' = "evictMeta"
    /\ UNCHANGED <<log, files, size, detached, gets, ghosts>>

\* One turn of the eviction loop: pop the oldest hash, ask for the sizes ...
EvictPop ==
    /\ writer = "evict" /\ ~Room /\ order # <<>>
    /\ order' = Tail(order)
    /\ job' = [job EXCEPT !.victim = Head(order),
                          !.freed = @ + BytesOf(Head(order))]
    /\ writer' = "evictMeta"
    /\ UNCHANGED <<log, files, size, detached, gets, ghosts>>

\* ... remove the .meta file ...
EvictMeta ==
    /\ writer = "evictMeta"
    /\ metaAt' = [metaAt EXCEPT ![job.victim] = None]
    /\ writer' = "evictData"
    /\ UNCHANGED <<log, dataAt, meta, data, index, job, detached, gets, ghosts>>

\* ... and the .data file.
EvictData ==
    /\ writer = "evictData"
    /\ dataAt' = [dataAt EXCEPT ![job.victim] = None]
    /\ writer' = "evict"
    /\ UNCHANGED <<log, metaAt, meta, data, index, job, detached, gets, ghosts>>

\* Mutant: the old entry is not removed, so its files are written over.
EvictDoneOverwrite ==
    /\ writer = "evict" /\ (Room \/ order = <<>>)
    /\ size' = Monus(size, job.freed)
    /\ job' = [job EXCEPT !.removed = BytesOf(job.key)]
    /\ order' = Without(job.key)
    /\ writer' = "createMeta"
    /\ UNCHANGED <<log, files, detached, gets, ghosts>>

\* The end of evict_if_needed; remove_entry asks for the old entry's sizes.
EvictDone ==
    /\ writer = "evict" /\ (Room \/ order = <<>>)
    /\ size' = Monus(size, job.freed)
    /\ job' = [job EXCEPT !.removed = BytesOf(job.key)]
    /\ writer' = "unlinkMeta"
    /\ UNCHANGED <<log, files, order, detached, gets, ghosts>>

\* remove_entry of the old entry: the .meta file first ...
UnlinkMeta ==
    /\ writer = "unlinkMeta"
    /\ metaAt' = [metaAt EXCEPT ![job.key] = None]
    /\ writer' = "unlinkData"
    /\ UNCHANGED <<log, dataAt, meta, data, index, job, detached, gets, ghosts>>

\* ... then the .data file; its place in the order goes if it had any bytes.
UnlinkData ==
    /\ writer = "unlinkData"
    /\ dataAt' = [dataAt EXCEPT ![job.key] = None]
    /\ order' = IF job.removed > 0 THEN Without(job.key) ELSE order
    /\ writer' = "createMeta"
    /\ UNCHANGED <<log, metaAt, meta, data, size, job, detached, gets, ghosts>>

\* File::create: a new file, or the file that has the name, emptied.
Created(at) == IF at[job.key] = None THEN Len(log) ELSE at[job.key]
Empty == [of |-> Len(log), len |-> 0]

\* write_entry: create the .meta file ...
CreateMeta ==
    /\ writer = "createMeta"
    /\ job' = [job EXCEPT !.file = Created(metaAt)]
    /\ metaAt' = [metaAt EXCEPT ![job.key] = Created(metaAt)]
    /\ meta' = [meta EXCEPT ![Created(metaAt)] = Empty]
    /\ writer' = "writeMeta"
    /\ UNCHANGED <<log, dataAt, data, index, detached, gets, ghosts>>

\* ... write and flush it ...
WriteMeta ==
    /\ writer = "writeMeta"
    /\ meta' = [meta EXCEPT ![job.file].len = MetaSize]
    /\ writer' = "createData"
    /\ UNCHANGED <<log, metaAt, dataAt, data, index, job, detached, gets,
                   ghosts>>

\* ... create the .data file ...
CreateData ==
    /\ writer = "createData"
    /\ job' = [job EXCEPT !.file = Created(dataAt)]
    /\ dataAt' = [dataAt EXCEPT ![job.key] = Created(dataAt)]
    /\ data' = [data EXCEPT ![Created(dataAt)] = Empty]
    /\ writer' = "writeData"
    /\ UNCHANGED <<log, metaAt, meta, index, detached, gets, ghosts>>

\* ... and write the body to it, a part at a time.
WriteData ==
    /\ writer = "writeData"
    /\ data[job.file].len < log[Len(log)].size
    /\ data' = [data EXCEPT ![job.file].len = @ + 1]
    /\ UNCHANGED <<log, metaAt, dataAt, meta, index, writer, job, detached,
                   gets, ghosts>>

\* Mutant: put does not wait for the flush of the data file.
PutDoneUnflushed ==
    /\ writer = "writeData"
    /\ size' = Monus(size, job.removed) + PutSize
    /\ order' = Append(order, job.key)
    /\ writer' = "idle" /\ job' = NoJob
    /\ UNCHANGED <<log, files, detached, gets, ghosts>>

\* Mutant: the old size is subtracted without saturation.
PutDoneUnsaturated ==
    /\ writer = "writeData"
    /\ data[job.file].len = log[Len(log)].size
    /\ size' = size - job.removed + PutSize
    /\ order' = Append(order, job.key)
    /\ writer' = "idle" /\ job' = NoJob
    /\ UNCHANGED <<log, files, detached, gets, ghosts>>

\* Mutant: the size of the replaced entry stays in current_size.
PutDoneKeepsOld ==
    /\ writer = "writeData"
    /\ data[job.file].len = log[Len(log)].size
    /\ size' = size + PutSize
    /\ order' = Append(order, job.key)
    /\ writer' = "idle" /\ job' = NoJob
    /\ UNCHANGED <<log, files, detached, gets, ghosts>>

\* Mutant: the new entry is queued as the oldest.
PutDoneAtFront ==
    /\ writer = "writeData"
    /\ data[job.file].len = log[Len(log)].size
    /\ size' = Monus(size, job.removed) + PutSize
    /\ order' = <<job.key>> \o order
    /\ writer' = "idle" /\ job' = NoJob
    /\ UNCHANGED <<log, files, detached, gets, ghosts>>

\* The data file is flushed: put counts the entry, queues it as the youngest
\* and drops the mutex.
PutDone ==
    /\ writer = "writeData"
    /\ data[job.file].len = log[Len(log)].size
    /\ size' = Monus(size, job.removed) + PutSize
    /\ order' = Append(order, job.key)
    /\ writer' = "idle" /\ job' = NoJob
    /\ UNCHANGED <<log, files, detached, gets, ghosts>>

\* A call of write_entry fails: put returns the error there and then.
WriteFails ==
    /\ writer \in {"createMeta", "writeMeta", "createData", "writeData"}
    /\ Fault /\ damaged' = damaged \cup {job.key}
    /\ writer' = "idle" /\ job' = NoJob
    /\ UNCHANGED <<log, files, index, detached, gets>>

-----------------------------------------------------------------------------
(* remove, which TieredCache::get calls for an entry that has expired.     *)

\* remove has the mutex; remove_entry asks for the sizes ...
RemoveStart(k) ==
    /\ writer = "idle"
    /\ job' = [NoJob EXCEPT !.key = k, !.removed = BytesOf(k)]
    /\ writer' = "rmMeta"
    /\ UNCHANGED <<log, files, index, detached, gets, ghosts>>

\* ... removes the .meta file ...
RemoveMeta ==
    /\ writer = "rmMeta"
    /\ metaAt' = [metaAt EXCEPT ![job.key] = None]
    /\ writer' = "rmData"
    /\ UNCHANGED <<log, dataAt, meta, data, index, job, detached, gets, ghosts>>

\* ... and the .data file; then the index is updated without another await.
RemoveData ==
    /\ writer = "rmData"
    /\ dataAt' = [dataAt EXCEPT ![job.key] = None]
    /\ size' = Monus(size, job.removed)
    /\ order' = Without(job.key)
    /\ writer' = "idle" /\ job' = NoJob
    /\ UNCHANGED <<log, metaAt, meta, data, detached, gets, ghosts>>

\* The client disconnects: the future that awaits an unlink is dropped and the
\* mutex with it, while the blocking pool still has the unlink to do.
RemoveDropped ==
    /\ writer \in {"rmMeta", "rmData"}
    /\ detached' = detached \cup
          {<<IF writer = "rmMeta" THEN "meta" ELSE "data", job.key>>}
    /\ Fault /\ damaged' = damaged \cup {job.key}
    /\ writer' = "idle" /\ job' = NoJob
    /\ UNCHANGED <<log, files, index, gets>>

\* The blocking pool does an unlink nobody waits for.
DetachedUnlink ==
    \E u \in detached :
        /\ detached' = detached \ {u}
        /\ metaAt' = IF u[1] = "meta" THEN [metaAt EXCEPT ![u[2]] = None]
                                      ELSE metaAt
        /\ dataAt' = IF u[1] = "data" THEN [dataAt EXCEPT ![u[2]] = None]
                                      ELSE dataAt
        /\ UNCHANGED <<log, meta, data, index, writer, job, gets, ghosts>>

-----------------------------------------------------------------------------
(* get, without the mutex.  A missing name is a miss and changes nothing.  *)

\* No failure has touched k and no call that holds the mutex is at its files.
Quiet(k) ==
    /\ k \notin damaged
    /\ writer \in {"evictMeta", "evictData"} => job.victim # k
    /\ writer \in Replacing \cup {"rmMeta", "rmData"} => job.key # k

OpenMeta(r, k) ==
    /\ reader[r] = "idle" /\ metaAt[k] # None
    /\ reader' = [reader EXCEPT ![r] = "metaOpen"]
    /\ read' = [read EXCEPT ![r] =
                   [NoRead EXCEPT !.key = k, !.meta = metaAt[k]]]
    /\ UNCHANGED <<log, files, index, writer, job, detached, ghosts>>

\* The get is steady if both names were those of one entry nobody was at.
OpenData(r) ==
    LET k == read[r].key IN
    /\ reader[r] = "metaOpen" /\ dataAt[k] # None
    /\ reader' = [reader EXCEPT ![r] = "open"]
    /\ read' = [read EXCEPT ![r].data = dataAt[k],
                            ![r].steady = Quiet(k) /\ metaAt[k] = read[r].meta]
    /\ UNCHANGED <<log, files, index, writer, job, detached, ghosts>>

\* The metadata is read to its end and parsed.
ReadMeta(r) ==
    /\ reader[r] = "open" /\ meta[read[r].meta].len = MetaSize
    /\ reader' = [reader EXCEPT ![r] = "metaRead"]
    /\ read' = [read EXCEPT ![r].meta = meta[read[r].meta].of]
    /\ UNCHANGED <<log, files, index, writer, job, detached, ghosts>>

\* The data is read to the end the file has by then.
ReadData(r) ==
    /\ reader[r] = "metaRead"
    /\ reader' = [reader EXCEPT ![r] = "answered"]
    /\ read' = [read EXCEPT ![r].data = data[read[r].data].of,
                            ![r].len  = data[read[r].data].len]
    /\ UNCHANGED <<log, files, index, writer, job, detached, ghosts>>

\* The get is over: a miss, unparsable metadata, or an answer handed on.
GetEnds(r) ==
    /\ \/ reader[r] = "metaOpen" /\ dataAt[read[r].key] = None
       \/ reader[r] = "open" /\ meta[read[r].meta].len < MetaSize
       \/ reader[r] = "answered"
    /\ reader' = [reader EXCEPT ![r] = "idle"]
    /\ read' = [read EXCEPT ![r] = NoRead]
    /\ UNCHANGED <<log, files, index, writer, job, detached, ghosts>>

-----------------------------------------------------------------------------
(* The process stops at any point; DiskCache::new rebuilds the index.      *)

Listed == {k \in Keys : metaAt[k] # None}

\* The modification time of its .meta file.
Written(k) == log[meta[metaAt[k]].of].time

\* The listed keys sorted by modification time, oldest first; those of one
\* time in the order in which the directories were walked, which is any.
OldestFirst ==
    {s \in SetToSeqs(Listed) :
        \A i, j \in DOMAIN s : i < j => Written(s[i]) <= Written(s[j])}

\* The index lists every .meta file, by time of modification, and counts it and
\* the .data file beside it.  Calls and unlinks in progress are lost.
Restart ==
    /\ order' \in OldestFirst
    /\ size' = SumFunction([k \in Listed |-> BytesOf(k)])
    /\ writer' = "idle" /\ job' = NoJob /\ detached' = {}
    /\ reader' = [r \in Readers |-> "idle"]
    /\ read' = [r \in Readers |-> NoRead]
    /\ IF writer = "idle" THEN faults' = faults
       ELSE faults < MaxFaults /\ faults' = faults + 1
    /\ damaged' = {k \in Keys : ~Intact(k)}
    /\ earlier' = Len(log)
    /\ UNCHANGED <<log, files>>

PutStep ==
    \/ \E k \in Keys, n \in Sizes, t \in Times : PutStart(k, n, t)
    \/ EvictPop \/ EvictMeta \/ EvictData \/ EvictDone
    \/ UnlinkMeta \/ UnlinkData
    \/ CreateMeta \/ WriteMeta \/ CreateData \/ WriteData
    \/ PutDone \/ WriteFails

RemoveStep ==
    \/ \E k \in Keys : RemoveStart(k)
    \/ RemoveMeta \/ RemoveData \/ RemoveDropped \/ DetachedUnlink

GetStep(r) ==
    \/ \E k \in Keys : OpenMeta(r, k)
    \/ OpenData(r) \/ ReadMeta(r) \/ ReadData(r) \/ GetEnds(r)

Next ==
    \/ PutStep
    \/ RemoveStep
    \/ \E r \in Readers : GetStep(r)
    \/ Restart

Spec == Init /\ [][Next]_vars

-----------------------------------------------------------------------------
(* Properties.                                                             *)

\* current_size and eviction_order describe the files: while nothing has
\* failed or been interrupted since the start, the size is the bytes in use
\* and the order names each stored entry exactly once, through replacement,
\* eviction, removal and restarts.
IndexMatchesFiles ==
    writer = "idle" /\ damaged = {} =>
        /\ size = UsedBytes
        /\ ToSet(order) = {k \in Keys : BytesOf(k) > 0}
        /\ \A i, j \in 1..Len(order) : order[i] = order[j] => i = j

\* max_size bounds the bytes on disk at every moment.  Failed writes can leave a
\* restarted cache above it, which is over as soon as a put has made room: no
\* new entry is begun before it fits.
FilesWithinLimit ==
    damaged = {} /\ (size <= MaxSize \/ writer \in Replacing)
        => UsedBytes <= MaxSize

\* Between calls, a key that no failure has touched has an entire entry under
\* its two names, the metadata and the body of one put, or has neither file.
StoredIsEntire == writer = "idle" => \A k \in Keys \ damaged : Intact(k)

\* A get that found both files of an entry while nobody was at them returns
\* that entry entire, although it is replaced, evicted or removed before the
\* get has read it: files are unlinked, never written over.
SteadyReadIsEntire ==
    \A r \in Readers :
        reader[r] = "answered" /\ read[r].steady =>
            /\ read[r].data = read[r].meta
            /\ read[r].len = log[read[r].meta].size

\* The clock gave the stored entries times that ascend with their puts.
ClockWentOn ==
    \A j, k \in Listed :
        meta[metaAt[j]].of < meta[metaAt[k]].of => Written(j) < Written(k)

\* A restart of an undamaged cache at rest loses track of nothing: the file
\* sizes give back the size in use and the .meta files the keys to evict, each
\* once; their times give back the order as well, unless the clock stood still
\* or was set back between the puts of two of them.
RestartKeepsIndex ==
    [][Restart /\ writer = "idle" /\ damaged = {} =>
          /\ size' = size
          /\ ToSet(order') = ToSet(order) /\ Len(order') = Len(order)
          /\ ClockWentOn => order' = order]_vars

-----------------------------------------------------------------------------
(* Refinement of the abstract specification.                               *)

\* The entry that the two names of k hold.
Holds(k) ==
    IF metaAt[k] # None /\ dataAt[k] # None
          /\ Entire(meta[metaAt[k]], data[dataAt[k]])
    THEN meta[metaAt[k]].of ELSE None

Calling ==
    IF writer = "idle" THEN None
    ELSE [op |-> IF writer \in {"rmMeta", "rmData"} THEN "remove" ELSE "put",
          key |-> job.key]

Promise(r) == IF read[r].steady THEN meta[read[r].meta].of ELSE None

Answer(r) ==
    IF read[r].steady /\ reader[r] = "answered"
    THEN [meta |-> read[r].meta, data |-> read[r].data, len |-> read[r].len]
    ELSE None

Held     == [k \in Keys |-> Holds(k)]
Promised == [r \in Readers |-> Promise(r)]
Returned == [r \in Readers |-> Answer(r)]

Store == INSTANCE EntryStore WITH
    puts     <- log,      held     <- Held,     call   <- Calling,
    promised <- Promised, returned <- Returned, harmed <- damaged,
    earlier  <- earlier

\* Files, names and index together are a bounded map: a put leaves its entry, an
\* entry goes only when its key is put or removed or when it is the oldest and a
\* put needs the room, and no restart loses an entry or brings one back.
ImplementsEntryStore == Store!Spec

-----------------------------------------------------------------------------
(* What the tests and comments say and the code does not keep.             *)

\* test_disk_cache_basic: a get that returns an entry returns the metadata and
\* all of the data of one put.
GetReturnsEntire ==
    \A r \in Readers :
        reader[r] = "answered" =>
            /\ read[r].data = read[r].meta
            /\ read[r].len = log[read[r].meta].size

\* README, SQUIDDISH_DISK_SIZE, "Max disk cache size": the files of the cache
\* never take more than max_size, whatever calls have failed.
BytesWithinMaxSize == UsedBytes <= MaxSize

\* test_disk_cache_overwrite_no_ghost_in_eviction: the eviction order has one
\* entry for a key, not two.
NoGhosts ==
    writer = "idle" =>
        \A i, j \in 1..Len(order) : order[i] = order[j] => i = j

=============================================================================
