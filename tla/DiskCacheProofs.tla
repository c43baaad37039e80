---------------------------- MODULE DiskCacheProofs ----------------------------
(***************************************************************************)
(* What the files of DiskCache hold, for any keys, readers and sizes and   *)
(* any number of puts, failures and restarts: an undamaged entry is        *)
(* entire, and a get that found one steady reads all of it.                *)
(*                                                                         *)
(* The index takes no part in this: which entry is evicted does not matter *)
(* to it, so nothing is said here of size and order.                       *)
(***************************************************************************)
EXTENDS DiskCache, SequenceTheorems, TLAPS

\* A put holds the mutex; its number is Len(log).
InPut == writer \in {"evict", "evictMeta", "evictData"} \cup Replacing

\* What a get has opened by the time it reads it.
GetTypes ==
    /\ reader \in [Readers -> ReaderState]
    /\ read   \in [Readers -> Read]
    /\ \A r \in Readers :
          /\ reader[r] # "idle" => read[r].key \in Keys /\ read[r].meta \in Puts
          /\ reader[r] \in {"open", "metaRead", "answered"} => read[r].data \in Puts

\* The types of the files, of the directory and of the holder of the mutex.
FileTypes ==
    /\ log      \in Seq([key : Keys, size : Sizes, time : Times]) /\ Len(log) <= MaxPuts
    /\ metaAt   \in [Keys -> Puts \cup {None}]
    /\ dataAt   \in [Keys -> Puts \cup {None}]
    /\ meta     \in [Puts -> File]
    /\ data     \in [Puts -> File]
    /\ writer   \in WriterState
    /\ DOMAIN job = {"key", "victim", "freed", "removed", "file"}
    /\ writer # "idle" => job.key \in Keys
    /\ detached \subseteq {"meta", "data"} \X Keys
    /\ damaged  \subseteq Keys

\* Names lead to files of puts that have begun; a file keeps the contents of
\* the put that created it; that of the running put has its key's name alone.
NamesInv ==
    /\ \A k \in Keys : metaAt[k] # None => metaAt[k] <= Len(log)
    /\ \A k \in Keys : dataAt[k] # None => dataAt[k] <= Len(log)
    /\ \A f \in Puts : meta[f].of = f /\ data[f].of = f
    /\ InPut =>
          /\ Len(log) > 0
          /\ \A k \in Keys :
                /\ metaAt[k] = Len(log) =>
                      k = job.key /\ writer \in {"writeMeta", "createData", "writeData"}
                /\ dataAt[k] = Len(log) => k = job.key /\ writer = "writeData"

\* How far the holder of the mutex is with the files of its key.
WriterInv ==
    /\ writer = "evictData" /\ job.victim \in Keys => metaAt[job.victim] = None
    /\ writer \in {"unlinkData", "createMeta", "rmData"} => metaAt[job.key] = None
    /\ writer \in {"createMeta", "writeMeta", "createData"} => dataAt[job.key] = None
    /\ writer \in {"writeMeta", "writeData"} => job.file = Len(log)
    /\ writer \in {"createData", "writeData"} => meta[Len(log)].len = MetaSize
    /\ job.key \notin damaged =>
          /\ writer \in {"writeMeta", "createData", "writeData"} =>
                metaAt[job.key] = Len(log)
          /\ writer = "writeData" => dataAt[job.key] = Len(log)

\* The holder of the mutex has begun to change the files of k.
Changing(k) ==
    \/ writer = "evictData" /\ job.victim = k
    \/ writer \in {"unlinkData", "createMeta", "writeMeta", "createData",
                   "writeData", "rmData"} /\ job.key = k

EntriesInv == \A k \in Keys \ damaged : Changing(k) \/ Intact(k)

\* Only damaged keys have unlinks left behind.
DetachedInv == \A u \in detached : u[2] \in damaged

\* A steady get holds the two files of one put that nobody writes any more.
ReadersInv ==
    \A r \in Readers :
        read[r].steady =>
            LET f == read[r].meta IN
            /\ f \in Puts /\ f <= Len(log) /\ (InPut => f # Len(log))
            /\ read[r].data = f /\ data[f].len = log[f].size
            /\ reader[r] = "answered" => read[r].len = log[f].size

FileInvariant ==
    /\ FileTypes /\ GetTypes
    /\ NamesInv /\ WriterInv /\ EntriesInv /\ DetachedInv
    /\ ReadersInv

\* What the assumptions say of numbers and of None.
LEMMA Numbers ==
    /\ MaxPuts \in Nat /\ Puts \subseteq Nat \ {0} /\ None \notin Puts
    /\ None \notin Keys /\ None \notin Nat /\ MetaSize \in Nat
BY SizesAssumption, NoneAssumption DEF Puts

\* The empty directory satisfies the invariant.
LEMMA InitHolds == Init => FileInvariant
<1> SUFFICES ASSUME Init PROVE FileInvariant
  OBVIOUS
<1>1. FileTypes /\ GetTypes
  BY Numbers DEF Init, FileTypes, GetTypes, File, WriterState, NoJob, NoRead, Read,
                 ReaderState
<1>2. NamesInv /\ WriterInv /\ EntriesInv /\ DetachedInv
  BY Numbers DEF Init, NamesInv, InPut, Replacing, WriterInv, EntriesInv, Intact, DetachedInv
<1>3. ReadersInv
  BY DEF Init, ReadersInv, NoRead
<1> QED BY <1>1, <1>2, <1>3 DEF FileInvariant

-----------------------------------------------------------------------------
(* A get changes nothing but itself.                                       *)

\* What the gets do not change.
LEMMA GetsLeaveFiles ==
    ASSUME FileInvariant, UNCHANGED <<log, files, index, writer, job, detached, ghosts>>,
           NEW r \in Readers, NEW p \in ReaderState, NEW d \in Read,
           reader' = [reader EXCEPT ![r] = p], read' = [read EXCEPT ![r] = d],
           p # "idle" => d.key \in Keys /\ d.meta \in Puts,
           p \in {"open", "metaRead", "answered"} => d.data \in Puts,
           d.steady =>
               /\ d.meta \in Puts /\ d.meta <= Len(log) /\ (InPut => d.meta # Len(log))
               /\ d.data = d.meta /\ data[d.meta].len = log[d.meta].size
               /\ p = "answered" => d.len = log[d.meta].size
    PROVE  FileInvariant'
<1>1. FileTypes' /\ GetTypes'
  BY DEF FileInvariant, FileTypes, GetTypes, files, ghosts
<1>2. NamesInv' /\ WriterInv' /\ EntriesInv' /\ DetachedInv'
  BY DEF FileInvariant, NamesInv, WriterInv, EntriesInv, Changing, Intact, Entire,
         DetachedInv, InPut, files, ghosts
<1>3. ReadersInv'
  <2> SUFFICES ASSUME NEW s \in Readers, read'[s].steady
               PROVE  LET g == read'[s].meta IN
                      /\ g \in Puts /\ g <= Len(log) /\ (InPut => g # Len(log))
                      /\ read'[s].data = g /\ data[g].len = log[g].size
                      /\ reader'[s] = "answered" => read'[s].len = log[g].size
    BY DEF ReadersInv, InPut, files
  <2>1. CASE s = r
    <3>1. read'[s] = d /\ reader'[s] = p
      BY <2>1 DEF FileInvariant, GetTypes
    <3> QED BY <3>1
  <2>2. CASE s # r
    <3>1. read'[s] = read[s] /\ reader'[s] = reader[s]
      BY <2>2 DEF FileInvariant, GetTypes
    <3> QED BY <3>1 DEF FileInvariant, ReadersInv
  <2> QED BY <2>1, <2>2
<1> QED BY <1>1, <1>2, <1>3 DEF FileInvariant

\* The get has the .meta file; it may still be replaced before the .data file
\* is open, so nothing is steady yet.
LEMMA OpenMetaHolds ==
    ASSUME FileInvariant, NEW r \in Readers, NEW k \in Keys, OpenMeta(r, k)
    PROVE  FileInvariant'
<1> DEFINE d == [NoRead EXCEPT !.key = k, !.meta = metaAt[k]]
<1>1. metaAt[k] \in Puts
  BY DEF OpenMeta, FileInvariant, FileTypes, GetTypes
<1>2. /\ d \in Read /\ "metaOpen" \in ReaderState
      /\ d.key \in Keys /\ d.meta \in Puts /\ ~d.steady
  BY <1>1 DEF Read, NoRead, ReaderState
<1>3. reader' = [reader EXCEPT ![r] = "metaOpen"] /\ read' = [read EXCEPT ![r] = d]
  BY DEF OpenMeta
<1>4. UNCHANGED <<log, files, index, writer, job, detached, ghosts>>
  BY DEF OpenMeta
<1> HIDE DEF d
<1> QED BY <1>2, <1>3, <1>4, GetsLeaveFiles

\* A get that finds both names quiet finds the two files of one entire entry.
LEMMA OpenDataHolds ==
    ASSUME FileInvariant, NEW r \in Readers, OpenData(r)
    PROVE  FileInvariant'
<1> DEFINE o == read[r]
           k == o.key
           f == metaAt[k]
           quiet == Quiet(k) /\ metaAt[k] = o.meta
           d == [o EXCEPT !.data = dataAt[k], !.steady = quiet]
<1>1. o \in Read /\ k \in Keys /\ dataAt[k] \in Puts /\ o.meta \in Puts
  BY DEF OpenData, FileInvariant, FileTypes, GetTypes
<1>2. quiet \in BOOLEAN
  BY DEF Quiet
<1>3. /\ d \in Read /\ "open" \in ReaderState /\ d.key = k /\ d.meta = o.meta
      /\ d.data = dataAt[k] /\ (d.steady <=> quiet)
  <2> HIDE DEF quiet
  <2> QED BY <1>1, <1>2 DEF Read, ReaderState
<1>4. ASSUME quiet
      PROVE  /\ f \in Puts /\ f <= Len(log) /\ (InPut => f # Len(log))
             /\ dataAt[k] = f /\ data[f].len = log[f].size /\ o.meta = f
  <2>1. Intact(k)
    BY <1>1, <1>4 DEF Quiet, FileInvariant, EntriesInv, Changing, Replacing
  <2>2. f \in Puts /\ Entire(meta[f], data[dataAt[k]])
    BY <1>1, <2>1, Numbers DEF Intact, FileInvariant, FileTypes
  <2>3. dataAt[k] = f /\ data[f].len = log[f].size
    BY <1>1, <2>2 DEF Entire, FileInvariant, NamesInv
  <2>4. f <= Len(log) /\ (InPut => f # Len(log))
    BY <1>1, <1>4, <2>2, Numbers DEF FileInvariant, NamesInv, Quiet, InPut, Replacing
  <2> QED BY <1>4, <2>2, <2>3, <2>4
<1>5. reader' = [reader EXCEPT ![r] = "open"] /\ read' = [read EXCEPT ![r] = d]
  BY DEF OpenData
<1>6. UNCHANGED <<log, files, index, writer, job, detached, ghosts>>
  BY DEF OpenData
<1> HIDE DEF d, quiet, f, k, o
<1>7. /\ d.key \in Keys /\ d.meta \in Puts /\ d.data \in Puts
      /\ d.steady =>
            /\ d.meta <= Len(log) /\ (InPut => d.meta # Len(log))
            /\ d.data = d.meta /\ data[d.meta].len = log[d.meta].size
  BY <1>1, <1>3, <1>4 DEF k
<1> QED BY <1>3, <1>5, <1>6, <1>7, GetsLeaveFiles

\* Reading the metadata tells the get the put it already knows.
LEMMA ReadMetaHolds ==
    ASSUME FileInvariant, NEW r \in Readers, ReadMeta(r)
    PROVE  FileInvariant'
<1> DEFINE o == read[r]
           d == [o EXCEPT !.meta = meta[o.meta].of]
<1>1. o \in Read /\ o.key \in Keys /\ o.data \in Puts /\ o.meta \in Puts
  BY DEF ReadMeta, FileInvariant, FileTypes, GetTypes
<1>2. meta[o.meta].of = o.meta
  BY <1>1 DEF FileInvariant, NamesInv
<1>3. d \in Read /\ d = o /\ "metaRead" \in ReaderState
  BY <1>1, <1>2 DEF Read, ReaderState
<1>4. /\ o.steady => /\ o.meta <= Len(log) /\ (InPut => o.meta # Len(log))
                     /\ o.data = o.meta /\ data[o.meta].len = log[o.meta].size
  BY DEF FileInvariant, ReadersInv
<1>5. reader' = [reader EXCEPT ![r] = "metaRead"] /\ read' = [read EXCEPT ![r] = d]
  BY DEF ReadMeta
<1>6. UNCHANGED <<log, files, index, writer, job, detached, ghosts>>
  BY DEF ReadMeta
<1> HIDE DEF d, o
<1> QED BY <1>1, <1>3, <1>4, <1>5, <1>6, GetsLeaveFiles

\* Reading the data gives what the file holds by now.
LEMMA ReadDataHolds ==
    ASSUME FileInvariant, NEW r \in Readers, ReadData(r)
    PROVE  FileInvariant'
<1> DEFINE o == read[r]
           d == [o EXCEPT !.data = data[o.data].of, !.len = data[o.data].len]
<1>1. o \in Read /\ o.key \in Keys /\ o.data \in Puts /\ o.meta \in Puts
  BY DEF ReadData, FileInvariant, FileTypes, GetTypes
<1>2. data[o.data].of = o.data /\ data[o.data].len \in Nat
  BY <1>1 DEF FileInvariant, FileTypes, NamesInv, File
<1>3. /\ d \in Read /\ d.key = o.key /\ d.meta = o.meta /\ d.data = o.data
      /\ d.len = data[o.data].len /\ d.steady = o.steady /\ "answered" \in ReaderState
  BY <1>1, <1>2 DEF Read, ReaderState
<1>4. /\ o.steady => /\ o.meta <= Len(log) /\ (InPut => o.meta # Len(log))
                     /\ o.data = o.meta /\ data[o.meta].len = log[o.meta].size
  BY DEF FileInvariant, ReadersInv
<1>5. reader' = [reader EXCEPT ![r] = "answered"] /\ read' = [read EXCEPT ![r] = d]
  BY DEF ReadData
<1>6. UNCHANGED <<log, files, index, writer, job, detached, ghosts>>
  BY DEF ReadData
<1> HIDE DEF d, o
<1> QED BY <1>1, <1>3, <1>4, <1>5, <1>6, GetsLeaveFiles

\* A get that is over holds nothing.
LEMMA GetEndsHolds ==
    ASSUME FileInvariant, NEW r \in Readers, GetEnds(r)
    PROVE  FileInvariant'
<1>1. NoRead \in Read /\ "idle" \in ReaderState /\ ~NoRead.steady
  BY DEF NoRead, Read, ReaderState
<1>2. reader' = [reader EXCEPT ![r] = "idle"] /\ read' = [read EXCEPT ![r] = NoRead]
  BY DEF GetEnds
<1>3. UNCHANGED <<log, files, index, writer, job, detached, ghosts>>
  BY DEF GetEnds
<1> QED BY <1>1, <1>2, <1>3, GetsLeaveFiles

-----------------------------------------------------------------------------
(* Steps of put and remove.                                                *)

\* A step that leaves the gets and the data files alone, and begins no put,
\* keeps what holds of the gets.
LEMMA ReadersKeep ==
    ASSUME FileInvariant, UNCHANGED <<log, data, reader, read>>, InPut' => InPut
    PROVE  ReadersInv' /\ GetTypes'
BY DEF FileInvariant, ReadersInv, GetTypes

\* The put that begins has a number no file has.
LEMMA PutStartHolds ==
    ASSUME FileInvariant, NEW k \in Keys, NEW n \in Sizes, NEW t \in Times,
           PutStart(k, n, t)
    PROVE  FileInvariant'
<1> DEFINE e == [key |-> k, size |-> n, time |-> t]
<1>1. /\ log' = Append(log, e) /\ Len(log) < MaxPuts /\ writer = "idle" /\ writer' = "evict"
      /\ job' = [NoJob EXCEPT !.key = k]
      /\ UNCHANGED <<metaAt, dataAt, meta, data, detached, reader, read, damaged>>
  BY DEF PutStart, files, gets, ghosts
<1>2. e \in [key : Keys, size : Sizes, time : Times]
  OBVIOUS
<1> HIDE DEF e
<1>3. /\ log' \in Seq([key : Keys, size : Sizes, time : Times]) /\ Len(log') = Len(log) + 1
      /\ Len(log) \in Nat /\ \A i \in 1..Len(log) : log'[i] = log[i]
  BY <1>1, <1>2, AppendProperties DEF FileInvariant, FileTypes
<1>4. job'.key = k /\ DOMAIN job' = {"key", "victim", "freed", "removed", "file"}
  BY <1>1 DEF NoJob
<1>5. FileTypes' /\ GetTypes'
  BY <1>1, <1>3, <1>4, Numbers DEF FileInvariant, FileTypes, GetTypes, WriterState
<1>6. \A f \in Puts : f <= Len(log) =>
          f \in 1..Len(log) /\ f <= Len(log') /\ f # Len(log')
  BY <1>3, Numbers
<1>7. NamesInv'
  <2>1. Len(log') > 0 /\ Len(log') # None
    BY <1>3, Numbers
  <2>2. /\ \A k1 \in Keys : metaAt[k1] # None => metaAt[k1] <= Len(log') /\ metaAt[k1] # Len(log')
        /\ \A k1 \in Keys : dataAt[k1] # None => dataAt[k1] <= Len(log') /\ dataAt[k1] # Len(log')
    BY <1>6 DEF FileInvariant, FileTypes, NamesInv
  <2> QED BY <1>1, <2>1, <2>2 DEF FileInvariant, NamesInv
<1>8. WriterInv'
  BY <1>1 DEF WriterInv
<1>9. EntriesInv'
  <2> SUFFICES ASSUME NEW h \in Keys \ damaged PROVE Intact(h)'
    BY <1>1 DEF EntriesInv
  <2>1. Intact(h)
    BY <1>1 DEF FileInvariant, EntriesInv, Changing
  <2>2. CASE metaAt[h] = None /\ dataAt[h] = None
    BY <1>1, <2>2 DEF Intact
  <2>3. CASE /\ metaAt[h] # None /\ dataAt[h] # None
             /\ Entire(meta[metaAt[h]], data[dataAt[h]])
    <3>1. metaAt[h] \in Puts /\ metaAt[h] <= Len(log) /\ meta[metaAt[h]].of = metaAt[h]
      BY <2>3 DEF FileInvariant, FileTypes, NamesInv
    <3>2. log'[metaAt[h]] = log[metaAt[h]]
      BY <1>3, <1>6, <3>1
    <3> QED BY <1>1, <2>3, <3>1, <3>2 DEF Intact, Entire
  <2> QED BY <2>1, <2>2, <2>3 DEF Intact
<1>10. DetachedInv'
  BY <1>1 DEF FileInvariant, DetachedInv
<1>11. ReadersInv'
  <2> SUFFICES ASSUME NEW r \in Readers, read[r].steady
               PROVE  LET f == read[r].meta IN
                      /\ f \in Puts /\ f <= Len(log') /\ f # Len(log')
                      /\ read[r].data = f /\ data[f].len = log'[f].size
                      /\ reader[r] = "answered" => read[r].len = log'[f].size
    BY <1>1 DEF ReadersInv
  <2>1. /\ read[r].meta \in Puts /\ read[r].meta <= Len(log)
        /\ read[r].data = read[r].meta
        /\ data[read[r].meta].len = log[read[r].meta].size
        /\ reader[r] = "answered" => read[r].len = log[read[r].meta].size
    BY DEF FileInvariant, ReadersInv
  <2>2. log'[read[r].meta] = log[read[r].meta]
    BY <1>3, <1>6, <2>1
  <2> QED BY <1>6, <2>1, <2>2
<1> QED BY <1>5, <1>7, <1>8, <1>9, <1>10, <1>11 DEF FileInvariant

\* Steps of evict_if_needed and of remove that leave the directory alone.
LEMMA LooksHold ==
    ASSUME FileInvariant,
           EvictPop \/ EvictDone \/ (\E k \in Keys : RemoveStart(k))
    PROVE  FileInvariant'
<1>1. UNCHANGED <<log, metaAt, dataAt, meta, data, detached, reader, read, damaged>>
  BY DEF EvictPop, EvictDone, RemoveStart, files, gets, ghosts
<1>2. DOMAIN job' = {"key", "victim", "freed", "removed", "file"}
  BY DEF EvictPop, EvictDone, RemoveStart, FileInvariant, FileTypes, NoJob
<1>3. /\ writer \in {"idle", "evict"} /\ writer' \in {"evictMeta", "unlinkMeta", "rmMeta"}
      /\ job'.key \in Keys
      /\ InPut' => InPut /\ job'.key = job.key
  BY DEF EvictPop, EvictDone, RemoveStart, FileInvariant, FileTypes, NoJob, InPut, Replacing
<1>4. FileTypes'
  BY <1>1, <1>2, <1>3 DEF FileInvariant, FileTypes, WriterState, Replacing
<1>5. NamesInv'
  BY <1>1, <1>3 DEF FileInvariant, NamesInv
<1>6. WriterInv' /\ EntriesInv'
  BY <1>1, <1>3 DEF FileInvariant, WriterInv, EntriesInv, Changing, Intact, Entire
<1>7. DetachedInv' /\ ReadersInv' /\ GetTypes'
  BY <1>1, <1>3, ReadersKeep DEF FileInvariant, DetachedInv
<1> QED BY <1>4, <1>5, <1>6, <1>7 DEF FileInvariant

\* What a step that only takes names away keeps.
LEMMA UnlinksKeep ==
    ASSUME FileInvariant, UNCHANGED <<log, meta, data, reader, read>>,
           metaAt' \in [Keys -> Puts \cup {None}],
           dataAt' \in [Keys -> Puts \cup {None}],
           \A k \in Keys : metaAt'[k] \in {metaAt[k], None}
                        /\ dataAt'[k] \in {dataAt[k], None},
           InPut' => InPut /\ job'.key = job.key,
           InPut' /\ writer \in {"writeMeta", "createData", "writeData"} => writer' = writer
    PROVE  NamesInv' /\ ReadersInv' /\ GetTypes'
<1>1. ReadersInv' /\ GetTypes'
  BY ReadersKeep
<1>2. Len(log) \in Nat
  BY DEF FileInvariant, FileTypes
<1>3. NamesInv'
  BY <1>2, Numbers DEF FileInvariant, NamesInv
<1> QED BY <1>1, <1>3

\* The .meta name of an entry goes: it is evicted, replaced or removed.
LEMMA UnlinkMetaHolds ==
    ASSUME FileInvariant, EvictMeta \/ UnlinkMeta \/ RemoveMeta
    PROVE  FileInvariant'
<1> DEFINE v == IF writer = "evictMeta" THEN job.victim ELSE job.key
<1>1. /\ metaAt' = [metaAt EXCEPT ![v] = None]
      /\ UNCHANGED <<log, dataAt, meta, data, job, detached, reader, read, damaged>>
      /\ \/ writer = "evictMeta" /\ writer' = "evictData"
         \/ writer = "unlinkMeta" /\ writer' = "unlinkData"
         \/ writer = "rmMeta" /\ writer' = "rmData"
  BY DEF EvictMeta, UnlinkMeta, RemoveMeta, gets, ghosts
<1>2. /\ metaAt' \in [Keys -> Puts \cup {None}]
      /\ \A k \in Keys : metaAt'[k] = IF k = v THEN None ELSE metaAt[k]
  BY <1>1 DEF FileInvariant, FileTypes
<1>3. InPut' => InPut
  BY <1>1 DEF InPut, Replacing
<1>4. FileTypes'
  BY <1>1, <1>2 DEF FileInvariant, FileTypes, WriterState, Replacing
<1>5. NamesInv' /\ ReadersInv' /\ GetTypes'
  BY <1>1, <1>2, <1>3, UnlinksKeep DEF FileInvariant, FileTypes
<1>6. WriterInv'
  BY <1>1, <1>2 DEF FileInvariant, FileTypes, WriterInv
<1>7. EntriesInv'
  <2> SUFFICES ASSUME NEW k \in Keys \ damaged PROVE Changing(k)' \/ Intact(k)'
    BY <1>1 DEF EntriesInv
  <2>1. CASE k = v
    BY <1>1, <2>1 DEF Changing
  <2>2. CASE k # v
    <3>1. Intact(k)
      BY <1>1 DEF FileInvariant, EntriesInv, Changing
    <3> QED BY <1>1, <1>2, <2>2, <3>1 DEF Intact, Entire
  <2> QED BY <2>1, <2>2
<1>8. DetachedInv'
  BY <1>1 DEF FileInvariant, DetachedInv
<1> QED BY <1>4, <1>5, <1>6, <1>7, <1>8 DEF FileInvariant

\* Then its .data name goes, and with it the whole entry has.
LEMMA UnlinkDataHolds ==
    ASSUME FileInvariant, EvictData \/ UnlinkData \/ RemoveData
    PROVE  FileInvariant'
<1> DEFINE v == IF writer = "evictData" THEN job.victim ELSE job.key
<1>1. /\ dataAt' = [dataAt EXCEPT ![v] = None]
      /\ UNCHANGED <<log, metaAt, meta, data, detached, reader, read, damaged>>
      /\ \/ writer = "evictData" /\ writer' = "evict" /\ job' = job
         \/ writer = "unlinkData" /\ writer' = "createMeta" /\ job' = job
         \/ writer = "rmData" /\ writer' = "idle" /\ job' = NoJob
  BY DEF EvictData, UnlinkData, RemoveData, gets, ghosts
<1>2. /\ dataAt' \in [Keys -> Puts \cup {None}]
      /\ \A k \in Keys : dataAt'[k] = IF k = v THEN None ELSE dataAt[k]
  BY <1>1 DEF FileInvariant, FileTypes
<1>3. InPut' => InPut /\ job'.key = job.key
  BY <1>1 DEF InPut, Replacing
<1>4. FileTypes'
  BY <1>1, <1>2 DEF FileInvariant, FileTypes, WriterState, Replacing, NoJob
<1>5. NamesInv' /\ ReadersInv' /\ GetTypes'
  BY <1>1, <1>2, <1>3, UnlinksKeep DEF FileInvariant, FileTypes
<1>6. WriterInv'
  BY <1>1, <1>2 DEF FileInvariant, FileTypes, WriterInv
<1>7. EntriesInv'
  <2> SUFFICES ASSUME NEW k \in Keys \ damaged PROVE Changing(k)' \/ Intact(k)'
    BY <1>1 DEF EntriesInv
  <2>1. CASE k = v
    <3>1. metaAt[k] = None
      BY <1>1, <2>1 DEF FileInvariant, WriterInv
    <3> QED BY <1>1, <1>2, <2>1, <3>1 DEF Intact
  <2>2. CASE k # v
    <3>1. Intact(k)
      BY <1>1, <2>2 DEF FileInvariant, EntriesInv, Changing
    <3> QED BY <1>1, <1>2, <2>2, <3>1 DEF Intact, Entire
  <2> QED BY <2>1, <2>2
<1>8. DetachedInv'
  BY <1>1 DEF FileInvariant, DetachedInv
<1> QED BY <1>4, <1>5, <1>6, <1>7, <1>8 DEF FileInvariant

\* An unlink left behind takes a name of a damaged key.
LEMMA DetachedUnlinkHolds ==
    ASSUME FileInvariant, DetachedUnlink
    PROVE  FileInvariant'
<1>1. PICK u \in detached :
        /\ detached' = detached \ {u}
        /\ metaAt' = IF u[1] = "meta" THEN [metaAt EXCEPT ![u[2]] = None] ELSE metaAt
        /\ dataAt' = IF u[1] = "data" THEN [dataAt EXCEPT ![u[2]] = None] ELSE dataAt
        /\ UNCHANGED <<log, meta, data, writer, job, reader, read, damaged>>
  BY DEF DetachedUnlink, gets, ghosts
<1>2. u[2] \in damaged /\ u[2] \in Keys
  BY DEF FileInvariant, FileTypes, DetachedInv
<1>3. /\ metaAt' \in [Keys -> Puts \cup {None}] /\ dataAt' \in [Keys -> Puts \cup {None}]
      /\ \A k \in Keys : /\ metaAt'[k] \in {metaAt[k], None}
                         /\ dataAt'[k] \in {dataAt[k], None}
                         /\ k \notin damaged =>
                               metaAt'[k] = metaAt[k] /\ dataAt'[k] = dataAt[k]
  BY <1>1, <1>2 DEF FileInvariant, FileTypes
<1>4. FileTypes'
  BY <1>1, <1>3 DEF FileInvariant, FileTypes
<1>5. NamesInv' /\ ReadersInv' /\ GetTypes'
  BY <1>1, <1>3, UnlinksKeep DEF InPut
<1>6. WriterInv'
  <2>1. writer # "idle" => job.key \in Keys
    BY DEF FileInvariant, FileTypes
  <2> QED BY <1>1, <1>3, <2>1 DEF FileInvariant, WriterInv
<1>7. EntriesInv'
  BY <1>1, <1>3 DEF FileInvariant, EntriesInv, Changing, Intact, Entire
<1>8. DetachedInv'
  BY <1>1 DEF FileInvariant, DetachedInv
<1> QED BY <1>4, <1>5, <1>6, <1>7, <1>8 DEF FileInvariant

\* A call that is over, or given up with its key damaged, leaves its files as
\* they are.
LEMMA CallEndsHolds ==
    ASSUME FileInvariant, PutDone \/ WriteFails \/ RemoveDropped
    PROVE  FileInvariant'
<1>1. /\ UNCHANGED <<log, metaAt, dataAt, meta, data, reader, read>>
      /\ writer # "idle" /\ writer' = "idle" /\ job' = NoJob
      /\ \/ /\ writer = "writeData" /\ data[job.file].len = log[Len(log)].size
            /\ damaged' = damaged /\ detached' = detached
         \/ /\ damaged' = damaged \cup {job.key} /\ writer \notin {"evict", "evictMeta", "evictData"}
            /\ \A u \in detached' : u \in detached \/ u[2] = job.key
            /\ detached' \subseteq {"meta", "data"} \X Keys
  BY DEF PutDone, WriteFails, RemoveDropped, files, gets, ghosts, FileInvariant, FileTypes
<1>2. job.key \in Keys
  BY <1>1 DEF FileInvariant, FileTypes
<1>3. ~InPut'
  BY <1>1 DEF InPut, Replacing
<1>4. FileTypes'
  BY <1>1, <1>2 DEF FileInvariant, FileTypes, WriterState, NoJob
<1>5. NamesInv' /\ ReadersInv' /\ GetTypes'
  BY <1>1, <1>3, ReadersKeep DEF FileInvariant, NamesInv
<1>6. WriterInv'
  BY <1>1 DEF WriterInv
<1>7. EntriesInv'
  <2> SUFFICES ASSUME NEW k \in Keys \ damaged' PROVE Intact(k)'
    BY DEF EntriesInv
  <2>1. CASE k # job.key
    <3>1. Intact(k)
      BY <1>1, <2>1 DEF FileInvariant, EntriesInv, Changing
    <3> QED BY <1>1, <3>1 DEF Intact, Entire
  <2>2. CASE k = job.key
    <3>1. /\ writer = "writeData" /\ data[job.file].len = log[Len(log)].size
          /\ k \notin damaged
      BY <1>1, <2>2
    <3>2. /\ metaAt[k] = Len(log) /\ dataAt[k] = Len(log) /\ job.file = Len(log)
          /\ meta[Len(log)].len = MetaSize
      BY <2>2, <3>1 DEF FileInvariant, WriterInv
    <3>3. Len(log) \in Puts /\ metaAt[k] # None /\ dataAt[k] # None
      BY <3>1, <3>2, Numbers DEF FileInvariant, FileTypes
    <3>4. meta[Len(log)].of = Len(log) /\ data[Len(log)].of = Len(log)
      BY <3>3 DEF FileInvariant, NamesInv
    <3> QED BY <1>1, <3>1, <3>2, <3>3, <3>4 DEF Intact, Entire
  <2> QED BY <2>1, <2>2
<1>8. DetachedInv'
  BY <1>1 DEF FileInvariant, DetachedInv
<1> QED BY <1>4, <1>5, <1>6, <1>7, <1>8 DEF FileInvariant

-----------------------------------------------------------------------------
(* write_entry writes to the files of its own put only.                    *)

\* While a put writes, the entries of other keys and what gets hold are other
\* files than the one of the put.
LEMMA OthersApart ==
    ASSUME FileInvariant, InPut
    PROVE  /\ Len(log) \in Puts /\ Len(log) # None
           /\ \A k \in Keys \ {job.key} : metaAt[k] # Len(log) /\ dataAt[k] # Len(log)
           /\ \A r \in Readers : read[r].steady => read[r].meta # Len(log)
           /\ \A k \in Keys \ damaged : k # job.key /\ writer \in Replacing => Intact(k)
<1>1. Len(log) \in Puts /\ Len(log) # None
  BY Numbers DEF FileInvariant, FileTypes, NamesInv, Puts
<1>2. \A k \in Keys \ {job.key} : metaAt[k] # Len(log) /\ dataAt[k] # Len(log)
  BY DEF FileInvariant, NamesInv
<1>3. \A r \in Readers : read[r].steady => read[r].meta # Len(log)
  BY DEF FileInvariant, ReadersInv
<1>4. \A k \in Keys \ damaged : k # job.key /\ writer \in Replacing => Intact(k)
  BY DEF FileInvariant, EntriesInv, Changing, Replacing
<1> QED BY <1>1, <1>2, <1>3, <1>4

\* A step of write_entry that gives the file of the put a name or a content.
LEMMA WritesKeep ==
    ASSUME FileInvariant, InPut, writer \in Replacing, writer' \in Replacing \ {"unlinkMeta"},
           NEW m \in File, NEW d \in File, m.of = Len(log), d.of = Len(log),
           meta' \in {meta, [meta EXCEPT ![Len(log)] = m]},
           data' \in {data, [data EXCEPT ![Len(log)] = d]},
           \/ metaAt' = metaAt
           \/ metaAt' = [metaAt EXCEPT ![job.key] = Len(log)] /\ writer' = "writeMeta"
           \/ metaAt' = [metaAt EXCEPT ![job.key] = Len(log)] /\ writer' = "createData",
           \/ dataAt' = dataAt
           \/ dataAt' = [dataAt EXCEPT ![job.key] = Len(log)] /\ writer' = "writeData",
           writer \in {"writeMeta", "createData", "writeData"} =>
              writer' \in {"writeMeta", "createData", "writeData"},
           writer = "writeData" => writer' = "writeData",
           writer' \notin {"unlinkData", "createMeta"},
           DOMAIN job' = {"key", "victim", "freed", "removed", "file"}, job'.key = job.key,
           UNCHANGED <<log, detached, gets, damaged>>
    PROVE  /\ FileTypes' /\ GetTypes' /\ NamesInv' /\ EntriesInv' /\ DetachedInv'
           /\ ReadersInv'
<1>1. /\ Len(log) \in Puts /\ job.key \in Keys
      /\ \A k \in Keys \ {job.key} : metaAt[k] # Len(log) /\ dataAt[k] # Len(log)
      /\ \A r \in Readers : read[r].steady => read[r].meta # Len(log)
      /\ \A k \in Keys \ damaged : k # job.key => Intact(k)
  BY OthersApart DEF FileInvariant, FileTypes, Replacing
<1>2. /\ meta' \in [Puts -> File] /\ data' \in [Puts -> File]
      /\ \A f \in Puts : meta'[f].of = f /\ data'[f].of = f
      /\ \A f \in Puts : f # Len(log) => meta'[f] = meta[f] /\ data'[f] = data[f]
  <2>1. /\ meta' \in [Puts -> File] /\ \A f \in Puts : meta'[f].of = f
        /\ \A f \in Puts : f # Len(log) => meta'[f] = meta[f]
    <3>1. meta \in [Puts -> File] /\ \A f \in Puts : meta[f].of = f
      BY DEF FileInvariant, FileTypes, NamesInv
    <3>2. CASE meta' = meta
      BY <3>1, <3>2
    <3>3. CASE meta' = [meta EXCEPT ![Len(log)] = m]
      BY <1>1, <3>1, <3>3
    <3> QED BY <3>2, <3>3
  <2>2. /\ data' \in [Puts -> File] /\ \A f \in Puts : data'[f].of = f
        /\ \A f \in Puts : f # Len(log) => data'[f] = data[f]
    <3>1. data \in [Puts -> File] /\ \A f \in Puts : data[f].of = f
      BY DEF FileInvariant, FileTypes, NamesInv
    <3>2. CASE data' = data
      BY <3>1, <3>2
    <3>3. CASE data' = [data EXCEPT ![Len(log)] = d]
      BY <1>1, <3>1, <3>3
    <3> QED BY <3>2, <3>3
  <2> QED BY <2>1, <2>2
<1>3. /\ metaAt' \in [Keys -> Puts \cup {None}] /\ dataAt' \in [Keys -> Puts \cup {None}]
      /\ \A k \in Keys : k # job.key => metaAt'[k] = metaAt[k] /\ dataAt'[k] = dataAt[k]
  <2>1. /\ metaAt' \in [Keys -> Puts \cup {None}]
        /\ \A k \in Keys : k # job.key => metaAt'[k] = metaAt[k]
    BY <1>1 DEF FileInvariant, FileTypes
  <2>2. /\ dataAt' \in [Keys -> Puts \cup {None}]
        /\ \A k \in Keys : k # job.key => dataAt'[k] = dataAt[k]
    BY <1>1 DEF FileInvariant, FileTypes
  <2> QED BY <2>1, <2>2
<1>4. FileTypes'
  BY <1>1, <1>2, <1>3 DEF FileInvariant, FileTypes, WriterState
<1>5. GetTypes'
  BY DEF FileInvariant, GetTypes, gets
<1>6. NamesInv'
  <2>1. Len(log) \in Nat /\ Len(log) > 0
    BY <1>1, Numbers
  <2>2. \A k \in Keys : /\ metaAt'[k] # None => metaAt'[k] <= Len(log)
                        /\ dataAt'[k] # None => dataAt'[k] <= Len(log)
    BY <1>1, <1>3, <2>1 DEF FileInvariant, FileTypes, NamesInv
  <2>3. metaAt'[job.key] = Len(log) => writer' \in {"writeMeta", "createData", "writeData"}
    BY <1>1, OthersApart DEF FileInvariant, FileTypes, NamesInv, Replacing
  <2>4. dataAt'[job.key] = Len(log) => writer' = "writeData"
    BY <1>1 DEF FileInvariant, FileTypes, NamesInv, Replacing
  <2> QED BY <1>1, <1>2, <1>3, <2>1, <2>2, <2>3, <2>4 DEF NamesInv
<1>7. EntriesInv'
  <2> SUFFICES ASSUME NEW k \in Keys \ damaged PROVE Changing(k)' \/ Intact(k)'
    BY DEF EntriesInv
  <2>1. CASE k = job.key
    BY <2>1 DEF Changing, Replacing
  <2>2. CASE k # job.key
    <3>1. Intact(k)
      BY <1>1, <2>2
    <3>2. metaAt[k] # None => metaAt[k] \in Puts /\ meta'[metaAt[k]] = meta[metaAt[k]]
      BY <1>1, <1>2, <2>2 DEF FileInvariant, FileTypes
    <3>3. dataAt[k] # None => dataAt[k] \in Puts /\ data'[dataAt[k]] = data[dataAt[k]]
      BY <1>1, <1>2, <2>2 DEF FileInvariant, FileTypes
    <3> QED BY <1>3, <2>2, <3>1, <3>2, <3>3 DEF Intact, Entire
  <2> QED BY <2>1, <2>2
<1>8. DetachedInv'
  BY DEF FileInvariant, DetachedInv
<1>9. ReadersInv'
  BY <1>1, <1>2 DEF FileInvariant, ReadersInv, gets
<1> QED BY <1>4, <1>5, <1>6, <1>7, <1>8, <1>9

\* The file of the running put.
LEMMA OwnFile ==
    ASSUME FileInvariant, InPut
    PROVE  /\ meta[Len(log)] \in File /\ meta[Len(log)].of = Len(log)
           /\ data[Len(log)] \in File /\ data[Len(log)].of = Len(log)
           /\ Empty \in File /\ Empty.of = Len(log)
BY OthersApart DEF FileInvariant, FileTypes, NamesInv, Empty, File

\* The .meta name leads to the file of the put, which is empty.
LEMMA CreateMetaHolds ==
    ASSUME FileInvariant, CreateMeta
    PROVE  FileInvariant'
<1>1. writer = "createMeta" /\ InPut
  BY DEF CreateMeta, InPut, Replacing
<1>2. Created(metaAt) = Len(log) /\ job.key \in Keys
  BY <1>1 DEF Created, FileInvariant, FileTypes, WriterInv
<1>3. /\ job' = [job EXCEPT !.file = Len(log)] /\ writer' = "writeMeta"
      /\ metaAt' = [metaAt EXCEPT ![job.key] = Len(log)]
      /\ meta' = [meta EXCEPT ![Len(log)] = Empty]
      /\ UNCHANGED <<log, dataAt, data, detached, gets, damaged>>
  BY <1>2 DEF CreateMeta, ghosts
<1>4. /\ DOMAIN job' = {"key", "victim", "freed", "removed", "file"}
      /\ job'.key = job.key /\ job'.file = Len(log)
  BY <1>3 DEF FileInvariant, FileTypes
<1>5. /\ FileTypes' /\ GetTypes' /\ NamesInv' /\ EntriesInv' /\ DetachedInv'
      /\ ReadersInv'
  BY <1>1, <1>3, <1>4, OwnFile, WritesKeep DEF Replacing
<1>6. WriterInv'
  BY <1>1, <1>2, <1>3, <1>4 DEF FileInvariant, FileTypes, WriterInv
<1> QED BY <1>5, <1>6 DEF FileInvariant

\* The .meta file is complete, and the .data name still absent.
LEMMA WriteMetaHolds ==
    ASSUME FileInvariant, WriteMeta
    PROVE  FileInvariant'
<1> DEFINE m == [meta[Len(log)] EXCEPT !.len = MetaSize]
<1>1. writer = "writeMeta" /\ InPut
  BY DEF WriteMeta, InPut, Replacing
<1>2. job.file = Len(log) /\ job.key \in Keys
  BY <1>1 DEF FileInvariant, FileTypes, WriterInv
<1>3. m \in File /\ m.of = Len(log) /\ m.len = MetaSize
  BY <1>1, OwnFile, Numbers DEF File
<1>4. /\ writer' = "createData" /\ meta' = [meta EXCEPT ![Len(log)] = m]
      /\ UNCHANGED <<log, metaAt, dataAt, data, job, detached, gets, damaged>>
  BY <1>2 DEF WriteMeta, ghosts
<1> HIDE DEF m
<1>5. /\ FileTypes' /\ GetTypes' /\ NamesInv' /\ EntriesInv' /\ DetachedInv'
      /\ ReadersInv'
  <2>1. DOMAIN job' = {"key", "victim", "freed", "removed", "file"} /\ job'.key = job.key
    BY <1>4 DEF FileInvariant, FileTypes
  <2> QED BY <1>1, <1>3, <1>4, <2>1, OwnFile, WritesKeep DEF Replacing
<1>6. WriterInv'
  <2>1. Len(log) \in Puts
    BY <1>1, OthersApart
  <2>2. meta'[Len(log)].len = MetaSize
    BY <1>3, <1>4, <2>1 DEF FileInvariant, FileTypes
  <2> QED BY <1>1, <1>2, <1>4, <2>2 DEF FileInvariant, WriterInv
<1> QED BY <1>5, <1>6 DEF FileInvariant

\* The .data name leads to the file of the put.
LEMMA CreateDataHolds ==
    ASSUME FileInvariant, CreateData
    PROVE  FileInvariant'
<1>1. writer = "createData" /\ InPut
  BY DEF CreateData, InPut, Replacing
<1>2. Created(dataAt) = Len(log) /\ job.key \in Keys
  BY <1>1 DEF Created, FileInvariant, FileTypes, WriterInv
<1>3. /\ job' = [job EXCEPT !.file = Len(log)] /\ writer' = "writeData"
      /\ dataAt' = [dataAt EXCEPT ![job.key] = Len(log)]
      /\ data' = [data EXCEPT ![Len(log)] = Empty]
      /\ UNCHANGED <<log, metaAt, meta, detached, gets, damaged>>
  BY <1>2 DEF CreateData, ghosts
<1>4. /\ DOMAIN job' = {"key", "victim", "freed", "removed", "file"}
      /\ job'.key = job.key /\ job'.file = Len(log)
  BY <1>3 DEF FileInvariant, FileTypes
<1>5. /\ FileTypes' /\ GetTypes' /\ NamesInv' /\ EntriesInv' /\ DetachedInv'
      /\ ReadersInv'
  BY <1>1, <1>3, <1>4, OwnFile, WritesKeep DEF Replacing
<1>6. WriterInv'
  BY <1>1, <1>2, <1>3, <1>4 DEF FileInvariant, FileTypes, WriterInv
<1> QED BY <1>5, <1>6 DEF FileInvariant

\* The file of the put grows; no entry outside the put changes.
LEMMA WriteDataHolds ==
    ASSUME FileInvariant, WriteData
    PROVE  FileInvariant'
<1> DEFINE d == [data[Len(log)] EXCEPT !.len = @ + 1]
<1>1. writer = "writeData" /\ InPut
  BY DEF WriteData, InPut, Replacing
<1>2. job.file = Len(log) /\ job.key \in Keys
  BY <1>1 DEF FileInvariant, FileTypes, WriterInv
<1>3. d \in File /\ d.of = Len(log)
  BY <1>1, OwnFile DEF File
<1>4. /\ data' = [data EXCEPT ![Len(log)] = d]
      /\ UNCHANGED <<log, metaAt, dataAt, meta, writer, job, detached, gets, damaged>>
  BY <1>2 DEF WriteData, ghosts
<1> HIDE DEF d
<1>5. /\ FileTypes' /\ GetTypes' /\ NamesInv' /\ EntriesInv' /\ DetachedInv'
      /\ ReadersInv'
  <2>1. DOMAIN job' = {"key", "victim", "freed", "removed", "file"} /\ job'.key = job.key
    BY <1>4 DEF FileInvariant, FileTypes
  <2> QED BY <1>1, <1>3, <1>4, <2>1, OwnFile, WritesKeep DEF Replacing
<1>6. WriterInv'
  BY <1>1, <1>4 DEF FileInvariant, WriterInv
<1> QED BY <1>5, <1>6 DEF FileInvariant

-----------------------------------------------------------------------------
(* A restart, and the theorem.                                             *)

\* A restart finds the files as they are: whatever is not entire is damaged.
LEMMA RestartHolds ==
    ASSUME FileInvariant, Restart
    PROVE  FileInvariant'
<1>1. /\ UNCHANGED <<log, metaAt, dataAt, meta, data>>
      /\ writer' = "idle" /\ job' = NoJob /\ detached' = {}
      /\ reader' = [r \in Readers |-> "idle"] /\ read' = [r \in Readers |-> NoRead]
      /\ damaged' = {k \in Keys : ~Intact(k)}
  BY DEF Restart, files
<1>2. FileTypes' /\ GetTypes'
  BY <1>1 DEF FileInvariant, FileTypes, GetTypes, WriterState, NoJob, NoRead, Read,
              ReaderState
<1>3. NamesInv' /\ WriterInv' /\ DetachedInv'
  BY <1>1 DEF FileInvariant, NamesInv, WriterInv, DetachedInv, InPut, Replacing
<1>4. EntriesInv'
  BY <1>1 DEF EntriesInv, Intact, Entire
<1>5. ReadersInv'
  BY <1>1 DEF ReadersInv, NoRead
<1> QED BY <1>2, <1>3, <1>4, <1>5 DEF FileInvariant

\* Every step of put, remove, get and restart keeps the invariant.
LEMMA StepHolds == FileInvariant /\ [Next]_vars => FileInvariant'
<1> SUFFICES ASSUME FileInvariant, [Next]_vars PROVE FileInvariant'
  OBVIOUS
<1>1. CASE UNCHANGED vars
  BY <1>1 DEF vars, files, gets, ghosts, FileInvariant, FileTypes, GetTypes, NamesInv,
         WriterInv, EntriesInv, Changing, Intact, Entire, DetachedInv, ReadersInv, InPut
<1>2. CASE PutStep
  BY <1>2, PutStartHolds, LooksHold, UnlinkMetaHolds, UnlinkDataHolds, CreateMetaHolds,
     WriteMetaHolds, CreateDataHolds, WriteDataHolds, CallEndsHolds DEF PutStep
<1>3. CASE RemoveStep
  BY <1>3, LooksHold, UnlinkMetaHolds, UnlinkDataHolds, CallEndsHolds,
     DetachedUnlinkHolds DEF RemoveStep
<1>4. ASSUME NEW r \in Readers, GetStep(r) PROVE FileInvariant'
  BY <1>4, OpenMetaHolds, OpenDataHolds, ReadMetaHolds, ReadDataHolds, GetEndsHolds
     DEF GetStep
<1> QED BY <1>1, <1>2, <1>3, <1>4, RestartHolds DEF Next

\* Every state satisfies the invariant.
THEOREM FileInvariance == Spec => []FileInvariant
BY InitHolds, StepHolds, PTL DEF Spec

\* Between calls an undamaged key has an entire entry, or none.
THEOREM EntriesEntire == Spec => []StoredIsEntire
<1>1. FileInvariant => StoredIsEntire
  BY DEF FileInvariant, EntriesInv, Changing, StoredIsEntire
<1> QED BY <1>1, FileInvariance, PTL

\* A get that found both files of an entry while nobody was at them returns
\* all of it, whatever happens to the names in the meantime.
THEOREM SteadyGetsEntire == Spec => []SteadyReadIsEntire
<1>1. FileInvariant => SteadyReadIsEntire
  BY DEF FileInvariant, ReadersInv, SteadyReadIsEntire
<1> QED BY <1>1, FileInvariance, PTL

=============================================================================
