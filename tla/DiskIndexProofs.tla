---------------------------- MODULE DiskIndexProofs ----------------------------
(***************************************************************************)
(* What the index of DiskCache says of the files, for any finite set of    *)
(* keys, any sizes and any number of puts, failures and restarts: while    *)
(* nothing is damaged the size in use is the sum of the files' lengths,    *)
(* the order names each stored entry once, oldest first, and max_size      *)
(* bounds the files.                                                       *)
(***************************************************************************)
EXTENDS DiskCacheProofs, DataLemmas

Evicting  == writer \in {"evictMeta", "evictData"}
Unlinking == writer \in {"unlinkMeta", "unlinkData"}
Writing   == writer \in {"createMeta", "writeMeta", "createData", "writeData"}
Removing  == writer \in {"rmMeta", "rmData"}

\* The holder of the mutex is at the files of k, and the index says something
\* else of k until it is done.
Busy(k) ==
    \/ Evicting /\ job.victim = k
    \/ (Unlinking \/ Writing \/ Removing) /\ job.key = k

\* The types of the index and of what the holder of the mutex works on.
IndexTypes ==
    /\ size \in Nat /\ order \in Seq(Keys)
    /\ job \in Job /\ faults \in 0..MaxFaults
    /\ earlier \in 0..MaxPuts /\ earlier <= Len(log)
    /\ Evicting => job.victim \in Keys

\* A .meta name leads to a file of a put of its key; the running put has room
\* in an empty cache and has written no more than its entry.
PutsInv ==
    /\ \A k \in Keys : metaAt[k] # None => log[metaAt[k]].key = k
    /\ InPut => log[Len(log)].key = job.key /\ PutSize <= MaxSize
    /\ writer = "writeMeta" => meta[Len(log)].len = 0
    /\ writer = "writeData" => data[Len(log)].len <= log[Len(log)].size

\* The size in use counts the files, those already evicted and the old ones of
\* the key at hand, which are subtracted at the end.
SizeInv ==
    /\ writer = "idle" => size = UsedBytes
    /\ writer = "evict" => size = UsedBytes + job.freed
    /\ Evicting => /\ size + BytesOf(job.victim) = UsedBytes + job.freed
                   /\ BytesOf(job.victim) <= job.freed
    /\ Unlinking \/ Writing \/ Removing =>
          size + BytesOf(job.key) = UsedBytes + job.removed
    /\ Unlinking \/ Removing => BytesOf(job.key) <= job.removed

\* A put that replaces its entry has room for the new one beside all others.
RoomInv ==
    /\ Unlinking => UsedBytes + PutSize <= MaxSize
    /\ Writing => UsedBytes + PutSize <= MaxSize + BytesOf(job.key)

\* The keys in the eviction order.
Queued == {order[i] : i \in 1..Len(order)}

\* The keys the holder of the mutex is at.
BusyKeys == {k \in Keys : Busy(k)}

\* The elements of s are distinct.
Distinct(s) == \A i, j \in 1..Len(s) : s[i] = s[j] => i = j

\* The entry of put d is no younger than that of put e: it was put before, or
\* both were there when the process was started last and their modification
\* times say so, which may be those of a clock that stood still or went back.
Older(d, e) ==
    d < e \/ (d <= earlier /\ e <= earlier /\ log[d].time <= log[e].time)

Ages == {p \in Keys \X Keys : Older(metaAt[p[1]], metaAt[p[2]])}

\* Any two elements of s outside B are in the order that R has them in.
Aged(s, B, R) ==
    \A i, j \in 1..Len(s) :
        i < j /\ s[i] \notin B /\ s[j] \notin B => <<s[i], s[j]>> \in R

\* The order has each key once, those that have a .meta file and no others, and
\* none behind a younger one.
OrderInv ==
    /\ Distinct(order) /\ Aged(order, BusyKeys, Ages)
    /\ \A k \in Keys \ BusyKeys : k \in Queued <=> metaAt[k] # None
    /\ Evicting => job.victim \notin Queued
    /\ Unlinking /\ job.removed = 0 => job.key \notin Queued
    /\ Writing => job.key \notin Queued

IndexInvariant ==
    /\ FileInvariant /\ IndexTypes /\ PutsInv
    /\ damaged = {} => SizeInv /\ RoomInv /\ OrderInv

-----------------------------------------------------------------------------
(* The bytes in use.                                                       *)

\* A .meta name leads to a file of a put that has begun.
LEMMA NamedPuts ==
    ASSUME FileInvariant, NEW k \in Keys, metaAt[k] # None
    PROVE  metaAt[k] \in 1..Len(log)
<1>1. metaAt[k] \in Puts /\ metaAt[k] <= Len(log)
  BY DEF FileInvariant, FileTypes, NamesInv
<1>2. Len(log) \in Nat
  BY LenProperties DEF FileInvariant, FileTypes
<1>3. metaAt[k] \in Nat \ {0}
  BY <1>1, Numbers
<1> QED BY <1>1, <1>2, <1>3

\* The lengths of files are numbers.
LEMMA BytesTypes ==
    ASSUME FileInvariant
    PROVE  \A k \in Keys : MetaLen(k) \in Nat /\ DataLen(k) \in Nat /\ BytesOf(k) \in Nat
<1> SUFFICES ASSUME NEW k \in Keys PROVE MetaLen(k) \in Nat /\ DataLen(k) \in Nat
  BY DEF BytesOf
<1>1. MetaLen(k) \in Nat
  BY DEF FileInvariant, FileTypes, File, MetaLen
<1>2. DataLen(k) \in Nat
  BY DEF FileInvariant, FileTypes, File, DataLen
<1> QED BY <1>1, <1>2

\* The bytes in use are a sum over the keys.
LEMMA UsedIsSum ==
    UsedBytes = SumFunctionOnSet([k \in Keys |-> BytesOf(k)], Keys)
<1> DEFINE f == [k \in Keys |-> BytesOf(k)]
<1>1. UsedBytes = SumFunction(f)
  BY DEF UsedBytes
<1>2. DOMAIN f = Keys
  OBVIOUS
<1> QED BY <1>1, <1>2 DEF SumFunction

\* They are a number, and no key has more.
LEMMA UsedTypes ==
    ASSUME FileInvariant
    PROVE  UsedBytes \in Nat /\ \A k \in Keys : BytesOf(k) <= UsedBytes
<1> DEFINE f == [k \in Keys |-> BytesOf(k)]
<1>1. \A k \in Keys : f[k] \in Nat /\ f[k] = BytesOf(k)
  BY BytesTypes
<1> HIDE DEF f
<1>2. SumFunctionOnSet(f, Keys) \in Nat
  BY <1>1, SumAgrees, KeysAssumption
<1>3. \A k \in Keys : f[k] <= SumFunctionOnSet(f, Keys)
  BY <1>1, SumChanges, KeysAssumption
<1>4. UsedBytes = SumFunctionOnSet(f, Keys)
  BY UsedIsSum DEF f
<1> QED BY <1>1, <1>2, <1>3, <1>4

\* The size of the entry of the running put.
LEMMA PutSizeTypes ==
    ASSUME FileInvariant, InPut
    PROVE  /\ PutSize \in Nat /\ MaxSize \in Nat
           /\ log[Len(log)].size \in Nat /\ PutSize = MetaSize + log[Len(log)].size
<1>1. Len(log) \in 1..Len(log)
  BY DEF FileInvariant, FileTypes, NamesInv
<1>2. log[Len(log)] \in [key : Keys, size : Sizes, time : Times]
  BY <1>1, ElementOfSeq DEF FileInvariant, FileTypes
<1>3. log[Len(log)].size \in Nat /\ MetaSize \in Nat /\ MaxSize \in Nat
  BY <1>2, SizesAssumption
<1> QED BY <1>3 DEF PutSize

\* So are they after a step.
LEMMA UsedTypesNext == ASSUME FileInvariant' PROVE UsedBytes' \in Nat
<1> DEFINE g == [k \in Keys |-> BytesOf(k)']
<1>1. \A k \in Keys : g[k] \in Nat
  <2>1. ASSUME NEW k \in Keys PROVE BytesOf(k)' \in Nat
    <3>1. MetaLen(k)' \in Nat
      BY DEF FileInvariant, FileTypes, File, MetaLen
    <3>2. DataLen(k)' \in Nat
      BY DEF FileInvariant, FileTypes, File, DataLen
    <3> QED BY <3>1, <3>2 DEF BytesOf
  <2> QED BY <2>1
<1>2. UsedBytes' = SumFunctionOnSet(g, Keys)
  <2>1. UsedBytes' = SumFunction(g)
    BY DEF UsedBytes
  <2>2. DOMAIN g = Keys
    OBVIOUS
  <2> QED BY <2>1, <2>2 DEF SumFunction
<1> HIDE DEF g
<1> QED BY <1>1, <1>2, SumAgrees, KeysAssumption

\* A step that changes the files of one key changes the bytes in use by as much.
LEMMA UsedChanges ==
    ASSUME FileInvariant, FileInvariant', NEW x \in Keys,
           \A k \in Keys \ {x} : BytesOf(k)' = BytesOf(k)
    PROVE  UsedBytes + BytesOf(x)' = UsedBytes' + BytesOf(x)
<1> DEFINE f == [k \in Keys |-> BytesOf(k)]
           g == [k \in Keys |-> BytesOf(k)']
<1>1. \A k \in Keys : f[k] \in Nat /\ f[k] = BytesOf(k)
  BY BytesTypes
<1>2. \A k \in Keys : g[k] \in Nat /\ g[k] = BytesOf(k)'
  <2>1. ASSUME NEW k \in Keys PROVE BytesOf(k)' \in Nat
    <3>1. MetaLen(k)' \in Nat
      BY DEF FileInvariant, FileTypes, File, MetaLen
    <3>2. DataLen(k)' \in Nat
      BY DEF FileInvariant, FileTypes, File, DataLen
    <3> QED BY <3>1, <3>2 DEF BytesOf
  <2> QED BY <2>1
<1>3. \A k \in Keys \ {x} : f[k] = g[k]
  BY <1>1, <1>2
<1>4. UsedBytes = SumFunctionOnSet(f, Keys) /\ UsedBytes' = SumFunctionOnSet(g, Keys)
  <2>1. UsedBytes = SumFunction(f) /\ UsedBytes' = SumFunction(g)
    BY DEF UsedBytes
  <2>2. DOMAIN f = Keys /\ DOMAIN g = Keys
    OBVIOUS
  <2> QED BY <2>1, <2>2 DEF SumFunction
<1> HIDE DEF f, g
<1>5. SumFunctionOnSet(f, Keys) + g[x] = SumFunctionOnSet(g, Keys) + f[x]
  BY <1>1, <1>2, <1>3, SumChanges, KeysAssumption
<1> QED BY <1>1, <1>2, <1>4, <1>5

-----------------------------------------------------------------------------
(* The eviction order.                                                     *)

\* A part of a sequence, in its order, is distinct and ascending as it is.
LEMMA PartKeeps ==
    ASSUME NEW S, NEW s \in Seq(S), NEW t \in Seq(S),
           NEW at \in [1..Len(t) -> 1..Len(s)],
           \A i, j \in 1..Len(t) : i < j => at[i] < at[j],
           \A i \in 1..Len(t) : t[i] = s[at[i]],
           Distinct(s)
    PROVE  /\ Distinct(t)
           /\ \A B, R : Aged(s, B, R) => Aged(t, B, R)
<1>1. Distinct(t)
  <2> SUFFICES ASSUME NEW i \in 1..Len(t), NEW j \in 1..Len(t), t[i] = t[j] PROVE i = j
    BY DEF Distinct
  <2>1. at[i] \in 1..Len(s) /\ at[j] \in 1..Len(s) /\ s[at[i]] = s[at[j]]
    OBVIOUS
  <2>2. at[i] = at[j]
    BY <2>1 DEF Distinct
  <2>3. ~(at[i] < at[j]) /\ ~(at[j] < at[i])
    BY <2>1, <2>2
  <2>4. ~(i < j) /\ ~(j < i)
    BY <2>3
  <2> QED BY <2>4
<1>2. ASSUME NEW B, NEW R, Aged(s, B, R) PROVE Aged(t, B, R)
  <2> SUFFICES ASSUME NEW i \in 1..Len(t), NEW j \in 1..Len(t), i < j, t[i] \notin B, t[j] \notin B
               PROVE  <<t[i], t[j]>> \in R
    BY DEF Aged
  <2>1. /\ at[i] \in 1..Len(s) /\ at[j] \in 1..Len(s) /\ at[i] < at[j]
        /\ t[i] = s[at[i]] /\ t[j] = s[at[j]]
    OBVIOUS
  <2> QED BY <1>2, <2>1 DEF Aged
<1> QED BY <1>1, <1>2

\* Room for n beside b is room beside less.
LEMMA RoomBesideLess ==
    ASSUME NEW a \in Nat, NEW b \in Nat, NEW n \in Nat, NEW m \in Nat, a <= b, b + n <= m
    PROVE  a + n <= m
OBVIOUS

\* If s counts the bytes a without a part b of them, and r too many, then
\* subtracting r and adding b counts them.
LEMMA CountedAgain ==
    ASSUME NEW s \in Nat, NEW r \in Nat, NEW a \in Nat, NEW b \in Nat,
           s + b = a + r, b <= a
    PROVE  Monus(s, r) + b = a
BY DEF Monus

\* What size is off by follows the files when one key's bytes change.
LEMMA Balance ==
    ASSUME NEW v \in Keys, size \in Nat, job.removed \in Nat,
           UsedBytes \in Nat, UsedBytes' \in Nat,
           BytesOf(v) \in Nat, BytesOf(v)' \in Nat,
           UsedBytes + BytesOf(v)' = UsedBytes' + BytesOf(v),
           size + BytesOf(v) = UsedBytes + job.removed
    PROVE  size + BytesOf(v)' = UsedBytes' + job.removed
OBVIOUS

\* The keys in the order stay in it while their .meta files do.
LEMMA AgedKeeps ==
    ASSUME log' = log, earlier' = earlier, NEW s \in Seq(Keys), NEW B, NEW C,
           Aged(s, B, Ages),
           \A i \in 1..Len(s) :
              s[i] \notin C => s[i] \notin B /\ metaAt'[s[i]] = metaAt[s[i]]
    PROVE  Aged(s, C, Ages')
<1>1. \A i \in 1..Len(s) : s[i] \in Keys
  BY ElementOfSeq
<1> SUFFICES ASSUME NEW i \in 1..Len(s), NEW j \in 1..Len(s), i < j,
                    s[i] \notin C, s[j] \notin C
             PROVE  <<s[i], s[j]>> \in Ages'
  BY DEF Aged
<1>2. <<s[i], s[j]>> \in Ages /\ s[i] \in Keys /\ s[j] \in Keys
  BY <1>1 DEF Aged
<1>3. Older(metaAt[s[i]], metaAt[s[j]])
  BY <1>2 DEF Ages
<1>4. Older(metaAt[s[i]], metaAt[s[j]])'
  BY <1>3 DEF Older
<1> QED BY <1>2, <1>4 DEF Ages

\* What retain leaves: a part of the order, and all of it but k.
LEMMA WithoutIs ==
    ASSUME order \in Seq(Keys), NEW k
    PROVE  /\ Without(k) \in Seq(Keys)
           /\ Distinct(order) =>
                /\ Distinct(Without(k))
                /\ \A B, R : Aged(order, B, R) => Aged(Without(k), B, R)
           /\ \A h : (\E i \in 1..Len(Without(k)) : Without(k)[i] = h) <=> h \in Queued \ {k}
<1>1. Without(k) = Kept(order, k)
  BY DEF Without, Kept
<1> DEFINE t == Without(k)
<1>2. t \in Seq(Keys)
  BY <1>1, KeptIs
<1>3. PICK at : IsKept(t, order, Len(order), k, at)
  BY <1>1, KeptIs
<1>4. Distinct(order) =>
        /\ Distinct(t)
        /\ \A B, R : Aged(order, B, R) => Aged(t, B, R)
  BY <1>2, <1>3, PartKeeps DEF IsKept
<1>5. \A h : (\E i \in 1..Len(t) : t[i] = h) <=> h \in Queued \ {k}
  BY <1>3 DEF IsKept, Queued
<1> QED BY <1>2, <1>4, <1>5

-----------------------------------------------------------------------------
(* Steps that leave the index and the files alone.                         *)

\* The empty directory and its index.
LEMMA InitIndexed == Init => IndexInvariant
<1> SUFFICES ASSUME Init PROVE IndexInvariant
  OBVIOUS
<1>1. FileInvariant
  BY InitHolds
<1>2. IndexTypes
  BY SizesAssumption DEF Init, IndexTypes, NoJob, Job, Evicting
<1>3. PutsInv
  BY DEF Init, PutsInv, InPut, Replacing
<1>4. SizeInv /\ RoomInv
  <2> DEFINE f == [k \in Keys |-> BytesOf(k)]
  <2>1. \A k \in Keys \ {} : f[k] = 0
    BY DEF Init, BytesOf, MetaLen, DataLen
  <2>2. UsedBytes = SumFunctionOnSet(f, Keys)
    BY UsedIsSum
  <2> HIDE DEF f
  <2>3. SumFunctionOnSet(f, Keys) = SumFunctionOnSet(f, {})
    BY <2>1, SumLeavesOut, KeysAssumption
  <2>4. UsedBytes = 0
    BY <2>2, <2>3, SumOfNothing
  <2> QED BY <2>4 DEF Init, SizeInv, RoomInv, Evicting, Unlinking, Writing, Removing
<1>5. OrderInv
  <2>1. Len(order) = 0
    BY DEF Init
  <2> QED BY <2>1 DEF Init, OrderInv, Queued, Distinct, Aged, Evicting, Unlinking, Writing
<1> QED BY <1>1, <1>2, <1>3, <1>4, <1>5 DEF IndexInvariant

\* A step of a get, or none.
LEMMA GetsLeaveIndex ==
    ASSUME IndexInvariant, FileInvariant', UNCHANGED <<log, files, index, writer, job, ghosts>>
    PROVE  IndexInvariant'
<1>1. UNCHANGED <<log, metaAt, dataAt, meta, data, size, order, writer, job, damaged, faults, earlier>>
  BY DEF files, index, ghosts
<1>2. \A k \in Keys : BytesOf(k)' = BytesOf(k)
  BY <1>1 DEF BytesOf, MetaLen, DataLen
<1>3. UsedBytes' = UsedBytes
  BY <1>1, <1>2 DEF UsedBytes
<1>4. IndexTypes' /\ PutsInv'
  BY <1>1 DEF IndexInvariant, IndexTypes, PutsInv, Evicting, InPut, PutSize
<1>5. damaged' = {} => SizeInv' /\ RoomInv' /\ OrderInv'
  <2>1. SizeInv => SizeInv'
    BY <1>1, <1>3 DEF SizeInv, Evicting, Unlinking, Writing, Removing, BytesOf, MetaLen, DataLen
  <2>2. RoomInv => RoomInv'
    BY <1>1, <1>3 DEF RoomInv, Unlinking, Writing, PutSize, BytesOf, MetaLen, DataLen
  <2>3. OrderInv => OrderInv'
    BY <1>1 DEF OrderInv, Queued, BusyKeys, Busy, Ages, Older, Evicting, Unlinking,
                Writing, Removing
  <2> QED BY <1>1, <2>1, <2>2, <2>3 DEF IndexInvariant
<1> QED BY <1>4, <1>5 DEF IndexInvariant

\* A failed call, or an unlink left behind, has a damaged key: only what holds
\* of every index is left to show.
LEMMA DamageIndexed ==
    ASSUME IndexInvariant, FileInvariant', WriteFails \/ RemoveDropped \/ DetachedUnlink
    PROVE  IndexInvariant'
<1>1. /\ UNCHANGED <<log, meta, data, size, order>>
      /\ damaged' # {} /\ earlier' = earlier
      /\ (writer' = "idle" /\ job' = NoJob) \/ UNCHANGED <<writer, job>>
      /\ faults' \in 0..MaxFaults
  <2>1. faults \in 0..MaxFaults
    BY DEF IndexInvariant, IndexTypes
  <2>2. CASE WriteFails \/ RemoveDropped
    BY <2>1, <2>2, SizesAssumption DEF WriteFails, RemoveDropped, files, index, Fault
  <2>3. CASE DetachedUnlink
    BY <2>1, <2>3 DEF DetachedUnlink, index, ghosts, IndexInvariant, FileInvariant, DetachedInv
  <2> QED BY <2>2, <2>3
<1>2. \A k \in Keys : metaAt'[k] # None => metaAt'[k] = metaAt[k]
  BY DEF WriteFails, RemoveDropped, DetachedUnlink, files, IndexInvariant, FileInvariant, FileTypes
<1>3. IndexTypes'
  BY <1>1 DEF IndexInvariant, IndexTypes, NoJob, Job, Evicting
<1>4. PutsInv'
  BY <1>1, <1>2 DEF IndexInvariant, PutsInv, InPut, PutSize, Replacing
<1> QED BY <1>1, <1>3, <1>4 DEF IndexInvariant

-----------------------------------------------------------------------------
(* Steps that leave the files alone.                                       *)

\* What they leave of the bytes in use.
LEMMA UsedStays ==
    ASSUME UNCHANGED <<metaAt, dataAt, meta, data>>
    PROVE  UsedBytes' = UsedBytes /\ \A k \in Keys : BytesOf(k)' = BytesOf(k)
<1>1. \A k \in Keys : BytesOf(k)' = BytesOf(k)
  BY DEF BytesOf, MetaLen, DataLen
<1> QED BY <1>1 DEF UsedBytes

\* A key with a .meta file whose files nobody is at has bytes; without one it
\* has none.
LEMMA ListedIsStored ==
    ASSUME IndexInvariant, damaged = {}, NEW k \in Keys, ~Changing(k)
    PROVE  /\ metaAt[k] # None => BytesOf(k) > 0
           /\ metaAt[k] = None => BytesOf(k) = 0 /\ dataAt[k] = None
<1>1. Intact(k)
  BY DEF IndexInvariant, FileInvariant, EntriesInv
<1>2. MetaLen(k) \in Nat /\ DataLen(k) \in Nat
  BY BytesTypes DEF IndexInvariant
<1>3. CASE metaAt[k] = None
  BY <1>1, <1>3 DEF Intact, BytesOf, MetaLen, DataLen
<1>4. CASE metaAt[k] # None
  <2>1. MetaLen(k) = MetaSize
    BY <1>1, <1>4 DEF Intact, Entire, MetaLen
  <2> QED BY <1>2, <1>4, <2>1, SizesAssumption DEF BytesOf
<1> QED BY <1>3, <1>4

\* A put begins with the index as it is.
LEMMA PutStartIndexed ==
    ASSUME IndexInvariant, NEW k \in Keys, NEW n \in Sizes, NEW t \in Times,
           PutStart(k, n, t)
    PROVE  IndexInvariant'
<1> DEFINE e == [key |-> k, size |-> n, time |-> t]
<1>1. /\ log' = Append(log, e) /\ writer = "idle" /\ writer' = "evict"
      /\ job' = [NoJob EXCEPT !.key = k] /\ MetaSize + n <= MaxSize
      /\ UNCHANGED <<metaAt, dataAt, meta, data, size, order, damaged, faults, earlier>>
  BY DEF PutStart, files, index, ghosts
<1>2. FileInvariant'
  BY PutStartHolds DEF IndexInvariant
<1>3. /\ Len(log') = Len(log) + 1 /\ Len(log) \in Nat /\ log'[Len(log')] = e
      /\ \A i \in 1..Len(log) : log'[i] = log[i]
  <2>1. /\ e \in [key : Keys, size : Sizes, time : Times]
        /\ log \in Seq([key : Keys, size : Sizes, time : Times])
    BY DEF IndexInvariant, FileInvariant, FileTypes
  <2> HIDE DEF e
  <2> QED BY <1>1, <2>1, AppendProperties
<1>4. job'.key = k /\ job'.freed = 0 /\ job' \in Job
  BY <1>1, Numbers DEF NoJob, Job
<1>5. IndexTypes'
  <2>1. earlier \in 0..MaxPuts /\ earlier <= Len(log')
    <3>1. earlier \in Nat /\ earlier <= Len(log) /\ earlier \in 0..MaxPuts
      BY Numbers DEF IndexInvariant, IndexTypes
    <3> QED BY <1>3, <3>1
  <2> QED BY <1>1, <1>4, <2>1 DEF IndexInvariant, IndexTypes, Evicting
<1>6. PutsInv'
  <2>1. ASSUME NEW h \in Keys, metaAt[h] # None PROVE log'[metaAt[h]].key = h
    <3>1. metaAt[h] \in 1..Len(log)
      BY <2>1, NamedPuts DEF IndexInvariant
    <3> QED BY <1>3, <2>1, <3>1 DEF IndexInvariant, PutsInv
  <2>2. PutSize' = MetaSize + n
    BY <1>3 DEF PutSize
  <2>3. PutSize' <= MaxSize /\ log'[Len(log')].key = k
    BY <1>1, <1>3, <2>2
  <2> QED BY <1>1, <1>4, <2>1, <2>3 DEF PutsInv
<1>7. ASSUME damaged' = {} PROVE SizeInv' /\ RoomInv' /\ OrderInv'
  <2>1. SizeInv /\ OrderInv
    BY <1>1, <1>7 DEF IndexInvariant
  <2>2. SizeInv' /\ RoomInv'
    BY <1>1, <1>4, <2>1, UsedStays, UsedTypes
       DEF IndexInvariant, IndexTypes, SizeInv, RoomInv, Evicting, Unlinking, Writing, Removing
  <2>3. BusyKeys = {} /\ BusyKeys' = {}
    BY <1>1 DEF BusyKeys, Busy, Evicting, Unlinking, Writing, Removing
  <2>4. Aged(order', BusyKeys', Ages')
    <3> SUFFICES ASSUME NEW i \in 1..Len(order), NEW j \in 1..Len(order), i < j
                 PROVE  <<order[i], order[j]>> \in Ages'
      BY <1>1 DEF Aged
    <3>1. PICK g \in Keys, h \in Keys : g = order[i] /\ h = order[j]
      BY ElementOfSeq DEF IndexInvariant, IndexTypes
    <3>2. <<g, h>> \in Ages /\ metaAt[g] # None /\ metaAt[h] # None
      BY <2>1, <2>3, <3>1 DEF OrderInv, Aged, Queued
    <3>3. metaAt[g] \in 1..Len(log) /\ metaAt[h] \in 1..Len(log)
      BY <3>2, NamedPuts DEF IndexInvariant
    <3>4. log'[metaAt[g]] = log[metaAt[g]] /\ log'[metaAt[h]] = log[metaAt[h]]
      BY <1>3, <3>3
    <3>5. Older(metaAt[g], metaAt[h])
      BY <3>2 DEF Ages
    <3>6. Older(metaAt[g], metaAt[h])'
      BY <1>1, <3>4, <3>5 DEF Older
    <3> QED BY <3>1, <3>6 DEF Ages
  <2>5. OrderInv'
    BY <1>1, <2>1, <2>3, <2>4 DEF OrderInv, Queued, Evicting, Unlinking, Writing
  <2> QED BY <2>2, <2>5
<1> QED BY <1>2, <1>5, <1>6, <1>7 DEF IndexInvariant

\* The oldest key leaves the order, and its bytes are to be subtracted.
LEMMA EvictPopIndexed ==
    ASSUME IndexInvariant, EvictPop
    PROVE  IndexInvariant'
<1>10. order \in Seq(Keys) /\ order # <<>>
  BY DEF EvictPop, IndexInvariant, IndexTypes
<1>11. PICK v \in Keys : v = Head(order)
  BY <1>10, HeadTailProperties
<1>1. /\ writer = "evict" /\ writer' = "evictMeta" /\ order # <<>> /\ order' = Tail(order)
      /\ job' = [job EXCEPT !.victim = v, !.freed = @ + BytesOf(v)]
      /\ UNCHANGED <<log, metaAt, dataAt, meta, data, size, damaged, faults, earlier>>
  BY <1>11 DEF EvictPop, files, ghosts
<1>2. FileInvariant'
  BY LooksHold DEF IndexInvariant
<1>3. order \in Seq(Keys) /\ job \in Job /\ size \in Nat /\ FileInvariant
  BY DEF IndexInvariant, IndexTypes
<1>4. /\ v \in Keys /\ v = order[1] /\ order' \in Seq(Keys) /\ Len(order) \in Nat
      /\ Len(order) > 0 /\ Len(order') = Len(order) - 1
      /\ \A i \in 1..Len(order') : order'[i] = order[i + 1]
  BY <1>1, <1>3, <1>11, HeadTailProperties
<1>5. BytesOf(v) \in Nat /\ UsedBytes \in Nat /\ BytesOf(v)' = BytesOf(v) /\ UsedBytes' = UsedBytes
  BY <1>1, <1>3, <1>4, BytesTypes, UsedTypes, UsedStays
<1>6. job' \in Job /\ job'.victim = v /\ job'.freed = job.freed + BytesOf(v) /\ job'.key = job.key
      /\ job.freed \in Nat
  <2>1. job.freed + BytesOf(v) \in Nat /\ job.freed \in Nat
    BY <1>3, <1>5 DEF Job
  <2> QED BY <1>1, <1>3, <2>1 DEF Job
<1>7. IndexTypes'
  BY <1>1, <1>3, <1>4, <1>6 DEF IndexInvariant, IndexTypes
<1>8. PutsInv'
  BY <1>1, <1>6 DEF IndexInvariant, PutsInv, InPut, PutSize
<1>9. ASSUME damaged' = {} PROVE SizeInv' /\ RoomInv' /\ OrderInv'
  <2>1. SizeInv /\ OrderInv
    BY <1>1, <1>9 DEF IndexInvariant
  <2>2. size = UsedBytes + job.freed
    BY <1>1, <2>1 DEF SizeInv
  <2>3. SizeInv' /\ RoomInv'
    <3>1. size' = size /\ BytesOf(v)' = BytesOf(v)
      BY <1>1, <1>5
    <3>2. size' + BytesOf(v)' = UsedBytes' + job'.freed /\ BytesOf(v)' <= job'.freed
      BY <1>3, <1>5, <1>6, <2>2, <3>1
    <3> QED BY <1>1, <1>6, <3>2 DEF SizeInv, RoomInv, Evicting, Unlinking, Writing, Removing
  <2>4. BusyKeys = {} /\ BusyKeys' = {v}
    BY <1>1, <1>4, <1>6 DEF BusyKeys, Busy, Evicting, Unlinking, Writing, Removing
  <2>5. Distinct(order') /\ \A B, R : Aged(order, B, R) => Aged(order', B, R)
    <3> DEFINE at == [i \in 1..Len(order') |-> i + 1]
    <3>1. at \in [1..Len(order') -> 1..Len(order)]
      BY <1>4
    <3>2. \A i, j \in 1..Len(order') : i < j => at[i] < at[j]
      OBVIOUS
    <3>3. \A i \in 1..Len(order') : order'[i] = order[at[i]]
      BY <1>4
    <3>4. Distinct(order)
      BY <2>1 DEF OrderInv
    <3> HIDE DEF at
    <3> QED BY <1>3, <1>4, <3>1, <3>2, <3>3, <3>4, PartKeeps
  <2>6. Aged(order', {v}, Ages')
    <3>1. Aged(order', {}, Ages)
      BY <2>1, <2>4, <2>5 DEF OrderInv
    <3> QED BY <1>1, <1>4, <3>1, AgedKeeps
  <2>7. \A h : h \in Queued' <=> h \in Queued /\ h # v
    <3>1. ASSUME NEW i \in 1..Len(order') PROVE order'[i] \in Queued /\ order'[i] # v
      <4>1. i + 1 \in 1..Len(order) /\ 1 \in 1..Len(order) /\ i + 1 # 1
        BY <1>4
      <4> QED BY <1>4, <2>1, <4>1 DEF OrderInv, Distinct, Queued
    <3>2. ASSUME NEW i \in 1..Len(order), order[i] # v
          PROVE  \E j \in 1..Len(order') : order'[j] = order[i]
      <4>1. i - 1 \in 1..Len(order') /\ (i - 1) + 1 = i
        BY <1>4, <3>2
      <4> QED BY <1>4, <4>1
    <3> QED BY <3>1, <3>2 DEF Queued
  <2>8. OrderInv'
    BY <1>1, <1>6, <2>1, <2>4, <2>5, <2>6, <2>7 DEF OrderInv, Evicting, Unlinking, Writing
  <2> QED BY <2>3, <2>8
<1> QED BY <1>2, <1>7, <1>8, <1>9 DEF IndexInvariant

\* The room is made: what was evicted is subtracted, and the old entry is next.
LEMMA EvictDoneIndexed ==
    ASSUME IndexInvariant, EvictDone
    PROVE  IndexInvariant'
<1>1. PICK v \in Keys : v = job.key
  BY DEF EvictDone, IndexInvariant, FileInvariant, FileTypes
<1>2. /\ writer = "evict" /\ writer' = "unlinkMeta" /\ (Room \/ order = <<>>)
      /\ size' = Monus(size, job.freed) /\ job' = [job EXCEPT !.removed = BytesOf(v)]
      /\ UNCHANGED <<log, metaAt, dataAt, meta, data, order, damaged, faults, earlier>>
  BY <1>1 DEF EvictDone, files, ghosts
<1>3. FileInvariant'
  BY LooksHold DEF IndexInvariant
<1>4. order \in Seq(Keys) /\ job \in Job /\ size \in Nat /\ FileInvariant
  BY DEF IndexInvariant, IndexTypes
<1>5. BytesOf(v) \in Nat /\ UsedBytes \in Nat /\ BytesOf(v)' = BytesOf(v) /\ UsedBytes' = UsedBytes
      /\ BytesOf(v) <= UsedBytes
  BY <1>2, <1>4, BytesTypes, UsedTypes, UsedStays
<1>6. job' \in Job /\ job'.removed = BytesOf(v) /\ job'.key = v /\ job.freed \in Nat
  BY <1>1, <1>2, <1>4, <1>5 DEF Job
<1>7. size' \in Nat
  BY <1>2, <1>4, <1>6 DEF Monus
<1>8. IndexTypes'
  BY <1>2, <1>4, <1>6, <1>7 DEF IndexInvariant, IndexTypes, Evicting
<1>9. PutsInv'
  BY <1>1, <1>2, <1>6 DEF IndexInvariant, PutsInv, InPut, PutSize
<1>10. PutSize \in Nat /\ PutSize <= MaxSize /\ MaxSize \in Nat
  BY <1>2, <1>4, PutSizeTypes DEF IndexInvariant, PutsInv, InPut
<1>11. ASSUME damaged' = {} PROVE SizeInv' /\ RoomInv' /\ OrderInv'
  <2>1. SizeInv /\ OrderInv
    BY <1>2, <1>11 DEF IndexInvariant
  <2>2. size = UsedBytes + job.freed
    BY <1>2, <2>1 DEF SizeInv
  <2>3. size' = UsedBytes
    BY <1>2, <1>4, <1>5, <1>6, <2>2 DEF Monus
  <2>4. SizeInv'
    BY <1>2, <1>5, <1>6, <2>3 DEF SizeInv, Evicting, Unlinking, Writing, Removing
  <2>5. BusyKeys = {} /\ BusyKeys' = {v}
    BY <1>2, <1>6 DEF BusyKeys, Busy, Evicting, Unlinking, Writing, Removing
  <2>6. ASSUME NEW k \in Keys, k \notin Queued PROVE BytesOf(k) = 0
    <3>1. metaAt[k] = None
      BY <2>1, <2>5, <2>6 DEF OrderInv
    <3>2. ~Changing(k)
      BY <1>2 DEF Changing
    <3> QED BY <1>2, <1>11, <3>1, <3>2, ListedIsStored
  <2>7. UsedBytes + PutSize <= MaxSize
    <3>1. CASE Room
      <4>1. Monus(size, job.freed) = UsedBytes
        BY <1>2, <2>3
      <4> QED BY <1>5, <1>10, <3>1, <4>1 DEF Room
    <3>2. CASE order = <<>>
      <4> DEFINE f == [k \in Keys |-> BytesOf(k)]
      <4>1. \A k \in Keys \ {} : f[k] = 0
        BY <2>6, <3>2 DEF Queued
      <4>2. UsedBytes = SumFunctionOnSet(f, Keys)
        BY UsedIsSum
      <4> HIDE DEF f
      <4>3. SumFunctionOnSet(f, Keys) = SumFunctionOnSet(f, {})
        BY <4>1, SumLeavesOut, KeysAssumption
      <4>4. UsedBytes = 0
        BY <4>2, <4>3, SumOfNothing
      <4> QED BY <1>10, <4>4
    <3> QED BY <1>2, <3>1, <3>2
  <2>8. RoomInv'
    <3>1. PutSize' = PutSize
      BY <1>2 DEF PutSize
    <3> QED BY <1>2, <1>5, <2>7, <3>1 DEF RoomInv, Unlinking, Writing
  <2>9. Aged(order', BusyKeys', Ages')
    <3>1. Aged(order, {}, Ages) /\ order' = order
      BY <1>2, <2>1, <2>5 DEF OrderInv
    <3>2. Aged(order, {v}, Ages')
      BY <1>2, <1>4, <3>1, AgedKeeps
    <3> QED BY <2>5, <3>1, <3>2
  <2>10. job'.removed = 0 => v \notin Queued
    <3>1. SUFFICES ASSUME BytesOf(v) = 0 PROVE v \notin Queued
      BY <1>6
    <3>2. ~Changing(v)
      BY <1>2 DEF Changing
    <3>3. metaAt[v] = None
      BY <1>2, <1>11, <3>1, <3>2, ListedIsStored
    <3> QED BY <2>1, <2>5, <3>3 DEF OrderInv
  <2>11. OrderInv'
    BY <1>2, <1>6, <2>1, <2>5, <2>9, <2>10 DEF OrderInv, Queued, Evicting, Unlinking, Writing
  <2> QED BY <2>4, <2>8, <2>11
<1> QED BY <1>3, <1>8, <1>9, <1>11 DEF IndexInvariant

\* A remove begins with the index as it is and the bytes its key has.
LEMMA RemoveStartIndexed ==
    ASSUME IndexInvariant, NEW k \in Keys, RemoveStart(k)
    PROVE  IndexInvariant'
<1>1. /\ writer = "idle" /\ writer' = "rmMeta"
      /\ job' = [NoJob EXCEPT !.key = k, !.removed = BytesOf(k)]
      /\ UNCHANGED <<log, metaAt, dataAt, meta, data, size, order, damaged, faults, earlier>>
  BY DEF RemoveStart, files, index, ghosts
<1>2. FileInvariant'
  BY LooksHold DEF IndexInvariant
<1>3. FileInvariant /\ size \in Nat
  BY DEF IndexInvariant, IndexTypes
<1>4. BytesOf(k) \in Nat /\ UsedBytes \in Nat /\ BytesOf(k)' = BytesOf(k) /\ UsedBytes' = UsedBytes
  BY <1>1, <1>3, BytesTypes, UsedTypes, UsedStays
<1>5. job' \in Job /\ job'.removed = BytesOf(k) /\ job'.key = k
  BY <1>1, <1>4, Numbers DEF Job, NoJob
<1>6. IndexTypes'
  BY <1>1, <1>5 DEF IndexInvariant, IndexTypes, Evicting
<1>7. PutsInv'
  BY <1>1 DEF IndexInvariant, PutsInv, InPut, Replacing
<1>8. ASSUME damaged' = {} PROVE SizeInv' /\ RoomInv' /\ OrderInv'
  <2>1. SizeInv /\ OrderInv
    BY <1>1, <1>8 DEF IndexInvariant
  <2>2. size = UsedBytes
    BY <1>1, <2>1 DEF SizeInv
  <2>3. SizeInv' /\ RoomInv'
    BY <1>1, <1>3, <1>4, <1>5, <2>2
       DEF SizeInv, RoomInv, Evicting, Unlinking, Writing, Removing
  <2>4. BusyKeys = {} /\ BusyKeys' = {k}
    BY <1>1, <1>5 DEF BusyKeys, Busy, Evicting, Unlinking, Writing, Removing
  <2>5. Aged(order', BusyKeys', Ages')
    <3>1. Aged(order, {}, Ages) /\ order' = order /\ order \in Seq(Keys)
      BY <1>1, <2>1, <2>4 DEF OrderInv, IndexInvariant, IndexTypes
    <3>2. Aged(order, {k}, Ages')
      BY <1>1, <3>1, AgedKeeps
    <3> QED BY <2>4, <3>1, <3>2
  <2>6. OrderInv'
    BY <1>1, <2>1, <2>4, <2>5 DEF OrderInv, Queued, Evicting, Unlinking, Writing
  <2> QED BY <2>3, <2>6
<1> QED BY <1>2, <1>6, <1>7, <1>8 DEF IndexInvariant

-----------------------------------------------------------------------------
(* Steps that unlink files.                                                *)

\* The .meta file of the key at hand is gone; its bytes are still counted.
LEMMA UnlinkMetaIndexed ==
    ASSUME IndexInvariant, EvictMeta \/ UnlinkMeta \/ RemoveMeta
    PROVE  IndexInvariant'
<1>1. PICK v \in Keys : v = IF writer = "evictMeta" THEN job.victim ELSE job.key
  BY DEF EvictMeta, UnlinkMeta, RemoveMeta, IndexInvariant, IndexTypes, Evicting,
         FileInvariant, FileTypes
<1>2. /\ metaAt' = [metaAt EXCEPT ![v] = None]
      /\ UNCHANGED <<log, dataAt, meta, data, size, order, job, damaged, faults, earlier>>
      /\ \/ writer = "evictMeta" /\ writer' = "evictData" /\ job.victim = v
         \/ writer = "unlinkMeta" /\ writer' = "unlinkData" /\ job.key = v
         \/ writer = "rmMeta" /\ writer' = "rmData" /\ job.key = v
  BY <1>1 DEF EvictMeta, UnlinkMeta, RemoveMeta, index, ghosts
<1>3. FileInvariant' /\ FileInvariant
  BY UnlinkMetaHolds DEF IndexInvariant
<1>4. \A k \in Keys : metaAt'[k] = IF k = v THEN None ELSE metaAt[k]
  BY <1>2, <1>3 DEF FileInvariant, FileTypes
<1>5. /\ UsedBytes + BytesOf(v)' = UsedBytes' + BytesOf(v)
      /\ UsedBytes \in Nat /\ UsedBytes' \in Nat /\ BytesOf(v) \in Nat /\ BytesOf(v)' \in Nat
      /\ BytesOf(v)' <= BytesOf(v)
  <2>1. \A k \in Keys \ {v} : BytesOf(k)' = BytesOf(k)
    BY <1>2, <1>4 DEF BytesOf, MetaLen, DataLen
  <2>2. UsedBytes \in Nat /\ BytesOf(v) \in Nat /\ MetaLen(v) \in Nat /\ DataLen(v) \in Nat
    BY <1>3, UsedTypes, BytesTypes
  <2>3. BytesOf(v)' = DataLen(v)
    BY <1>2, <1>4, <2>2 DEF BytesOf, MetaLen, DataLen
  <2>4. UsedBytes + BytesOf(v)' = UsedBytes' + BytesOf(v)
    BY <1>3, <2>1, UsedChanges
  <2>5. UsedBytes' \in Nat
    BY <1>3, UsedTypesNext
  <2> QED BY <2>2, <2>3, <2>4, <2>5 DEF BytesOf
<1>6. IndexTypes'
  BY <1>2 DEF IndexInvariant, IndexTypes, Evicting
<1>7. PutsInv'
  BY <1>2, <1>4 DEF IndexInvariant, PutsInv, InPut, PutSize, Replacing
<1>8. ASSUME damaged' = {} PROVE SizeInv' /\ RoomInv' /\ OrderInv'
  <2>1. SizeInv /\ RoomInv /\ OrderInv
    BY <1>2, <1>8 DEF IndexInvariant
  <2>2. job \in Job /\ size \in Nat
    BY DEF IndexInvariant, IndexTypes
  <2>3. SizeInv'
    <3>1. CASE writer = "evictMeta"
      <4>1. size + BytesOf(v) = UsedBytes + job.freed /\ BytesOf(v) <= job.freed
        BY <1>2, <2>1, <3>1 DEF SizeInv, Evicting
      <4>2. size + BytesOf(v)' = UsedBytes' + job.freed /\ BytesOf(v)' <= job.freed
        BY <1>5, <2>2, <4>1 DEF Job
      <4> QED BY <1>2, <3>1, <4>2 DEF SizeInv, Evicting, Unlinking, Writing, Removing
    <3>2. CASE writer # "evictMeta"
      <4>1. size + BytesOf(v) = UsedBytes + job.removed /\ BytesOf(v) <= job.removed
        BY <1>2, <2>1, <3>2 DEF SizeInv, Unlinking, Removing
      <4>2. size + BytesOf(v)' = UsedBytes' + job.removed /\ BytesOf(v)' <= job.removed
        BY <1>5, <2>2, <4>1 DEF Job
      <4> QED BY <1>2, <3>2, <4>2 DEF SizeInv, Evicting, Unlinking, Writing, Removing
    <3> QED BY <3>1, <3>2
  <2>4. RoomInv'
    <3>1. CASE writer = "unlinkMeta"
      <4>1. UsedBytes + PutSize <= MaxSize /\ PutSize' = PutSize
        BY <1>2, <2>1, <3>1 DEF RoomInv, Unlinking, PutSize
      <4>2. PutSize \in Nat /\ MaxSize \in Nat
        BY <1>3, <3>1, PutSizeTypes DEF InPut, Replacing
      <4>3. UsedBytes' <= UsedBytes
        BY <1>5
      <4>4. UsedBytes' + PutSize <= MaxSize
        BY <1>5, <4>1, <4>2, <4>3, RoomBesideLess
      <4>5. UsedBytes' + PutSize' <= MaxSize
        BY <4>1, <4>4
      <4> QED BY <1>2, <3>1, <4>5 DEF RoomInv, Unlinking, Writing
    <3>2. CASE writer # "unlinkMeta"
      BY <1>2, <3>2 DEF RoomInv, Unlinking, Writing
    <3> QED BY <3>1, <3>2
  <2>5. BusyKeys = {v} /\ BusyKeys' = {v}
    BY <1>2 DEF BusyKeys, Busy, Evicting, Unlinking, Writing, Removing
  <2>6. \A i \in 1..Len(order) : order[i] \in Keys
    BY ElementOfSeq DEF IndexInvariant, IndexTypes
  <2>7. Aged(order', BusyKeys', Ages')
    <3>1. Aged(order, {v}, Ages) /\ order' = order /\ order \in Seq(Keys)
      BY <1>2, <2>1, <2>5 DEF OrderInv, IndexInvariant, IndexTypes
    <3>2. Aged(order, {v}, Ages')
      BY <1>2, <1>4, <2>6, <3>1, AgedKeeps
    <3> QED BY <2>5, <3>1, <3>2
  <2>8. OrderInv'
    BY <1>2, <1>4, <2>1, <2>5, <2>7 DEF OrderInv, Queued, Evicting, Unlinking, Writing
  <2> QED BY <2>3, <2>4, <2>8
<1> QED BY <1>3, <1>6, <1>7, <1>8 DEF IndexInvariant

\* The .data file is gone too, and with it the last of its bytes.
LEMMA UnlinkDataIndexed ==
    ASSUME IndexInvariant, EvictData \/ UnlinkData \/ RemoveData
    PROVE  IndexInvariant'
<1>1. PICK v \in Keys : v = IF writer = "evictData" THEN job.victim ELSE job.key
  BY DEF EvictData, UnlinkData, RemoveData, IndexInvariant, IndexTypes, Evicting,
         FileInvariant, FileTypes
<1>2. /\ dataAt' = [dataAt EXCEPT ![v] = None]
      /\ UNCHANGED <<log, metaAt, meta, data, damaged, faults, earlier>>
      /\ \/ /\ writer = "evictData" /\ writer' = "evict" /\ job.victim = v
            /\ UNCHANGED <<size, order, job>>
         \/ /\ writer = "unlinkData" /\ writer' = "createMeta" /\ job.key = v
            /\ order' = IF job.removed > 0 THEN Without(v) ELSE order
            /\ UNCHANGED <<size, job>>
         \/ /\ writer = "rmData" /\ writer' = "idle" /\ job.key = v /\ job' = NoJob
            /\ size' = Monus(size, job.removed) /\ order' = Without(v)
  BY <1>1 DEF EvictData, UnlinkData, RemoveData, index, ghosts
<1>3. FileInvariant' /\ FileInvariant
  BY UnlinkDataHolds DEF IndexInvariant
<1>4. metaAt[v] = None /\ \A k \in Keys : dataAt'[k] = IF k = v THEN None ELSE dataAt[k]
  BY <1>2, <1>3 DEF FileInvariant, FileTypes, WriterInv
<1>5. /\ UsedBytes = UsedBytes' + BytesOf(v) /\ BytesOf(v)' = 0
      /\ UsedBytes \in Nat /\ UsedBytes' \in Nat /\ BytesOf(v) \in Nat
  <2>1. \A k \in Keys \ {v} : BytesOf(k)' = BytesOf(k)
    BY <1>2, <1>4 DEF BytesOf, MetaLen, DataLen
  <2>2. UsedBytes \in Nat /\ BytesOf(v) \in Nat
    BY <1>3, UsedTypes, BytesTypes
  <2>3. BytesOf(v)' = 0
    BY <1>2, <1>4 DEF BytesOf, MetaLen, DataLen
  <2>4. UsedBytes + BytesOf(v)' = UsedBytes' + BytesOf(v)
    BY <1>3, <2>1, UsedChanges
  <2>5. UsedBytes' \in Nat
    BY <1>3, UsedTypesNext
  <2> QED BY <2>2, <2>3, <2>4, <2>5
<1>6. order \in Seq(Keys) /\ job \in Job /\ size \in Nat
  BY DEF IndexInvariant, IndexTypes
<1>7. IndexTypes'
  <2>1. order' \in Seq(Keys)
    BY <1>2, <1>6, WithoutIs
  <2>2. size' \in Nat
    BY <1>2, <1>6 DEF Monus, Job
  <2>3. job' \in Job
    BY <1>2, <1>6 DEF NoJob, Job
  <2> QED BY <1>2, <2>1, <2>2, <2>3 DEF IndexInvariant, IndexTypes, Evicting
<1>8. PutsInv'
  BY <1>2 DEF IndexInvariant, PutsInv, InPut, PutSize, Replacing
<1>9. ASSUME damaged' = {} PROVE SizeInv' /\ RoomInv' /\ OrderInv'
  <2>1. SizeInv /\ RoomInv /\ OrderInv
    BY <1>2, <1>9 DEF IndexInvariant
  <2>2. SizeInv'
    <3>1. CASE writer = "evictData"
      <4>1. size + BytesOf(v) = UsedBytes + job.freed
        BY <1>2, <2>1, <3>1 DEF SizeInv, Evicting
      <4>2. size = UsedBytes' + job.freed
        <5>1. PICK b \in Nat, u \in Nat, c \in Nat, r \in Nat, n \in Nat :
                /\ b = BytesOf(v) /\ u = UsedBytes /\ c = UsedBytes'
                /\ r = job.freed /\ n = size
          BY <1>5, <1>6 DEF Job
        <5>2. u = c + b /\ n + b = u + r
          BY <1>5, <4>1, <5>1
        <5>3. n = c + r
          BY <5>2
        <5> QED BY <5>1, <5>3
      <4> QED BY <1>2, <3>1, <4>2 DEF SizeInv, Evicting, Unlinking, Writing, Removing
    <3>2. CASE writer # "evictData"
      <4>1. size + BytesOf(v) = UsedBytes + job.removed
        BY <1>2, <2>1, <3>2 DEF SizeInv, Unlinking, Removing
      <4>2. size = UsedBytes' + job.removed
        <5>1. PICK b \in Nat, u \in Nat, c \in Nat, r \in Nat, n \in Nat :
                /\ b = BytesOf(v) /\ u = UsedBytes /\ c = UsedBytes'
                /\ r = job.removed /\ n = size
          BY <1>5, <1>6 DEF Job
        <5>2. u = c + b /\ n + b = u + r
          BY <1>5, <4>1, <5>1
        <5>3. n = c + r
          BY <5>2
        <5> QED BY <5>1, <5>3
      <4>3. CASE writer = "unlinkData"
        <5>1. writer' = "createMeta" /\ job'.key = v /\ size' = UsedBytes' + job'.removed
          BY <1>2, <4>2, <4>3
        <5>2. size' + BytesOf(v)' = UsedBytes' + job'.removed
          BY <1>2, <1>5, <1>6, <4>3, <5>1
        <5> QED BY <5>1, <5>2 DEF SizeInv, Evicting, Unlinking, Writing, Removing
      <4>4. CASE writer = "rmData"
        <5>1. size' = UsedBytes'
          BY <1>2, <1>5, <1>6, <4>2, <4>4 DEF Monus, Job
        <5> QED BY <1>2, <4>4, <5>1 DEF SizeInv, Evicting, Unlinking, Writing, Removing
      <4> QED BY <1>2, <3>2, <4>3, <4>4
    <3> QED BY <3>1, <3>2
  <2>3. RoomInv'
    <3>1. CASE writer = "unlinkData"
      <4>1. UsedBytes + PutSize <= MaxSize /\ PutSize' = PutSize
        BY <1>2, <2>1, <3>1 DEF RoomInv, Unlinking, PutSize
      <4>2. PutSize \in Nat /\ MaxSize \in Nat
        BY <1>3, <3>1, PutSizeTypes DEF InPut, Replacing
      <4>3. PICK a \in Nat, b \in Nat, n \in Nat, m \in Nat :
              a = UsedBytes' /\ b = UsedBytes /\ n = PutSize /\ m = MaxSize
        BY <1>5, <4>2
      <4>4. UsedBytes' + PutSize <= MaxSize
        <5>1. a <= b /\ b + n <= m
          BY <1>5, <4>1, <4>3
        <5>2. a + n <= m
          BY <5>1
        <5> QED BY <4>3, <5>2
      <4>5. UsedBytes' + PutSize' <= MaxSize + BytesOf(v)'
        <5>1. MaxSize + BytesOf(v)' = MaxSize
          BY <1>5, <4>2
        <5> QED BY <4>1, <4>4, <5>1
      <4> QED BY <1>2, <3>1, <4>5 DEF RoomInv, Unlinking, Writing
    <3>2. CASE writer # "unlinkData"
      BY <1>2, <3>2 DEF RoomInv, Unlinking, Writing
    <3> QED BY <3>1, <3>2
  <2>4. BusyKeys = {v} /\ (writer = "unlinkData" => BusyKeys' = {v})
        /\ (writer # "unlinkData" => BusyKeys' = {})
    BY <1>2 DEF BusyKeys, Busy, Evicting, Unlinking, Writing, Removing
  <2>5. Distinct(order') /\ Aged(order', {v}, Ages)
    <3>1. Distinct(order) /\ Aged(order, {v}, Ages)
      BY <2>1, <2>4 DEF OrderInv
    <3> QED BY <1>2, <1>6, <3>1, WithoutIs
  <2>6. \A k : k \in Queued' <=> k \in Queued /\ k # v
    <3>1. CASE order' = Without(v)
      <4>1. \A k : k \in Queued' <=> \E i \in 1..Len(Without(v)) : Without(v)[i] = k
        BY <3>1 DEF Queued
      <4> QED BY <1>6, <4>1, WithoutIs
    <3>2. CASE order' # Without(v)
      <4>1. order' = order /\ v \notin Queued
        BY <1>2, <1>6, <2>1, <3>2 DEF OrderInv, Evicting, Unlinking, Job
      <4> QED BY <4>1 DEF Queued
    <3> QED BY <3>1, <3>2
  <2>7. Aged(order', BusyKeys', Ages')
    <3>1. \A i \in 1..Len(order') : order'[i] # v
      BY <2>6 DEF Queued
    <3>2. order' \in Seq(Keys)
      BY <1>7 DEF IndexTypes
    <3>3. \A i \in 1..Len(order') : order'[i] \in Keys
      BY <3>2, ElementOfSeq
    <3> QED BY <1>2, <1>4, <2>5, <3>1, <3>2, <3>3, AgedKeeps
  <2>8. OrderInv'
    BY <1>2, <1>4, <2>1, <2>4, <2>5, <2>6, <2>7 DEF OrderInv, Evicting, Unlinking, Writing
  <2> QED BY <2>2, <2>3, <2>8
<1> QED BY <1>3, <1>7, <1>8, <1>9 DEF IndexInvariant

-----------------------------------------------------------------------------
(* Steps that write files.                                                 *)

\* What the running put has written, as long as nothing is damaged.
LEMMA OwnBytes ==
    ASSUME IndexInvariant, damaged = {}, Writing
    PROVE  /\ job.key \in Keys /\ Len(log) \in Puts
           /\ writer \in {"createMeta", "writeMeta"} => BytesOf(job.key) = 0
           /\ writer = "createData" => BytesOf(job.key) = MetaSize
           /\ writer = "writeData" => BytesOf(job.key) = MetaSize + data[Len(log)].len
<1>1. FileInvariant /\ InPut /\ job.key \notin damaged
  BY DEF IndexInvariant, Writing, InPut, Replacing
<1>2. Len(log) \in Puts /\ Len(log) # None /\ job.key \in Keys
  BY <1>1, OthersApart DEF FileInvariant, FileTypes, Writing
<1>3. MetaSize \in Nat /\ data[Len(log)].len \in Nat
  BY <1>1, <1>2, Numbers DEF FileInvariant, FileTypes, File
<1>4. CASE writer = "createMeta"
  BY <1>1, <1>2, <1>4 DEF FileInvariant, WriterInv, BytesOf, MetaLen, DataLen
<1>5. CASE writer = "writeMeta"
  BY <1>1, <1>2, <1>5 DEF IndexInvariant, PutsInv, FileInvariant, WriterInv, BytesOf, MetaLen, DataLen
<1>6. CASE writer = "createData"
  BY <1>1, <1>2, <1>3, <1>6 DEF FileInvariant, WriterInv, BytesOf, MetaLen, DataLen
<1>7. CASE writer = "writeData"
  BY <1>1, <1>2, <1>3, <1>7 DEF FileInvariant, WriterInv, BytesOf, MetaLen, DataLen
<1> QED BY <1>2, <1>4, <1>5, <1>6, <1>7 DEF Writing

\* A step of write_entry, which touches the file of its put alone.
LEMMA WritesIndexed ==
    ASSUME IndexInvariant, FileInvariant', Writing, Writing',
           UNCHANGED <<log, size, order, damaged, faults, earlier>>,
           job' \in Job, job'.key = job.key, job'.removed = job.removed,
           \A k \in Keys : k # job.key => metaAt'[k] = metaAt[k] /\ dataAt'[k] = dataAt[k],
           metaAt'[job.key] \in {metaAt[job.key], Len(log)},
           \A f \in Puts : f # Len(log) => meta'[f] = meta[f] /\ data'[f] = data[f],
           writer' = "writeMeta" => meta'[Len(log)].len = 0,
           writer' = "writeData" => data'[Len(log)].len <= log[Len(log)].size
    PROVE  IndexInvariant'
<1>1. PICK v \in Keys : v = job.key
  BY DEF IndexInvariant, FileInvariant, FileTypes, Writing
<1>2. InPut /\ InPut' /\ FileInvariant
  BY DEF Writing, InPut, Replacing, IndexInvariant
<1>3. /\ Len(log) \in Puts /\ Len(log) # None
      /\ \A k \in Keys \ {v} : metaAt[k] # Len(log) /\ dataAt[k] # Len(log)
  BY <1>1, <1>2, OthersApart
<1>4. \A k \in Keys \ {v} : BytesOf(k)' = BytesOf(k)
  <2> SUFFICES ASSUME NEW k \in Keys, k # v PROVE BytesOf(k)' = BytesOf(k)
    OBVIOUS
  <2>1. MetaLen(k)' = MetaLen(k)
    BY <1>1, <1>2, <1>3 DEF MetaLen, FileInvariant, FileTypes
  <2>2. DataLen(k)' = DataLen(k)
    BY <1>1, <1>2, <1>3 DEF DataLen, FileInvariant, FileTypes
  <2> QED BY <2>1, <2>2 DEF BytesOf
<1>5. /\ UsedBytes + BytesOf(v)' = UsedBytes' + BytesOf(v)
      /\ UsedBytes \in Nat /\ UsedBytes' \in Nat /\ BytesOf(v) \in Nat
      /\ BytesOf(v) <= UsedBytes
  BY <1>2, <1>4, UsedChanges, UsedTypes, UsedTypesNext, BytesTypes
<1>6. BytesOf(v)' \in Nat
  <2>1. MetaLen(v)' \in Nat
    BY DEF FileInvariant, FileTypes, File, MetaLen
  <2>2. DataLen(v)' \in Nat
    BY DEF FileInvariant, FileTypes, File, DataLen
  <2> QED BY <2>1, <2>2 DEF BytesOf
<1>7. IndexTypes'
  BY DEF IndexInvariant, IndexTypes, Evicting, Writing
<1>8. PutsInv'
  <2>1. /\ \A k \in Keys : metaAt[k] # None => log[metaAt[k]].key = k
        /\ log[Len(log)].key = v /\ PutSize <= MaxSize
    BY <1>1, <1>2 DEF IndexInvariant, PutsInv
  <2>2. \A k \in Keys : metaAt'[k] # None => log[metaAt'[k]].key = k
    BY <1>1, <2>1
  <2> QED BY <1>1, <2>1, <2>2 DEF PutsInv, PutSize
<1>9. ASSUME damaged' = {} PROVE SizeInv' /\ RoomInv' /\ OrderInv'
  <2>1. SizeInv /\ RoomInv /\ OrderInv
    BY <1>9 DEF IndexInvariant
  <2>2. job \in Job /\ size \in Nat /\ job.removed \in Nat
    BY DEF IndexInvariant, IndexTypes, Job
  <2>3. SizeInv'
    <3>1. size + BytesOf(v) = UsedBytes + job.removed
      BY <1>1, <2>1 DEF SizeInv
    <3>2. size + BytesOf(v)' = UsedBytes' + job.removed
      BY <1>5, <1>6, <2>2, <3>1, Balance
    <3>3. job'.key = v
      BY <1>1
    <3> QED BY <3>2, <3>3 DEF SizeInv, Evicting, Unlinking, Writing, Removing
  <2>4. RoomInv'
    <3>1. UsedBytes + PutSize <= MaxSize + BytesOf(v) /\ PutSize' = PutSize
      BY <1>1, <2>1 DEF RoomInv, PutSize
    <3>2. PutSize \in Nat /\ MaxSize \in Nat
      BY <1>2, PutSizeTypes
    <3>3. UsedBytes' + PutSize' <= MaxSize + BytesOf(v)'
      BY <1>5, <1>6, <3>1, <3>2
    <3>4. job'.key = v
      BY <1>1
    <3> QED BY <3>3, <3>4 DEF RoomInv, Unlinking, Writing
  <2>5. BusyKeys = {v} /\ BusyKeys' = {v}
    BY <1>1 DEF BusyKeys, Busy, Evicting, Unlinking, Writing, Removing
  <2>6. \A i \in 1..Len(order) : order[i] \in Keys
    BY ElementOfSeq DEF IndexInvariant, IndexTypes
  <2>7. Aged(order', BusyKeys', Ages')
    <3>1. Aged(order, {v}, Ages) /\ order' = order /\ order \in Seq(Keys)
      BY <1>1, <2>1, <2>5 DEF OrderInv, IndexInvariant, IndexTypes
    <3>2. \A i \in 1..Len(order) : order[i] \notin {v} => metaAt'[order[i]] = metaAt[order[i]]
      BY <1>1, <2>6
    <3>3. Aged(order, {v}, Ages')
      BY <3>1, <3>2, AgedKeeps
    <3> QED BY <2>5, <3>1, <3>3
  <2>8. OrderInv'
    BY <1>1, <2>1, <2>5, <2>7 DEF OrderInv, Queued, Evicting, Unlinking, Writing
  <2> QED BY <2>3, <2>4, <2>8
<1> QED BY <1>7, <1>8, <1>9 DEF IndexInvariant

\* The steps of write_entry.
LEMMA WriteEntryIndexed ==
    ASSUME IndexInvariant, CreateMeta \/ WriteMeta \/ CreateData \/ WriteData
    PROVE  IndexInvariant'
<1>1. FileInvariant /\ FileInvariant'
  BY CreateMetaHolds, WriteMetaHolds, CreateDataHolds, WriteDataHolds DEF IndexInvariant
<1>2. /\ Writing /\ Writing' /\ InPut
      /\ UNCHANGED <<log, size, order, damaged, faults, earlier>>
  BY DEF CreateMeta, WriteMeta, CreateData, WriteData, Writing, InPut, Replacing, index, ghosts
<1>3. /\ Len(log) \in Puts /\ job.key \in Keys /\ job \in Job
      /\ log[Len(log)].size \in Nat
  BY <1>1, <1>2, OthersApart, PutSizeTypes
     DEF FileInvariant, FileTypes, Writing, IndexInvariant, IndexTypes
<1>4. meta \in [Puts -> File] /\ data \in [Puts -> File]
      /\ metaAt \in [Keys -> Puts \cup {None}] /\ dataAt \in [Keys -> Puts \cup {None}]
  BY <1>1 DEF FileInvariant, FileTypes
<1>5. CASE CreateMeta
  <2>1. Created(metaAt) = Len(log)
    BY <1>1, <1>3, <1>5 DEF CreateMeta, Created, FileInvariant, WriterInv
  <2>2. /\ job' = [job EXCEPT !.file = Len(log)] /\ writer' = "writeMeta"
        /\ metaAt' = [metaAt EXCEPT ![job.key] = Len(log)] /\ dataAt' = dataAt
        /\ meta' = [meta EXCEPT ![Len(log)] = Empty] /\ data' = data
    BY <1>5, <2>1 DEF CreateMeta
  <2>3. job' \in Job /\ job'.key = job.key /\ job'.removed = job.removed
    BY <1>3, <2>2 DEF Job
  <2>4. meta'[Len(log)].len = 0
    BY <1>3, <1>4, <2>2 DEF Empty
  <2> QED BY <1>1, <1>2, <1>3, <1>4, <2>2, <2>3, <2>4, WritesIndexed
<1>6. CASE WriteMeta
  <2>1. /\ writer = "writeMeta" /\ job.file = Len(log)
    BY <1>1, <1>6 DEF WriteMeta, FileInvariant, WriterInv
  <2>2. /\ meta' = [meta EXCEPT ![Len(log)].len = MetaSize] /\ writer' = "createData"
        /\ UNCHANGED <<metaAt, dataAt, data, job>>
    BY <1>6, <2>1 DEF WriteMeta
  <2> QED BY <1>1, <1>2, <1>3, <1>4, <2>2, WritesIndexed
<1>7. CASE CreateData
  <2>1. Created(dataAt) = Len(log)
    BY <1>1, <1>3, <1>7 DEF CreateData, Created, FileInvariant, WriterInv
  <2>2. /\ job' = [job EXCEPT !.file = Len(log)] /\ writer' = "writeData"
        /\ dataAt' = [dataAt EXCEPT ![job.key] = Len(log)] /\ metaAt' = metaAt
        /\ data' = [data EXCEPT ![Len(log)] = Empty] /\ meta' = meta
    BY <1>7, <2>1 DEF CreateData
  <2>3. job' \in Job /\ job'.key = job.key /\ job'.removed = job.removed
    BY <1>3, <2>2 DEF Job
  <2>4. data'[Len(log)].len <= log[Len(log)].size
    BY <1>3, <1>4, <2>2 DEF Empty
  <2> QED BY <1>1, <1>2, <1>3, <1>4, <2>2, <2>3, <2>4, WritesIndexed
<1>8. CASE WriteData
  <2>1. writer = "writeData" /\ job.file = Len(log)
    BY <1>1, <1>8 DEF WriteData, FileInvariant, WriterInv
  <2>2. /\ data' = [data EXCEPT ![Len(log)].len = @ + 1] /\ writer' = writer
        /\ data[Len(log)].len < log[Len(log)].size
        /\ UNCHANGED <<metaAt, dataAt, meta, job>>
    BY <1>8, <2>1 DEF WriteData
  <2>3. data'[Len(log)].len <= log[Len(log)].size
    BY <1>3, <1>4, <2>2 DEF File
  <2> QED BY <1>1, <1>2, <1>3, <1>4, <2>1, <2>2, <2>3, WritesIndexed
<1> QED BY <1>5, <1>6, <1>7, <1>8

-----------------------------------------------------------------------------
(* The end of a put.                                                       *)

\* A sequence with one more element, that is new to it and goes behind it.
LEMMA AppendKeeps ==
    ASSUME NEW S, NEW s \in Seq(S), NEW e \in S, Distinct(s),
           \A i \in 1..Len(s) : s[i] # e,
           NEW B, NEW R, Aged(s, B, R),
           \A i \in 1..Len(s) : s[i] \notin B => <<s[i], e>> \in R
    PROVE  Distinct(Append(s, e)) /\ Aged(Append(s, e), B, R)
<1> DEFINE t == Append(s, e)
<1>1. /\ Len(s) \in Nat /\ Len(t) = Len(s) + 1 /\ t[Len(s) + 1] = e
      /\ \A i \in 1..Len(s) : t[i] = s[i]
  BY AppendProperties
<1> HIDE DEF t
<1>2. \A i \in 1..Len(t) : i \in 1..Len(s) \/ i = Len(s) + 1
  BY <1>1
<1>3. Distinct(t)
  BY <1>1, <1>2 DEF Distinct
<1>4. Aged(t, B, R)
  <2> SUFFICES ASSUME NEW i \in 1..Len(t), NEW j \in 1..Len(t), i < j, t[i] \notin B, t[j] \notin B
               PROVE  <<t[i], t[j]>> \in R
    BY DEF Aged
  <2>1. i \in 1..Len(s) /\ t[i] = s[i]
    BY <1>1, <1>2
  <2>2. CASE j = Len(s) + 1
    BY <1>1, <2>1, <2>2
  <2>3. CASE j \in 1..Len(s)
    BY <1>1, <2>1, <2>3 DEF Aged
  <2> QED BY <1>2, <2>2, <2>3
<1> QED BY <1>3, <1>4 DEF t

\* The entry is counted and is the youngest.
LEMMA PutDoneIndexed ==
    ASSUME IndexInvariant, PutDone
    PROVE  IndexInvariant'
<1>1. /\ FileInvariant /\ FileInvariant' /\ Writing /\ InPut
      /\ order \in Seq(Keys) /\ job \in Job /\ size \in Nat
  BY CallEndsHolds DEF PutDone, Writing, InPut, Replacing, IndexInvariant, IndexTypes
<1>2. PICK v \in Keys : v = job.key
  BY <1>1 DEF FileInvariant, FileTypes, Writing
<1>3. /\ writer = "writeData" /\ writer' = "idle" /\ job' = NoJob
      /\ data[job.file].len = log[Len(log)].size
      /\ size' = Monus(size, job.removed) + PutSize /\ order' = Append(order, v)
      /\ UNCHANGED <<log, metaAt, dataAt, meta, data, damaged, faults, earlier>>
  BY <1>2 DEF PutDone, files, ghosts
<1>4. /\ PutSize \in Nat /\ PutSize = MetaSize + log[Len(log)].size
      /\ Len(log) \in Puts /\ job.removed \in Nat /\ job.file = Len(log)
  BY <1>1, <1>3, PutSizeTypes, OthersApart DEF Job, FileInvariant, WriterInv
<1>5. IndexTypes'
  <2>1. size' \in Nat
    <3>1. Monus(size, job.removed) \in Nat
      BY <1>1, <1>4 DEF Monus
    <3> QED BY <1>3, <1>4, <3>1
  <2>2. order' \in Seq(Keys)
    BY <1>1, <1>3, AppendProperties
  <2>3. job' \in Job
    BY <1>3 DEF NoJob, Job
  <2> QED BY <1>3, <2>1, <2>2, <2>3 DEF IndexInvariant, IndexTypes, Evicting
<1>6. PutsInv'
  BY <1>3 DEF IndexInvariant, PutsInv, InPut, Replacing
<1>7. ASSUME damaged' = {} PROVE SizeInv' /\ RoomInv' /\ OrderInv'
  <2>1. SizeInv /\ OrderInv /\ damaged = {}
    BY <1>3, <1>7 DEF IndexInvariant
  <2>2. BytesOf(v) = PutSize
    BY <1>1, <1>2, <1>3, <1>4, <2>1, OwnBytes
  <2>3. size + BytesOf(v) = UsedBytes + job.removed
    BY <1>1, <1>2, <2>1 DEF SizeInv
  <2>4. UsedBytes \in Nat /\ BytesOf(v) <= UsedBytes /\ UsedBytes' = UsedBytes
    BY <1>1, <1>3, UsedTypes, UsedStays
  <2>5. size' = UsedBytes
    <3>1. PICK r \in Nat, b \in Nat, u \in Nat, n \in Nat :
            r = job.removed /\ b = BytesOf(v) /\ u = UsedBytes /\ n = size
      BY <1>1, <1>4, <2>2, <2>4
    <3>2. n + b = u + r /\ b <= u
      BY <2>3, <2>4, <3>1
    <3>3. Monus(n, r) + b = u
      BY <3>2, CountedAgain
    <3> QED BY <1>3, <2>2, <3>1, <3>3
  <2>6. SizeInv' /\ RoomInv'
    BY <1>3, <2>4, <2>5 DEF SizeInv, RoomInv, Evicting, Unlinking, Writing, Removing
  <2>7. BusyKeys = {v} /\ BusyKeys' = {}
    BY <1>2, <1>3 DEF BusyKeys, Busy, Evicting, Unlinking, Writing, Removing
  <2>8. v \notin Queued
    BY <1>1, <1>2, <2>1 DEF OrderInv
  <2>9. metaAt[v] = Len(log) /\ Len(log) # None
    BY <1>1, <1>2, <1>3, <2>1, OthersApart DEF FileInvariant, WriterInv
  <2>10. ASSUME NEW i \in 1..Len(order)
         PROVE  order[i] # v /\ <<order[i], v>> \in Ages'
    <3>1. PICK k \in Keys : k = order[i]
      BY <1>1, ElementOfSeq
    <3>2. k \in Queued /\ k # v
      BY <2>8, <3>1 DEF Queued
    <3>3. metaAt[k] # None
      BY <2>1, <2>7, <3>2 DEF OrderInv
    <3>4. metaAt[k] \in Puts /\ metaAt[k] <= Len(log) /\ metaAt[k] # Len(log)
      BY <1>1, <1>2, <3>2, <3>3, OthersApart DEF FileInvariant, FileTypes, NamesInv
    <3>5. metaAt[k] < Len(log)
      <4>1. metaAt[k] \in Nat /\ Len(log) \in Nat
        BY <1>4, <3>4, Numbers
      <4> QED BY <3>4, <4>1
    <3>6. Older(metaAt[k], metaAt[v])'
      BY <1>3, <2>9, <3>5 DEF Older
    <3> QED BY <3>1, <3>2, <3>6 DEF Ages
  <2>11. Distinct(order') /\ Aged(order', {}, Ages')
    <3>1. Distinct(order) /\ Aged(order, {}, Ages')
      <4>1. \A i \in 1..Len(order) : order[i] \notin {} => order[i] \notin {v}
        BY <2>10
      <4>2. Distinct(order) /\ Aged(order, {v}, Ages)
        BY <2>1, <2>7 DEF OrderInv
      <4> QED BY <1>1, <1>3, <4>1, <4>2, AgedKeeps
    <3> QED BY <1>1, <1>3, <2>10, <3>1, AppendKeeps
  <2>12. \A k : k \in Queued' <=> k \in Queued \/ k = v
    <3>1. /\ Len(order) \in Nat /\ Len(order') = Len(order) + 1 /\ order'[Len(order) + 1] = v
          /\ \A i \in 1..Len(order) : order'[i] = order[i]
      BY <1>1, <1>3, AppendProperties
    <3>2. \A i : i \in 1..Len(order') <=> i \in 1..Len(order) \/ i = Len(order) + 1
      BY <3>1
    <3>3. \A k : k \in Queued <=> \E i \in 1..Len(order) : order[i] = k
      BY DEF Queued
    <3>4. \A k : k \in Queued' <=> \E i \in 1..Len(order') : order'[i] = k
      BY DEF Queued
    <3> QED BY <3>1, <3>2, <3>3, <3>4
  <2>13. OrderInv'
    BY <1>3, <2>1, <2>7, <2>9, <2>11, <2>12 DEF OrderInv, Evicting, Unlinking, Writing
  <2> QED BY <2>6, <2>13
<1> QED BY <1>1, <1>5, <1>6, <1>7 DEF IndexInvariant

-----------------------------------------------------------------------------
(* A restart.                                                              *)

\* The .meta files that have a name were written by the puts they are named by.
LEMMA WrittenIs ==
    ASSUME FileInvariant
    PROVE  /\ IsFiniteSet(Listed)
           /\ \A k \in Listed :
                 /\ meta[metaAt[k]].of = metaAt[k] /\ metaAt[k] \in 1..Len(log)
                 /\ Written(k) = log[metaAt[k]].time /\ Written(k) \in Nat
<1>1. IsFiniteSet(Listed)
  BY KeysAssumption, FS_Subset DEF Listed
<1>2. ASSUME NEW k \in Listed
      PROVE  meta[metaAt[k]].of = metaAt[k] /\ metaAt[k] \in 1..Len(log)
  <2>1. k \in Keys /\ metaAt[k] \in Puts
    BY DEF Listed, FileInvariant, FileTypes
  <2> QED BY <2>1, NamedPuts DEF Listed, FileInvariant, NamesInv
<1>3. ASSUME NEW k \in Listed
      PROVE  Written(k) = log[metaAt[k]].time /\ Written(k) \in Nat
  <2>1. log[metaAt[k]] \in [key : Keys, size : Sizes, time : Times]
    BY <1>2, ElementOfSeq DEF FileInvariant, FileTypes
  <2> QED BY <1>2, <2>1, SizesAssumption DEF Written
<1> QED BY <1>1, <1>2, <1>3

\* What the scan of the directory puts in the order.
LEMMA ScanLists ==
    ASSUME FileInvariant, NEW s \in OldestFirst
    PROVE  /\ s \in Seq(Keys) /\ s \in [1..Len(s) -> Listed] /\ ToSet(s) = Listed
           /\ Distinct(s)
           /\ \A i, j \in 1..Len(s) : i < j => Written(s[i]) <= Written(s[j])
<1>1. IsFiniteSet(Listed) /\ Listed \subseteq Keys
  BY WrittenIs DEF Listed
<1>2. s \in SetToSeqs(Listed) /\ \A i, j \in DOMAIN s : i < j => Written(s[i]) <= Written(s[j])
  BY DEF OldestFirst
<1>3. /\ s \in Seq(Listed) /\ s \in [1..Len(s) -> Listed] /\ ToSet(s) = Listed
      /\ \A i, j \in 1..Len(s) : s[i] = s[j] => i = j
  BY <1>1, <1>2, ListingIs
<1>4. s \in Seq(Keys)
  BY <1>1, <1>3
<1>5. \A i \in 1..Len(s) : s[i] \in Listed /\ i \in DOMAIN s
  BY <1>3
<1>6. \A i, j \in 1..Len(s) : i < j => Written(s[i]) <= Written(s[j])
  BY <1>2, <1>5
<1> QED BY <1>3, <1>4, <1>6 DEF Distinct

\* The scan counts all files that have a name, unless a .data file is alone.
LEMMA ScanCounts ==
    ASSUME FileInvariant, \A k \in Keys : Intact(k)
    PROVE  SumFunction([k \in Listed |-> BytesOf(k)]) = UsedBytes
<1> DEFINE f == [k \in Keys |-> BytesOf(k)]
           g == [k \in Listed |-> BytesOf(k)]
<1>1. IsFiniteSet(Listed) /\ Listed \in SUBSET Keys
  BY WrittenIs DEF Listed
<1>2. \A k \in Keys : f[k] \in Nat
  BY BytesTypes
<1>3. \A k \in Keys \ Listed : f[k] = 0
  BY DEF Listed, Intact, BytesOf, MetaLen, DataLen
<1>4. \A k \in Listed : f[k] \in Nat /\ f[k] = g[k]
  BY <1>1, <1>2
<1>5. UsedBytes = SumFunctionOnSet(f, Keys)
  BY UsedIsSum
<1>6. DOMAIN g = Listed
  OBVIOUS
<1> HIDE DEF f, g
<1>7. SumFunctionOnSet(f, Keys) = SumFunctionOnSet(f, Listed)
  BY <1>1, <1>2, <1>3, SumLeavesOut, KeysAssumption
<1>8. SumFunctionOnSet(f, Listed) = SumFunctionOnSet(g, Listed)
  BY <1>1, <1>4, SumAgrees
<1>9. SumFunction(g) = SumFunctionOnSet(g, Listed)
  BY <1>6 DEF SumFunction
<1> QED BY <1>5, <1>7, <1>8, <1>9 DEF g

\* It counts a number of bytes in any case.
LEMMA ScanCountsBytes ==
    ASSUME FileInvariant
    PROVE  SumFunction([k \in Listed |-> BytesOf(k)]) \in Nat
<1> DEFINE g == [k \in Listed |-> BytesOf(k)]
<1>1. IsFiniteSet(Listed) /\ Listed \subseteq Keys
  BY WrittenIs DEF Listed
<1>2. \A k \in Listed : g[k] \in Nat /\ g[k] = g[k]
  BY <1>1, BytesTypes
<1>3. DOMAIN g = Listed
  OBVIOUS
<1> HIDE DEF g
<1>4. SumFunctionOnSet(g, Listed) \in Nat
  BY <1>1, <1>2, SumAgrees
<1> QED BY <1>3, <1>4 DEF SumFunction, g

\* The rebuilt index describes the files if they are all intact.
LEMMA RestartIndexed ==
    ASSUME IndexInvariant, Restart
    PROVE  IndexInvariant'
<1>1. FileInvariant /\ FileInvariant' /\ faults \in 0..MaxFaults
  BY RestartHolds DEF IndexInvariant, IndexTypes
<1>2. PICK s \in OldestFirst : order' = s
  BY DEF Restart
<1>3. /\ UNCHANGED <<log, metaAt, dataAt, meta, data>>
      /\ writer' = "idle" /\ job' = NoJob
      /\ size' = SumFunction([k \in Listed |-> BytesOf(k)])
      /\ damaged' = {k \in Keys : ~Intact(k)} /\ faults' \in 0..MaxFaults
      /\ earlier' = Len(log)
  BY <1>1, SizesAssumption DEF Restart, files
<1>4. /\ s \in Seq(Keys) /\ ToSet(s) = Listed /\ Distinct(s)
      /\ s \in [1..Len(s) -> Listed]
      /\ \A i, j \in 1..Len(s) : i < j => Written(s[i]) <= Written(s[j])
  BY <1>1, ScanLists
<1>5. IndexTypes'
  <2>1. earlier' \in 0..MaxPuts /\ earlier' <= Len(log')
    <3>1. Len(log) \in Nat /\ Len(log) <= MaxPuts /\ MaxPuts \in Nat
      BY <1>1, LenProperties, Numbers DEF FileInvariant, FileTypes
    <3> QED BY <1>3, <3>1
  <2> QED BY <2>1, <1>1, <1>2, <1>3, <1>4, ScanCountsBytes DEF IndexTypes, NoJob, Job, Evicting
<1>6. PutsInv'
  BY <1>3 DEF IndexInvariant, PutsInv, InPut, Replacing
<1>7. ASSUME damaged' = {} PROVE SizeInv' /\ RoomInv' /\ OrderInv'
  <2>1. \A k \in Keys : Intact(k)
    BY <1>3, <1>7
  <2>2. size' = UsedBytes'
    BY <1>1, <1>3, <2>1, ScanCounts, UsedStays
  <2>3. SizeInv' /\ RoomInv'
    BY <1>3, <2>2 DEF SizeInv, RoomInv, Evicting, Unlinking, Writing, Removing
  <2>4. BusyKeys' = {}
    BY <1>3 DEF BusyKeys, Busy, Evicting, Unlinking, Writing, Removing
  <2>5. Aged(order', BusyKeys', Ages')
    <3> SUFFICES ASSUME NEW i \in 1..Len(s), NEW j \in 1..Len(s), i < j
                 PROVE  <<s[i], s[j]>> \in Ages'
      BY <1>2 DEF Aged
    <3>1. PICK g \in Listed, h \in Listed : g = s[i] /\ h = s[j]
      BY <1>4
    <3>2. Written(g) <= Written(h)
      BY <1>4, <3>1
    <3>3. /\ metaAt[g] \in 1..Len(log) /\ metaAt[h] \in 1..Len(log)
          /\ log[metaAt[g]].time <= log[metaAt[h]].time
      BY <1>1, <3>2, WrittenIs
    <3>4. Older(metaAt[g], metaAt[h])'
      BY <1>3, <3>3 DEF Older
    <3>5. g \in Keys /\ h \in Keys
      BY DEF Listed
    <3> QED BY <3>1, <3>4, <3>5 DEF Ages
  <2>6. \A k \in Keys : k \in Queued' <=> metaAt[k] # None
    <3>1. \A k : k \in Queued' <=> \E i \in 1..Len(s) : s[i] = k
      BY <1>2 DEF Queued
    <3>2. \A k : k \in ToSet(s) <=> \E i \in 1..Len(s) : s[i] = k
      BY <1>4 DEF ToSet
    <3> QED BY <1>4, <3>1, <3>2 DEF Listed
  <2>7. OrderInv'
    BY <1>2, <1>3, <1>4, <2>4, <2>5, <2>6 DEF OrderInv, Evicting, Unlinking, Writing
  <2> QED BY <2>3, <2>7
<1> QED BY <1>1, <1>5, <1>6, <1>7 DEF IndexInvariant

-----------------------------------------------------------------------------
(* The theorems.                                                           *)

\* Every step of put, remove, get and restart keeps the invariant.
LEMMA IndexStepHolds == IndexInvariant /\ [Next]_vars => IndexInvariant'
<1> SUFFICES ASSUME IndexInvariant, [Next]_vars PROVE IndexInvariant'
  OBVIOUS
<1>1. FileInvariant'
  BY StepHolds DEF IndexInvariant
<1>2. UNCHANGED <<log, files, index, writer, job, ghosts>> => IndexInvariant'
  BY <1>1, GetsLeaveIndex
<1>3. CASE UNCHANGED vars
  BY <1>2, <1>3 DEF vars
<1>4. CASE PutStep
  BY <1>1, <1>4, PutStartIndexed, EvictPopIndexed, UnlinkMetaIndexed, UnlinkDataIndexed,
     EvictDoneIndexed, WriteEntryIndexed, PutDoneIndexed, DamageIndexed DEF PutStep
<1>5. CASE RemoveStep
  <2>1. CASE \E k \in Keys : RemoveStart(k)
    BY <2>1, RemoveStartIndexed
  <2>2. CASE RemoveMeta \/ RemoveData
    BY <2>2, UnlinkMetaIndexed, UnlinkDataIndexed
  <2>3. CASE RemoveDropped \/ DetachedUnlink
    <3>1. WriteFails \/ RemoveDropped \/ DetachedUnlink
      BY <2>3
    <3> QED BY <1>1, <3>1, DamageIndexed
  <2> QED BY <1>5, <2>1, <2>2, <2>3 DEF RemoveStep
<1>6. ASSUME NEW r \in Readers, GetStep(r) PROVE IndexInvariant'
  BY <1>2, <1>6 DEF GetStep, OpenMeta, OpenData, ReadMeta, ReadData, GetEnds
<1>7. CASE Restart
  BY <1>7, RestartIndexed
<1> QED BY <1>3, <1>4, <1>5, <1>6, <1>7 DEF Next

\* Every state satisfies the invariant.
THEOREM IndexInvariance == Spec => []IndexInvariant
BY InitIndexed, IndexStepHolds, PTL DEF Spec

\* Every variable has its type in every state.
THEOREM DiskTypesCorrect == Spec => []TypeOK
<1>1. IndexInvariant => TypeOK
  BY DEF IndexInvariant, IndexTypes, FileInvariant, FileTypes, GetTypes, TypeOK
<1> QED BY <1>1, IndexInvariance, PTL

\* Between calls, while nothing has been damaged since the start, the size in
\* use is that of the files and the order names each stored entry once.
THEOREM IndexCorrect == Spec => []IndexMatchesFiles
<1>1. IndexInvariant => IndexMatchesFiles
  <2> SUFFICES ASSUME IndexInvariant, writer = "idle", damaged = {}
               PROVE  /\ size = UsedBytes
                      /\ ToSet(order) = {k \in Keys : BytesOf(k) > 0}
                      /\ \A i, j \in 1..Len(order) : order[i] = order[j] => i = j
    BY DEF IndexMatchesFiles
  <2>1. SizeInv /\ OrderInv /\ order \in Seq(Keys) /\ FileInvariant
    BY DEF IndexInvariant, IndexTypes
  <2>2. BusyKeys = {}
    BY DEF BusyKeys, Busy, Evicting, Unlinking, Writing, Removing
  <2>3. \A k \in Keys : k \in Queued <=> BytesOf(k) > 0
    <3>1. TAKE k \in Keys
    <3>2. ~Changing(k)
      BY DEF Changing
    <3>3. metaAt[k] # None <=> BytesOf(k) > 0
      BY <3>2, ListedIsStored
    <3> QED BY <2>1, <2>2, <3>3 DEF OrderInv
  <2>4. ToSet(order) = Queued /\ Queued \subseteq Keys
    BY <2>1, ElementOfSeq DEF ToSet, Queued
  <2> QED BY <2>1, <2>3, <2>4 DEF SizeInv, OrderInv, Distinct
<1> QED BY <1>1, IndexInvariance, PTL

\* What bounds the files.
LEMMA LimitHolds == IndexInvariant => FilesWithinLimit
<1> SUFFICES ASSUME IndexInvariant, damaged = {}, size <= MaxSize \/ writer \in Replacing
             PROVE  UsedBytes <= MaxSize
  BY DEF FilesWithinLimit
<1>1. /\ SizeInv /\ RoomInv /\ FileInvariant /\ UsedBytes \in Nat
      /\ size \in Nat /\ job \in Job /\ MaxSize \in Nat
  BY UsedTypes, SizesAssumption DEF IndexInvariant, IndexTypes
<1>2. CASE Unlinking
  <2>1. PutSize \in Nat /\ UsedBytes + PutSize <= MaxSize
    BY <1>1, <1>2, PutSizeTypes DEF RoomInv, Unlinking, InPut, Replacing
  <2> QED BY <1>1, <2>1
<1>3. CASE Writing
  <2>1. PutSize \in Nat /\ UsedBytes + PutSize <= MaxSize + BytesOf(job.key)
    BY <1>1, <1>3, PutSizeTypes DEF RoomInv, Writing, InPut, Replacing
  <2>2. BytesOf(job.key) \in Nat /\ BytesOf(job.key) <= PutSize
    <3>1. /\ PutSize = MetaSize + log[Len(log)].size /\ MetaSize \in Nat
          /\ log[Len(log)].size \in Nat
      BY <1>1, <1>3, PutSizeTypes, Numbers DEF Writing, InPut, Replacing
    <3>2. data[Len(log)].len \in Nat
      BY <1>1, <1>3, OwnBytes DEF FileInvariant, FileTypes, File
    <3>3. writer = "writeData" => data[Len(log)].len <= log[Len(log)].size
      BY DEF IndexInvariant, PutsInv
    <3> QED BY <1>3, <3>1, <3>2, <3>3, OwnBytes DEF Writing
  <2> QED BY <1>1, <2>1, <2>2
<1>4. CASE ~Unlinking /\ ~Writing
  <2>1. size <= MaxSize
    BY <1>4 DEF Unlinking, Writing, Replacing
  <2>2. UsedBytes <= size
    <3>1. CASE writer = "idle"
      BY <1>1, <3>1 DEF SizeInv
    <3>2. CASE writer = "evict"
      <4>1. size = UsedBytes + job.freed /\ job.freed \in Nat
        BY <1>1, <3>2 DEF SizeInv, Job
      <4> QED BY <1>1, <4>1
    <3>3. CASE Evicting
      <4>1. PICK b \in Nat, r \in Nat : b = BytesOf(job.victim) /\ r = job.freed
        BY <1>1, <3>3, BytesTypes DEF IndexInvariant, IndexTypes, Job
      <4>2. size + b = UsedBytes + r /\ b <= r
        BY <1>1, <3>3, <4>1 DEF SizeInv
      <4> QED BY <1>1, <4>2
    <3>4. CASE Removing
      <4>1. PICK b \in Nat, r \in Nat : b = BytesOf(job.key) /\ r = job.removed
        BY <1>1, <3>4, BytesTypes DEF FileInvariant, FileTypes, Removing, Job
      <4>2. size + b = UsedBytes + r /\ b <= r
        BY <1>1, <3>4, <4>1 DEF SizeInv
      <4> QED BY <1>1, <4>2
    <3>5. writer \in WriterState
      BY <1>1 DEF FileInvariant, FileTypes
    <3> QED BY <1>4, <3>1, <3>2, <3>3, <3>4, <3>5
           DEF WriterState, Replacing, Unlinking, Writing, Evicting, Removing
  <2> QED BY <1>1, <2>1, <2>2
<1> QED BY <1>2, <1>3, <1>4

\* max_size bounds the files of an undamaged cache once a put has made room, and
\* as long as the counted size is within it.
THEOREM LimitKept == Spec => []FilesWithinLimit
BY LimitHolds, IndexInvariance, PTL

\* If the clock went on from put to put, a sequence that is in the order of the
\* times, or that no younger entry precedes, is in the order of the puts.
LEMMA AscendsByPut ==
    ASSUME IndexInvariant, ClockWentOn, NEW s, NEW n \in Nat, s \in [1..n -> Listed],
           \A i, j \in 1..n : s[i] = s[j] => i = j,
           \A i, j \in 1..n : i < j =>
              Older(metaAt[s[i]], metaAt[s[j]]) \/ Written(s[i]) <= Written(s[j])
    PROVE  Ascends(s, n, metaAt)
<1> SUFFICES ASSUME NEW i \in 1..n, NEW j \in 1..n, i < j
             PROVE  metaAt[s[i]] < metaAt[s[j]]
  BY DEF Ascends
<1>1. PICK g \in Listed, h \in Listed : g = s[i] /\ h = s[j] /\ g # h
  OBVIOUS
<1>2. FileInvariant /\ PutsInv /\ g \in Keys /\ h \in Keys
  BY DEF IndexInvariant, Listed
<1>3. /\ meta[metaAt[g]].of = metaAt[g] /\ meta[metaAt[h]].of = metaAt[h]
      /\ Written(g) = log[metaAt[g]].time /\ Written(h) = log[metaAt[h]].time
      /\ Written(g) \in Nat /\ Written(h) \in Nat
      /\ metaAt[g] \in 1..Len(log) /\ metaAt[h] \in 1..Len(log)
  BY <1>2, WrittenIs
<1>4. metaAt[g] # metaAt[h]
  <2>1. log[metaAt[g]].key = g /\ log[metaAt[h]].key = h
    BY <1>2 DEF PutsInv, Listed
  <2> QED BY <1>1, <2>1
<1>5. PICK p \in Nat, q \in Nat, t \in Nat, u \in Nat :
        p = metaAt[g] /\ q = metaAt[h] /\ t = Written(g) /\ u = Written(h)
  BY <1>3
<1>6. p < q \/ t <= u
  BY <1>1, <1>3, <1>5 DEF Older
<1>7. q < p => u < t
  BY <1>3, <1>5 DEF ClockWentOn
<1>8. p < q
  BY <1>4, <1>5, <1>6, <1>7
<1> QED BY <1>1, <1>5, <1>8

\* A restart of an undamaged cache at rest gives back the size and the keys of
\* the order, each once, and the order itself if the clock tells the puts apart.
THEOREM RestartGivesBack == Spec => RestartKeepsIndex
<1> DEFINE Back ==
      Restart /\ writer = "idle" /\ damaged = {} =>
          /\ size' = size
          /\ ToSet(order') = ToSet(order) /\ Len(order') = Len(order)
          /\ ClockWentOn => order' = order
<1>1. ASSUME IndexInvariant, Restart, writer = "idle", damaged = {}
      PROVE  /\ size' = size
             /\ ToSet(order') = ToSet(order) /\ Len(order') = Len(order)
             /\ ClockWentOn => order' = order
  <2>1. SizeInv /\ OrderInv /\ order \in Seq(Keys) /\ FileInvariant
    BY <1>1 DEF IndexInvariant, IndexTypes
  <2>2. PICK s \in OldestFirst : order' = s
    BY <1>1 DEF Restart
  <2>3. size' = size
    <3>1. \A k \in Keys : Intact(k)
      BY <1>1, <2>1 DEF FileInvariant, EntriesInv, Changing
    <3>2. size' = UsedBytes
      BY <1>1, <2>1, <3>1, ScanCounts DEF Restart
    <3> QED BY <1>1, <2>1, <3>2 DEF SizeInv
  <2>4. /\ s \in [1..Len(s) -> Listed] /\ ToSet(s) = Listed /\ Distinct(s)
        /\ \A i, j \in 1..Len(s) : i < j => Written(s[i]) <= Written(s[j])
        /\ Len(s) \in Nat /\ s \in Seq(Keys)
    BY <2>1, ScanLists
  <2>5. BusyKeys = {}
    BY <1>1 DEF BusyKeys, Busy, Evicting, Unlinking, Writing, Removing
  <2>6. \A k \in Keys : k \in Listed <=> \E i \in 1..Len(order) : order[i] = k
    BY <2>1, <2>5 DEF OrderInv, Queued, Listed
  <2>7. order \in [1..Len(order) -> Listed] /\ Len(order) \in Nat
    <3>1. \A i \in 1..Len(order) : order[i] \in Keys /\ order[i] \in Listed
      BY <2>1, <2>6, ElementOfSeq
    <3>2. order \in [1..Len(order) -> Keys] /\ Len(order) \in Nat
      BY <2>1
    <3> QED BY <3>1, <3>2
  <2>8. \A k : k \in Listed <=> \E i \in 1..Len(s) : s[i] = k
    BY <2>4 DEF ToSet
  <2>9. Listed \subseteq Keys
    BY DEF Listed
  <2>10. ToSet(order) = Listed
    BY <2>6, <2>7, <2>9 DEF ToSet
  <2>11. Cardinality(Listed) = Len(order)
    BY <2>1, <2>6, <2>7, <2>9, ListingLength DEF OrderInv, Distinct
  <2>12. Cardinality(Listed) = Len(s)
    BY <2>4, <2>8, ListingLength DEF Distinct
  <2>13. ASSUME ClockWentOn PROVE order = s
    <3>1. Ascends(s, Len(s), metaAt)
      BY <1>1, <2>4, <2>13, AscendsByPut DEF Distinct
    <3>2. \A i, j \in 1..Len(order) : i < j => Older(metaAt[order[i]], metaAt[order[j]])
      BY <2>1, <2>5 DEF OrderInv, Aged, Ages
    <3>3. Ascends(order, Len(order), metaAt)
      BY <1>1, <2>1, <2>7, <2>13, <3>2, AscendsByPut DEF OrderInv, Distinct
    <3>4. Among(order, Len(order), s, Len(s)) /\ Among(s, Len(s), order, Len(order))
      BY <2>4, <2>6, <2>7, <2>8, <2>9 DEF Among
    <3>5. \A k \in Listed : metaAt[k] \in Nat
      BY <2>1, WrittenIs
    <3> QED BY <2>4, <2>7, <3>1, <3>3, <3>4, <3>5, AscendingUnique
  <2> QED BY <2>2, <2>3, <2>4, <2>10, <2>11, <2>12, <2>13
<1>2. IndexInvariant /\ [Next]_vars => [Back]_vars
  BY <1>1
<1> QED BY <1>2, IndexInvariance, PTL DEF Spec, RestartKeepsIndex

-----------------------------------------------------------------------------
(* The refinement of EntryStore: what it needs beside the index.           *)

\* A steady get holds metadata that is complete.
SteadyInv ==
    \A r \in Readers :
        read[r].steady =>
            /\ reader[r] \in {"open", "metaRead", "answered"}
            /\ meta[read[r].meta].len = MetaSize

\* An entry is evicted for want of room, and it is the oldest one.
VictimInv ==
    writer = "evictMeta" =>
        /\ UsedBytes + PutSize > MaxSize
        /\ metaAt[job.victim] # None
        /\ \A k \in Keys : metaAt[k] # None =>
              k = job.victim \/ Older(metaAt[job.victim], metaAt[k])

\* A put writes its body to its own file, even if a name of it is lost.
BodyInv == writer = "writeData" => dataAt[job.key] \in {None, Len(log)}

StoreInvariant ==
    IndexInvariant /\ SteadyInv /\ BodyInv /\ (damaged = {} => VictimInv)

LEMMA InitSteady == Init => SteadyInv /\ BodyInv /\ VictimInv
BY DEF Init, NoRead, SteadyInv, BodyInv, VictimInv

\* A step of put, of remove or of the blocking pool leaves the gets alone and
\* writes to no file but the one of its put.
OthersMetaRests == \A f \in Puts : meta'[f] # meta[f] => InPut /\ f = Len(log)

LEMMA WriterSteps ==
    ASSUME FileInvariant, PutStep \/ RemoveStep
    PROVE  UNCHANGED <<reader, read>> /\ OthersMetaRests
<1>1. UNCHANGED <<reader, read>>
  BY DEF PutStep, RemoveStep, PutStart, EvictPop, EvictMeta, EvictData, EvictDone,
         UnlinkMeta, UnlinkData, CreateMeta, WriteMeta, CreateData, WriteData, PutDone,
         WriteFails, RemoveStart, RemoveMeta, RemoveData, RemoveDropped, DetachedUnlink, gets
<1>2. ASSUME CreateMeta PROVE OthersMetaRests
  <2>1. Created(metaAt) = Len(log) /\ InPut
    BY <1>2 DEF CreateMeta, Created, InPut, Replacing, FileInvariant, WriterInv
  <2> QED BY <1>2, <2>1 DEF CreateMeta, FileInvariant, FileTypes, OthersMetaRests
<1>3. ASSUME WriteMeta PROVE OthersMetaRests
  <2>1. job.file = Len(log) /\ InPut
    BY <1>3 DEF WriteMeta, InPut, Replacing, FileInvariant, WriterInv
  <2> QED BY <1>3, <2>1 DEF WriteMeta, FileInvariant, FileTypes, OthersMetaRests
<1>4. ASSUME ~CreateMeta, ~WriteMeta PROVE OthersMetaRests
  <2>1. meta' = meta
    BY <1>4
       DEF PutStep, RemoveStep, PutStart, EvictPop, EvictMeta, EvictData, EvictDone,
           UnlinkMeta, UnlinkData, CreateData, WriteData, PutDone, WriteFails,
           RemoveStart, RemoveMeta, RemoveData, RemoveDropped, DetachedUnlink, files
  <2> QED BY <2>1 DEF OthersMetaRests
<1> QED BY <1>1, <1>2, <1>3, <1>4

\* What steady gets hold stays complete.
LEMMA SteadyKept == FileInvariant /\ SteadyInv /\ [Next]_vars => SteadyInv'
<1> SUFFICES ASSUME FileInvariant, SteadyInv, [Next]_vars PROVE SteadyInv'
  OBVIOUS
<1>1. CASE PutStep \/ RemoveStep
  <2> SUFFICES ASSUME NEW r \in Readers, read'[r].steady
               PROVE  /\ reader'[r] \in {"open", "metaRead", "answered"}
                      /\ meta'[read'[r].meta].len = MetaSize
    BY DEF SteadyInv
  <2>1. /\ UNCHANGED <<reader, read>>
        /\ \A f \in Puts : meta'[f] # meta[f] => InPut /\ f = Len(log)
    BY <1>1, WriterSteps DEF OthersMetaRests
  <2>2. read[r].meta \in Puts /\ (InPut => read[r].meta # Len(log))
    BY <2>1 DEF FileInvariant, ReadersInv
  <2> QED BY <2>1, <2>2 DEF SteadyInv
<1>2. ASSUME NEW r \in Readers, GetStep(r) PROVE SteadyInv'
  <2> SUFFICES ASSUME NEW s \in Readers, read'[s].steady
               PROVE  /\ reader'[s] \in {"open", "metaRead", "answered"}
                      /\ meta'[read'[s].meta].len = MetaSize
    BY DEF SteadyInv
  <2>1. meta' = meta /\ reader \in [Readers -> ReaderState] /\ read \in [Readers -> Read]
    BY <1>2 DEF GetStep, OpenMeta, OpenData, ReadMeta, ReadData, GetEnds, files,
                FileInvariant, GetTypes
  <2>2. CASE s # r
    BY <1>2, <2>1, <2>2 DEF GetStep, OpenMeta, OpenData, ReadMeta, ReadData, GetEnds, SteadyInv
  <2>3. CASE s = r
    <3>1. CASE OpenData(r)
      <4>1. PICK k \in Keys : k = read[r].key
        BY <3>1 DEF OpenData, FileInvariant, GetTypes
      <4>2. /\ reader'[r] = "open" /\ read'[r].meta = read[r].meta
            /\ Quiet(k) /\ metaAt[k] = read[r].meta /\ dataAt[k] # None
        BY <2>1, <2>3, <3>1, <4>1 DEF OpenData, Read
      <4>3. Intact(k)
        BY <4>2 DEF Quiet, FileInvariant, EntriesInv, Changing, Replacing
      <4> QED BY <2>1, <2>3, <4>2, <4>3 DEF Intact, Entire
    <3>2. CASE \E k \in Keys : OpenMeta(r, k)
      <4>1. PICK k \in Keys : OpenMeta(r, k)
        BY <3>2
      <4>2. ~read'[r].steady
        BY <2>1, <4>1 DEF OpenMeta, NoRead
      <4> QED BY <2>3, <4>2
    <3>5. CASE GetEnds(r)
      <4>1. ~read'[r].steady
        BY <2>1, <3>5 DEF GetEnds, NoRead
      <4> QED BY <2>3, <4>1
    <3>3. CASE ReadMeta(r)
      <4>1. /\ read[r].steady /\ reader'[r] = "metaRead"
            /\ read'[r].meta = meta[read[r].meta].of
        BY <2>1, <2>3, <3>3 DEF ReadMeta, Read
      <4>2. read'[r].meta = read[r].meta
        BY <4>1 DEF FileInvariant, ReadersInv, NamesInv
      <4> QED BY <2>1, <2>3, <4>1, <4>2 DEF SteadyInv
    <3>4. CASE ReadData(r)
      <4>1. read[r].steady /\ reader'[r] = "answered" /\ read'[r].meta = read[r].meta
        BY <2>1, <2>3, <3>4 DEF ReadData, Read
      <4> QED BY <2>1, <2>3, <4>1 DEF SteadyInv
    <3> QED BY <1>2, <3>1, <3>2, <3>3, <3>4, <3>5 DEF GetStep
  <2> QED BY <2>2, <2>3
<1>3. CASE Restart
  BY <1>3 DEF Restart, NoRead, SteadyInv
<1>4. CASE UNCHANGED vars
  BY <1>4 DEF vars, files, gets, SteadyInv
<1> QED BY <1>1, <1>2, <1>3, <1>4 DEF Next

\* The names of the body of a put that writes it.
LEMMA BodyKept == FileInvariant /\ BodyInv /\ [Next]_vars => BodyInv'
<1> SUFFICES ASSUME FileInvariant, BodyInv, [Next]_vars, writer' = "writeData"
             PROVE  dataAt'[job'.key] \in {None, Len(log')}
  BY Zenon DEF BodyInv
<1>1. CASE CreateData
  <2>1. Created(dataAt) = Len(log) /\ job.key \in Keys
    BY <1>1 DEF CreateData, Created, FileInvariant, FileTypes, WriterInv
  <2>2. job'.key = job.key /\ dataAt'[job.key] = Len(log) /\ log' = log
    BY <1>1, <2>1 DEF CreateData, FileInvariant, FileTypes
  <2> QED BY <2>2
<1>2. CASE DetachedUnlink
  BY <1>2 DEF DetachedUnlink, BodyInv, FileInvariant, FileTypes
<1>3. CASE UNCHANGED <<log, dataAt, writer, job>>
  BY <1>3 DEF BodyInv
<1>4. CreateData \/ DetachedUnlink \/ UNCHANGED <<log, dataAt, writer, job>>
  <2>1. CASE PutStep
    BY <2>1, Zenon
       DEF PutStep, PutStart, EvictPop, EvictMeta, EvictData, EvictDone, UnlinkMeta,
           UnlinkData, CreateMeta, WriteMeta, WriteData, PutDone, WriteFails
  <2>2. CASE RemoveStep
    BY <2>2, Zenon DEF RemoveStep, RemoveStart, RemoveMeta, RemoveData, RemoveDropped
  <2>3. ASSUME NEW r \in Readers, GetStep(r) PROVE UNCHANGED <<log, dataAt, writer, job>>
    BY <2>3 DEF GetStep, OpenMeta, OpenData, ReadMeta, ReadData, GetEnds, files
  <2>4. CASE Restart \/ UNCHANGED vars
    BY <2>4 DEF Restart, vars, files
  <2> QED BY <2>1, <2>2, <2>3, <2>4 DEF Next
<1> QED BY <1>1, <1>2, <1>3, <1>4

\* The entry popped is the oldest, and there was no room beside it.
LEMMA PopIsVictim ==
    ASSUME IndexInvariant, damaged = {}, EvictPop
    PROVE  VictimInv'
<1>1. /\ order \in Seq(Keys) /\ job \in Job /\ size \in Nat /\ FileInvariant
      /\ SizeInv /\ OrderInv
  BY DEF IndexInvariant, IndexTypes
<1>2. order # <<>>
  BY DEF EvictPop
<1>3. PICK v \in Keys : v = Head(order) /\ v = order[1]
  BY <1>1, <1>2, HeadTailProperties
<1>4. /\ writer = "evict" /\ ~Room /\ job'.victim = v
      /\ UNCHANGED <<log, metaAt, dataAt, meta, data, earlier>>
  BY <1>1, <1>3 DEF EvictPop, Job, files, ghosts
<1>5. UsedBytes + PutSize > MaxSize
  <2>1. PutSize \in Nat /\ MaxSize \in Nat /\ UsedBytes \in Nat
    BY <1>1, <1>4, PutSizeTypes, UsedTypes DEF InPut
  <2>2. size = UsedBytes + job.freed /\ job.freed \in Nat
    BY <1>1, <1>4 DEF SizeInv, Job
  <2>3. PICK u \in Nat, f \in Nat, n \in Nat, m \in Nat, s \in Nat :
          u = UsedBytes /\ f = job.freed /\ n = PutSize /\ m = MaxSize /\ s = size
    BY <1>1, <2>1, <2>2
  <2>4. s = u + f /\ ~(Monus(s, f) <= m - n)
    BY <1>4, <2>2, <2>3 DEF Room
  <2>5. u + n > m
    BY <2>4 DEF Monus
  <2> QED BY <2>3, <2>5
<1>6. UsedBytes' + PutSize' > MaxSize
  <2>1. UsedBytes' = UsedBytes
    BY <1>4, UsedStays
  <2>2. PutSize' = PutSize
    BY <1>4 DEF PutSize
  <2> QED BY <1>5, <2>1, <2>2
<1>7. BusyKeys = {}
  BY <1>4 DEF BusyKeys, Busy, Evicting, Unlinking, Writing, Removing
<1>8. Len(order) \in Nat /\ 1 \in 1..Len(order)
  BY <1>1, <1>2, EmptySeq
<1>9. metaAt[v] # None
  BY <1>1, <1>3, <1>7, <1>8 DEF OrderInv, Queued
<1>10. ASSUME NEW k \in Keys, metaAt[k] # None, k # v
       PROVE  Older(metaAt[v], metaAt[k])
  <2>1. PICK i \in 1..Len(order) : order[i] = k
    BY <1>1, <1>7, <1>10 DEF OrderInv, Queued
  <2>2. 1 < i
    BY <1>3, <1>8, <1>10, <2>1
  <2>3. <<v, k>> \in Ages
    BY <1>1, <1>3, <1>7, <1>8, <2>1, <2>2 DEF OrderInv, Aged
  <2> QED BY <2>3 DEF Ages
<1> QED BY <1>4, <1>6, <1>9, <1>10 DEF VictimInv, Older

\* It stays so until it is gone.
LEMMA VictimKept ==
    IndexInvariant /\ (damaged = {} => VictimInv) /\ [Next]_vars
        => (damaged' = {} => VictimInv')
<1> SUFFICES ASSUME IndexInvariant, damaged = {} => VictimInv, [Next]_vars,
                    damaged' = {}, writer' = "evictMeta"
             PROVE  VictimInv'
  BY Zenon DEF VictimInv
<1>1. \/ EvictPop /\ damaged' = damaged
      \/ DetachedUnlink /\ UNCHANGED <<damaged, earlier>>
      \/ UNCHANGED <<log, metaAt, dataAt, meta, data, writer, job, damaged, earlier>>
  <2>1. CASE PutStep
    BY <2>1, Zenon
       DEF PutStep, PutStart, EvictPop, EvictMeta, EvictData, EvictDone, UnlinkMeta,
           UnlinkData, CreateMeta, WriteMeta, CreateData, WriteData, PutDone,
           WriteFails, ghosts
  <2>2. CASE RemoveStep
    BY <2>2, Zenon
       DEF RemoveStep, RemoveStart, RemoveMeta, RemoveData, RemoveDropped,
           DetachedUnlink, ghosts
  <2>3. ASSUME NEW r \in Readers, GetStep(r)
        PROVE  UNCHANGED <<log, metaAt, dataAt, meta, data, writer, job, damaged, earlier>>
    BY <2>3 DEF GetStep, OpenMeta, OpenData, ReadMeta, ReadData, GetEnds, files, ghosts
  <2>4. CASE Restart \/ UNCHANGED vars
    BY <2>4, Zenon DEF Restart, vars, files, ghosts
  <2> QED BY <2>1, <2>2, <2>3, <2>4 DEF Next
<1>2. CASE EvictPop /\ damaged' = damaged
  BY <1>2, PopIsVictim
<1>3. CASE DetachedUnlink /\ UNCHANGED <<damaged, earlier>>
  BY <1>3 DEF DetachedUnlink, IndexInvariant, FileInvariant, DetachedInv
<1>4. CASE UNCHANGED <<log, metaAt, dataAt, meta, data, writer, job, damaged, earlier>>
  <2>1. UsedBytes' = UsedBytes
    BY <1>4, UsedStays
  <2>2. PutSize' = PutSize
    BY <1>4 DEF PutSize
  <2> QED BY <1>4, <2>1, <2>2 DEF VictimInv, Older
<1> QED BY <1>1, <1>2, <1>3, <1>4

LEMMA StoreInvariance == Spec => []StoreInvariant
<1>1. Init => StoreInvariant
  BY InitIndexed, InitSteady DEF StoreInvariant
<1>2. StoreInvariant /\ [Next]_vars => StoreInvariant'
  BY IndexStepHolds, SteadyKept, BodyKept, VictimKept DEF StoreInvariant, IndexInvariant
<1> QED BY <1>1, <1>2, PTL DEF Spec

-----------------------------------------------------------------------------
(* The refinement of EntryStore: the variables of the abstract store.      *)

\* What the names of k hold is what its .meta name leads to.
LEMMA HoldsIs ==
    ASSUME FileInvariant, NEW k \in Keys, Holds(k) # None
    PROVE  /\ Holds(k) = metaAt[k] /\ metaAt[k] # None /\ Holds(k) \in Puts
           /\ dataAt[k] = metaAt[k] /\ Intact(k)
<1>1. /\ metaAt[k] # None /\ dataAt[k] # None /\ Holds(k) = meta[metaAt[k]].of
      /\ Entire(meta[metaAt[k]], data[dataAt[k]])
  BY DEF Holds
<1>2. metaAt[k] \in Puts /\ dataAt[k] \in Puts
  BY <1>1 DEF FileInvariant, FileTypes
<1>3. meta[metaAt[k]].of = metaAt[k] /\ data[dataAt[k]].of = dataAt[k]
  BY <1>2 DEF FileInvariant, NamesInv
<1> QED BY <1>1, <1>2, <1>3 DEF Intact, Entire

\* An intact key that has files holds an entry, and its bytes are the entry's.
LEMMA IntactHolds ==
    ASSUME FileInvariant, NEW k \in Keys, Intact(k)
    PROVE  /\ metaAt[k] # None => Holds(k) = metaAt[k]
           /\ BytesOf(k) = IF Holds(k) = None THEN 0 ELSE Store!EntrySize(Holds(k))
<1>1. CASE metaAt[k] = None
  BY <1>1 DEF Intact, Holds, BytesOf, MetaLen, DataLen
<1>2. CASE metaAt[k] # None
  <2>1. dataAt[k] # None /\ Entire(meta[metaAt[k]], data[dataAt[k]])
    BY <1>2 DEF Intact
  <2>2. metaAt[k] \in Puts /\ meta[metaAt[k]].of = metaAt[k]
    BY <1>2 DEF FileInvariant, FileTypes, NamesInv
  <2>3. Holds(k) = metaAt[k] /\ Holds(k) # None
    BY <1>2, <2>1, <2>2 DEF Holds
  <2>4. BytesOf(k) = MetaSize + log[metaAt[k]].size
    BY <1>2, <2>1, <2>2 DEF BytesOf, MetaLen, DataLen, Entire
  <2> QED BY <1>2, <2>3, <2>4 DEF Store!EntrySize
<1> QED BY <1>1, <1>2

\* Both modules sum with the same library.
LEMMA SumIsSum == ASSUME NEW f PROVE Store!SumFunction(f) = SumFunction(f)
BY DEF SumFunction, SumFunctionOnSet, FoldFunctionOnSet, MapThenFoldSet,
       Store!SumFunction, Store!SumFunctionOnSet, Store!FoldFunctionOnSet,
       Store!MapThenFoldSet

\* When every key is intact, the bytes of the files are those of the entries.
LEMMA UsedAgrees ==
    ASSUME FileInvariant, \A k \in Keys : Intact(k)
    PROVE  Store!Used = UsedBytes
<1>1. \A k \in Keys :
         BytesOf(k) = IF Held[k] = None THEN 0 ELSE Store!EntrySize(Held[k])
  BY IntactHolds DEF Held
<1>2. [k \in Keys |-> BytesOf(k)]
        = [k \in Keys |-> IF Held[k] = None THEN 0 ELSE Store!EntrySize(Held[k])]
  BY <1>1
<1> QED BY <1>2, SumIsSum DEF UsedBytes, Store!Used

\* After a step, too.
EveryIntact == \A k \in Keys : Intact(k)
UsedIsEntries == Store!Used = UsedBytes

LEMMA UsedAgreesNext == FileInvariant' /\ EveryIntact' => UsedIsEntries'
<1>1. FileInvariant /\ EveryIntact => UsedIsEntries
  BY UsedAgrees DEF EveryIntact, UsedIsEntries
<1> QED BY <1>1, PTL

\* A step that leaves what each key holds, and one that changes it for x.
LEMMA HeldStays ==
    ASSUME \A k \in Keys : Holds(k)' = Holds(k)
    PROVE  Held' = Held
BY DEF Held

LEMMA HeldChanges ==
    ASSUME NEW x \in Keys, NEW e, Holds(x)' = e, \A k \in Keys \ {x} : Holds(k)' = Holds(k)
    PROVE  Held' = [Held EXCEPT ![x] = e]
BY DEF Held

\* What a key holds depends on its names, their files and the puts.
LEMMA HoldsStays ==
    ASSUME UNCHANGED <<log, metaAt, dataAt, meta, data>>
    PROVE  Held' = Held
<1>1. \A k \in Keys : Holds(k)' = Holds(k)
  BY DEF Holds, Entire
<1> QED BY <1>1, HeldStays

\* While the gets rest, so does what they have been promised and have returned.
LEMMA GetsRest ==
    ASSUME FileInvariant, FileInvariant', UNCHANGED <<reader, read>>
    PROVE  UNCHANGED <<Promised, Returned>>
<1>1. \A r \in Readers : Promise(r)' = Promise(r)
  <2> SUFFICES ASSUME NEW r \in Readers PROVE Promise(r)' = Promise(r)
    OBVIOUS
  <2>1. CASE read[r].steady
    <3>1. read[r].meta \in Puts
      BY <2>1 DEF FileInvariant, ReadersInv
    <3>2. meta[read[r].meta].of = read[r].meta /\ meta'[read[r].meta].of = read[r].meta
      BY <3>1 DEF FileInvariant, NamesInv
    <3> QED BY <2>1, <3>2 DEF Promise
  <2>2. CASE ~read[r].steady
    BY <2>2 DEF Promise
  <2> QED BY <2>1, <2>2
<1>2. \A r \in Readers : Answer(r)' = Answer(r)
  BY DEF Answer
<1> QED BY <1>1, <1>2 DEF Promised, Returned

\* The call that runs, as the abstract store has it.
LEMMA CallingIs ==
    ASSUME FileInvariant
    PROVE  /\ writer = "idle" <=> Calling = None
           /\ writer # "idle" => Calling.key = job.key /\ job.key \in Keys
           /\ InPut => Store!Running("put")
           /\ Removing => Store!Running("remove")
<1>1. writer # "idle" => job.key \in Keys
  BY DEF FileInvariant, FileTypes
<1>2. writer # "idle" => Calling \in [op : {"put", "remove"}, key : Keys]
  BY <1>1 DEF Calling
<1>3. writer = "idle" <=> Calling = None
  BY <1>2, NoneAssumption DEF Calling
<1>4. writer # "idle" => Calling.key = job.key
  BY DEF Calling
<1>5. InPut => Calling # None /\ Calling.op = "put"
  BY <1>3 DEF InPut, Replacing, Calling
<1>6. Removing => Calling # None /\ Calling.op = "remove"
  BY <1>3 DEF Removing, Calling
<1> QED BY <1>1, <1>3, <1>4, <1>5, <1>6 DEF Store!Running

-----------------------------------------------------------------------------
(* The refinement of EntryStore: the steps of put and remove.              *)

\* A step that changes nothing of the abstract store.
Unseen == Held' = Held /\ UNCHANGED <<log, Calling, Promised, Returned, damaged, earlier>>

LEMMA UnseenIsStutter == Unseen => UNCHANGED Store!storeVars
BY DEF Unseen, Store!storeVars

\* A put begins.
LEMMA PutStartRefines ==
    ASSUME FileInvariant, FileInvariant', NEW k \in Keys, NEW n \in Sizes,
           NEW t \in Times, PutStart(k, n, t)
    PROVE  Store!PutBegins(k, n, t)
<1>1. /\ writer = "idle" /\ writer' = "evict" /\ job'.key = k /\ MetaSize + n <= MaxSize
      /\ log' = Append(log, [key |-> k, size |-> n, time |-> t])
      /\ UNCHANGED <<metaAt, dataAt, meta, data, reader, read, damaged, earlier>>
  BY DEF PutStart, NoJob, files, gets, ghosts
<1>2. Held' = Held
  <2>1. ASSUME NEW h \in Keys PROVE Holds(h)' = Holds(h)
    <3>1. CASE metaAt[h] = None \/ dataAt[h] = None
      BY <1>1, <3>1 DEF Holds
    <3>2. CASE metaAt[h] # None /\ dataAt[h] # None
      <4>1. metaAt[h] \in 1..Len(log) /\ meta[metaAt[h]].of = metaAt[h]
        BY <3>2, Numbers DEF FileInvariant, FileTypes, NamesInv, Puts
      <4>2. log'[metaAt[h]] = log[metaAt[h]]
        BY <1>1, <4>1, AppendProperties DEF FileInvariant, FileTypes
      <4>3. Entire(meta[metaAt[h]], data[dataAt[h]])' <=> Entire(meta[metaAt[h]], data[dataAt[h]])
        BY <1>1, <4>1, <4>2 DEF Entire
      <4> QED BY <1>1, <4>3 DEF Holds
    <3> QED BY <3>1, <3>2
  <2> QED BY <2>1, HeldStays
<1>3. UNCHANGED <<Promised, Returned>>
  BY <1>1, GetsRest
<1>4. Calling = None /\ Calling' = [op |-> "put", key |-> k]
  BY <1>1 DEF Calling
<1> QED BY <1>1, <1>2, <1>3, <1>4 DEF Store!PutBegins

\* While nothing is damaged and no key is being changed, every key is intact.
LEMMA AllIntact ==
    ASSUME FileInvariant, damaged = {}, \A k \in Keys : ~Changing(k)
    PROVE  \A k \in Keys : Intact(k)
BY DEF FileInvariant, EntriesInv

\* The .meta file of the oldest entry is unlinked: the store loses the entry.
LEMMA EvictMetaRefines ==
    ASSUME StoreInvariant, FileInvariant', EvictMeta
    PROVE  (\E k \in Keys : Store!Evicts(k)) \/ Unseen
<1>1. FileInvariant /\ IndexInvariant
  BY DEF StoreInvariant, IndexInvariant
<1>2. PICK v \in Keys : v = job.victim
  BY DEF EvictMeta, IndexInvariant, IndexTypes, Evicting, StoreInvariant
<1>3. /\ writer = "evictMeta" /\ writer' = "evictData" /\ metaAt' = [metaAt EXCEPT ![v] = None]
      /\ UNCHANGED <<log, dataAt, meta, data, job, reader, read, damaged, earlier>>
  BY <1>2 DEF EvictMeta, gets, ghosts
<1>4. Held' = [Held EXCEPT ![v] = None]
  <2>1. \A k \in Keys : metaAt'[k] = IF k = v THEN None ELSE metaAt[k]
    BY <1>1, <1>3 DEF FileInvariant, FileTypes
  <2>2. Holds(v)' = None
    BY <2>1 DEF Holds
  <2>3. \A k \in Keys \ {v} : Holds(k)' = Holds(k)
    BY <1>3, <2>1 DEF Holds, Entire
  <2> QED BY <2>2, <2>3, HeldChanges
<1>5. UNCHANGED <<log, Calling, Promised, Returned, damaged, earlier>>
  BY <1>1, <1>3, GetsRest DEF Calling
<1>6. CASE Holds(v) = None
  <2>1. Held' = Held
    BY <1>4, <1>6 DEF Held
  <2> QED BY <1>5, <2>1 DEF Unseen
<1>7. CASE Holds(v) # None
  <2>1. Store!Running("put")
    BY <1>1, <1>3, CallingIs DEF InPut
  <2>2. ASSUME damaged = {}
        PROVE  /\ Store!Used + Store!EntrySize(Len(log)) > MaxSize
               /\ \A h \in Keys : Held[h] # None => Store!Precedes(Held[v], Held[h])
    <3>1. VictimInv
      BY <2>2 DEF StoreInvariant
    <3>2. \A k \in Keys : Intact(k)
      BY <1>1, <1>3, <2>2, AllIntact DEF Changing
    <3>3. Store!Used = UsedBytes
      BY <1>1, <3>2, UsedAgrees
    <3>4. Store!EntrySize(Len(log)) = PutSize
      BY DEF Store!EntrySize, PutSize
    <3>5. ASSUME NEW h \in Keys, Holds(h) # None
          PROVE  Store!Precedes(Holds(v), Holds(h))
      <4>1. /\ Holds(v) = metaAt[v] /\ Holds(h) = metaAt[h] /\ metaAt[h] # None
            /\ metaAt[v] \in Nat /\ metaAt[h] \in Nat
        BY <1>1, <1>7, <3>5, HoldsIs, Numbers
      <4>2. h = v \/ Older(metaAt[v], metaAt[h])
        BY <1>2, <1>3, <3>1, <4>1 DEF VictimInv
      <4> QED BY <4>1, <4>2 DEF Older, Store!Precedes
    <3> QED BY <1>2, <1>3, <3>1, <3>3, <3>4, <3>5 DEF VictimInv, Held
  <2>3. Held[v] # None
    BY <1>7 DEF Held
  <2> QED BY <1>4, <1>5, <2>1, <2>2, <2>3 DEF Store!Evicts
<1> QED BY <1>6, <1>7

\* put and remove unlink the .meta file of their key: its entry is withdrawn.
LEMMA WithdrawRefines ==
    ASSUME FileInvariant, FileInvariant', UnlinkMeta \/ RemoveMeta
    PROVE  Store!Withdraws
<1>1. PICK v \in Keys : v = job.key
  BY DEF UnlinkMeta, RemoveMeta, FileInvariant, FileTypes
<1>2. /\ metaAt' = [metaAt EXCEPT ![v] = None]
      /\ UNCHANGED <<log, dataAt, meta, data, job, reader, read, damaged, earlier>>
      /\ \/ writer = "unlinkMeta" /\ writer' = "unlinkData"
         \/ writer = "rmMeta" /\ writer' = "rmData"
  BY <1>1 DEF UnlinkMeta, RemoveMeta, gets, ghosts
<1>3. Held' = [Held EXCEPT ![v] = None]
  <2>1. \A k \in Keys : metaAt'[k] = IF k = v THEN None ELSE metaAt[k]
    BY <1>2 DEF FileInvariant, FileTypes
  <2>2. Holds(v)' = None
    BY <2>1 DEF Holds
  <2>3. \A k \in Keys \ {v} : Holds(k)' = Holds(k)
    BY <1>2, <2>1 DEF Holds, Entire
  <2> QED BY <2>2, <2>3, HeldChanges
<1>4. UNCHANGED <<log, Calling, Promised, Returned, damaged, earlier>>
  BY <1>2, GetsRest DEF Calling
<1>5. Calling # None /\ Calling.key = v
  BY <1>1, <1>2, CallingIs
<1> QED BY <1>3, <1>4, <1>5 DEF Store!Withdraws

\* Unlinking the .data file shows nothing: its entry has gone with the .meta file.
LEMMA UnlinkDataHeld ==
    ASSUME IndexInvariant, FileInvariant', EvictData \/ UnlinkData \/ RemoveData
    PROVE  /\ Held' = Held /\ UNCHANGED <<log, Promised, Returned, damaged, earlier>>
           /\ RemoveData => Holds(job.key) = None
<1>1. FileInvariant
  BY DEF IndexInvariant
<1>2. PICK v \in Keys : v = IF writer = "evictData" THEN job.victim ELSE job.key
  BY <1>1 DEF EvictData, UnlinkData, RemoveData, FileInvariant, FileTypes,
              IndexInvariant, IndexTypes, Evicting
<1>3. /\ dataAt' = [dataAt EXCEPT ![v] = None] /\ metaAt[v] = None
      /\ UNCHANGED <<log, metaAt, meta, data, reader, read, damaged, earlier>>
  BY <1>1, <1>2 DEF EvictData, UnlinkData, RemoveData, FileInvariant, WriterInv, gets, ghosts
<1>4. \A k \in Keys : dataAt'[k] = IF k = v THEN None ELSE dataAt[k]
  BY <1>1, <1>3 DEF FileInvariant, FileTypes
<1>5. Holds(v) = None /\ Holds(v)' = None
  BY <1>3, <1>4 DEF Holds
<1>6. \A k \in Keys \ {v} : Holds(k)' = Holds(k)
  BY <1>3, <1>4 DEF Holds, Entire
<1>7. Held' = Held
  BY <1>5, <1>6, HeldStays
<1>8. RemoveData => v = job.key
  BY <1>2 DEF RemoveData
<1> QED BY <1>1, <1>3, <1>5, <1>7, <1>8, GetsRest

LEMMA UnlinkDataRefines ==
    ASSUME IndexInvariant, FileInvariant', EvictData \/ UnlinkData
    PROVE  Unseen
<1>1. Calling' = Calling
  BY DEF EvictData, UnlinkData, Calling
<1> QED BY <1>1, UnlinkDataHeld DEF Unseen

LEMMA RemoveDataRefines ==
    ASSUME IndexInvariant, FileInvariant', RemoveData
    PROVE  Store!RemoveEnds
<1>1. Store!Running("remove") /\ Calling.key = job.key /\ job.key \in Keys
  BY CallingIs DEF RemoveData, Removing, IndexInvariant
<1>2. Held[Calling.key] = None
  BY <1>1, UnlinkDataHeld DEF Held
<1>3. Calling' = None
  BY DEF RemoveData, Calling
<1> QED BY <1>1, <1>2, <1>3, UnlinkDataHeld DEF Store!RemoveEnds

\* Looking at sizes, and dropping the mutex of what is done, is not seen.
LEMMA LooksRefine ==
    ASSUME FileInvariant, FileInvariant', EvictPop \/ EvictDone
    PROVE  Unseen
<1>1. /\ UNCHANGED <<log, metaAt, dataAt, meta, data, reader, read, damaged, earlier>>
      /\ writer = "evict" /\ writer' \in {"evictMeta", "unlinkMeta"} /\ job'.key = job.key
  BY DEF EvictPop, EvictDone, files, gets, ghosts, FileInvariant, FileTypes
<1>2. Held' = Held
  BY <1>1, HoldsStays
<1>3. Calling' = Calling
  BY <1>1 DEF Calling
<1> QED BY <1>1, <1>2, <1>3, GetsRest DEF Unseen

\* A step of write_entry is not seen by other keys.
LEMMA WritesHold ==
    ASSUME FileInvariant, InPut, log' = log,
           \A k \in Keys \ {job.key} : metaAt'[k] = metaAt[k] /\ dataAt'[k] = dataAt[k],
           \A f \in Puts \ {Len(log)} : meta'[f] = meta[f] /\ data'[f] = data[f]
    PROVE  \A k \in Keys \ {job.key} : Holds(k)' = Holds(k)
<1> SUFFICES ASSUME NEW k \in Keys \ {job.key} PROVE Holds(k)' = Holds(k)
  OBVIOUS
<1>1. metaAt[k] # Len(log) /\ dataAt[k] # Len(log)
  BY OthersApart
<1>2. CASE metaAt[k] = None \/ dataAt[k] = None
  BY <1>2 DEF Holds
<1>3. CASE metaAt[k] # None /\ dataAt[k] # None
  <2>1. metaAt[k] \in Puts \ {Len(log)} /\ dataAt[k] \in Puts \ {Len(log)}
    BY <1>1, <1>3 DEF FileInvariant, FileTypes
  <2> QED BY <1>3, <2>1 DEF Holds, Entire
<1> QED BY <1>2, <1>3

\* Until its body is complete the entry of a put does not show.
LEMMA WritesRefine ==
    ASSUME FileInvariant, FileInvariant', CreateMeta \/ WriteMeta \/ CreateData
    PROVE  Unseen
<1>1. InPut /\ job.key \in Keys
  BY DEF CreateMeta, WriteMeta, CreateData, InPut, Replacing, FileInvariant, FileTypes
<1>2. PICK f \in Puts : f = Len(log)
  BY <1>1, OthersApart
<1>3. /\ CreateMeta => Created(metaAt) = f
      /\ WriteMeta => job.file = f
      /\ CreateData => Created(dataAt) = f
  BY <1>2 DEF CreateMeta, WriteMeta, CreateData, Created, FileInvariant, WriterInv
<1>4. /\ UNCHANGED <<log, reader, read, damaged, earlier>> /\ job'.key = job.key
      /\ \A k \in Keys \ {job.key} : metaAt'[k] = metaAt[k] /\ dataAt'[k] = dataAt[k]
      /\ \A g \in Puts \ {Len(log)} : meta'[g] = meta[g] /\ data'[g] = data[g]
  BY <1>2, <1>3 DEF CreateMeta, WriteMeta, CreateData, gets, ghosts, FileInvariant, FileTypes
<1>5. writer \in Replacing /\ writer' \in Replacing
  BY DEF CreateMeta, WriteMeta, CreateData, Replacing
<1>6. Calling' = Calling
  BY <1>4, <1>5 DEF Calling, Replacing
<1>7. Holds(job.key) = None
  BY DEF CreateMeta, WriteMeta, CreateData, FileInvariant, WriterInv, Holds
<1>8. Holds(job.key)' = None
  <2>1. CASE CreateMeta \/ WriteMeta
    BY <1>4, <2>1 DEF CreateMeta, WriteMeta, FileInvariant, WriterInv, Holds
  <2>2. CASE CreateData
    <3>1. dataAt'[job.key] = f /\ data'[f] = [of |-> f, len |-> 0] /\ log' = log
      BY <1>1, <1>2, <1>3, <2>2 DEF CreateData, Empty, FileInvariant, FileTypes
    <3>2. log[f].size # 0
      <4>2. Len(log) \in 1..Len(log)
        BY <1>1 DEF FileInvariant, FileTypes, NamesInv
      <4>1. log[f] \in [key : Keys, size : Sizes, time : Times]
        BY <1>2, <4>2, ElementOfSeq DEF FileInvariant, FileTypes
      <4> QED BY <4>1, SizesAssumption
    <3> QED BY <1>4, <3>1, <3>2 DEF Holds, Entire
  <2> QED BY <2>1, <2>2
<1>9. Held' = Held
  <2>1. \A k \in Keys \ {job.key} : Holds(k)' = Holds(k)
    BY <1>1, <1>4, WritesHold
  <2>2. \A k \in Keys : Holds(k)' = Holds(k)
    BY <1>4, <1>7, <1>8, <2>1
  <2> QED BY <2>2, HeldStays
<1> QED BY <1>4, <1>6, <1>9, GetsRest DEF Unseen

\* max_size bounds the files after a step, too.
LEMMA LimitKeptNext == IndexInvariant' => FilesWithinLimit'
BY LimitHolds, PTL

\* The last part of the body completes the entry, unless a name of it is lost.
LEMMA WriteDataRefines ==
    ASSUME StoreInvariant, IndexInvariant', WriteData
    PROVE  Store!Stores \/ Unseen
<1>1. FileInvariant /\ FileInvariant' /\ IndexInvariant /\ BodyInv
  BY DEF StoreInvariant, IndexInvariant
<1>2. writer = "writeData" /\ InPut /\ job.key \in Keys /\ job.file = Len(log)
  BY <1>1 DEF WriteData, InPut, Replacing, FileInvariant, FileTypes, WriterInv
<1>3. PICK f \in Puts : f = Len(log)
  BY <1>1, <1>2, OthersApart
<1>4. /\ UNCHANGED <<log, metaAt, dataAt, meta, writer, job, reader, read, damaged, earlier>>
      /\ data[f].len < log[f].size
      /\ \A g \in Puts \ {Len(log)} : data'[g] = data[g]
  BY <1>1, <1>2, <1>3 DEF WriteData, gets, ghosts, FileInvariant, FileTypes
<1>5. UNCHANGED <<log, Calling, Promised, Returned, damaged, earlier>>
  BY <1>1, <1>4, GetsRest DEF Calling
<1>6. \A k \in Keys \ {job.key} : Holds(k)' = Holds(k)
  BY <1>1, <1>2, <1>4, WritesHold
<1>7. Holds(job.key) = None
  <2>1. dataAt[job.key] \in {None, f}
    BY <1>1, <1>2, <1>3 DEF BodyInv
  <2>2. data[f].of = f /\ data[f].len # log[f].size
    <3>1. data[f].len \in Nat /\ log[f].size \in Nat
      BY <1>1, <1>2, <1>3, PutSizeTypes DEF FileInvariant, FileTypes, File
    <3> QED BY <1>1, <1>4, <3>1 DEF FileInvariant, NamesInv
  <2> QED BY <2>1, <2>2 DEF Holds, Entire
<1>8. Holds(job.key)' \in {None, f}
  <2>1. dataAt'[job.key] \in {None, f} /\ data'[f].of = f
    BY <1>1, <1>2, <1>3, <1>4 DEF BodyInv, FileInvariant, NamesInv
  <2> QED BY <1>4, <2>1 DEF Holds, Entire
<1>9. CASE Holds(job.key)' = None
  <2>1. \A k \in Keys : Holds(k)' = Holds(k)
    BY <1>4, <1>6, <1>7, <1>9
  <2> QED BY <1>5, <2>1, HeldStays DEF Unseen
<1>10. CASE Holds(job.key)' = f
  <2>1. PICK v \in Keys : v = job.key
    BY <1>2
  <2>2. Held' = [Held EXCEPT ![v] = f]
    <3>1. Holds(v)' = f /\ \A k \in Keys \ {v} : Holds(k)' = Holds(k)
      BY <1>4, <1>6, <1>10, <2>1
    <3> QED BY <3>1, HeldChanges
  <2>3. Store!Running("put") /\ Calling.key = v /\ Held[v] = None
    BY <1>1, <1>2, <1>7, <2>1, CallingIs DEF Held
  <2>4. ASSUME damaged = {} PROVE Store!Used' <= MaxSize
    <3>1. FilesWithinLimit' /\ damaged' = {} /\ writer' \in Replacing
      BY <1>2, <1>4, <2>4, LimitKeptNext DEF Replacing
    <3>2. UsedBytes' <= MaxSize
      BY <3>1 DEF FilesWithinLimit
    <3>3. \A k \in Keys : Intact(k)'
      <4>1. \A k \in Keys \ {v} : ~Changing(k)'
        BY <1>2, <1>4, <2>1 DEF Changing
      <4>2. \A k \in Keys \ {v} : Intact(k)'
        BY <1>1, <3>1, <4>1 DEF FileInvariant, EntriesInv
      <4>3. Intact(v)'
        BY <1>3, <1>4, <1>10, <2>1, Numbers DEF Holds, Intact
      <4> QED BY <4>2, <4>3
    <3>4. Store!Used' = UsedBytes'
      BY <1>1, <3>3, UsedAgreesNext DEF EveryIntact, UsedIsEntries
    <3> QED BY <3>2, <3>4
  <2> QED BY <1>3, <1>5, <2>2, <2>3, <2>4 DEF Store!Stores
<1> QED BY <1>8, <1>9, <1>10

\* A put ends: unless its key was damaged, its entry is there.
LEMMA PutDoneRefines ==
    ASSUME FileInvariant, FileInvariant', PutDone
    PROVE  Store!PutEnds
<1>1. /\ writer = "writeData" /\ writer' = "idle" /\ data[job.file].len = log[Len(log)].size
      /\ UNCHANGED <<log, metaAt, dataAt, meta, data, reader, read, damaged, earlier>>
  BY DEF PutDone, files, gets, ghosts
<1>2. InPut /\ job.key \in Keys
  BY <1>1 DEF InPut, Replacing, FileInvariant, FileTypes
<1>3. ASSUME job.key \notin damaged PROVE Held[job.key] = Len(log)
  <2>1. /\ metaAt[job.key] = Len(log) /\ dataAt[job.key] = Len(log)
        /\ meta[Len(log)].len = MetaSize /\ data[Len(log)].len = log[Len(log)].size
    BY <1>1, <1>3 DEF FileInvariant, WriterInv
  <2>2. /\ Len(log) # None
        /\ meta[Len(log)].of = Len(log) /\ data[Len(log)].of = Len(log)
    BY <1>2, OthersApart, OwnFile
  <2> QED BY <1>2, <2>1, <2>2 DEF Held, Holds, Entire
<1>4. Store!Running("put") /\ Calling.key = job.key /\ Calling' = None
  BY <1>1, <1>2, CallingIs DEF Calling
<1> QED BY <1>1, <1>3, <1>4, HoldsStays, GetsRest DEF Store!PutEnds

\* A call that fails or is dropped harms its key.
LEMMA FailureRefines ==
    ASSUME FileInvariant, FileInvariant', WriteFails \/ RemoveDropped
    PROVE  Store!CallFails
<1>1. /\ UNCHANGED <<log, metaAt, dataAt, meta, data, reader, read>>
      /\ writer # "idle" /\ writer' = "idle" /\ damaged' = damaged \cup {job.key}
      /\ earlier' = earlier
  BY DEF WriteFails, RemoveDropped, files, gets, Fault
<1>2. Calling # None /\ Calling.key = job.key /\ Calling' = None
  BY <1>1, CallingIs DEF Calling
<1> QED BY <1>1, <1>2, HoldsStays, GetsRest DEF Store!CallFails

\* A remove begins.
LEMMA RemoveStartRefines ==
    ASSUME FileInvariant, FileInvariant', NEW k \in Keys, RemoveStart(k)
    PROVE  Store!RemoveBegins(k)
<1>1. /\ UNCHANGED <<log, metaAt, dataAt, meta, data, reader, read, damaged, earlier>>
      /\ writer = "idle" /\ writer' = "rmMeta" /\ job'.key = k
  BY DEF RemoveStart, NoJob, files, gets, ghosts
<1>2. Calling = None /\ Calling' = [op |-> "remove", key |-> k]
  BY <1>1 DEF Calling
<1> QED BY <1>1, <1>2, HoldsStays, GetsRest DEF Store!RemoveBegins

\* An unlink that a dropped remove left behind takes from a harmed key only.
LEMMA DetachedUnlinkRefines ==
    ASSUME FileInvariant, FileInvariant', DetachedUnlink
    PROVE  \E k \in Keys : Store!HarmedLoses(k)
<1>1. PICK u \in detached :
          /\ metaAt' = IF u[1] = "meta" THEN [metaAt EXCEPT ![u[2]] = None] ELSE metaAt
          /\ dataAt' = IF u[1] = "data" THEN [dataAt EXCEPT ![u[2]] = None] ELSE dataAt
          /\ UNCHANGED <<log, meta, data, writer, job, reader, read, damaged, earlier>>
  BY DEF DetachedUnlink, gets, ghosts
<1>2. PICK k \in Keys : k = u[2] /\ k \in damaged /\ u[1] \in {"meta", "data"}
  BY DEF FileInvariant, FileTypes, DetachedInv
<1>3. \/ metaAt' = [metaAt EXCEPT ![k] = None] /\ dataAt' = dataAt
      \/ metaAt' = metaAt /\ dataAt' = [dataAt EXCEPT ![k] = None]
  BY <1>1, <1>2
<1>4. Holds(k)' = None
  BY <1>3 DEF Holds, FileInvariant, FileTypes
<1>5. \A h \in Keys \ {k} : Holds(h)' = Holds(h)
  BY <1>1, <1>3 DEF Holds, Entire, FileInvariant, FileTypes
<1>6. Held' = [Held EXCEPT ![k] = None]
  BY <1>4, <1>5, HeldChanges
<1>7. UNCHANGED <<log, Calling, Promised, Returned, damaged, earlier>>
  BY <1>1, GetsRest DEF Calling
<1> QED BY <1>2, <1>6, <1>7 DEF Store!HarmedLoses

-----------------------------------------------------------------------------
(* The refinement of EntryStore: the steps of a get, a restart, the whole. *)

\* A step of one get leaves the files and what other gets are promised.
LEMMA GetsApart ==
    ASSUME FileInvariant, NEW r \in Readers, GetStep(r)
    PROVE  /\ Held' = Held /\ UNCHANGED <<log, meta, data, Calling, damaged, earlier>>
           /\ \A s \in Readers \ {r} : Promise(s)' = Promise(s) /\ Answer(s)' = Answer(s)
<1>1. UNCHANGED <<log, metaAt, dataAt, meta, data, writer, job, damaged, earlier>>
  BY DEF GetStep, OpenMeta, OpenData, ReadMeta, ReadData, GetEnds, files, ghosts
<1>2. \A s \in Readers \ {r} : reader'[s] = reader[s] /\ read'[s] = read[s]
  BY DEF GetStep, OpenMeta, OpenData, ReadMeta, ReadData, GetEnds, FileInvariant, GetTypes
<1>3. \A s \in Readers \ {r} : Promise(s)' = Promise(s) /\ Answer(s)' = Answer(s)
  BY <1>1, <1>2 DEF Promise, Answer
<1>4. Calling' = Calling
  BY <1>1 DEF Calling
<1>5. Held' = Held
  BY <1>1, HoldsStays
<1> QED BY <1>1, <1>3, <1>4, <1>5

\* What the step does to the get's own promise and answer.
LEMMA GetChanges ==
    ASSUME NEW r \in Readers, NEW p, NEW a, Promise(r)' = p, Answer(r)' = a,
           \A s \in Readers \ {r} : Promise(s)' = Promise(s) /\ Answer(s)' = Answer(s)
    PROVE  /\ Promised' = [Promised EXCEPT ![r] = p] /\ Returned' = [Returned EXCEPT ![r] = a]
           /\ p = Promise(r) => Promised' = Promised
           /\ a = Answer(r) => Returned' = Returned
BY DEF Promised, Returned

\* A get that keeps its promise and its answer is not seen.
LEMMA GetUnseen ==
    ASSUME FileInvariant, NEW r \in Readers, GetStep(r),
           Promise(r)' = Promise(r), Answer(r)' = Answer(r)
    PROVE  Unseen
BY GetsApart, GetChanges DEF Unseen

\* What a steady get is promised is the file it has open.
LEMMA SteadyPromise ==
    ASSUME FileInvariant, SteadyInv, NEW r \in Readers, read[r].steady
    PROVE  /\ Promise(r) = read[r].meta /\ read[r].meta \in Puts
           /\ read[r].data = read[r].meta /\ meta[read[r].meta].of = read[r].meta
           /\ data[read[r].meta].of = read[r].meta
           /\ data[read[r].meta].len = log[read[r].meta].size
           /\ reader[r] \in {"open", "metaRead", "answered"}
           /\ meta[read[r].meta].len = MetaSize
BY DEF FileInvariant, ReadersInv, NamesInv, SteadyInv, Promise

\* Opening the .meta file promises nothing.
LEMMA OpenMetaRefines ==
    ASSUME FileInvariant, SteadyInv, NEW r \in Readers, NEW k \in Keys, OpenMeta(r, k)
    PROVE  Unseen
<1>1. ~read[r].steady /\ ~read'[r].steady
  BY DEF OpenMeta, NoRead, SteadyInv, FileInvariant, GetTypes
<1>2. GetStep(r)
  BY DEF GetStep
<1> QED BY <1>1, <1>2, GetUnseen DEF Promise, Answer

\* Opening the .data file of an entry at rest promises the entry.
LEMMA OpenDataRefines ==
    ASSUME FileInvariant, SteadyInv, NEW r \in Readers, OpenData(r)
    PROVE  (\E k \in Keys : Store!Promises(r, k)) \/ Unseen
<1>1. PICK k \in Keys : k = read[r].key
  BY DEF OpenData, FileInvariant, GetTypes
<1>2. /\ reader[r] = "metaOpen" /\ reader'[r] = "open" /\ dataAt[k] # None
      /\ read'[r].meta = read[r].meta
      /\ read'[r].steady <=> Quiet(k) /\ metaAt[k] = read[r].meta
  BY <1>1 DEF OpenData, FileInvariant, GetTypes, Read
<1>3. ~read[r].steady /\ Answer(r) = None /\ Answer(r)' = None /\ Promise(r) = None
  BY <1>2 DEF SteadyInv, Answer, Promise
<1>4. GetStep(r)
  BY DEF GetStep
<1>5. CASE read'[r].steady
  <2>1. Intact(k) /\ metaAt[k] # None /\ metaAt[k] = read[r].meta
    <3>1. Quiet(k) /\ metaAt[k] = read[r].meta
      BY <1>2, <1>5
    <3>2. Intact(k)
      BY <3>1 DEF Quiet, FileInvariant, EntriesInv, Changing, Replacing
    <3> QED BY <1>2, <3>1, <3>2 DEF Intact
  <2>2. Holds(k) = metaAt[k]
    BY <2>1, IntactHolds
  <2>3. Promise(r)' = Holds(k)
    <3>1. meta' = meta
      BY <1>4, GetsApart
    <3>2. meta[metaAt[k]].of = metaAt[k]
      BY <2>1 DEF FileInvariant, FileTypes, NamesInv
    <3> QED BY <1>2, <1>5, <2>1, <2>2, <3>1, <3>2 DEF Promise
  <2>4. Promised' = [Promised EXCEPT ![r] = Held[k]] /\ Returned' = Returned
    BY <1>3, <1>4, <2>3, GetsApart, GetChanges DEF Held
  <2>5. Promised[r] = None /\ Held[k] # None
    BY <1>3, <2>1, <2>2 DEF Promised, Held
  <2> QED BY <1>4, <2>4, <2>5, GetsApart DEF Store!Promises
<1>6. CASE ~read'[r].steady
  BY <1>3, <1>4, <1>6, GetUnseen DEF Promise
<1> QED BY <1>5, <1>6

\* Reading the metadata does not change the promise.
LEMMA ReadMetaRefines ==
    ASSUME FileInvariant, SteadyInv, NEW r \in Readers, ReadMeta(r)
    PROVE  Unseen
<1>1. GetStep(r)
  BY DEF GetStep
<1>2. /\ read'[r].steady = read[r].steady /\ meta' = meta
      /\ read'[r].meta = meta[read[r].meta].of
      /\ reader[r] # "answered" /\ reader'[r] # "answered"
  BY DEF ReadMeta, FileInvariant, GetTypes, Read, files
<1>3. read[r].steady => meta[read[r].meta].of = read[r].meta
  BY SteadyPromise
<1> QED BY <1>1, <1>2, <1>3, GetUnseen DEF Promise, Answer

\* A steady get returns what it was promised.
LEMMA ReadDataRefines ==
    ASSUME FileInvariant, SteadyInv, NEW r \in Readers, ReadData(r)
    PROVE  Store!Returns(r) \/ Unseen
<1>1. GetStep(r)
  BY DEF GetStep
<1>2. /\ reader[r] = "metaRead" /\ reader'[r] = "answered" /\ meta' = meta
      /\ read'[r].steady = read[r].steady /\ read'[r].meta = read[r].meta
      /\ read'[r].data = data[read[r].data].of /\ read'[r].len = data[read[r].data].len
  BY DEF ReadData, FileInvariant, GetTypes, Read, files
<1>3. CASE read[r].steady
  <2>1. PICK e \in Puts : e = read[r].meta
    BY <1>3, SteadyPromise
  <2>2. Promise(r) = e /\ Promise(r)' = e
    BY <1>2, <1>3, <2>1, SteadyPromise DEF Promise
  <2>3. Answer(r) = None /\ Answer(r)' = [meta |-> e, data |-> e, len |-> log[e].size]
    BY <1>2, <1>3, <2>1, SteadyPromise DEF Answer
  <2>4. /\ Promised' = Promised
        /\ Returned' = [Returned EXCEPT ![r] = [meta |-> e, data |-> e, len |-> log[e].size]]
    BY <1>1, <2>2, <2>3, GetsApart, GetChanges
  <2>5. Promised[r] = e /\ e # None /\ Returned[r] = None
    BY <2>2, <2>3, Numbers DEF Promised, Returned
  <2> QED BY <1>1, <2>4, <2>5, GetsApart DEF Store!Returns
<1>4. CASE ~read[r].steady
  BY <1>1, <1>2, <1>4, GetUnseen DEF Promise, Answer
<1> QED BY <1>3, <1>4

\* A get that ends without an answer was promised nothing.
LEMMA GetEndsRefines ==
    ASSUME FileInvariant, SteadyInv, NEW r \in Readers, GetEnds(r)
    PROVE  Store!Done(r) \/ Unseen
<1>1. GetStep(r)
  BY DEF GetStep
<1>2. Promise(r)' = None /\ Answer(r)' = None
  BY DEF GetEnds, NoRead, Promise, Answer, FileInvariant, GetTypes
<1>3. CASE read[r].steady
  <2>1. reader[r] = "answered"
    <3>1. MetaSize \in Nat
      BY Numbers
    <3> QED BY <1>3, <3>1, SteadyPromise DEF GetEnds
  <2>2. Returned[r] # None
    <3>1. Answer(r) = [meta |-> read[r].meta, data |-> read[r].data, len |-> read[r].len]
      BY <1>3, <2>1 DEF Answer
    <3>2. read[r].meta \in Nat /\ read[r].data \in Nat /\ read[r].len \in Nat
      BY <1>3, SteadyPromise, Numbers DEF FileInvariant, GetTypes, Read
    <3> QED BY <3>1, <3>2, NoneAssumption DEF Returned
  <2>3. Promised' = [Promised EXCEPT ![r] = None] /\ Returned' = [Returned EXCEPT ![r] = None]
    BY <1>1, <1>2, GetsApart, GetChanges
  <2> QED BY <1>1, <2>2, <2>3, GetsApart DEF Store!Done
<1>4. CASE ~read[r].steady
  BY <1>1, <1>2, <1>4, GetUnseen DEF Promise, Answer
<1> QED BY <1>3, <1>4

\* A restart finds the entries that were held, and harms no key that has one.
LEMMA RestartRefines ==
    ASSUME FileInvariant, Restart
    PROVE  Store!Restarts
<1>1. /\ UNCHANGED <<log, metaAt, dataAt, meta, data>> /\ writer' = "idle"
      /\ read' = [r \in Readers |-> NoRead] /\ damaged' = {k \in Keys : ~Intact(k)}
      /\ earlier' = Len(log)
  BY DEF Restart, files
<1>2. Held' = Held /\ Calling' = None
  BY <1>1, HoldsStays DEF Calling
<1>3. /\ Promised' = [r \in Readers |-> None] /\ Returned' = [r \in Readers |-> None]
  BY <1>1 DEF NoRead, Promised, Promise, Returned, Answer
<1>4. \A k \in damaged' : k \in Keys /\ Held[k] = None
  BY <1>1, HoldsIs DEF Held
<1>5. Calling = None => damaged' \subseteq damaged
  BY <1>1, CallingIs DEF FileInvariant, EntriesInv, Changing
<1> QED BY <1>1, <1>2, <1>3, <1>4, <1>5 DEF Store!Restarts

\* Every behaviour of the files, the index, the calls and the gets, with their
\* failures and restarts, is one of EntryStore.
THEOREM DiskRefinement == Spec => ImplementsEntryStore
<1>1. Init => Store!Init
  BY DEF Init, NoRead, Held, Holds, Calling, Promised, Promise, Returned, Answer, Store!Init
<1>2. StoreInvariant /\ StoreInvariant' /\ [Next]_vars => [Store!Next]_Store!storeVars
  <2> SUFFICES ASSUME StoreInvariant, StoreInvariant', [Next]_vars
               PROVE  Store!Next \/ UNCHANGED Store!storeVars
    OBVIOUS
  <2>1. /\ FileInvariant /\ FileInvariant' /\ IndexInvariant /\ IndexInvariant'
        /\ SteadyInv
    BY DEF StoreInvariant, IndexInvariant
  <2>2. CASE PutStep
    BY <2>1, <2>2, UnseenIsStutter, PutStartRefines, LooksRefine, EvictMetaRefines,
       UnlinkDataRefines, WithdrawRefines, WritesRefine, WriteDataRefines,
       PutDoneRefines, FailureRefines
       DEF PutStep, Store!Next
  <2>3. CASE RemoveStep
    BY <2>1, <2>3, RemoveStartRefines, WithdrawRefines, RemoveDataRefines,
       FailureRefines, DetachedUnlinkRefines
       DEF RemoveStep, Store!Next
  <2>4. ASSUME NEW r \in Readers, GetStep(r)
        PROVE  Store!Next \/ UNCHANGED Store!storeVars
    BY <2>1, <2>4, UnseenIsStutter, OpenMetaRefines, OpenDataRefines, ReadMetaRefines,
       ReadDataRefines, GetEndsRefines
       DEF GetStep, Store!Next
  <2>5. CASE Restart
    BY <2>1, <2>5, RestartRefines DEF Store!Next
  <2>6. CASE UNCHANGED vars
    <3>1. UNCHANGED <<log, metaAt, dataAt, meta, data, writer, job, reader, read, damaged, earlier>>
      BY <2>6 DEF vars, files, gets, ghosts
    <3>2. Unseen
      BY <2>1, <3>1, HoldsStays, GetsRest DEF Unseen, Calling
    <3> QED BY <3>2, UnseenIsStutter
  <2> QED BY <2>2, <2>3, <2>4, <2>5, <2>6 DEF Next
<1> QED BY <1>1, <1>2, StoreInvariance, PTL DEF Spec, ImplementsEntryStore, Store!Spec

-----------------------------------------------------------------------------
(* What any get returns, steady or not.                                    *)

\* The put f has begun, and was for k.
PutFor(f, k) == f \in 1..Len(log) /\ log[f].key = k

\* Names lead to files of puts of their key, and so does what gets have opened.
OwnKeyInv ==
    /\ \A k \in Keys : dataAt[k] # None => PutFor(dataAt[k], k)
    /\ \A r \in Readers :
          /\ reader[r] # "idle" => PutFor(read[r].meta, read[r].key)
          /\ reader[r] \in {"open", "metaRead", "answered"} =>
                PutFor(read[r].data, read[r].key)

AnswersOwnKey ==
    \A r \in Readers :
        reader[r] = "answered" =>
            log[read[r].meta].key = read[r].key /\ log[read[r].data].key = read[r].key

\* Puts are not forgotten.
LEMMA PutForStays ==
    ASSUME FileInvariant, [Next]_vars, NEW f, NEW k, PutFor(f, k)
    PROVE  PutFor(f, k)'
<1>1. \/ log' = log
      \/ \E h \in Keys, n \in Sizes, t \in Times :
            log' = Append(log, [key |-> h, size |-> n, time |-> t])
  <2>1. CASE PutStep
    BY <2>1
       DEF PutStep, PutStart, EvictPop, EvictMeta, EvictData, EvictDone, UnlinkMeta,
           UnlinkData, CreateMeta, WriteMeta, CreateData, WriteData, PutDone, WriteFails
  <2>2. CASE RemoveStep
    BY <2>2
       DEF RemoveStep, RemoveStart, RemoveMeta, RemoveData, RemoveDropped, DetachedUnlink
  <2>3. ASSUME NEW r \in Readers, GetStep(r) PROVE log' = log
    BY <2>3 DEF GetStep, OpenMeta, OpenData, ReadMeta, ReadData, GetEnds
  <2>4. CASE Restart \/ UNCHANGED vars
    BY <2>4 DEF Restart, vars
  <2> QED BY <2>1, <2>2, <2>3, <2>4 DEF Next
<1>2. CASE log' = log
  BY <1>2 DEF PutFor
<1>3. ASSUME NEW h \in Keys, NEW n \in Sizes, NEW t \in Times,
             log' = Append(log, [key |-> h, size |-> n, time |-> t])
      PROVE  PutFor(f, k)'
  <2>1. log \in Seq([key : Keys, size : Sizes, time : Times])
    BY DEF FileInvariant, FileTypes
  <2>2. f \in 1..Len(log') /\ log'[f] = log[f]
    BY <1>3, <2>1, AppendProperties DEF PutFor
  <2> QED BY <2>2 DEF PutFor
<1> QED BY <1>1, <1>2, <1>3

\* A .data name is given to the file of the running put, or taken away.
LEMMA DataNames ==
    ASSUME IndexInvariant, [Next]_vars, OwnKeyInv, NEW k \in Keys, dataAt'[k] # None
    PROVE  PutFor(dataAt[k], k)'
<1>1. FileInvariant
  BY DEF IndexInvariant
<1>2. CASE CreateData /\ k = job.key
  <2>1. InPut /\ Created(dataAt) = Len(log) /\ log' = log
    BY <1>1, <1>2 DEF CreateData, Created, InPut, Replacing, FileInvariant, WriterInv
  <2>2. dataAt'[k] = Len(log)
    BY <1>1, <1>2, <2>1 DEF CreateData, FileInvariant, FileTypes
  <2>3. PutFor(Len(log), k)
    BY <1>1, <1>2, <2>1 DEF PutFor, FileInvariant, FileTypes, NamesInv, IndexInvariant, PutsInv
  <2> QED BY <2>1, <2>2, <2>3 DEF PutFor
<1>3. CASE ~(CreateData /\ k = job.key)
  <2>1. dataAt'[k] = dataAt[k]
    <3>1. CASE PutStep
      BY <1>1, <1>3, <3>1
         DEF PutStep, PutStart, EvictPop, EvictMeta, EvictData, EvictDone, UnlinkMeta,
             UnlinkData, CreateMeta, WriteMeta, CreateData, WriteData, PutDone,
             WriteFails, files, FileInvariant, FileTypes
    <3>2. CASE RemoveStep
      BY <1>1, <3>2
         DEF RemoveStep, RemoveStart, RemoveMeta, RemoveData, RemoveDropped,
             DetachedUnlink, files, FileInvariant, FileTypes
    <3>3. ASSUME NEW r \in Readers, GetStep(r) PROVE dataAt' = dataAt
      BY <3>3 DEF GetStep, OpenMeta, OpenData, ReadMeta, ReadData, GetEnds, files
    <3>4. CASE Restart \/ UNCHANGED vars
      BY <3>4 DEF Restart, vars, files
    <3> QED BY <3>1, <3>2, <3>3, <3>4 DEF Next
  <2>2. PutFor(dataAt[k], k)
    BY <2>1 DEF OwnKeyInv
  <2>3. PutFor(dataAt[k], k)'
    <3>1. PICK f : f = dataAt[k]
      OBVIOUS
    <3>2. PutFor(f, k)'
      BY <1>1, <2>2, <3>1, PutForStays
    <3> QED BY <2>1, <3>1, <3>2 DEF PutFor
  <2> QED BY <2>3
<1> QED BY <1>2, <1>3

\* Whatever becomes of the files while a get is at them, and even if it reads a
\* part of a body, the metadata and the data it returns were put under its key.
THEOREM AnswersAreOwn == Spec => []AnswersOwnKey
<1>1. Init => OwnKeyInv
  BY DEF Init, OwnKeyInv
<1>2. IndexInvariant /\ OwnKeyInv /\ [Next]_vars => OwnKeyInv'
  <2> SUFFICES ASSUME IndexInvariant, OwnKeyInv, [Next]_vars PROVE OwnKeyInv'
    OBVIOUS
  <2>1. FileInvariant
    BY DEF IndexInvariant
  <2>2. \A k \in Keys : dataAt'[k] # None => PutFor(dataAt[k], k)'
    BY DataNames
  <2>3. ASSUME NEW r \in Readers
        PROVE  /\ reader'[r] # "idle" => PutFor(read[r].meta, read[r].key)'
               /\ reader'[r] \in {"open", "metaRead", "answered"} =>
                     PutFor(read[r].data, read[r].key)'
    <3>1. PICK m, d, k :
            /\ reader'[r] # "idle" => m = read'[r].meta /\ k = read'[r].key /\ PutFor(m, k)
            /\ reader'[r] \in {"open", "metaRead", "answered"} =>
                  d = read'[r].data /\ PutFor(d, k)
      <4>1. SUFFICES /\ reader'[r] # "idle" => PutFor(read'[r].meta, read'[r].key)
                     /\ reader'[r] \in {"open", "metaRead", "answered"} =>
                           PutFor(read'[r].data, read'[r].key)
        OBVIOUS
      <4>2. CASE GetStep(r)
        <5>1. CASE \E k \in Keys : OpenMeta(r, k)
          <6>1. PICK k \in Keys : OpenMeta(r, k)
            BY <5>1
          <6>2. /\ reader'[r] = "metaOpen" /\ read'[r].meta = metaAt[k] /\ read'[r].key = k
                /\ metaAt[k] # None
            BY <2>1, <6>1 DEF OpenMeta, NoRead, FileInvariant, GetTypes
          <6>3. PutFor(metaAt[k], k)
            BY <2>1, <6>2, Numbers DEF PutFor, FileInvariant, FileTypes, NamesInv,
                                       IndexInvariant, PutsInv, Puts
          <6> QED BY <6>2, <6>3
        <5>2. CASE OpenData(r)
          <6>1. /\ reader[r] = "metaOpen" /\ read'[r].meta = read[r].meta
                /\ read'[r].key = read[r].key /\ read'[r].data = dataAt[read[r].key]
                /\ dataAt[read[r].key] # None /\ read[r].key \in Keys
            BY <2>1, <5>2 DEF OpenData, FileInvariant, GetTypes, Read
          <6> QED BY <6>1 DEF OwnKeyInv
        <5>3. CASE ReadMeta(r)
          <6>1. /\ reader[r] = "open" /\ read'[r].meta = meta[read[r].meta].of
                /\ read'[r].key = read[r].key /\ read'[r].data = read[r].data
                /\ read[r].meta \in Puts
            BY <2>1, <5>3 DEF ReadMeta, FileInvariant, GetTypes, Read
          <6> QED BY <2>1, <6>1 DEF OwnKeyInv, FileInvariant, NamesInv
        <5>4. CASE ReadData(r)
          <6>1. /\ reader[r] = "metaRead" /\ read'[r].meta = read[r].meta
                /\ read'[r].key = read[r].key /\ read'[r].data = data[read[r].data].of
                /\ read[r].data \in Puts
            BY <2>1, <5>4 DEF ReadData, FileInvariant, GetTypes, Read
          <6> QED BY <2>1, <6>1 DEF OwnKeyInv, FileInvariant, NamesInv
        <5>5. CASE GetEnds(r)
          <6>1. reader'[r] = "idle"
            BY <2>1, <5>5 DEF GetEnds, FileInvariant, GetTypes
          <6> QED BY <6>1
        <5> QED BY <4>2, <5>1, <5>2, <5>3, <5>4, <5>5 DEF GetStep
      <4>3. CASE Restart
        BY <4>3 DEF Restart
      <4>4. CASE ~GetStep(r) /\ ~Restart
        <5>1. reader'[r] = reader[r] /\ read'[r] = read[r]
          <6>1. CASE PutStep \/ RemoveStep
            BY <2>1, <6>1, WriterSteps
          <6>2. ASSUME NEW s \in Readers \ {r}, GetStep(s)
                PROVE  reader'[r] = reader[r] /\ read'[r] = read[r]
            BY <2>1, <6>2 DEF GetStep, OpenMeta, OpenData, ReadMeta, ReadData, GetEnds,
                              FileInvariant, GetTypes
          <6>3. CASE UNCHANGED vars
            BY <6>3 DEF vars, gets
          <6> QED BY <4>4, <6>1, <6>2, <6>3 DEF Next
        <5> QED BY <5>1 DEF OwnKeyInv
      <4> QED BY <4>2, <4>3, <4>4
    <3>2. reader'[r] # "idle" => PutFor(m, k)'
      BY <2>1, <3>1, PutForStays
    <3>3. reader'[r] \in {"open", "metaRead", "answered"} => PutFor(d, k)'
      BY <2>1, <3>1, PutForStays
    <3> QED BY <3>1, <3>2, <3>3 DEF PutFor
  <2> QED BY <2>2, <2>3 DEF OwnKeyInv
<1>3. OwnKeyInv => AnswersOwnKey
  BY DEF OwnKeyInv, AnswersOwnKey, PutFor
<1> QED BY <1>1, <1>2, <1>3, IndexInvariance, PTL DEF Spec

=============================================================================
